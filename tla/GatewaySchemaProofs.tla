------------------------ MODULE GatewaySchemaProofs -------------------------
(***************************************************************************)
(* Proofs about GatewaySchema, for any number of calls, roles, tables and  *)
(* columns: ensure_schema keeps its word on every database but one with    *)
(* tables missing and a stranger's registry, and its calls never wait for  *)
(* one another in a circle.                                                *)
(***************************************************************************)
EXTENDS GatewaySchema, TLAPS

-----------------------------------------------------------------------------
(* The list of statements *)

LEMMA Lists ==
  /\ NumTables \in Nat /\ Len(Upgrades) \in Nat
  /\ \A i : Statements(i) \in Nat /\ Statements(i) >= NumTables
  /\ \A n \in 1..NumTables : Required[n] \in Tables
  /\ \A n \in 1..Len(Upgrades) : Upgrades[n] \in Columns
BY ConstantsAssumption DEF NumTables, Statements, Tables, Columns

\* What a call may add to its transaction.
LEMMA Targets ==
  ASSUME TypeOK, NEW i \in Calls
  PROVE  /\ pos[i] \in Nat
         /\ Scanning(i) => TableOf(i) \in Tables
         /\ Upgrading(i) => /\ pos[i] - NumTables \in 1..Len(Upgrades)
                            /\ Upgrades[pos[i] - NumTables] \in Columns
                            /\ i \in Migrating
BY Lists DEF TypeOK, Scanning, Upgrading, Statements, TableOf

-----------------------------------------------------------------------------
(* Type correctness *)

LEMMA InitTypes == Init => TypeOK
BY Lists, ConstantsAssumption DEF Init, TypeOK, Idle

LEMMA StepTypes == TypeOK /\ [Next]_vars => TypeOK'
<1> SUFFICES ASSUME TypeOK, [Next]_vars PROVE TypeOK'
  OBVIOUS
<1> USE Lists DEF TypeOK, database, Goto, GoOn, Idle, Scanning, Statements
<1>1. CASE UNCHANGED vars
  BY <1>1 DEF vars
<1> SUFFICES ASSUME NEW i \in Calls,
                    Begin(i) \/ Step(i) \/ Create(i) \/ CreateFails(i) \/ Fails(i)
             PROVE  TypeOK'
  BY <1>1 DEF Next
<1>2. CASE Begin(i)
  BY <1>2 DEF Begin
<1>3. CASE Exists(i)
  BY <1>3 DEF Exists
<1>4. CASE IsMissing(i)
  BY <1>4 DEF IsMissing
<1>5. CASE Recheck(i)
  <2>1. /\ at[i] = "recheck" /\ UNCHANGED <<there, owner, columns, role, fresh, added>>
        /\ \/ /\ at' = [at EXCEPT ![i] = "next"]
              /\ pos' = [pos EXCEPT ![i] = @ + 1]
           \/ at' = [at EXCEPT ![i] = "off"] /\ UNCHANGED pos
    BY <1>5 DEF Recheck
  <2>2. CASE UNCHANGED pos
    BY <2>1, <2>2
  <2>3. CASE at' = [at EXCEPT ![i] = "next"] /\ pos' = [pos EXCEPT ![i] = @ + 1]
    BY <2>1, <2>3
  <2> QED
    BY <2>1, <2>2, <2>3
<1>6. CASE Alter(i)
  BY <1>6, Targets DEF Alter, Upgrading
<1>7. CASE AlterRefused(i)
  BY <1>7 DEF AlterRefused, RolledBack, Upgrading
<1>8. CASE Commit(i)
  BY <1>8 DEF Commit, ColumnsAfter
<1>9. CASE Create(i)
  BY <1>9, Targets DEF Create
<1>10. CASE CreateFails(i)
  BY <1>10 DEF CreateFails, RolledBack
<1>11. CASE Fails(i)
  BY <1>11 DEF Fails, RolledBack
<1> QED
  BY <1>2, <1>3, <1>4, <1>5, <1>6, <1>7, <1>8, <1>9, <1>10, <1>11 DEF Step

\* State, positions and open transactions are what they should be; a call that is over, or
\* that has just rolled back, has no open transaction.
THEOREM TypeCorrect == Spec => []TypeOK
BY InitTypes, StepTypes, PTL DEF Spec

-----------------------------------------------------------------------------
(* Nothing that has been passed is lost *)

LEMMA ApartStep == TypeOK /\ TablesApart /\ [Next]_vars => TablesApart'
<1> SUFFICES ASSUME TypeOK, TablesApart, [Next]_vars PROVE TablesApart'
  OBVIOUS
<1> USE DEF TypeOK, TablesApart, database, RolledBack
<1>1. CASE UNCHANGED vars
  BY <1>1 DEF vars
<1> SUFFICES ASSUME NEW i \in Calls,
                    Begin(i) \/ Step(i) \/ Create(i) \/ CreateFails(i) \/ Fails(i)
             PROVE  TablesApart'
  BY <1>1 DEF Next
<1>2. CASE Begin(i) \/ Exists(i) \/ IsMissing(i) \/ Recheck(i) \/ Alter(i)
  BY <1>2 DEF Begin, Exists, IsMissing, Recheck, Alter
<1>3. CASE AlterRefused(i) \/ CreateFails(i) \/ Fails(i)
  BY <1>3 DEF AlterRefused, CreateFails, Fails
<1>4. CASE Commit(i)
  BY <1>4 DEF Commit
<1>5. CASE Create(i)
  BY <1>5 DEF Create, TableFree
<1> QED
  BY <1>2, <1>3, <1>4, <1>5 DEF Step

\* Whoever commits leaves a complete database.
LEMMA CommitCompletes ==
  ASSUME TypeOK, SeesPassed, NEW i \in Calls, Commit(i)
  PROVE  there' = Tables
<1>1. \A n \in 1..NumTables : n < pos[i]
  BY Lists DEF Commit, TypeOK
<1>2. \A n \in 1..NumTables : Required[n] \in there \cup fresh[i]
  BY <1>1 DEF Commit, SeesPassed, Sees
<1>3. Tables \subseteq there \cup fresh[i]
  BY <1>2 DEF Tables
<1> QED
  BY <1>3 DEF Commit, TypeOK

\* Only a commit changes what everybody sees.
LEMMA OnlyCommitsShow ==
  ASSUME [Next]_vars
  PROVE  \/ UNCHANGED <<there, owner, columns, role>>
         \/ \E i \in Calls : Commit(i)
BY DEF Next, vars, database, Begin, Step, Exists, IsMissing, Recheck, Alter, AlterRefused,
       Create, CreateFails, Fails

LEMMA UpgradableStays ==
  ASSUME SchemaInv, [Next]_vars, Upgradable PROVE Upgradable'
<1>1. CASE UNCHANGED <<there, owner, columns, role>>
  BY <1>1 DEF Upgradable
<1>2. ASSUME NEW i \in Calls, Commit(i) PROVE Upgradable'
  BY <1>2, CommitCompletes DEF Upgradable, SchemaInv
<1> QED
  BY <1>1, <1>2, OnlyCommitsShow

\* A database that was not upgradable is so only when it is complete.
LEMMA UpgradableLate ==
  ASSUME SchemaInv, [Next]_vars, ~Upgradable, Upgradable' PROVE there' = Tables
<1>1. Registry \in there
  BY DEF Upgradable
<1>2. PICK i \in Calls : Commit(i)
  BY OnlyCommitsShow DEF Upgradable
<1>3. Registry \in there' /\ role' = role /\ owner' = owner
  BY <1>1, <1>2 DEF Commit, SchemaInv, TablesApart
<1> QED
  BY <1>1, <1>3 DEF Upgradable

LEMMA CompleteIsSeen ==
  ASSUME there = Tables PROVE SeesPassed /\ ComeTogether
BY Lists DEF SeesPassed, ComeTogether, Sees

LEMMA PassedStep ==
  ASSUME SchemaInv, [Next]_vars, Upgradable
  PROVE  SeesPassed' /\ ComeTogether'
<1> USE DEF SchemaInv, TypeOK, SeesPassed, ComeTogether, database, Goto, GoOn, RolledBack, Sees
<1>1. CASE UNCHANGED vars
  BY <1>1 DEF vars, TableOf
<1> SUFFICES ASSUME NEW i \in Calls,
                    Begin(i) \/ Step(i) \/ Create(i) \/ CreateFails(i) \/ Fails(i)
             PROVE  SeesPassed' /\ ComeTogether'
  BY <1>1 DEF Next
<1>2. CASE Begin(i)
  BY <1>2 DEF Begin, TableOf
<1>3. CASE Exists(i)
  BY <1>3 DEF Exists, TableOf, Scanning
<1>4. CASE IsMissing(i)
  BY <1>4 DEF IsMissing, TableOf
<1>5. CASE Recheck(i)
  <2>1. CASE Sees(i, TableOf(i))
    <3>1. there = Tables /\ there' = there
      BY <1>5, <2>1 DEF Recheck
    <3> QED
      BY <3>1, <1>5, Lists DEF Recheck
  <2>2. CASE ~Sees(i, TableOf(i))
    BY <1>5, <2>2 DEF Recheck, TableOf
  <2> QED
    BY <2>1, <2>2
<1>6. CASE Alter(i)
  <2>1. \A n \in 1..NumTables : n < pos[i] + 1 => n < pos[i]
    BY <1>6, Lists DEF Alter, Upgrading
  <2>2. SeesPassed'
    BY <1>6, <2>1 DEF Alter
  <2>3. ComeTogether'
    BY <1>6 DEF Alter, TableOf
  <2> QED
    BY <2>2, <2>3
<1>7. CASE AlterRefused(i)
  <2>1. Registry \in there /\ role[i] # owner
    BY <1>7 DEF AlterRefused, OwnsRegistry
  <2>2. there = Tables /\ there' = there
    BY <1>7, <2>1, Targets DEF AlterRefused, Upgradable
  <2> QED
    BY <1>7, <2>2, Lists DEF AlterRefused
<1>8. CASE Commit(i)
  <2>1. there' = Tables
    BY <1>8, CommitCompletes
  <2> QED
    BY <2>1, Lists
<1>9. CASE Create(i)
  <2>1. \A n \in 1..NumTables : n < pos[i] + 1 => n < pos[i] \/ Required[n] = TableOf(i)
    BY DEF TableOf
  <2> QED
    BY <1>9, <2>1 DEF Create, TableOf
<1>10. CASE CreateFails(i)
  BY <1>10 DEF CreateFails, TableOf
<1>11. CASE Fails(i)
  BY <1>11 DEF Fails, TableOf
<1> QED
  BY <1>2, <1>3, <1>4, <1>5, <1>6, <1>7, <1>8, <1>9, <1>10, <1>11 DEF Step

LEMMA InitSchema == Init => SchemaInv
<1> SUFFICES ASSUME Init PROVE SchemaInv
  OBVIOUS
<1>1. TypeOK
  BY InitTypes
<1>2. TablesApart /\ SeesPassed /\ ComeTogether
  BY Lists DEF Init, TablesApart, SeesPassed, ComeTogether
<1> QED
  BY <1>1, <1>2 DEF SchemaInv

LEMMA SchemaStep == SchemaInv /\ [Next]_vars => SchemaInv'
<1> SUFFICES ASSUME SchemaInv, [Next]_vars PROVE SchemaInv'
  OBVIOUS
<1>1. TypeOK' /\ TablesApart'
  BY StepTypes, ApartStep DEF SchemaInv
<1>2. CASE Upgradable
  BY <1>1, <1>2, PassedStep DEF SchemaInv
<1>3. CASE ~Upgradable
  <2>1. Upgradable' => there' = Tables
    BY <1>3, UpgradableLate
  <2>2. there' = Tables => SeesPassed' /\ ComeTogether'
    BY Lists DEF SeesPassed, ComeTogether, Sees
  <2> QED
    BY <1>1, <2>1, <2>2 DEF SchemaInv
<1> QED
  BY <1>2, <1>3

-----------------------------------------------------------------------------
(* The registry has its columns *)

\* Whoever has passed the tables sees the registry.
LEMMA SeesRegistry ==
  ASSUME SchemaInv, NEW i \in Calls, at[i] = "next", pos[i] > NumTables
  PROVE  Sees(i, Registry)
<1>1. CASE Registry \in there
  BY <1>1 DEF Sees
<1>2. CASE Registry \notin there
  <2>1. SeesPassed
    BY <1>2 DEF SchemaInv, Upgradable
  <2>2. PICK n \in 1..NumTables : Required[n] = Registry
    BY ConstantsAssumption DEF Tables
  <2>3. n < pos[i]
    BY Lists DEF SchemaInv, TypeOK
  <2> QED
    BY <2>1, <2>2, <2>3 DEF SeesPassed
<1> QED
  BY <1>1, <1>2

\* How far a call has altered the registry it owns.
AltersFollow(i) ==
  at[i] = "next" /\ Registry \notin fresh[i] /\ OwnsRegistry(i) =>
    \A n \in 1..Len(Upgrades) : NumTables + n < pos[i] => Upgrades[n] \in added[i]
DoneFollow(i) == at[i] = "done" /\ role[i] = owner => columns = Columns

LEMMA ColumnsFollowParts ==
  ColumnsFollow <=> \A i \in Migrating : AltersFollow(i) /\ DoneFollow(i)
BY DEF ColumnsFollow, AltersFollow, DoneFollow

\* Everything is added when the last statement is over, or the registry is new.
LEMMA CommitAddsAll ==
  ASSUME SchemaInv, NEW i \in Migrating, AltersFollow(i), Commit(i), role[i] = owner',
         Registry \in there'
  PROVE  columns' = Columns
<1> USE ConstantsAssumption DEF SchemaInv, TypeOK
<1>1. CASE Registry \in fresh[i]
  BY <1>1 DEF Commit, ColumnsAfter
<1>2. CASE Registry \notin fresh[i]
  <2>1. OwnsRegistry(i) /\ at[i] = "next" /\ columns' = columns \cup added[i]
    BY <1>2 DEF Commit, ColumnsAfter, OwnsRegistry
  <2>2. \A n \in 1..Len(Upgrades) : NumTables + n < pos[i]
    BY Lists DEF Commit, Statements
  <2>3. \A n \in 1..Len(Upgrades) : Upgrades[n] \in added[i]
    BY <1>2, <2>1, <2>2 DEF AltersFollow
  <2>4. Columns \subseteq added[i]
    BY <2>3 DEF Columns
  <2> QED
    BY <2>1, <2>4
<1> QED
  BY <1>1, <1>2

LEMMA ColumnsStep ==
  SchemaInv /\ Upgradable /\ ColumnsFollow /\ [Next]_vars => ColumnsFollow'
<1> SUFFICES ASSUME SchemaInv, Upgradable, ColumnsFollow, [Next]_vars, NEW j \in Migrating
             PROVE  AltersFollow(j)' /\ DoneFollow(j)'
  BY DEF ColumnsFollow, AltersFollow, DoneFollow
<1> USE ConstantsAssumption DEF SchemaInv, TypeOK, database, Goto, GoOn, RolledBack
<1>0. AltersFollow(j) /\ DoneFollow(j) /\ j \in Calls
  BY ColumnsFollowParts
<1>1. CASE UNCHANGED vars
  BY <1>0, <1>1 DEF vars, AltersFollow, DoneFollow, OwnsRegistry
<1> SUFFICES ASSUME NEW i \in Calls,
                    Begin(i) \/ Step(i) \/ Create(i) \/ CreateFails(i) \/ Fails(i)
             PROVE  AltersFollow(j)' /\ DoneFollow(j)'
  BY <1>1 DEF Next
<1>2. CASE Begin(i)
  <2>1. i = j => pos'[j] = 1
    BY <1>2 DEF Begin
  <2>2. i # j => UNCHANGED <<at[j], pos[j]>>
    BY <1>2 DEF Begin
  <2> QED
    BY <1>0, <1>2, <2>1, <2>2, Lists DEF Begin, AltersFollow, DoneFollow, OwnsRegistry
<1>3. CASE Exists(i) \/ IsMissing(i) \/ Create(i) \/ Recheck(i)
  <2>1. UNCHANGED <<there, owner, columns, role, added>> /\ (at'[j] = "done" => at[j] = "done")
    BY <1>3 DEF Exists, IsMissing, Create, Recheck
  <2>2. DoneFollow(j)'
    BY <1>0, <2>1 DEF DoneFollow
  <2>3. CASE i = j
    <3>1. Scanning(i)
      BY <1>3 DEF Exists, IsMissing, Create, Recheck
    <3>2. pos'[j] \in Nat /\ pos'[j] <= pos[j] + 1
      BY <1>3, <2>3 DEF Exists, IsMissing, Create, Recheck
    <3>3. pos'[j] <= NumTables + 1
      BY <2>3, <3>1, <3>2, Lists DEF Scanning
    <3> QED
      BY <2>2, <3>2, <3>3, Lists DEF AltersFollow
  <2>4. CASE i # j
    <3>1. UNCHANGED <<at[j], pos[j], fresh[j]>>
      BY <1>3, <2>4 DEF Exists, IsMissing, Create, Recheck
    <3> QED
      BY <1>0, <2>1, <2>2, <3>1 DEF AltersFollow, OwnsRegistry
  <2> QED
    BY <2>3, <2>4
<1>4. CASE Alter(i)
  <2>1. /\ UNCHANGED <<there, owner, columns, role, at, fresh>>
        /\ added'[j] = IF i = j THEN added[j] \cup {Upgrades[pos[j] - NumTables]} ELSE added[j]
        /\ pos'[j] = IF i = j THEN pos[j] + 1 ELSE pos[j]
    BY <1>4 DEF Alter
  <2>2. \A n \in 1..Len(Upgrades) : NumTables + n < pos'[j] =>
          NumTables + n < pos[j] \/ (i = j /\ n = pos[j] - NumTables)
    BY <2>1, Lists
  <2>3. AltersFollow(j)'
    BY <1>0, <2>1, <2>2 DEF AltersFollow, OwnsRegistry
  <2> QED
    BY <1>0, <2>1, <2>3 DEF DoneFollow
<1>5. CASE AlterRefused(i) \/ CreateFails(i) \/ Fails(i)
  <2>1. UNCHANGED <<there, owner, columns, role>> /\ (at'[j] = "done" => at[j] = "done")
    BY <1>5 DEF AlterRefused, CreateFails, Fails
  <2>2. i # j => UNCHANGED <<at[j], pos[j], fresh[j], added[j]>>
    BY <1>5 DEF AlterRefused, CreateFails, Fails
  <2>3. i = j => at'[j] # "next" \/ ~OwnsRegistry(j)'
    BY <1>5, <2>1 DEF AlterRefused, CreateFails, Fails, OwnsRegistry
  <2> QED
    BY <1>0, <2>1, <2>2, <2>3 DEF AltersFollow, DoneFollow, OwnsRegistry
<1>6. CASE Commit(i)
  <2>1. there' = Tables /\ Registry \in there'
    BY <1>6, CommitCompletes
  <2>2. CASE i = j
    <3>1. at'[j] # "next"
      BY <1>6, <2>2 DEF Commit
    <3>2. role[j] = owner' => columns' = Columns
      BY <1>0, <1>6, <2>1, <2>2, CommitAddsAll
    <3> QED
      BY <1>6, <3>1, <3>2 DEF Commit, AltersFollow, DoneFollow
  <2>3. CASE i # j
    <3>1. UNCHANGED <<at[j], pos[j], fresh[j], added[j], role>>
      BY <1>6, <2>3 DEF Commit
    <3>2. DoneFollow(j)'
      <4>1. at[j] = "done" => Registry \notin fresh[i]
        BY DEF ComeTogether, TablesApart
      <4> QED
        BY <1>0, <1>6, <3>1, <4>1 DEF Commit, ColumnsAfter, DoneFollow
    <3>3. CASE Registry \in fresh[i]
      <4>1. ~Sees(j, Registry) \/ Registry \in fresh[j]
        BY <3>3, <2>3 DEF TablesApart, Sees
      <4>2. Registry \notin fresh[j] /\ at[j] = "next" => pos[j] <= NumTables
        BY <4>1, SeesRegistry, Lists
      <4> QED
        BY <3>1, <3>2, <4>2, Lists DEF AltersFollow
    <3>4. CASE Registry \notin fresh[i]
      <4>1. owner' = owner /\ Registry \in there
        BY <1>6, <2>1, <3>4 DEF Commit
      <4> QED
        BY <1>0, <3>1, <3>2, <4>1 DEF AltersFollow, OwnsRegistry
    <3> QED
      BY <3>3, <3>4
  <2> QED
    BY <2>2, <2>3
<1> QED
  BY <1>2, <1>3, <1>4, <1>5, <1>6 DEF Step

\* ensure_schema keeps its word on an empty database, on a complete one, and on one whose
\* registry belongs to the callers that migrate it, under any number of concurrent calls,
\* crashes and rollbacks.  With a stranger's registry it does not: see CreatesMissing in the
\* run gateway_upgrade.
THEOREM SchemaIsReady ==
  ASSUME ~Strangers PROVE Spec => []DoneMeansReady
<1>1. Init => SchemaInv /\ Upgradable /\ ColumnsFollow
  <2>1. Init => ColumnsFollow
    BY Lists, ConstantsAssumption DEF Init, ColumnsFollow
  <2> QED
    BY <2>1, InitSchema DEF Init
<1>2. (SchemaInv /\ Upgradable /\ ColumnsFollow) /\ [Next]_vars
        => (SchemaInv /\ Upgradable /\ ColumnsFollow)'
  BY SchemaStep, UpgradableStays, ColumnsStep
<1>3. SchemaInv /\ Upgradable /\ ColumnsFollow => DoneMeansReady
  BY DEF SchemaInv, ComeTogether, ColumnsFollow, CreatesMissing, DoneMeansReady
<1> QED
  BY <1>1, <1>2, <1>3, PTL DEF Spec

\* Failed statements, crashes and rollbacks included, the tables come up all at once.
THEOREM SchemaComesWhole ==
  ASSUME ~Strangers PROVE Spec => NeverHalfway
<1>1. Init => SchemaInv /\ Upgradable
  BY InitSchema DEF Init
<1>2. (SchemaInv /\ Upgradable) /\ [Next]_vars => (SchemaInv /\ Upgradable)'
  BY SchemaStep, UpgradableStays
<1>3. (SchemaInv /\ Upgradable) /\ [Next]_vars => [there' # there => there' = Tables]_vars
  <2> SUFFICES ASSUME SchemaInv, Upgradable, [Next]_vars, there' # there
               PROVE  there' = Tables
    OBVIOUS
  <2>1. PICK i \in Calls : Commit(i)
    BY OnlyCommitsShow
  <2> QED
    BY <2>1, CommitCompletes DEF SchemaInv
<1> QED
  BY <1>1, <1>2, <1>3, PTL DEF Spec, NeverHalfway

-----------------------------------------------------------------------------
(* Nobody waits in a circle *)

\* What LocksInOrder says of one call, and of two.
HeldBehind == \A i \in Calls : \A t \in fresh[i] :
                \E n \in 1..NumTables : n < pos[i] /\ Required[n] = t
AlteredLate == \A i \in Calls : added[i] # {} => pos[i] > NumTables + 1
AlteredIfOwned ==
  \A i \in Calls : at[i] = "next" /\ pos[i] > NumTables + 1 /\ OwnsRegistry(i) => added[i] # {}
OneAlters == \A i, j \in Calls : added[i] # {} /\ added[j] # {} => i = j

LEMMA LocksInOrderParts ==
  LocksInOrder <=> HeldBehind /\ AlteredLate /\ AlteredIfOwned /\ OneAlters
BY DEF LocksInOrder, HeldBehind, AlteredLate, AlteredIfOwned, OneAlters

LEMMA HeldStep == SchemaInv /\ HeldBehind /\ [Next]_vars => HeldBehind'
<1> SUFFICES ASSUME SchemaInv, HeldBehind, [Next]_vars PROVE HeldBehind'
  OBVIOUS
<1> USE DEF SchemaInv, TypeOK, HeldBehind, GoOn, RolledBack
<1>1. CASE UNCHANGED vars
  BY <1>1 DEF vars
<1> SUFFICES ASSUME NEW i \in Calls,
                    Begin(i) \/ Step(i) \/ Create(i) \/ CreateFails(i) \/ Fails(i)
             PROVE  HeldBehind'
  BY <1>1 DEF Next
<1>2. CASE Begin(i)
  BY <1>2 DEF Begin, Idle
<1>3. CASE Exists(i) \/ IsMissing(i) \/ Alter(i)
  BY <1>3 DEF Exists, IsMissing, Alter
<1>4. CASE Recheck(i)
  BY <1>4 DEF Recheck
<1>5. CASE AlterRefused(i) \/ CreateFails(i) \/ Fails(i) \/ Commit(i)
  BY <1>5 DEF AlterRefused, CreateFails, Fails, Commit
<1>6. CASE Create(i)
  <2>1. Scanning(i) /\ Required[pos[i]] = TableOf(i) /\ pos[i] < pos[i] + 1
    BY <1>6 DEF Create, TableOf
  <2> QED
    BY <1>6, <2>1 DEF Create, Scanning
<1> QED
  BY <1>2, <1>3, <1>4, <1>5, <1>6 DEF Step

\* A call that stays among the tables, or that starts or ends, with nothing altered.
LEMMA AltersNothing ==
  ASSUME SchemaInv, AlteredLate, AlteredIfOwned, OneAlters, NEW i \in Calls,
         UNCHANGED <<there, owner, role>>,
         \A j \in Calls \ {i} : /\ at'[j] = at[j] /\ pos'[j] = pos[j]
                                /\ fresh'[j] = fresh[j] /\ added'[j] = added[j],
         added'[i] = {},
         at'[i] = "next" /\ pos'[i] > NumTables + 1 => ~OwnsRegistry(i)'
  PROVE  AlteredLate' /\ AlteredIfOwned' /\ OneAlters'
<1>1. AlteredLate'
  BY DEF AlteredLate
<1>2. OneAlters'
  BY DEF OneAlters
<1>3. AlteredIfOwned'
  BY DEF AlteredIfOwned, OwnsRegistry
<1> QED
  BY <1>1, <1>2, <1>3

LEMMA AlterStep ==
  SchemaInv /\ AlteredLate /\ AlteredIfOwned /\ OneAlters /\ [Next]_vars
    => (AlteredLate /\ AlteredIfOwned /\ OneAlters)'
<1> SUFFICES ASSUME SchemaInv, AlteredLate, AlteredIfOwned, OneAlters, [Next]_vars
             PROVE  AlteredLate' /\ AlteredIfOwned' /\ OneAlters'
  OBVIOUS
<1> USE DEF SchemaInv, TypeOK, database, Goto, GoOn, RolledBack
<1>1. CASE UNCHANGED vars
  <2>1. \A j \in Calls : OwnsRegistry(j)' <=> OwnsRegistry(j)
    BY <1>1 DEF vars, OwnsRegistry
  <2> QED
    BY <1>1, <2>1 DEF vars, AlteredLate, AlteredIfOwned, OneAlters
<1> SUFFICES ASSUME NEW i \in Calls,
                    Begin(i) \/ Step(i) \/ Create(i) \/ CreateFails(i) \/ Fails(i)
             PROVE  AlteredLate' /\ AlteredIfOwned' /\ OneAlters'
  BY <1>1 DEF Next
<1> DEFINE Others == \A j \in Calls \ {i} : /\ at'[j] = at[j] /\ pos'[j] = pos[j]
                                            /\ fresh'[j] = fresh[j] /\ added'[j] = added[j]
<1>0. NumTables \in Nat /\ (Scanning(i) => pos[i] + 1 <= NumTables + 1 /\ added[i] = {})
  <2>1. NumTables \in Nat /\ pos[i] \in Nat
    BY Lists
  <2>2. Scanning(i) => pos[i] + 1 <= NumTables + 1 /\ ~(pos[i] > NumTables + 1)
    BY <2>1 DEF Scanning
  <2>3. ~(pos[i] > NumTables + 1) => added[i] = {}
    BY DEF AlteredLate
  <2> QED
    BY <2>1, <2>2, <2>3
<1>2. CASE Begin(i)
  <2>1. Others /\ added'[i] = {} /\ UNCHANGED <<there, owner, role>>
    BY <1>2 DEF Begin, Idle
  <2>2. pos'[i] = 1
    BY <1>2 DEF Begin
  <2> QED
    BY <1>0, <2>1, <2>2, AltersNothing
<1>3. CASE Exists(i) \/ IsMissing(i) \/ Create(i)
  <2>1. Scanning(i)
    BY <1>3 DEF Exists, IsMissing, Create
  <2>2. Others /\ added' = added /\ UNCHANGED <<there, owner, role>>
    BY <1>3 DEF Exists, IsMissing, Create
  <2>3. pos'[i] \in Nat /\ pos'[i] <= pos[i] + 1
    BY <1>3 DEF Exists, IsMissing, Create
  <2>4. ~(pos'[i] > NumTables + 1)
    BY <1>0, <2>1, <2>3
  <2> QED
    BY <1>0, <2>1, <2>2, <2>4, AltersNothing
<1>4. CASE Recheck(i)
  <2>1. Scanning(i)
    BY <1>4 DEF Recheck
  <2>2. Others /\ added' = added /\ UNCHANGED <<there, owner, role>>
    BY <1>4 DEF Recheck
  <2>3. pos'[i] \in Nat /\ pos'[i] <= pos[i] + 1
    BY <1>4 DEF Recheck
  <2>4. ~(pos'[i] > NumTables + 1)
    BY <1>0, <2>1, <2>3
  <2> QED
    BY <1>0, <2>1, <2>2, <2>4, AltersNothing
<1>6. CASE CreateFails(i) \/ Fails(i)
  <2>1. Others /\ added'[i] = {} /\ UNCHANGED <<there, owner, role>>
    BY <1>6 DEF CreateFails, Fails
  <2>2. at'[i] # "next"
    BY <1>6 DEF CreateFails, Fails
  <2> QED
    BY <2>1, <2>2, AltersNothing
<1>7. CASE AlterRefused(i)
  <2>1. Others /\ added'[i] = {} /\ UNCHANGED <<there, owner, role>>
    BY <1>7 DEF AlterRefused
  <2>2. ~OwnsRegistry(i)'
    BY <1>7 DEF AlterRefused, OwnsRegistry
  <2> QED
    BY <2>1, <2>2, AltersNothing
<1>8. CASE Alter(i)
  <2>1. /\ UNCHANGED <<there, owner, role, at, fresh>>
        /\ added'[i] # {} /\ \A j \in Calls \ {i} : added[j] = {} /\ added'[j] = {}
        /\ pos'[i] = pos[i] + 1 /\ pos[i] > NumTables
        /\ \A j \in Calls \ {i} : pos'[j] = pos[j]
    BY <1>0, <1>8 DEF Alter, Upgrading, RegistryFree
  <2>2. AlteredLate'
    BY <1>0, <2>1 DEF AlteredLate
  <2>3. OneAlters'
    BY <2>1 DEF OneAlters
  <2>4. \A j \in Calls : OwnsRegistry(j)' <=> OwnsRegistry(j)
    BY <2>1 DEF OwnsRegistry
  <2>5. AlteredIfOwned'
    BY <2>1, <2>4 DEF AlteredIfOwned
  <2> QED
    BY <2>2, <2>3, <2>5
<1>9. CASE Commit(i)
  <2>1. AlteredLate' /\ OneAlters'
    BY <1>9 DEF Commit, AlteredLate, OneAlters
  <2>2. ASSUME NEW j \in Calls, at'[j] = "next", pos'[j] > NumTables + 1, OwnsRegistry(j)'
        PROVE  added'[j] # {}
    <3>1. j # i /\ at[j] = "next" /\ pos[j] > NumTables + 1 /\ added'[j] = added[j]
      BY <1>9, <2>2 DEF Commit
    <3>2. Registry \in there \/ Registry \in fresh[j]
      BY <3>1, SeesRegistry, Lists DEF Sees
    <3>3. OwnsRegistry(j)
      BY <1>9, <2>2, <3>1, <3>2 DEF Commit, TablesApart, OwnsRegistry
    <3> QED
      BY <3>1, <3>3 DEF AlteredIfOwned
  <2>3. AlteredIfOwned'
    BY <2>2 DEF AlteredIfOwned
  <2> QED
    BY <2>1, <2>3
<1> QED
  BY <1>2, <1>3, <1>4, <1>6, <1>7, <1>8, <1>9 DEF Step

LEMMA WaitsBehind ==
  SchemaInv /\ LocksInOrder => WaitersAreBehind
<1> SUFFICES ASSUME SchemaInv, LocksInOrder, NEW i \in Calls, NEW j \in Calls, WaitsFor(i, j)
             PROVE  pos[i] < pos[j]
  BY DEF WaitersAreBehind
<1> USE DEF SchemaInv, TypeOK, WaitsFor
<1>1. CASE at[i] = "create" /\ TableOf(i) \in fresh[j]
  <2>1. PICK n \in 1..NumTables : n < pos[j] /\ Required[n] = TableOf(i)
    BY <1>1, LocksInOrderParts DEF HeldBehind
  <2>2. pos[i] \in 1..NumTables
    BY <1>1 DEF Scanning
  <2>3. pos[i] = n
    BY <2>1, <2>2, ConstantsAssumption DEF TableOf
  <2> QED
    BY <2>1, <2>3
<1>2. CASE at[i] = "next" /\ Upgrading(i) /\ OwnsRegistry(i) /\ added[j] # {}
  <2>1. pos[j] > NumTables + 1
    BY <1>2, LocksInOrderParts DEF AlteredLate
  <2>2. added[i] = {}
    BY <1>2, LocksInOrderParts DEF OneAlters
  <2>3. ~(pos[i] > NumTables + 1)
    BY <1>2, <2>2, LocksInOrderParts DEF AlteredIfOwned
  <2> QED
    BY <2>1, <2>3, Lists
<1> QED
  BY <1>1, <1>2

\* Concurrent calls of ensure_schema never deadlock, on any database, a stranger's included:
\* who waits is behind in the list, so a chain of waiting calls ends with one that does not.
THEOREM WaitersQueue == Spec => []WaitersAreBehind
<1>1. Init => SchemaInv /\ LocksInOrder
  <2>1. Init => LocksInOrder
    BY Lists DEF Init, LocksInOrder
  <2> QED
    BY <2>1, InitSchema
<1>2. SchemaInv /\ LocksInOrder /\ [Next]_vars => SchemaInv' /\ LocksInOrder'
  <2>1. LocksInOrder' <=> HeldBehind' /\ AlteredLate' /\ AlteredIfOwned' /\ OneAlters'
    BY DEF LocksInOrder, HeldBehind, AlteredLate, AlteredIfOwned, OneAlters
  <2> QED
    BY <2>1, LocksInOrderParts, SchemaStep, HeldStep, AlterStep
<1> QED
  BY <1>1, <1>2, WaitsBehind, PTL DEF Spec
=============================================================================
