---------------------------- MODULE MCPoolService ----------------------------
(***************************************************************************)
(* Loads of PoolService for TLC, each with the callers whose steps meet.   *)
(***************************************************************************)
EXTENDS PoolService, TLC

CONSTANTS q1, s1, r1, r2, r3, g1, g2, t1, t2, h1

Access0(dataset, project) == [x \in Resources |-> IF x = "dataset" THEN dataset ELSE project]

\* Who is active, what q1 lists, what is enabled, the entries there are, what g1 and g2 want to grant.
Load(who, body1, enabled1, dataset, project, want1, want2, retry) ==
  [active   |-> who,
   body     |-> (q1 :> body1 @@ s1 :> {}),
   enabled  |-> enabled1,
   acl      |-> Access0(dataset, project),
   want     |-> [p \in Granters |-> IF p = g1 THEN want1 ELSE IF p = g2 THEN want2 ELSE p],
   resolves |-> [h \in Handlers |-> [issue |-> FALSE, retry |-> retry, done |-> FALSE]]]

\* The workers of q1 queue for a thread, those of s1 only for locks.
MCPoolSize == q1 :> 1 @@ s1 :> 2

MCLoads ==
  {Load({q1, s1}, {r1}, {r1}, {}, {}, "viewer", "viewer", FALSE),
   Load({q1}, {r1, r2}, {}, {"viewer"}, {}, "viewer", "viewer", FALSE),
   Load({s1, h1}, {}, {}, {"viewer"}, {}, "viewer", "viewer", FALSE),
   Load({q1, g1}, {r3}, {}, {}, {}, "editor", "viewer", TRUE),
   Load({g1, g2, Owner}, {}, {}, {"viewer"}, {}, "editor", "jobUser", FALSE),
   Load({g1, t1, t2, Owner}, {}, {}, {}, {}, "viewer", "viewer", FALSE),
   Load({g1, h1}, {}, {}, {}, {"jobUser"}, "viewer", "viewer", TRUE)}
=============================================================================
