SPECIFICATION FairSpec
CONSTANTS
  Calls = {i1, i2}
  Roles = {service, runner}
  NoRole = NoRole
  Required <- MCRequired
  Registry = "change_tracking_registry"
  Upgrades <- MCUpgrades
  Migrating = {i1, i2}
  Existing <- Ages
  Strangers = FALSE
INVARIANTS
  TypeOK
  DoneMeansReady
  WaitersAreBehind
PROPERTIES
  NeverHalfway
  StartsEnd
