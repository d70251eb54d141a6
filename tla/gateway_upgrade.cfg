SPECIFICATION Spec
CONSTANTS
  Calls = {i1}
  Roles = {service, runner}
  NoRole = NoRole
  Required <- MCRequired
  Registry = "change_tracking_registry"
  Upgrades <- MCUpgrades
  Migrating = {i1}
  Existing <- Older
  Strangers = TRUE
INVARIANTS
  CreatesMissing
