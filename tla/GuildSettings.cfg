\* Two sessions, one watch, one role, one region, two rules.  No channel: its
\* column goes through the same operators as the mention role.
CONSTANTS
  Sessions = {s1, s2}
  Server = server
  Watches = {w}
  Roles = {role}
  Channels = {}
  Regions = {"US"}
  Rules = {"drop", "threshold"}
  Defaults = {"drop"}
  Admin = admin
  None = none
SPECIFICATION Spec
SYMMETRY Symmetric
INVARIANT
  TypeOK
  DeletedIsForgotten
PROPERTY
  OnlyNamedSettingsChange
