\* Two pages and a link target, one death of the process.
SPECIFICATION Spec
CONSTANTS
  a = a
  b = b
  l = l
  None = None
  Pages <- MCPages
  Links <- MCLinks
  Target <- MCTarget
  Parsed <- MCParsed
  Hinted = {a}
  Serves <- MCServes
  Lookups <- MCLookups
  AllowPrivateTargets <- MCAllow
  Settings <- MCSettings
  Defaults <- MCDefaults
  RecycleAfter = 1
  MAX_BODY = 4
  maxRedirects = 1
  MaxDeaths = 1
INVARIANTS VettedConnections AuditedIsServed
PROPERTY PageEnds
CHECK_DEADLOCK FALSE
