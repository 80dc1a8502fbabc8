SPECIFICATION MCSpec
CONSTANTS
  net = net
  host = host
  other = other
  home = home
  Target <- MCTarget
  Cover <- MCCover
  Local = home
  Slot = {c1, c2}
  Token = {t1}
  NoToken = NoToken
  HandFile <- MCHandFile
  Edit <- MCEdit
  Input <- MCInput
  Sent <- Kind
  Asked <- MCAsked
  OrgName = {acme}
  Second = {1}
  BufferCap = 2
  MaxEdits = 1
  MaxRequests = 3
  MaxRuns = 2
  ScanId = {s1, s2}
  first = s1
SYMMETRY Connections
CHECK_DEADLOCK FALSE
INVARIANTS
  RunsWithinAuthorization ConfigFaithful RolesEnforced StreamSound IdentitySound
