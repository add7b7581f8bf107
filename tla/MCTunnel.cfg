SPECIFICATION Spec
CONSTANTS
  src = src a = a b = b t1 = t1 k1 = k1 s1 = s1 c1 = c1
  Tokens = {t1}
  Worlds <- MCWorlds
  ApiKeys = {k1}
  Notices = {1, 2, 3}
  Topics <- MCTopics
  NoKey = NoKey
  Threshold = 2
  Window = 1
  Cooldown = 1
  MaxTime = 4
  Loads <- MCLoads
  Source = src
  Every = Every
  Scopes = {s1}
  Creds = {c1}
  None = None
  Requests = {1, 2}
  Edits = {1, 2}
  MaxTargets = 1
  MaxConns = 1
INVARIANTS
  DebounceHolds OwnersHearWhatTheyAsk
  TunnelObeysTheOwner ReachIsAsDecided SeedsAreAccounted EveryRequestIsCounted
CHECK_DEADLOCK FALSE
