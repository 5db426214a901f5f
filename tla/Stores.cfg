\* Every component by itself, chosen at the start.  The callers of the limiter
\* also stand for the clients and requests of the others: they are all symmetric.
SPECIFICATION StoresSpec
CONSTANTS
  \* rate limiter
  Callers = {p1, p2}
  Keys = {ip}
  Algorithms <- AllAlgorithms
  DefaultRate = 1
  DefaultBurst = 1
  Rates = {0}
  Second = 2
  Milli = 1
  CleanupTick = 2
  MaxTime = 5
  MaxCount = 4
  MaxChanges = 1
  \* rules
  RuleIDs = {1, 2, 3}
  Priorities = {0, 1, 2}
  Conditions <- MCConditions
  Requests <- MCRequests
  Transforms <- MCTransforms
  Accepts <- MCAccepts
  Elements <- MCElements
  Fold <- MCFold
  BadPatterns = {"(scan"}
  DryRun = FALSE
  Admins = {p1, p2}
  Patches = {"p", "q"}
  PatchRules <- MCPatchRules
  OwnRules <- MCOwn
  BulkLists <- MCBulk
  SaveMayFail = TRUE
  MaxRuleCalls = 5
  \* sessions
  SessionIDs = {1, 2}
  Addresses = {x, y}
  Users = {"u"}
  Finders = {f}
  Scores = {60}
  SessionTTL = 0
  MaxSessionTime = 1
  MaxRestores = 1
  MaxDecisions = 2
  NoSession = NoSession
  Nobody = Nobody
  \* learning and confidence
  Paths = {"/a"}
  RuleNames = {"r", "s"}
  MinRecords = 10
  WhitelistTTL = 1
  BaselineTTL = 0
  MaxRecords = 22
  MaxLearnTime = 3
  MaxFeedback = 3
  Cent = 3
  Absent = Absent
  \* billing
  Tenants = {"t"}
  Limits = {1, 2}
  Clients = {p1, p2}
  Day = 0
  MaxUsageTime = 2
  MaxUsage = 3
  Subscriptions = {"s1"}
  Hooks = {p1, p2, h}
  NoRecord = NoRecord
  \* admin API and process
  Calls = {p1, p2}
  KeyLists <- MCKeyLists
  Secrets = {"key1", "key2", "guess"}
  TenantNames = {"n1", "n2"}
  AlertCap = 2
  MaxRegister = 6
  NoToken = NoToken
  NoCall = NoCall
  Servers = {"proxy", "admin"}
  Conns = {p1, p2}
SYMMETRY Interchangeable
INVARIANTS
  RulesConsistent SessionsConsistent UsageConsistent EndIsFinal AdminConsistent
  ShutdownComplete
PROPERTIES LimiterHonest LearningSound
CHECK_DEADLOCK FALSE
