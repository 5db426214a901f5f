\* Every inspector by itself, chosen at the start; v1 and v2 are two goroutines of it.
SPECIFICATION InspectorsSpec
CONSTANTS
  LoginUsers = {"u"}
  LoginIPs = {"i"}
  Passwords = {"p"}
  LoginTokens = {"", "CRED010"}
  Logins = {v1, v2}
  MaxAttempts = 1
  LockoutDuration = 2
  Backoffs <- MCBackoffs
  MaxCredTime = 4
  MaxCredRequests = 8
  NoTracker = NoTracker
  FloodKeys <- MCFloodKeys
  Rate <- MCRate
  WebRequests <- MCRequests
  Guards = {v1, v2}
  Window = 2
  LorisLimit = 0
  SlowPostLimit = 0
  TimerTTL = 1
  CounterTTL = 2
  MaxFloodTime = 3
  MaxFlood = 4
  NoTimer = NoTimer
  Peers = {"x"}
  Frames <- MCFrames
  Sockets = {v1, v2}
  AllowedTypes = {"text"}
  EnableClose = TRUE
  EnablePing = FALSE
  EnablePong = FALSE
  StrictMode = TRUE
  MaxFrameSize = 1
  MaxDepth = 1
  MaxFramesPerMin = 1
  BlockOnLimit = TRUE
  Minute = 1
  MaxWsTime = 3
  MaxFrames = 3
  MaxEntries = 2
  ChallengedIPs = {"v"}
  Visits = {v1, v2}
  ThreatLevels = {0, 1, 4}
  ChallengeTTL = 0
  CleanupPeriod = 1
  MaxTokens = 1
  MaxStates = 1
  MaxChallengeTime = 2
  Sources = {"y"}
  Inspections = {v1, v2}
  PathScores = {30}
  Deltas = {101}
  DevMode = FALSE
  Velocity = TRUE
  UseReputation = TRUE
  PathEntropy = TRUE
  BehThreshold = 35
  MaxRequests = 1
  Room = 3
  BehWindow = 2
  MaxWindows = 0
  Evicted = 1
  BlockTimes = {1}
  MaxBehTime = 2
  MaxBehRequests = 4
  NotBlocked = NotBlocked
  \* remote services
  JwtTokens <- MCTokens
  JwtKeys <- MCKeys
  Malformed <- MCMalformed
  Algorithms = {}
  Issuers = {"iss"}
  Audiences = {"aud"}
  Secret = "secret"
  HasJwksURL = TRUE
  AccessTokens = {"a", "b"}
  TokenExpiry <- MCExpiry
  Verifiers = {v1, v2}
  JwksTTL = 1
  IntrospectTTL = 1
  FetchTimeout = 1
  MaxAuthTime = 3
  MaxRotations = 2
  NoSecret = NoSecret
  NoAnswer = NoAnswer
  Hosts = {"h", "bad"}
  Datacenter = {"h"}
  Unparsable = {"bad"}
  Scorers = {v1, v2}
  CacheTTL = 2
  MaxRepTime = 5
  MaxListings = 2
  NoScore = NoScore
  MLCallers = {v1, v2}
  MaxRetries = 1
  Threshold = 3
  Cooldown = 1
  FallbackMode = "block"
  MaxMLTime = 4
SYMMETRY Interchangeable
INVARIANTS
  CountIsExact ChallengesSound BehaviourSound TokensCurrent ScoreKnowsOldEntries
PROPERTIES GuessesBounded FloodLimited CooldownKept
CHECK_DEADLOCK FALSE
