SPECIFICATION WorkshopSpec
CONSTANTS
  Sessions = {"s1"}
  ToolCalls = {"c1", "c2"}
  MaxSecond = 1
  SessionBudget = 0
  MaxEdits = 2
  AgentCommits = TRUE
  MaxToolCalls = 4
  EditLines = 70
  GitHubConfigured = TRUE
  Callers = {"c1", "c2"}
  KeyCount = 2
  BenchSeconds = 2
  MainModels = 1
  FastModels = 2
  ModelTimeout = 1
  CallBudget = 2
  FastTimeout = 1
  FastBudget = 2
  MinAttempt = 1
  MaxWait = 1
  MaxNow = 4
  Writers = {"w1", "w2"}
  Readers = {"r1", "r2"}
  TwoStatements = {"w1"}
  Unlocked = "nobody"
  MaxDrops = 2
  MaxOutages = 1
  MaxBadStatements = 2
  ToolsetNames = {"bash", "database"}
  CoreToolsets = {"bash"}
  OfDomain <- Domains
  Workers = {"k1", "k2"}
  MaxConnections = 3
  MaxHits = 2
  Commands = {"p1", "p2", "p3"}
  Behaviours = {"lines", "silent", "bare", "slow", "exits"}
  MaxShells = 3
  Paths = {"p"}
  Symbols = {"f", "g"}
  SymbolsIn <- Versions123
  Indexers = {"x1", "x2"}
  MaxFiles = 1
  MaxRuns = 2
  Askers = {"t1", "t2"}
  Documents = {"d1", "d2"}
  MaxClients = 2
  MaxNotices = 1
  MaxServerDeaths = 1
INVARIANTS
  
  
  ChainsSound
  ReportedWritesStored
  
  SkippedIsIndexed
CHECK_DEADLOCK FALSE
