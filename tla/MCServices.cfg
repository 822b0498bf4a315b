CONSTANTS
  Databases = {"d", "e"}
  Scans = {"s"}
  Modes = {"enrich", "legacy_gray"}
  MaxLlm = 1
  JudgeQueueSize = 1
  MaxFindings = 2
  MaxFeedback = 1
  MaxSwitches = 1
  LlmCallers = {"a", "b"}
  Chain <- MCChain
  CircuitThreshold = 2
  RateLimitRetries = 1
  MaxCalls = 3
  HeldFlows = {"f", "g"}
  MaxToggles = 4
  ProxyCallers = {"a", "b"}
  MaxSpawns = 3
  MaxScopes = 2
  Urls <- MCUrls
  PathOf <- MCPathOf
  Links <- MCLinks
  Seeds <- MCSeeds
  InScope <- MCInScope
  Disallowed = {"z"}
  Depth = 2
  MaxUrls = 5
  Concurrencies = {1, 2, 3}
  Attacks = {"a", "b"}
  Bases <- MCBases
  Words <- MCWords
  Slots = 2
  ReportSessions = {"s", "t"}
  Spots = {"p", "q"}
  Refs = {"cve1", "cve10"}
  Inside <- MCInside
  AskedFormats <- MCAskedFormats
  SomeFindings <- MCFindings
  NarrativeCap = 1
  MaxKnown = 3
  MaxLoads = 1
  Parts = {"triage", "llm", "interceptor", "proxy", "crawl", "intruder", "reports"}
SPECIFICATION ServicesSpec
INVARIANTS ServicesTypeOK JudgeWithinLimits BreakerAndLedgerAgree HeldIsSeen
  OnlyKnownWorker CrawlCoversSite AttackIsComplete ReportTellsFindings
CHECK_DEADLOCK FALSE
