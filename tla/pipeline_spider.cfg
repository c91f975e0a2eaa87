\* Two seeds, two pages found on the way, one death of any job.
SPECIFICATION Spec
CONSTANTS
  a = a  b = b  c = c  d = d  u = u  v = v
  Pages <- SpiderPages
  Seeds <- SpiderSeeds
  Spiders <- SpiderSeeds
  Hinted = {a}
  Flaky = {b}
  Rendered = {}
  Outlinks <- SpiderOutlinks
  Urls = {}
  Targets <- NoTargets
  MaxDepth = 1
  MaxAttempts = 3
  MaxStalled = 1
  Resolutions = {"seeds", "vanished", "gone", "invalid", "empty"}
  Controls = {}
  Faulty = {"orchestrate", "fetch"}
  MaxFaults = 1
  MaxControls = 0
  MaxRetries = 0
INVARIANTS
  TypeOK
  CompletionIsExact
  CountersMatchSnapshots
  WatchdogCanSee
PROPERTIES
  EventuallyFinalized
  ImplementsBarrier
CHECK_DEADLOCK FALSE
