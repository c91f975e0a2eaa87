\* A fetch worker dies after its page was counted.
SPECIFICATION Spec
CONSTANTS
  a = a  b = b  c = c  d = d  u = u  v = v
  Pages <- ListPages
  Seeds <- ListPages
  Spiders = {}
  Hinted = {}
  Flaky = {}
  Rendered = {}
  Outlinks <- NoOutlinks
  Urls = {}
  Targets <- NoTargets
  MaxDepth = 1
  MaxAttempts = 3
  MaxStalled = 1
  Resolutions = {"seeds"}
  Controls = {}
  Faulty = {"fetch"}
  MaxFaults = 1
  MaxControls = 0
  MaxRetries = 0
INVARIANT
  FinalizesWhenSettled
CHECK_DEADLOCK FALSE
