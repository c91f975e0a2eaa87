\* Two listed pages that share a link target; fetch and link jobs may die.
SPECIFICATION Spec
CONSTANTS
  a = a  b = b  c = c  d = d  u = u  v = v
  Pages <- ListPages
  Seeds <- ListPages
  Spiders = {}
  Hinted = {}
  Flaky = {}
  Rendered = {}
  Outlinks <- NoOutlinks
  Urls = {u}
  Targets <- SharedTarget
  MaxDepth = 1
  MaxAttempts = 3
  MaxStalled = 1
  Resolutions = {"seeds", "vanished"}
  Controls = {"cancel"}
  Faulty = {"fetch", "link"}
  MaxFaults = 1
  MaxControls = 1
  MaxRetries = 0
INVARIANT
  LinkBarrier
PROPERTIES
  EventuallyFinalized
  CancelTerminates
CHECK_DEADLOCK FALSE
