\* A rendered page and a page with hints under pause, resume, cancel and retry.
SPECIFICATION Spec
CONSTANTS
  a = a  b = b  c = c  d = d  u = u  v = v
  Pages <- ListPages
  Seeds <- ListPages
  Spiders = {}
  Hinted = {a}
  Flaky = {a}
  Rendered = {b}
  Outlinks <- NoOutlinks
  Urls = {u}
  Targets <- OneTarget
  MaxDepth = 1
  MaxAttempts = 3
  MaxStalled = 1
  Resolutions = {"seeds", "vanished", "gone"}
  Controls = {"pause", "resume", "cancel"}
  Faulty = {}
  MaxFaults = 0
  MaxControls = 2
  MaxRetries = 1
INVARIANTS
  SnapshotsReady
CHECK_DEADLOCK FALSE
