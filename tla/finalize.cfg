\* Up to two deaths, a lingering worker, two late requests.
SPECIFICATION Spec
CONSTANTS
  Slots = {1, 2}
  Duplicates <- OneDuplicate
  LinkBased <- TwoLinkBased
  Own = TRUE
  Carried = {"links", "images"}
  Found = {"title", "links"}
  Changes = 1
  Trends <- SiteAndGroup
  MaxAttempts = 2
  MaxStalled = 1
  Controls = {"pause", "resume", "cancel"}
  Lingering = {"changes"}
  MaxFaults = 2
  MaxControls = 2
INVARIANTS
  TypeOK
  DerivedOnce
  AggregateTells
  ChangesKept
PROPERTY
  Recovers
CHECK_DEADLOCK FALSE
