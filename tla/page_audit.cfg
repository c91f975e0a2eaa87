\* Every defect alone, a page full of them, every way to be served; one change.
SPECIFICATION Spec
CONSTANTS
  None = None
  Inline = Inline
  Versions <- AllVersions
  LinkUrls <- AllUrls
  LinkHops <- Hops
  Origin <- SiteDomain
  MaxCrawls = 3
  MaxChanges = 1
INVARIANTS
  TypeOK
  CarriedIsCurrent
  BrokenLinksReported
PROPERTIES
  RescoringAgrees
CHECK_DEADLOCK FALSE
