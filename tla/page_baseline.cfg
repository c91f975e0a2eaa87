\* The crawl of one page that is compared with a crawl of the site.
CONSTANTS
  p = p
  q = q
  None = None
  ShortNames <- MCShortNames
  Vocab <- VOCAB_PACK
  Profiles <- PROFILE_PACK
  EntitiesWithin <- EntitiesInside
  Extract <- ExtractEntities
  Scalarize <- Scalar
  Pages <- MCPages
  Documents <- MCDocuments
  Large <- MCLarge
  MaxCrawls = 3
  MaxChanges = 1
SPECIFICATION Spec
INVARIANTS BaselineOfSameScope
CHECK_DEADLOCK FALSE
