\* Every scope, sources of every kind and an edit of them, cyclic sitemaps and links.
SPECIFICATION Spec
CONSTANTS
  None = None
  Blank = Blank
  Origin <- Home
  RowsPerError = 3
  Unreserved <- Encodings
  Crawls <- AllCrawls
  Documents <- AllDocuments
  Tables <- AllTables
  Requests <- AllRequests
  Keys = {"k1", "k2"}
  MaxEdits = 1
  Flaky = {"posts", "nested"}
  Site <- AllPages
  MaxDepth = 3
  MaxUrls = 3
  MaxSitemaps = 5
  CHUNK = 2
INVARIANTS
  TypeOK
  OnePagePerAddress
  StaysOnSite
  SitemapExact
  TotalMatchesJobs
  ListedFilesStored
PROPERTIES
  DiscoveryEnds
CHECK_DEADLOCK FALSE
