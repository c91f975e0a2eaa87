-------------------------- MODULE MCCrawlFinalize --------------------------
(***************************************************************************)
(* A crawl of a whole site, or of one of its categories, for TLC, with one *)
(* check that is a transaction and two that are not.                       *)
(***************************************************************************)
EXTENDS CrawlFinalize

OneDuplicate == <<"title">>
TwoLinkBased == <<"links", "images">>
SiteAndGroup == <<"site", "group">>
=============================================================================
