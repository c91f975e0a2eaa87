-------------------------- MODULE MCCrawlAdmission --------------------------
(***************************************************************************)
(* Three starters and two categories for TLC; both sets are symmetric.     *)
(***************************************************************************)
EXTENDS CrawlAdmission, TLC

CONSTANTS a1, a2, a3, g1, g2

ThreeStarters == {a1, a2, a3}
TwoCategories == {g1, g2}
Symmetry == Permutations(ThreeStarters) \cup Permutations(TwoCategories)
=============================================================================
