--------------------------- MODULE MCPagePipeline ---------------------------
(***************************************************************************)
(* Small websites for TLC.  Pages a and b are listed, c and d are found by *)
(* following links; u and v are link targets.                              *)
(***************************************************************************)
EXTENDS PagePipeline, TLC

CONSTANTS a, b, c, d, u, v

(* A spidered site: a links to c and back to itself, b to c and d, c on.   *)
SpiderPages == {a, b, c, d}
SpiderSeeds == {a, b}
SpiderOutlinks == (a :> {a, c}) @@ (b :> {c}) @@ (c :> {d}) @@ (d :> {})
NoTargets == [p \in Pages |-> {}]

(* A list of two pages that share a link target and lead nowhere.          *)
ListPages == {a, b}
NoOutlinks == [p \in Pages |-> {}]
SharedTarget == [p \in Pages |-> {u}]
OneTarget == [p \in Pages |-> IF p = a THEN {u} ELSE {}]
=============================================================================
