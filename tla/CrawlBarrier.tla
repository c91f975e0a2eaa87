---------------------------- MODULE CrawlBarrier ----------------------------
(***************************************************************************)
(* What the counters of a crawl promise, without counters, queues or       *)
(* workers: pages are announced and settle, only an open page announces    *)
(* further ones, and the finalizer is signalled once, after the last page  *)
(* settled, when nothing can be announced any more.  PagePipeline          *)
(* implements this until a job is delivered again after its work showed.   *)
(***************************************************************************)

CONSTANT Pages      \* pages of the website

VARIABLES
  announced,  \* pages the crawl has undertaken to work on
  settled,    \* those with an outcome
  signalled,  \* whether the finalizer was asked to run
  disturbed   \* whether a job ran twice, after which nothing is promised

vars == <<announced, settled, signalled, disturbed>>

Open == announced \ settled

Init ==
  /\ announced = {} /\ settled = {}
  /\ signalled = FALSE /\ disturbed = FALSE

(* The first pages come from the sources, later ones from an open page.    *)
Announce ==
  /\ ~signalled
  /\ announced = {} \/ Open # {}
  /\ \E new \in SUBSET (Pages \ announced) : announced' = announced \cup new
  /\ UNCHANGED <<settled, signalled>>

Settle ==
  /\ ~signalled
  /\ \E p \in Open : settled' = settled \cup {p}
  /\ UNCHANGED <<announced, signalled>>

Signal ==
  /\ ~signalled
  /\ announced # {} /\ Open = {}
  /\ signalled' = TRUE
  /\ UNCHANGED <<announced, settled>>

Disturb == disturbed'

Next ==
  \/ ~disturbed /\ ~disturbed' /\ (Announce \/ Settle \/ Signal)
  \/ Disturb

Spec == Init /\ [][Next]_vars
=============================================================================
