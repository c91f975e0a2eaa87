-------------------------- MODULE MCScheduleSync --------------------------
(***************************************************************************)
(* One schedule, two crons and two reconciles at a time, for TLC.          *)
(***************************************************************************)
EXTENDS ScheduleSync, TLC

CONSTANTS s1, r1, r2

TwoReconcilers == {r1, r2}
=============================================================================
