------------------------------ MODULE MCEngine -----------------------------
(* Engine for TLC: the options its runs open the directory with.           *)
EXTENDS Engine

opened(log, writers, compact, stop) ==
    [wal |-> log, writers |-> writers, compact |-> compact, stop |-> stop]

(***************************************************************************)
(* One writer that stalls on level 0 until it is compacted; two writers    *)
(* that wait for flushes and stall for good, the thresholds being in the   *)
(* wrong order.  Each opening takes either, so a directory gains and loses *)
(* its log.                                                                *)
(***************************************************************************)
CrashOpts == {opened(TRUE, 1, 1, 1), opened(FALSE, 2, 2, 1)}

\* Two writers that stall on level 0.
StallOpts == {opened(TRUE, 2, 1, 1)}
============================================================================
