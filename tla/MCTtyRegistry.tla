---------------------------- MODULE MCTtyRegistry ----------------------------
(* Two callers, two blocks.                                                *)
EXTENDS TtyRegistry, TLC

CONSTANTS t1, t2, b1, b2

MCCaller == {t1, t2}
MCBlock  == {b1, b2}

(* Callers and blocks are interchangeable.                                 *)
Interchange == Permutations(MCCaller) \cup Permutations(MCBlock)
=============================================================================
