---------------------------- MODULE MCLineBuffer ----------------------------
(* Small pools for TLC.                                                    *)
EXTENDS LineBuffer, TLC

CONSTANTS b1, b2, b3

(* An empty text, two lines, a line too long for a slot followed by a
   newline, and three lines.  Lines also grow by repeated appending.       *)
MCOutput == {<<0>>, <<1, 1>>, <<3, 0>>, <<1, 1, 0>>}
MCPromptLen == {1, 3}
MCBigBlock == {b1, b2, b3}

(* The blocks of the heap are interchangeable.                             *)
BlockSymmetry == Permutations(MCBigBlock)

(* Fewer inputs, for the larger pool and for liveness.                     *)
FewOutput == {<<1, 1>>, <<3, 0>>}
FewPromptLen == {3}
FewBigBlock == {b1}
=============================================================================
