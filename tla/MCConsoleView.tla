---------------------------- MODULE MCConsoleView ----------------------------
(* Consoles small enough for TLC and windows small enough to page through
   them.                                                                   *)
EXTENDS ConsoleView

CONSTANTS b1

(* A short line, and one too long for a slot.                              *)
MCOutput == {<<1, 0>>, <<4, 0>>}

(* A command line of one row, and one that wraps.                          *)
MCPromptLen == {1, 3}
WrappedPromptLen == {3}

MCBigBlock == {b1}

(* The long line fills the first window, wraps in the second and takes one
   row of the third.                                                       *)
MCScreenSize == {<<4, 1>>, <<5, 3>>, <<4, 4>>}

(* For a console that outlives its pool: one window, where lines wrap.     *)
OneScreenSize == {<<4, 2>>}
=============================================================================
