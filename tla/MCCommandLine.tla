---------------------------- MODULE MCCommandLine ----------------------------
(* Small command lines for TLC: two characters, commands of two and a       *)
(* history of three.                                                        *)
EXTENDS CommandLine

CONSTANT a

MCChar == {a, Blank}

(* Tab is answered nothing before the newline, a completion, or a line that
   is too long for a command.                                              *)
MCFill == {<<>>, <<a, Blank>>, <<Blank, a, a>>}

=============================================================================
