------------------------------ MODULE MCSession ------------------------------
(* The program with its own trees, and the lines a user may type.          *)
EXTENDS Session, CliNodes

(* "gvd", which is the beginning of the other words of its mode.           *)
GvdWordNodes ==
  [gvd_word_end |-> END("exec_gvd_word"),
   gvd_word     |-> KEYWORD("gvd_word_end", NO_ALT, "gvd")]

MCStaticNode == GvdNodes @@ GvdWordNodes

MCExampleLinks ==
  {GvdExampleLinks, Append(GvdExampleLinks, LINK_ROOT("gvd_word", "config"))}
MCClone == [m \in Mode |-> [t \in Template |-> t \o "@" \o m]]
MCMayLack == {}
MCChar == STRING

(* Pieces, which make any line of three of them.                           *)
Piece == {<<"sh">>, <<"gvd">>, <<"e">>, <<Blank>>, <<Quote>>, <<Escape>>}

(* Commands in full and abbreviated, one that is too long when completed,
   and lines with too many tokens.                                         *)
Whole ==
  {<<"quit">>, <<"c", "onfigure", Blank, "t", "erminal">>, <<"sh", "ell">>,
   <<"e", "x", "it">>, <<"e", "nd">>, <<"gvd", "-", "config">>,
   <<"e", "x", "ec", Blank, "WORD">>, <<"e", Blank, Quote, "c", Blank, "x", Quote>>,
   <<"no", Blank, "gvd", "-", "config">>, <<"default", Blank, "gvd", "-", "global">>,
   <<"do", Blank, "quit">>, <<"do", Blank, "sh", Blank>>,
   <<"no", Blank, "e">>, <<"e", Escape, Blank>>, <<"sh", "ow", Blank, "t">>, <<"logfile", Blank>>,
   <<"no", Blank, Blank, Blank, Blank, Blank, Blank, Blank, "gvd", "-">>,
   <<"e", Blank, "c", Blank, "x">>, <<"c", Blank, "t", Blank, "x", Blank, "x", Blank, "x">>,
   <<"x", Blank, "x", Blank, "x", Blank, "x", Blank, "x">>,
   <<"x", Blank, "x", Blank, "x", Blank, "x", Blank, "x", Blank, "x">>}

MCTyped == Piece \cup Whole

(* Scripts that quit, that end without, that try to quit in a lower mode,
   and one with a line that is too long.                                   *)
MCScript ==
  {<<"quit", Newline>>,
   <<"sh", "ell", Newline, "quit", Newline, "end", Newline>>,
   <<"c", Blank, "t", Newline, "gvd", "-", "config", Newline, "quit", Newline,
     "do", Blank, "quit">>,
   <<"no", "no", "no", "no", "no", "no", "no", "no", "no", "no", "no", "no", "no", "no",
     Newline, "quit", Newline>>}
=============================================================================
