------------------------------ MODULE LineEdit -------------------------------
(***************************************************************************)
(* What GVD's command line promises to the user, without arrays, indices   *)
(* or a screen: a gap of text before and after the insertion point, the    *)
(* commands submitted so far, and one draft that is put aside while the    *)
(* user browses them.                                                      *)
(***************************************************************************)
EXTENDS Integers, Sequences, SequencesExt

CONSTANTS
  Char,      \* what can be typed
  Blank,     \* the character a blank command is made of
  Room,      \* characters a command may have
  Keep       \* submitted commands that are remembered

VARIABLES
  before, after,  \* the text left and right of the insertion point
  past,           \* the commands submitted, latest first
  place,          \* which of them is being browsed; 0 for none
  draft           \* what was put aside: <<>> or <<text>>

evars == <<before, after, past, place, draft>>

Typed == before \o after

IsBlank(text) == ToSet(text) \subseteq {Blank}

(* The first n of a sequence, or all of it.                                *)
Latest(s, n) == SubSeq(s, 1, IF Len(s) < n THEN Len(s) ELSE n)

Becomes(text) == before' = text /\ after' = <<>>

Insert(c) ==
  /\ Len(Typed) < Room
  /\ before' = Append(before, c)
  /\ UNCHANGED <<after, past, place, draft>>

EraseLeft ==
  /\ before # <<>>
  /\ before' = Front(before)
  /\ UNCHANGED <<after, past, place, draft>>

EraseRight ==
  /\ after # <<>>
  /\ after' = Tail(after)
  /\ UNCHANGED <<before, past, place, draft>>

(* The insertion point moves; the text does not.                           *)
Move ==
  /\ \E n \in 0 .. Len(Typed) :
       /\ before' = SubSeq(Typed, 1, n)
       /\ after'  = SubSeq(Typed, n + 1, Len(Typed))
  /\ UNCHANGED <<past, place, draft>>

Older ==
  /\ place < Len(past)
  /\ draft' = IF draft = <<>> THEN <<Typed>> ELSE draft
  /\ place' = place + 1
  /\ Becomes(past[place'])
  /\ UNCHANGED past

Newer ==
  /\ place > 0
  /\ place' = place - 1
  /\ Becomes(IF place' = 0 THEN Head(draft) ELSE past[place'])
  /\ UNCHANGED <<past, draft>>

(* A command is remembered, and the draft forgotten, unless it is blank.   *)
Submit ==
  /\ \/ /\ ~IsBlank(Typed)
        /\ past' = Latest(<<Typed>> \o past, Keep)
        /\ place' = 0 /\ draft' = <<>>
     \/ /\ IsBlank(Typed)
        /\ UNCHANGED <<past, place, draft>>
  /\ Becomes(<<>>)

(* The text is given up or completed; no command is remembered.            *)
Replace ==
  /\ \E text \in BoundedSeq(Char, Room) : Becomes(text)
  /\ UNCHANGED <<past, place, draft>>

EInit ==
  before = <<>> /\ after = <<>> /\ past = <<>> /\ place = 0 /\ draft = <<>>

ENext ==
  \/ \E c \in Char : Insert(c)
  \/ EraseLeft \/ EraseRight \/ Move
  \/ Older \/ Newer \/ Submit \/ Replace

ESpec == EInit /\ [][ENext]_evars

=============================================================================
