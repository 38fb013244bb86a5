----------------------------- MODULE CommandLine -----------------------------
(***************************************************************************)
(* The command line of GVD (gvd_main.c): the text being typed, the command *)
(* history and the screen cursor.                                          *)
(*                                                                         *)
(* One key is handled at a time by one handler, an action here.  What the  *)
(* parser answers is external: any text for Tab, and whether the program   *)
(* is to exit for Enter.  `last' is what is on the last line of the        *)
(* console, where the command is printed after the prompt; the screen is   *)
(* wide enough for both.                                                   *)
(***************************************************************************)
EXTENDS Integers, Sequences, SequencesExt

CONSTANTS
  CMD_MAX_LEN,           (* characters a command may have                  *)
  CMD_HISTORY_MAX_SIZE,  (* commands the history may have                  *)
  Char,                  (* the characters that can be typed               *)
  Blank,                 (* the space                                      *)
  Fill,                  (* the first lines of what Tab may be answered    *)
  PS_LEN,                (* length of the prompt                           *)
  SLOT_ROOM,             (* characters that fit after the prompt before
                            the line needs a heap block                    *)
  COLS                   (* columns of the screen                          *)

HistoryIdx == 0 .. CMD_HISTORY_MAX_SIZE
Column == 0 .. COLS - 1

ASSUME SizeAssumption ==
  /\ CMD_MAX_LEN \in Nat
  /\ CMD_HISTORY_MAX_SIZE \in Nat \ {0}
  /\ PS_LEN \in Nat \ {0}
  /\ SLOT_ROOM \in Nat
  /\ COLS \in Nat /\ PS_LEN + CMD_MAX_LEN < COLS

ASSUME CharAssumption ==
  /\ Blank \in Char
  /\ Fill \subseteq Seq(Char)

VARIABLES
  cmd, cmd_next_idx,                                \* read_ctx
  cmd_history, cmd_history_size, cmd_history_idx, cur_cmd_in_history,
  last,      \* the last line of the console: prompt printed?, text, heap block?
  cursor,    \* the column of the screen cursor
  scrolled,  \* another part of the console than its end was asked for
  running    \* FALSE once the main loop was left

read_ctx == <<cmd, cmd_next_idx>>
history  == <<cmd_history, cmd_history_size, cmd_history_idx, cur_cmd_in_history>>
screen   == <<last, cursor, scrolled>>
vars     == <<cmd, cmd_next_idx, cmd_history, cmd_history_size, cmd_history_idx,
              cur_cmd_in_history, last, cursor, scrolled, running>>

-----------------------------------------------------------------------------
(* The console.                                                            *)

FreshLine  == [ps |-> FALSE, text |-> <<>>, big |-> FALSE]
PromptLine == [ps |-> TRUE,  text |-> <<>>, big |-> FALSE]

(* What replace_last_line() may leave of the line l when it is given the
   command c: a line that outgrows its slot stays as it was when calloc()
   fails.                                                                  *)
Replaced(l, c) ==
  LET outgrows == ~l.big /\ Len(c) > SLOT_ROOM
  IN  {[ps |-> TRUE, text |-> c, big |-> l.big \/ outgrows]}
        \cup (IF outgrows THEN {l} ELSE {})

(* Where the cursor is after the console was printed.                      *)
EndOf(l) == (IF l.ps THEN PS_LEN ELSE 0) + Len(l.text)

(* refresh_scr() with the last line l: the end of the console is printed.   *)
RefreshScr(l) ==
  /\ last' = l
  /\ cursor' = EndOf(l)
  /\ scrolled' = FALSE

(* re_print_cmd() of the new command, on the line l.                       *)
RePrintCmd(l) == \E r \in Replaced(l, cmd') : RefreshScr(r)

(* move() leaves the cursor where it is when it is asked to leave the
   screen.                                                                 *)
Moved(pos) == IF pos \in Column THEN pos ELSE cursor

(* re_print_cmd(), then adjust_cursor_pos().                               *)
RePrintAndAdjust ==
  /\ last' \in Replaced(last, cmd')
  /\ cursor' = PS_LEN + cmd_next_idx'
  /\ scrolled' = FALSE

-----------------------------------------------------------------------------
(* Editing.                                                                *)

InputProcessText(c) ==
  /\ Len(cmd) < CMD_MAX_LEN
  /\ cmd' = InsertAt(cmd, cmd_next_idx + 1, c)
  /\ cmd_next_idx' = cmd_next_idx + 1
  /\ RePrintAndAdjust
  /\ UNCHANGED <<history, running>>

InputProcessBackspace ==
  /\ cmd_next_idx > 0
  /\ cmd' = RemoveAt(cmd, cmd_next_idx)
  /\ cmd_next_idx' = cmd_next_idx - 1
  /\ RePrintAndAdjust
  /\ UNCHANGED <<history, running>>

InputProcessDel ==
  /\ cmd_next_idx # Len(cmd)
  /\ cmd' = RemoveAt(cmd, cmd_next_idx + 1)
  /\ UNCHANGED cmd_next_idx
  /\ RePrintAndAdjust
  /\ UNCHANGED <<history, running>>

InputProcessHome ==
  /\ cmd_next_idx' = 0
  /\ cursor' = PS_LEN
  /\ UNCHANGED <<cmd, history, last, scrolled, running>>

InputProcessEnd ==
  /\ cmd_next_idx' = Len(cmd)
  /\ cursor' = PS_LEN + Len(cmd)
  /\ UNCHANGED <<cmd, history, last, scrolled, running>>

InputProcessRight ==
  /\ cmd_next_idx # Len(cmd)
  /\ cmd_next_idx' = cmd_next_idx + 1
  /\ cursor' = Moved(cursor + 1)
  /\ UNCHANGED <<cmd, history, last, scrolled, running>>

InputProcessLeft ==
  /\ cmd_next_idx > 0
  /\ cmd_next_idx' = cmd_next_idx - 1
  /\ cursor' = Moved(cursor - 1)
  /\ UNCHANGED <<cmd, history, last, scrolled, running>>

(* replace_parser_cmd().                                                   *)
ReplaceParserCmd(text) ==
  /\ cmd' = SubSeq(text, 1, IF Len(text) > CMD_MAX_LEN THEN CMD_MAX_LEN
                                                       ELSE Len(text))
  /\ cmd_next_idx' = Len(cmd')

-----------------------------------------------------------------------------
(* The command history.                                                    *)

IsCmdEmpty(text) == ToSet(text) \subseteq {Blank}

(* The history once `text' was put in entry 0, the entries up to `size'
   were copied one up, and entry 0 was cleared.                            *)
HistoryWith(text, size) ==
  [i \in HistoryIdx |-> CASE i = 0 -> <<>>
                          [] i = 1 -> text
                          [] i > 1 /\ i <= size -> cmd_history[i - 1]
                          [] OTHER -> cmd_history[i]]

(* Mutant: the position of the browser is not reset.                       *)
UpdateKeepsIdx ==
  \/ /\ IsCmdEmpty(cmd)
     /\ UNCHANGED history
  \/ /\ ~IsCmdEmpty(cmd)
     /\ cmd_history_size' = IF cmd_history_size < CMD_HISTORY_MAX_SIZE
                            THEN cmd_history_size + 1 ELSE cmd_history_size
     /\ cmd_history' = HistoryWith(cmd, cmd_history_size')
     /\ cur_cmd_in_history' = FALSE
     /\ UNCHANGED cmd_history_idx

UpdateCmdHistory ==
  \/ /\ IsCmdEmpty(cmd)
     /\ UNCHANGED history
  \/ /\ ~IsCmdEmpty(cmd)
     /\ cmd_history_size' = IF cmd_history_size < CMD_HISTORY_MAX_SIZE
                            THEN cmd_history_size + 1 ELSE cmd_history_size
     /\ cmd_history' = HistoryWith(cmd, cmd_history_size')
     /\ cmd_history_idx' = 0
     /\ cur_cmd_in_history' = FALSE

(* Mutant: the draft is put aside whenever browsing starts.                *)
DraftAlways == cmd_history_idx = 0

(* The command being typed is put aside the first time only.               *)
SavesDraft == cmd_history_idx = 0 /\ ~cur_cmd_in_history

InputProcessUp ==
  /\ cmd_history_idx < cmd_history_size
  /\ \/ /\ SavesDraft
        /\ cmd_history' = [cmd_history EXCEPT ![0] = cmd]
        /\ cur_cmd_in_history' = TRUE
     \/ /\ ~SavesDraft
        /\ UNCHANGED <<cmd_history, cur_cmd_in_history>>
  /\ cmd_history_idx' = cmd_history_idx + 1
  /\ ReplaceParserCmd(cmd_history'[cmd_history_idx'])
  /\ RePrintCmd(last)
  /\ UNCHANGED <<cmd_history_size, running>>

InputProcessDown ==
  /\ cmd_history_idx > 0
  /\ cmd_history_idx' = cmd_history_idx - 1
  /\ ReplaceParserCmd(cmd_history[cmd_history_idx'])
  /\ RePrintCmd(last)
  /\ UNCHANGED <<cmd_history, cmd_history_size, cur_cmd_in_history, running>>

-----------------------------------------------------------------------------
(* Keys that start a new line.                                             *)

(* The parser runs the command; exit is TRUE when it was a "quit" that the
   tree of the top mode has.                                               *)
InputProcessEnter(exit) ==
  /\ UpdateCmdHistory
  /\ cmd' = <<>> /\ cmd_next_idx' = 0
  /\ RefreshScr(PromptLine)
  /\ running' = ~exit

InputProcessQuestionMark ==
  /\ UNCHANGED read_ctx
  /\ RePrintCmd(FreshLine)
  /\ UNCHANGED <<history, running>>

(* Tab, when the parser's answer has no line to replace the command with.  *)
InputProcessTabKeep ==
  /\ UNCHANGED read_ctx
  /\ RePrintCmd(FreshLine)
  /\ UNCHANGED <<history, running>>

(* Tab: the first line of the answer replaces the command.                 *)
InputProcessTab(text) ==
  /\ ReplaceParserCmd(text)
  /\ RePrintCmd(FreshLine)
  /\ UNCHANGED <<history, running>>

(* Mutant: the command is printed before it is emptied.                    *)
CtrlPrintsFirst ==
  /\ cmd' = <<>> /\ cmd_next_idx' = 0
  /\ \E l \in Replaced(FreshLine, cmd) : RefreshScr(l)
  /\ UNCHANGED <<history, running>>

(* Ctrl-C; Ctrl-Z also returns to the top mode.                            *)
InputProcessCtrl ==
  /\ ReplaceParserCmd(<<>>)
  /\ RePrintCmd(FreshLine)
  /\ UNCHANGED <<history, running>>

(* Page up and page down print another part of the console; the cursor may
   end in any column.                                                      *)
InputProcessScroll ==
  /\ cursor' \in Column
  /\ scrolled' = TRUE
  /\ UNCHANGED <<read_ctx, history, last, running>>

(* A resize prints the end of the console.                                 *)
InputProcessResize ==
  /\ RefreshScr(last)
  /\ UNCHANGED <<read_ctx, history, running>>

-----------------------------------------------------------------------------

Init ==
  /\ cmd = <<>> /\ cmd_next_idx = 0
  /\ cmd_history = [i \in HistoryIdx |-> <<>>]
  /\ cmd_history_size = 0 /\ cmd_history_idx = 0 /\ cur_cmd_in_history = FALSE
  /\ last = PromptLine /\ cursor = PS_LEN
  /\ scrolled = FALSE
  /\ running = TRUE

(* input_key_process() on one key.                                         *)
Key ==
  \/ \E c \in Char : InputProcessText(c)
  \/ InputProcessBackspace
  \/ InputProcessDel
  \/ InputProcessHome
  \/ InputProcessEnd
  \/ InputProcessRight
  \/ InputProcessLeft
  \/ InputProcessUp
  \/ InputProcessDown
  \/ \E exit \in BOOLEAN : InputProcessEnter(exit)
  \/ InputProcessQuestionMark
  \/ InputProcessTabKeep
  \/ \E text \in Fill : InputProcessTab(text)
  \/ InputProcessCtrl
  \/ InputProcessScroll
  \/ InputProcessResize

Next == running /\ Key

Spec == Init /\ [][Next]_vars

-----------------------------------------------------------------------------

(* Every variable has its type.  The insertion point is inside the text,
   or memmove() would be given a negative length; the browser is inside the
   history, or an entry never written would be run.                        *)
TypeOK ==
  /\ cmd \in Seq(Char) /\ Len(cmd) <= CMD_MAX_LEN
  /\ cmd_next_idx \in 0 .. Len(cmd)
  /\ cmd_history \in [HistoryIdx -> Seq(Char)]
  /\ \A i \in HistoryIdx : Len(cmd_history[i]) <= CMD_MAX_LEN
  /\ cmd_history_size \in HistoryIdx
  /\ cmd_history_idx \in 0 .. cmd_history_size
  /\ cur_cmd_in_history \in BOOLEAN
  /\ last \in [ps : BOOLEAN, text : Seq(Char), big : BOOLEAN]
  /\ Len(last.text) <= CMD_MAX_LEN
  /\ cursor \in Column
  /\ scrolled \in BOOLEAN
  /\ running \in BOOLEAN

(* Whatever keys were pressed, the command that Enter would run is the one
   on the screen, unless calloc() failed for a line too long for a slot;
   then the line is one that fits.                                         *)
ShownIsRun ==
  /\ last.big \/ Len(cmd) <= SLOT_ROOM => last.ps /\ last.text = cmd
  /\ ~last.big => Len(last.text) <= SLOT_ROOM

(* A remembered command is never blank, and entry 0 is empty unless it
   holds a draft; while browsing it does.                                  *)
HistoryEntries ==
  /\ \A i \in 1 .. cmd_history_size : ~IsCmdEmpty(cmd_history[i])
  /\ ~cur_cmd_in_history => cmd_history_idx = 0 /\ cmd_history[0] = <<>>

(* With the command on the screen, the cursor may be right of the place where
   the next character goes, never left of it.                              *)
CursorNotBefore ==
  ~scrolled /\ last.ps /\ last.text = cmd => cursor >= PS_LEN + cmd_next_idx

(* The text, the insertion point, the history, the place in it and the
   cursor agree after any sequence of keys.                                *)
EditorConsistent == TypeOK /\ HistoryEntries /\ CursorNotBefore

-----------------------------------------------------------------------------
(* The command line implements the line editor of module LineEdit.         *)

Promise == INSTANCE LineEdit WITH
  Room   <- CMD_MAX_LEN,
  Keep   <- CMD_HISTORY_MAX_SIZE,
  before <- SubSeq(cmd, 1, cmd_next_idx),
  after  <- SubSeq(cmd, cmd_next_idx + 1, Len(cmd)),
  past   <- [i \in 1 .. cmd_history_size |-> cmd_history[i]],
  place  <- cmd_history_idx,
  draft  <- IF cur_cmd_in_history THEN <<cmd_history[0]>> ELSE <<>>

(* Every key is a step of the line editor or changes nothing it shows.     *)
KeepsPromise == Promise!ESpec

(* "where the cursor locating" (gvd_main.c:33): with the end of the console
   on the screen and the command printed, the cursor is where the next
   character goes.                                                         *)
CursorAtIdx ==
  ~scrolled /\ last.ps /\ last.text = cmd => cursor = PS_LEN + cmd_next_idx

=============================================================================
