-------------------------- MODULE CommandLineProofs --------------------------
(***************************************************************************)
(* Proofs about the command line, for every size of command and history,   *)
(* every alphabet and every answer of the parser.                          *)
(*                                                                         *)
(* IInv is inductive.  TypeOK needs ShownIsRun, for the cursor stays on    *)
(* the screen only because the line printed is never longer than a command.*)
(***************************************************************************)
EXTENDS CommandLine, SequenceTheorems, TLAPS

Line == [ps : BOOLEAN, text : Seq(Char), big : BOOLEAN]

IInv == TypeOK /\ ShownIsRun /\ HistoryEntries

-----------------------------------------------------------------------------
(* The operations on text.                                                 *)

LEMMA InsertAtType ==
  ASSUME NEW S, NEW s \in Seq(S), NEW i \in 1 .. Len(s) + 1, NEW e \in S
  PROVE  /\ InsertAt(s, i, e) \in Seq(S)
         /\ Len(InsertAt(s, i, e)) = Len(s) + 1
<1> DEFINE l == SubSeq(s, 1, i - 1)
           r == SubSeq(s, i, Len(s))
<1>1. l \in Seq(S) /\ Len(l) = i - 1
  BY SubSeqProperties
<1>2. r \in Seq(S) /\ Len(r) = Len(s) - i + 1
  BY SubSeqProperties
<1>3. <<e>> \in Seq(S) /\ Len(<<e>>) = 1
  OBVIOUS
<1> DEFINE t == l \o <<e>>
<1>4. t \in Seq(S) /\ Len(t) = i
  BY <1>1, <1>3, ConcatProperties
<1> HIDE DEF l, r, t
<1>5. t \o r \in Seq(S) /\ Len(t \o r) = i + (Len(s) - i + 1)
  BY <1>2, <1>4, ConcatProperties
<1>6. InsertAt(s, i, e) = t \o r
  BY DEF InsertAt, l, r, t
<1> QED
  BY <1>5, <1>6

LEMMA RemoveAtType ==
  ASSUME NEW S, NEW s \in Seq(S), NEW i \in 1 .. Len(s)
  PROVE  /\ RemoveAt(s, i) \in Seq(S)
         /\ Len(RemoveAt(s, i)) = Len(s) - 1
<1> DEFINE l == SubSeq(s, 1, i - 1)
           r == SubSeq(s, i + 1, Len(s))
<1>1. l \in Seq(S) /\ Len(l) = i - 1
  BY SubSeqProperties
<1>2. r \in Seq(S) /\ Len(r) = Len(s) - i
  BY SubSeqProperties
<1> HIDE DEF l, r
<1>3. l \o r \in Seq(S) /\ Len(l \o r) = Len(l) + Len(r)
  BY <1>1, <1>2, ConcatProperties
<1>4. RemoveAt(s, i) = l \o r
  BY DEF RemoveAt, l, r
<1>5. Len(s) \in Nat /\ Len(l) + Len(r) = Len(s) - 1
  BY <1>1, <1>2
<1> QED
  BY <1>3, <1>4, <1>5

LEMMA ReplaceType ==
  ASSUME NEW text \in Seq(Char), ReplaceParserCmd(text)
  PROVE  /\ cmd' \in Seq(Char) /\ Len(cmd') <= CMD_MAX_LEN
         /\ cmd_next_idx' \in 0 .. Len(cmd')
<1> DEFINE n == IF Len(text) > CMD_MAX_LEN THEN CMD_MAX_LEN ELSE Len(text)
<1>1. n \in 0 .. Len(text) /\ n <= CMD_MAX_LEN
  BY SizeAssumption
<1>2. cmd' = SubSeq(text, 1, n) /\ cmd_next_idx' = Len(cmd')
  BY DEF ReplaceParserCmd
<1> HIDE DEF n
<1>3. cmd' \in Seq(Char) /\ Len(cmd') = n
  BY <1>1, <1>2, SubSeqProperties
<1> QED
  BY <1>1, <1>2, <1>3

(* What ShownIsRun says of a line l and a command c.                       *)
Shows(l, c) ==
  /\ l.big \/ Len(c) <= SLOT_ROOM => l.ps /\ l.text = c
  /\ ~l.big => Len(l.text) <= SLOT_ROOM

(* Printing a command on any line that fits its buffer shows it, or leaves
   a line that fits a slot.                                                *)
LEMMA ReplacedShows ==
  ASSUME NEW l \in Line, Len(l.text) <= CMD_MAX_LEN,
         ~l.big => Len(l.text) <= SLOT_ROOM,
         NEW c \in Seq(Char), Len(c) <= CMD_MAX_LEN,
         NEW r \in Replaced(l, c)
  PROVE  /\ r \in Line /\ Len(r.text) <= CMD_MAX_LEN
         /\ Shows(r, c)
<1> DEFINE outgrows == ~l.big /\ Len(c) > SLOT_ROOM
<1>0. Len(c) \in Nat /\ SLOT_ROOM \in Nat
  BY SizeAssumption
<1>1. CASE r = [ps |-> TRUE, text |-> c, big |-> l.big \/ outgrows]
  <2>1. r \in Line /\ r.ps = TRUE /\ r.text = c /\ r.big = (l.big \/ outgrows)
    BY <1>1 DEF Line
  <2>2. r.ps /\ r.text = c
    BY <2>1
  <2>3. ~r.big => ~l.big /\ ~(Len(c) > SLOT_ROOM)
    BY <2>1
  <2>4. ~r.big => Len(r.text) <= SLOT_ROOM
    BY <1>0, <2>2, <2>3
  <2> QED
    BY <2>1, <2>2, <2>4 DEF Shows
<1>2. CASE outgrows /\ r = l
  BY <1>0, <1>2 DEF Shows
<1> QED
  BY <1>1, <1>2 DEF Replaced

LEMMA EndOnScreen ==
  ASSUME NEW l \in Line, Len(l.text) <= CMD_MAX_LEN
  PROVE  EndOf(l) \in Column
BY SizeAssumption DEF Line, EndOf, Column

LEMMA FreshLineType ==
  /\ FreshLine \in Line /\ FreshLine.text = <<>> /\ ~FreshLine.big
  /\ PromptLine \in Line /\ PromptLine.text = <<>> /\ ~PromptLine.big
  /\ PromptLine.ps
BY DEF FreshLine, PromptLine, Line

-----------------------------------------------------------------------------
(* What a key leaves of the command, of the screen and of the history.     *)

CmdOK ==
  /\ cmd \in Seq(Char) /\ Len(cmd) <= CMD_MAX_LEN
  /\ cmd_next_idx \in 0 .. Len(cmd)

ScreenOK ==
  /\ last \in Line /\ Len(last.text) <= CMD_MAX_LEN
  /\ Shows(last, cmd)
  /\ cursor \in Column
  /\ scrolled \in BOOLEAN

HistoryOK ==
  /\ cmd_history \in [HistoryIdx -> Seq(Char)]
  /\ \A i \in HistoryIdx : Len(cmd_history[i]) <= CMD_MAX_LEN
  /\ cmd_history_size \in HistoryIdx
  /\ cmd_history_idx \in 0 .. cmd_history_size
  /\ cur_cmd_in_history \in BOOLEAN
  /\ HistoryEntries

LEMMA IInvParts == IInv <=> CmdOK /\ ScreenOK /\ HistoryOK /\ running \in BOOLEAN
BY DEF IInv, TypeOK, ShownIsRun, CmdOK, ScreenOK, HistoryOK, Shows, Line

LEMMA RefreshKeeps ==
  ASSUME NEW l \in Line, Len(l.text) <= CMD_MAX_LEN, Shows(l, cmd'),
         RefreshScr(l)
  PROVE  ScreenOK'
BY EndOnScreen DEF RefreshScr, ScreenOK, Shows

LEMMA RePrintKeeps ==
  ASSUME NEW l \in Line, Len(l.text) <= CMD_MAX_LEN,
         ~l.big => Len(l.text) <= SLOT_ROOM, CmdOK', RePrintCmd(l)
  PROVE  ScreenOK'
<1>1. PICK r \in Replaced(l, cmd') : RefreshScr(r)
  BY DEF RePrintCmd
<1>2. r \in Line /\ Len(r.text) <= CMD_MAX_LEN /\ Shows(r, cmd')
  BY ReplacedShows DEF CmdOK
<1> QED
  BY <1>1, <1>2, RefreshKeeps

LEMMA RePrintAndAdjustKeeps ==
  ASSUME ScreenOK, CmdOK', RePrintAndAdjust
  PROVE  ScreenOK'
<1>1. last' \in Line /\ Len(last'.text) <= CMD_MAX_LEN /\ Shows(last', cmd')
  BY ReplacedShows DEF CmdOK, ScreenOK, Shows, RePrintAndAdjust
<1>2. cursor' \in Column
  <2>1. /\ Len(cmd') \in Nat /\ Len(cmd') <= CMD_MAX_LEN
        /\ cmd_next_idx' \in 0 .. Len(cmd')
        /\ cursor' = PS_LEN + cmd_next_idx'
    BY DEF RePrintAndAdjust, CmdOK
  <2>2. cmd_next_idx' \in Nat /\ cmd_next_idx' <= CMD_MAX_LEN
    BY <2>1, SizeAssumption
  <2>3. \A n \in Nat : n <= CMD_MAX_LEN => PS_LEN + n \in Column
    BY SizeAssumption DEF Column
  <2> QED
    BY <2>1, <2>2, <2>3
<1> QED
  BY <1>1, <1>2 DEF ScreenOK, Shows, RePrintAndAdjust

LEMMA RePrintFresh ==
  ASSUME CmdOK', RePrintCmd(FreshLine)
  PROVE  ScreenOK'
BY FreshLineType, RePrintKeeps, SizeAssumption

LEMMA HistoryWithKeeps ==
  ASSUME HistoryOK, CmdOK, ~IsCmdEmpty(cmd), NEW size \in 1 .. CMD_HISTORY_MAX_SIZE,
         size <= cmd_history_size + 1
  PROVE  /\ HistoryWith(cmd, size) \in [HistoryIdx -> Seq(Char)]
         /\ \A i \in HistoryIdx : Len(HistoryWith(cmd, size)[i]) <= CMD_MAX_LEN
         /\ \A i \in 1 .. size : ~IsCmdEmpty(HistoryWith(cmd, size)[i])
         /\ HistoryWith(cmd, size)[0] = <<>>
<1> DEFINE h == HistoryWith(cmd, size)
<1>1. ASSUME NEW i \in HistoryIdx
      PROVE  h[i] \in Seq(Char) /\ Len(h[i]) <= CMD_MAX_LEN
  <2>1. CASE i = 0
    BY <2>1, SizeAssumption DEF HistoryWith
  <2>2. CASE i = 1
    BY <2>2 DEF HistoryWith, CmdOK
  <2>3. CASE i > 1 /\ i <= size
    <3>1. i - 1 \in HistoryIdx /\ h[i] = cmd_history[i - 1]
      BY <2>3, SizeAssumption DEF HistoryWith, HistoryIdx
    <3> QED
      BY <3>1 DEF HistoryOK
  <2>4. CASE i > 1 /\ ~(i <= size)
    <3>1. h[i] = cmd_history[i]
      BY <2>4 DEF HistoryWith, HistoryIdx
    <3> QED
      BY <3>1 DEF HistoryOK
  <2> QED
    BY <2>1, <2>2, <2>3, <2>4 DEF HistoryIdx
<1>2. ASSUME NEW i \in 1 .. size
      PROVE  ~IsCmdEmpty(h[i])
  <2>1. i \in HistoryIdx
    BY SizeAssumption DEF HistoryIdx
  <2>2. CASE i = 1
    BY <2>1, <2>2 DEF HistoryWith
  <2>3. CASE i > 1
    <3>1. i - 1 \in 1 .. cmd_history_size /\ h[i] = cmd_history[i - 1]
      BY <2>1, <2>3, SizeAssumption DEF HistoryWith, HistoryOK, HistoryIdx
    <3> QED
      BY <3>1 DEF HistoryOK, HistoryEntries
  <2> QED
    BY <2>2, <2>3
<1>3. h[0] = <<>>
  BY SizeAssumption DEF HistoryWith, HistoryIdx
<1>4. h \in [HistoryIdx -> Seq(Char)]
  <2>1. h = [i \in HistoryIdx |-> h[i]]
    BY DEF HistoryWith
  <2> QED
    BY <1>1, <2>1
<1> QED
  BY <1>1, <1>2, <1>3, <1>4

LEMMA UpdateKeeps ==
  ASSUME HistoryOK, CmdOK, UpdateCmdHistory
  PROVE  HistoryOK'
<1>1. CASE UNCHANGED history
  BY <1>1 DEF HistoryOK, HistoryEntries, history
<1>2. CASE ~IsCmdEmpty(cmd) /\ ~UNCHANGED history
  <2>1. /\ cmd_history_size' \in 1 .. CMD_HISTORY_MAX_SIZE
        /\ cmd_history_size' <= cmd_history_size + 1
    BY <1>2, SizeAssumption DEF UpdateCmdHistory, HistoryOK, HistoryIdx
  <2>2. /\ cmd_history' = HistoryWith(cmd, cmd_history_size')
        /\ cmd_history_idx' = 0 /\ cur_cmd_in_history' = FALSE
    BY <1>2 DEF UpdateCmdHistory
  <2>3. /\ cmd_history' \in [HistoryIdx -> Seq(Char)]
        /\ \A i \in HistoryIdx : Len(cmd_history'[i]) <= CMD_MAX_LEN
        /\ \A i \in 1 .. cmd_history_size' : ~IsCmdEmpty(cmd_history'[i])
        /\ cmd_history'[0] = <<>>
    BY <1>2, <2>1, <2>2, HistoryWithKeeps
  <2>4. HistoryEntries'
    BY <2>2, <2>3 DEF HistoryEntries
  <2>5. cmd_history_size' \in HistoryIdx /\ cmd_history_idx' \in 0 .. cmd_history_size'
    BY <2>1, <2>2, SizeAssumption DEF HistoryIdx
  <2> QED
    BY <2>2, <2>3, <2>4, <2>5 DEF HistoryOK
<1> QED
  BY <1>1, <1>2 DEF UpdateCmdHistory

-----------------------------------------------------------------------------
(* The invariant.                                                          *)

LEMMA InitIInv == Init => IInv
<1> SUFFICES ASSUME Init PROVE CmdOK /\ ScreenOK /\ HistoryOK /\ running \in BOOLEAN
  BY IInvParts
<1>1. CmdOK
  BY SizeAssumption DEF Init, CmdOK
<1>2. ScreenOK
  <2>1. last \in Line /\ last.text = <<>> /\ last.ps /\ ~last.big
    BY FreshLineType DEF Init
  <2>2. Shows(last, cmd)
    BY <2>1, SizeAssumption DEF Init, Shows
  <2>3. cursor \in Column
    BY SizeAssumption DEF Init, Column
  <2> QED
    <3>1. Len(last.text) <= CMD_MAX_LEN
      BY <2>1, SizeAssumption
    <3>2. scrolled \in BOOLEAN
      BY DEF Init
    <3> QED
      BY <2>1, <2>2, <2>3, <3>1, <3>2 DEF ScreenOK
<1>3. HistoryOK
  <2>1. 0 \in HistoryIdx
    BY SizeAssumption DEF HistoryIdx
  <2>2. cmd_history \in [HistoryIdx -> Seq(Char)]
    BY DEF Init
  <2>3. \A i \in HistoryIdx : Len(cmd_history[i]) <= CMD_MAX_LEN
    BY SizeAssumption DEF Init
  <2>4. HistoryEntries
    BY <2>1 DEF Init, HistoryEntries
  <2> QED
    BY <2>1, <2>2, <2>3, <2>4 DEF Init, HistoryOK
<1> QED
  BY <1>1, <1>2, <1>3 DEF Init

LEMMA KeyKeeps ==
  ASSUME IInv, Key
  PROVE  IInv'
<1>0. CmdOK /\ ScreenOK /\ HistoryOK /\ running \in BOOLEAN
  BY IInvParts
<1> SUFFICES CmdOK' /\ ScreenOK' /\ HistoryOK' /\ running' \in BOOLEAN
  BY IInvParts DEF IInv, TypeOK, ShownIsRun, HistoryEntries, CmdOK, ScreenOK,
                   HistoryOK, Shows, Line
<1>h. UNCHANGED history => HistoryOK'
  BY <1>0 DEF HistoryOK, HistoryEntries, history
<1>s. UNCHANGED <<cmd, last, scrolled>> /\ cursor' \in Column => ScreenOK'
  BY <1>0 DEF ScreenOK, Shows
<1>1. ASSUME NEW c \in Char, InputProcessText(c)
      PROVE  CmdOK' /\ ScreenOK' /\ HistoryOK' /\ running' \in BOOLEAN
  <2>1. cmd' \in Seq(Char) /\ Len(cmd') = Len(cmd) + 1
    BY <1>0, <1>1, InsertAtType DEF InputProcessText, CmdOK
  <2>2. CmdOK'
    BY <1>0, <1>1, <2>1, SizeAssumption DEF InputProcessText, CmdOK
  <2> QED
    BY <1>0, <1>1, <1>h, <2>2, RePrintAndAdjustKeeps DEF InputProcessText
<1>2. CASE InputProcessBackspace
  <2>1. cmd' \in Seq(Char) /\ Len(cmd') = Len(cmd) - 1
    BY <1>0, <1>2, RemoveAtType DEF InputProcessBackspace, CmdOK
  <2>2. CmdOK'
    BY <1>0, <1>2, <2>1, SizeAssumption DEF InputProcessBackspace, CmdOK
  <2> QED
    BY <1>0, <1>2, <1>h, <2>2, RePrintAndAdjustKeeps DEF InputProcessBackspace
<1>3. CASE InputProcessDel
  <2>1. cmd' \in Seq(Char) /\ Len(cmd') = Len(cmd) - 1
    BY <1>0, <1>3, RemoveAtType DEF InputProcessDel, CmdOK
  <2>2. CmdOK'
    BY <1>0, <1>3, <2>1, SizeAssumption DEF InputProcessDel, CmdOK
  <2> QED
    BY <1>0, <1>3, <1>h, <2>2, RePrintAndAdjustKeeps DEF InputProcessDel
<1>4. CASE InputProcessHome
  <2>1. cursor' \in Column
    BY <1>4, SizeAssumption DEF InputProcessHome, Column
  <2> QED
    BY <1>0, <1>4, <1>h, <1>s, <2>1 DEF InputProcessHome, CmdOK
<1>5. CASE InputProcessEnd
  <2>1. cursor' \in Column
    BY <1>0, <1>5, SizeAssumption DEF InputProcessEnd, CmdOK, Column
  <2> QED
    BY <1>0, <1>5, <1>h, <1>s, <2>1 DEF InputProcessEnd, CmdOK
<1>m. \A pos : Moved(pos) \in Column
  BY <1>0 DEF Moved, ScreenOK
<1>6. CASE InputProcessRight
  BY <1>0, <1>6, <1>h, <1>s, <1>m DEF InputProcessRight, CmdOK
<1>7. CASE InputProcessLeft
  BY <1>0, <1>7, <1>h, <1>s, <1>m DEF InputProcessLeft, CmdOK
<1>8. CASE InputProcessUp
  <2>1. cmd_history_idx' \in 1 .. cmd_history_size
    BY <1>0, <1>8 DEF InputProcessUp, HistoryOK, HistoryIdx
  <2>2. HistoryOK'
    <3>1. CASE SavesDraft /\ cmd_history' = [cmd_history EXCEPT ![0] = cmd]
                          /\ cur_cmd_in_history' = TRUE
      <4>1. /\ cmd_history' \in [HistoryIdx -> Seq(Char)]
            /\ \A i \in HistoryIdx : Len(cmd_history'[i]) <= CMD_MAX_LEN
            /\ \A i \in HistoryIdx \ {0} : cmd_history'[i] = cmd_history[i]
        BY <1>0, <3>1 DEF HistoryOK, CmdOK
      <4>2. \A i \in 1 .. cmd_history_size : i \in HistoryIdx \ {0}
        BY <1>0, SizeAssumption DEF HistoryOK, HistoryIdx
      <4> QED
        BY <1>0, <1>8, <2>1, <3>1, <4>1, <4>2
        DEF InputProcessUp, HistoryOK, HistoryEntries
    <3>2. CASE ~SavesDraft /\ UNCHANGED <<cmd_history, cur_cmd_in_history>>
      <4>1. cur_cmd_in_history
        BY <1>0, <3>2 DEF SavesDraft, HistoryOK, HistoryEntries
      <4> QED
        BY <1>0, <1>8, <2>1, <3>2, <4>1
        DEF InputProcessUp, HistoryOK, HistoryEntries
    <3> QED
      BY <1>8, <3>1, <3>2 DEF InputProcessUp
  <2>3. cmd_history'[cmd_history_idx'] \in Seq(Char)
    <3>1. cmd_history_idx' \in HistoryIdx
      BY <1>0, <2>1, SizeAssumption DEF HistoryOK, HistoryIdx
    <3> QED
      BY <2>2, <3>1 DEF HistoryOK
  <2>4. CmdOK'
    BY <1>8, <2>3, ReplaceType DEF InputProcessUp, CmdOK
  <2>5. ScreenOK'
    BY <1>0, <1>8, <2>4, RePrintKeeps DEF InputProcessUp, ScreenOK, Shows
  <2> QED
    BY <1>0, <1>8, <2>2, <2>4, <2>5 DEF InputProcessUp
<1>9. CASE InputProcessDown
  <2>1. cmd_history_idx' \in 0 .. cmd_history_size
    BY <1>0, <1>9 DEF InputProcessDown, HistoryOK, HistoryIdx
  <2>2. cmd_history[cmd_history_idx'] \in Seq(Char)
    <3>1. cmd_history_idx' \in HistoryIdx
      BY <1>0, <2>1, SizeAssumption DEF HistoryOK, HistoryIdx
    <3> QED
      BY <1>0, <3>1 DEF HistoryOK
  <2>3. HistoryOK'
    BY <1>0, <1>9, <2>1 DEF InputProcessDown, HistoryOK, HistoryEntries
  <2>4. CmdOK'
    BY <1>9, <2>2, ReplaceType DEF InputProcessDown, CmdOK
  <2>5. ScreenOK'
    BY <1>0, <1>9, <2>4, RePrintKeeps DEF InputProcessDown, ScreenOK, Shows
  <2> QED
    BY <1>0, <1>9, <2>3, <2>4, <2>5 DEF InputProcessDown
<1>10. ASSUME NEW exit \in BOOLEAN, InputProcessEnter(exit)
       PROVE  CmdOK' /\ ScreenOK' /\ HistoryOK' /\ running' \in BOOLEAN
  <2>1. CmdOK'
    BY <1>10, SizeAssumption DEF InputProcessEnter, CmdOK
  <2>2. Shows(PromptLine, cmd')
    BY <1>10, FreshLineType, SizeAssumption DEF InputProcessEnter, Shows
  <2>3. ScreenOK'
    BY <1>10, <2>2, FreshLineType, RefreshKeeps, SizeAssumption DEF InputProcessEnter
  <2> QED
    BY <1>0, <1>10, <2>1, <2>3, UpdateKeeps DEF InputProcessEnter
<1>11. CASE InputProcessQuestionMark
  BY <1>0, <1>11, <1>h, RePrintFresh DEF InputProcessQuestionMark, CmdOK, read_ctx
<1>12. CASE InputProcessTabKeep
  BY <1>0, <1>12, <1>h, RePrintFresh DEF InputProcessTabKeep, CmdOK, read_ctx
<1>13. ASSUME NEW text \in Fill, InputProcessTab(text)
       PROVE  CmdOK' /\ ScreenOK' /\ HistoryOK' /\ running' \in BOOLEAN
  <2>1. CmdOK'
    BY <1>13, CharAssumption, ReplaceType DEF InputProcessTab, CmdOK
  <2> QED
    BY <1>0, <1>13, <1>h, <2>1, RePrintFresh DEF InputProcessTab
<1>14. CASE InputProcessCtrl
  <2>1. CmdOK'
    <3>1. <<>> \in Seq(Char)
      OBVIOUS
    <3> QED
      BY <1>14, <3>1, ReplaceType DEF InputProcessCtrl, CmdOK
  <2> QED
    BY <1>0, <1>14, <1>h, <2>1, RePrintFresh DEF InputProcessCtrl
<1>15. CASE InputProcessScroll
  BY <1>0, <1>15, <1>h DEF InputProcessScroll, CmdOK, ScreenOK, Shows, read_ctx
<1>16. CASE InputProcessResize
  <2>1. CmdOK'
    BY <1>0, <1>16 DEF InputProcessResize, CmdOK, read_ctx
  <2>2. ScreenOK'
    BY <1>0, <1>16, RefreshKeeps DEF InputProcessResize, ScreenOK, Shows, read_ctx
  <2> QED
    BY <1>0, <1>16, <1>h, <2>1, <2>2 DEF InputProcessResize
<1> QED
  BY <1>1, <1>2, <1>3, <1>4, <1>5, <1>6, <1>7, <1>8, <1>9, <1>10, <1>11, <1>12,
     <1>13, <1>14, <1>15, <1>16 DEF Key

LEMMA StepIInv == IInv /\ [Next]_vars => IInv'
<1> SUFFICES ASSUME IInv, [Next]_vars PROVE IInv'
  OBVIOUS
<1>1. CASE Next
  BY <1>1, KeyKeeps DEF Next
<1>2. CASE UNCHANGED vars
  BY <1>2 DEF IInv, TypeOK, ShownIsRun, HistoryEntries, vars
<1> QED
  BY <1>1, <1>2

LEMMA Invariance == Spec => []IInv
BY InitIInv, StepIInv, PTL DEF Spec

-----------------------------------------------------------------------------
(* The cursor.                                                             *)

(* refresh_scr() leaves the cursor at the end of what it printed.          *)
LEMMA RefreshNotBefore ==
  ASSUME NEW l \in Line, CmdOK', RefreshScr(l)
  PROVE  CursorNotBefore'
<1>1. CASE l.ps /\ l.text = cmd'
  <2>1. cursor' = PS_LEN + Len(cmd')
    BY <1>1 DEF RefreshScr, EndOf
  <2> QED
    BY <2>1, SizeAssumption DEF CmdOK, CursorNotBefore
<1>2. CASE ~(l.ps /\ l.text = cmd')
  BY <1>2 DEF RefreshScr, CursorNotBefore
<1> QED
  BY <1>1, <1>2

LEMMA RePrintNotBefore ==
  ASSUME NEW l \in Line, Len(l.text) <= CMD_MAX_LEN,
         ~l.big => Len(l.text) <= SLOT_ROOM, CmdOK', RePrintCmd(l)
  PROVE  CursorNotBefore'
<1>1. PICK r \in Replaced(l, cmd') : RefreshScr(r)
  BY DEF RePrintCmd
<1>2. r \in Line
  BY ReplacedShows DEF CmdOK
<1> QED
  BY <1>1, <1>2, RefreshNotBefore

LEMMA AdjustNotBefore ==
  ASSUME CmdOK', cursor' = PS_LEN + cmd_next_idx'
  PROVE  CursorNotBefore'
<1>1. PS_LEN + cmd_next_idx' \in Int
  BY SizeAssumption DEF CmdOK
<1> QED
  BY <1>1 DEF CursorNotBefore

LEMMA KeyNotBefore ==
  ASSUME IInv, IInv', CursorNotBefore, Key
  PROVE  CursorNotBefore'
<1>0. CmdOK /\ ScreenOK /\ HistoryOK
  BY IInvParts
<1>1. CmdOK'
  BY DEF IInv, TypeOK, CmdOK
<1>f. FreshLine \in Line /\ FreshLine.text = <<>> /\ PromptLine \in Line
  BY FreshLineType
<1>l. /\ Len(FreshLine.text) <= CMD_MAX_LEN /\ Len(FreshLine.text) <= SLOT_ROOM
      /\ last \in Line /\ Len(last.text) <= CMD_MAX_LEN
      /\ ~last.big => Len(last.text) <= SLOT_ROOM
  BY <1>0, <1>f, SizeAssumption DEF ScreenOK, Shows
<1>2. CASE \/ \E c \in Char : InputProcessText(c)
           \/ InputProcessBackspace
           \/ InputProcessDel
  BY <1>1, <1>2, AdjustNotBefore
  DEF InputProcessText, InputProcessBackspace, InputProcessDel, RePrintAndAdjust
<1>3. CASE InputProcessHome \/ InputProcessEnd
  <2>1. cursor' = PS_LEN + cmd_next_idx'
    BY <1>3, SizeAssumption DEF InputProcessHome, InputProcessEnd
  <2> QED
    BY <1>1, <2>1, AdjustNotBefore
<1>4. CASE InputProcessRight
  <2>1. /\ UNCHANGED <<cmd, last, scrolled>> /\ cmd_next_idx' = cmd_next_idx + 1
        /\ cursor' = IF cursor + 1 \in Column THEN cursor + 1 ELSE cursor
    BY <1>4 DEF InputProcessRight, Moved
  <2>2. /\ cmd_next_idx' \in Nat /\ cmd_next_idx' <= CMD_MAX_LEN
        /\ cmd_next_idx \in Nat /\ cursor \in Column
    BY <1>0, <1>1, <2>1, SizeAssumption DEF CmdOK, ScreenOK
  <2>3. ASSUME cursor + 1 \notin Column
        PROVE  cursor >= PS_LEN + cmd_next_idx'
    <3>1. cursor \in Int /\ cursor >= COLS - 1
      BY <2>2, <2>3, SizeAssumption DEF Column
    <3>2. \A n \in Nat : n <= CMD_MAX_LEN => PS_LEN + n <= COLS - 1
      BY SizeAssumption
    <3>3. \A n \in Nat : PS_LEN + n <= COLS - 1 => cursor >= PS_LEN + n
      BY <3>1, SizeAssumption
    <3> QED
      BY <2>2, <3>2, <3>3
  <2> QED
    BY <2>1, <2>2, <2>3, SizeAssumption DEF Column, CursorNotBefore
<1>5. CASE InputProcessLeft
  <2>1. /\ UNCHANGED <<cmd, last, scrolled>> /\ cmd_next_idx' = cmd_next_idx - 1
        /\ cursor' = IF cursor - 1 \in Column THEN cursor - 1 ELSE cursor
    BY <1>5 DEF InputProcessLeft, Moved
  <2>2. cmd_next_idx \in Nat /\ cursor \in Column
    BY <1>0 DEF CmdOK, ScreenOK
  <2> QED
    BY <2>1, <2>2, SizeAssumption DEF Column, CursorNotBefore
<1>6. CASE InputProcessUp \/ InputProcessDown
  BY <1>1, <1>l, <1>6, RePrintNotBefore DEF InputProcessUp, InputProcessDown
<1>7. CASE \E exit \in BOOLEAN : InputProcessEnter(exit)
  BY <1>1, <1>f, <1>7, RefreshNotBefore DEF InputProcessEnter
<1>8. CASE \/ InputProcessQuestionMark
           \/ InputProcessTabKeep
           \/ \E text \in Fill : InputProcessTab(text)
           \/ InputProcessCtrl
  <2>1. RePrintCmd(FreshLine)
    BY <1>8 DEF InputProcessQuestionMark, InputProcessTabKeep, InputProcessTab,
                InputProcessCtrl
  <2> QED
    BY <1>1, <1>f, <1>l, <2>1, RePrintNotBefore
<1>9. CASE InputProcessScroll
  BY <1>9 DEF InputProcessScroll, CursorNotBefore
<1>10. CASE InputProcessResize
  BY <1>1, <1>l, <1>10, RefreshNotBefore DEF InputProcessResize
<1> QED
  BY <1>2, <1>3, <1>4, <1>5, <1>6, <1>7, <1>8, <1>9, <1>10 DEF Key

LEMMA CursorInvariance == Spec => []CursorNotBefore
<1>1. Init => CursorNotBefore
  BY SizeAssumption DEF Init, CursorNotBefore
<1>2. IInv /\ IInv' /\ CursorNotBefore /\ [Next]_vars => CursorNotBefore'
  BY KeyNotBefore DEF Next, vars, CursorNotBefore
<1> QED
  BY <1>1, <1>2, Invariance, PTL DEF Spec

-----------------------------------------------------------------------------
(* Splitting a text: what insertion and removal do left and right of the
   place they happen at.                                                   *)
LEMMA Slice ==
  ASSUME NEW S, NEW s \in Seq(S), NEW m \in 1 .. Len(s) + 1, NEW n \in 0 .. Len(s)
  PROVE  /\ SubSeq(s, m, n) \in Seq(S)
         /\ Len(SubSeq(s, m, n)) = IF m <= n THEN n - m + 1 ELSE 0
         /\ \A i \in 1 .. n - m + 1 : SubSeq(s, m, n)[i] = s[m + i - 1]
<1>1. \A i \in m .. n : s[i] \in S
  OBVIOUS
<1> QED
  BY <1>1, SubSeqProperties

LEMMA SplitConcat ==
  ASSUME NEW S, NEW l \in Seq(S), NEW r \in Seq(S)
  PROVE  /\ SubSeq(l \o r, 1, Len(l)) = l
         /\ SubSeq(l \o r, Len(l) + 1, Len(l \o r)) = r
<1> DEFINE t == l \o r
<1>1. t \in Seq(S) /\ Len(t) = Len(l) + Len(r)
  BY ConcatProperties
<1>2. \A i \in 1 .. Len(l) + Len(r) : t[i] = IF i <= Len(l) THEN l[i] ELSE r[i - Len(l)]
  BY ConcatProperties
<1>0. Len(l) \in Nat /\ Len(r) \in Nat
  OBVIOUS
<1> HIDE DEF t
<1>3. SubSeq(t, 1, Len(l)) = l
  <2> DEFINE u == SubSeq(t, 1, Len(l))
  <2>1. u \in Seq(S) /\ Len(u) = Len(l) /\ \A i \in 1 .. Len(l) : u[i] = t[i]
    BY <1>0, <1>1, Slice
  <2>2. \A i \in 1 .. Len(u) : u[i] = l[i]
    BY <1>0, <1>2, <2>1
  <2> HIDE DEF u
  <2> QED
    BY <2>1, <2>2, SeqEqual DEF u
<1>4. SubSeq(t, Len(l) + 1, Len(t)) = r
  <2> DEFINE u == SubSeq(t, Len(l) + 1, Len(t))
  <2>1. /\ u \in Seq(S) /\ Len(u) = Len(r)
        /\ \A i \in 1 .. Len(r) : u[i] = t[Len(l) + i]
    <3>1. Len(l) + 1 \in 1 .. Len(t) + 1 /\ Len(t) \in 0 .. Len(t)
      BY <1>0, <1>1
    <3>2. /\ u \in Seq(S)
          /\ Len(u) = IF Len(l) + 1 <= Len(t) THEN Len(t) - (Len(l) + 1) + 1 ELSE 0
          /\ \A i \in 1 .. Len(t) - (Len(l) + 1) + 1 : u[i] = t[(Len(l) + 1) + i - 1]
      BY <1>1, <3>1, Slice
    <3>3. \A i \in 1 .. Len(r) : (Len(l) + 1) + i - 1 = Len(l) + i
      BY <1>0
    <3>4. Len(t) - (Len(l) + 1) + 1 = Len(r)
      BY <1>0, <1>1
    <3> HIDE DEF u
    <3> QED
      BY <1>0, <1>1, <3>2, <3>3, <3>4
  <2>2. \A i \in 1 .. Len(u) : u[i] = r[i]
    BY <1>0, <1>2, <2>1
  <2> HIDE DEF u
  <2> QED
    BY <2>1, <2>2, SeqEqual DEF u
<1> QED
  BY <1>3, <1>4 DEF t

LEMMA InsertSplits ==
  ASSUME NEW S, NEW s \in Seq(S), NEW i \in 0 .. Len(s), NEW e \in S
  PROVE  LET t == InsertAt(s, i + 1, e)
         IN  /\ SubSeq(t, 1, i + 1) = Append(SubSeq(s, 1, i), e)
             /\ SubSeq(t, i + 2, Len(t)) = SubSeq(s, i + 1, Len(s))
<1> DEFINE l == SubSeq(s, 1, i)
           r == SubSeq(s, i + 1, Len(s))
           m == l \o <<e>>
<1>1. l \in Seq(S) /\ Len(l) = i /\ r \in Seq(S)
  BY Slice
<1>0. (i + 1) - 1 = i
  OBVIOUS
<1>2. InsertAt(s, i + 1, e) = m \o r
  BY <1>0 DEF InsertAt
<1> HIDE DEF l, r
<1>3. <<e>> \in Seq(S) /\ Len(<<e>>) = 1
  OBVIOUS
<1>4. m \in Seq(S) /\ Len(m) = i + 1 /\ m = Append(l, e)
  BY <1>1, <1>3, ConcatProperties, AppendIsConcat
<1> HIDE DEF m
<1>5. SubSeq(m \o r, 1, i + 1) = m /\ SubSeq(m \o r, (i + 1) + 1, Len(m \o r)) = r
  BY <1>1, <1>4, SplitConcat
<1>6. (i + 1) + 1 = i + 2
  OBVIOUS
<1> QED
  BY <1>2, <1>4, <1>5, <1>6 DEF l, r

LEMMA RemoveSplits ==
  ASSUME NEW S, NEW s \in Seq(S), NEW i \in 1 .. Len(s)
  PROVE  LET t == RemoveAt(s, i)
         IN  /\ SubSeq(t, 1, i - 1) = SubSeq(s, 1, i - 1)
             /\ SubSeq(t, i, Len(t)) = SubSeq(s, i + 1, Len(s))
<1> DEFINE l == SubSeq(s, 1, i - 1)
           r == SubSeq(s, i + 1, Len(s))
<1>1. l \in Seq(S) /\ Len(l) = i - 1 /\ r \in Seq(S)
  BY Slice
<1>2. RemoveAt(s, i) = l \o r
  BY DEF RemoveAt
<1> HIDE DEF l, r
<1>3. SubSeq(l \o r, 1, i - 1) = l /\ SubSeq(l \o r, (i - 1) + 1, Len(l \o r)) = r
  BY <1>1, SplitConcat
<1>4. (i - 1) + 1 = i
  OBVIOUS
<1> QED
  BY <1>2, <1>3, <1>4 DEF l, r

(* The text is what is left and right of the insertion point.              *)
LEMMA SplitJoins ==
  ASSUME NEW S, NEW s \in Seq(S), NEW i \in 0 .. Len(s)
  PROVE  SubSeq(s, 1, i) \o SubSeq(s, i + 1, Len(s)) = s
<1>1. 1 \in 1 .. Len(s) + 1 /\ i \in (1 - 1) .. Len(s) /\ Len(s) \in i .. Len(s)
  OBVIOUS
<1>2. SubSeq(s, 1, i) \o SubSeq(s, i + 1, Len(s)) = SubSeq(s, 1, Len(s))
  BY <1>1, ConcatAdjacentSubSeq
<1> QED
  BY <1>2, SubSeqFull

LEMMA PrefixFront ==
  ASSUME NEW S, NEW s \in Seq(S), NEW i \in 1 .. Len(s)
  PROVE  /\ SubSeq(s, 1, i) # <<>>
         /\ Front(SubSeq(s, 1, i)) = SubSeq(s, 1, i - 1)
<1> DEFINE l == SubSeq(s, 1, i)
<1>1. l \in Seq(S) /\ Len(l) = i
  BY Slice
<1>2. l = SubSeq(s, 1, i - 1) \o <<s[i]>>
  BY SubSeqRecursiveSecond
<1>3. SubSeq(s, 1, i - 1) \in Seq(S) /\ Len(SubSeq(s, 1, i - 1)) = i - 1 /\ s[i] \in S
  BY Slice
<1>4. SubSeq(l, 1, i - 1) = SubSeq(s, 1, i - 1)
  BY <1>2, <1>3, SplitConcat
<1> HIDE DEF l
<1>5. Len(l) - 1 = i - 1
  BY <1>1
<1>6. l # <<>>
  BY <1>1
<1> QED
  BY <1>4, <1>5, <1>6 DEF l, Front

LEMMA SuffixTail ==
  ASSUME NEW S, NEW s \in Seq(S), NEW i \in 1 .. Len(s)
  PROVE  /\ SubSeq(s, i, Len(s)) # <<>>
         /\ Tail(SubSeq(s, i, Len(s))) = SubSeq(s, i + 1, Len(s))
<1>1. Len(s) \in i .. Len(s)
  OBVIOUS
<1>2. Tail(SubSeq(s, i, Len(s))) = SubSeq(s, i + 1, Len(s))
  BY <1>1, HeadTailOfSubSeq
<1>3. SubSeq(s, i, Len(s)) \in Seq(S) /\ Len(SubSeq(s, i, Len(s))) = Len(s) - i + 1
  BY Slice
<1> DEFINE r == SubSeq(s, i, Len(s))
<1> HIDE DEF r
<1>4. r # <<>>
  <2>1. Len(r) = Len(s) - i + 1 /\ Len(<<>>) = 0
    BY <1>3 DEF r
  <2> QED
    BY <2>1
<1> QED
  BY <1>2, <1>4 DEF r

-----------------------------------------------------------------------------
(* The command line implements the line editor.                            *)

(* What the line editor's variables stand for.                             *)
Before == SubSeq(cmd, 1, cmd_next_idx)
After  == SubSeq(cmd, cmd_next_idx + 1, Len(cmd))
Past   == [i \in 1 .. cmd_history_size |-> cmd_history[i]]
Draft  == IF cur_cmd_in_history THEN <<cmd_history[0]>> ELSE <<>>

LEMMA EditorText ==
  ASSUME CmdOK
  PROVE  /\ Before \in Seq(Char) /\ After \in Seq(Char)
         /\ Before \o After = cmd
         /\ Promise!Typed = cmd
<1>1. cmd \in Seq(Char) /\ cmd_next_idx \in 0 .. Len(cmd)
  BY DEF CmdOK
<1>2. Before \o After = cmd
  BY <1>1, SplitJoins DEF Before, After
<1>3. Before \in Seq(Char) /\ After \in Seq(Char)
  BY <1>1, Slice DEF Before, After
<1> QED
  BY <1>2, <1>3 DEF Promise!Typed, Before, After

LEMMA EditorPast ==
  ASSUME HistoryOK
  PROVE  /\ Past \in Seq(Seq(Char)) /\ Len(Past) = cmd_history_size
         /\ cmd_history_size \in Nat
         /\ \A i \in 1 .. cmd_history_size : i \in HistoryIdx /\ Past[i] = cmd_history[i]
<1>1. cmd_history_size \in Nat /\ \A i \in 1 .. cmd_history_size : i \in HistoryIdx
  BY SizeAssumption DEF HistoryOK, HistoryIdx
<1>2. \A i \in 1 .. cmd_history_size : cmd_history[i] \in Seq(Char)
  BY <1>1 DEF HistoryOK
<1> QED
  BY <1>1, <1>2 DEF Past

(* A text that replaces the command leaves nothing right of the insertion
   point.                                                                  *)
LEMMA BecomesText ==
  ASSUME cmd' \in Seq(Char), cmd_next_idx' = Len(cmd')
  PROVE  Promise!Becomes(cmd')
<1>1. SubSeq(cmd', 1, Len(cmd')) = cmd'
  BY SubSeqFull
<1>2. SubSeq(cmd', Len(cmd') + 1, Len(cmd')) = <<>>
  BY SubSeqEmpty
<1> QED
  BY <1>1, <1>2 DEF Promise!Becomes

(* replace_parser_cmd() of a text that fits takes all of it.               *)
LEMMA ReplaceBecomes ==
  ASSUME NEW text \in Seq(Char), Len(text) <= CMD_MAX_LEN, ReplaceParserCmd(text)
  PROVE  Promise!Becomes(text)
<1>1. cmd' = SubSeq(text, 1, Len(text)) /\ cmd_next_idx' = Len(cmd')
  BY SizeAssumption DEF ReplaceParserCmd
<1>2. cmd' = text
  BY <1>1, SubSeqFull
<1> QED
  BY <1>1, <1>2, BecomesText

LEMMA HistoryShown ==
  ASSUME UNCHANGED history
  PROVE  /\ UNCHANGED <<Past, cmd_history_idx, Draft>>
BY DEF history, Past, Draft

LEMMA InsertStep ==
  ASSUME CmdOK, NEW c \in Char, InputProcessText(c)
  PROVE  Promise!Insert(c)
<1>1. Len(Promise!Typed) < CMD_MAX_LEN
  BY EditorText DEF InputProcessText
<1>2. /\ cmd \in Seq(Char) /\ cmd_next_idx \in 0 .. Len(cmd)
      /\ cmd' = InsertAt(cmd, cmd_next_idx + 1, c)
      /\ cmd_next_idx' = cmd_next_idx + 1
  BY DEF CmdOK, InputProcessText
<1>3. /\ SubSeq(cmd', 1, cmd_next_idx + 1) = Append(Before, c)
      /\ SubSeq(cmd', cmd_next_idx + 2, Len(cmd')) = After
  BY <1>2, InsertSplits DEF Before, After
<1>4. (cmd_next_idx + 1) + 1 = cmd_next_idx + 2
  BY <1>2
<1>5. Before' = Append(Before, c) /\ After' = After
  BY <1>2, <1>3, <1>4 DEF Before, After
<1> QED
  BY <1>1, <1>5, HistoryShown DEF InputProcessText, Promise!Insert, Before, After, Past, Draft

LEMMA EraseLeftStep ==
  ASSUME CmdOK, InputProcessBackspace
  PROVE  Promise!EraseLeft
<1>1. /\ cmd \in Seq(Char) /\ cmd_next_idx \in 1 .. Len(cmd)
      /\ cmd' = RemoveAt(cmd, cmd_next_idx)
      /\ cmd_next_idx' = cmd_next_idx - 1
  BY DEF CmdOK, InputProcessBackspace
<1>2. /\ SubSeq(cmd', 1, cmd_next_idx - 1) = SubSeq(cmd, 1, cmd_next_idx - 1)
      /\ SubSeq(cmd', cmd_next_idx, Len(cmd')) = After
  BY <1>1, RemoveSplits DEF After
<1>3. Before # <<>> /\ Front(Before) = SubSeq(cmd, 1, cmd_next_idx - 1)
  BY <1>1, PrefixFront DEF Before
<1>4. (cmd_next_idx - 1) + 1 = cmd_next_idx
  BY <1>1
<1>5. Before' = Front(Before) /\ After' = After
  BY <1>1, <1>2, <1>3, <1>4 DEF Before, After
<1> QED
  BY <1>3, <1>5, HistoryShown
  DEF InputProcessBackspace, Promise!EraseLeft, Before, After, Past, Draft,
      Front, Promise!Front

LEMMA EraseRightStep ==
  ASSUME CmdOK, InputProcessDel
  PROVE  Promise!EraseRight
<1>1. /\ cmd \in Seq(Char) /\ cmd_next_idx \in 0 .. Len(cmd)
      /\ cmd_next_idx + 1 \in 1 .. Len(cmd)
      /\ cmd' = RemoveAt(cmd, cmd_next_idx + 1)
      /\ cmd_next_idx' = cmd_next_idx
  BY DEF CmdOK, InputProcessDel
<1>2. /\ SubSeq(cmd', 1, (cmd_next_idx + 1) - 1) = SubSeq(cmd, 1, (cmd_next_idx + 1) - 1)
      /\ SubSeq(cmd', cmd_next_idx + 1, Len(cmd'))
           = SubSeq(cmd, (cmd_next_idx + 1) + 1, Len(cmd))
  BY <1>1, RemoveSplits
<1>3. After # <<>> /\ Tail(After) = SubSeq(cmd, (cmd_next_idx + 1) + 1, Len(cmd))
  BY <1>1, SuffixTail DEF After
<1>4. (cmd_next_idx + 1) - 1 = cmd_next_idx
  BY <1>1
<1>5. Before' = Before /\ After' = Tail(After)
  BY <1>1, <1>2, <1>3, <1>4 DEF Before, After
<1> QED
  BY <1>3, <1>5, HistoryShown
  DEF InputProcessDel, Promise!EraseRight, Before, After, Past, Draft

LEMMA MoveStep ==
  ASSUME CmdOK, UNCHANGED <<cmd, history>>, cmd_next_idx' \in 0 .. Len(cmd)
  PROVE  Promise!Move
<1>1. Promise!Typed = cmd
  BY EditorText
<1>2. /\ Before' = SubSeq(Promise!Typed, 1, cmd_next_idx')
      /\ After' = SubSeq(Promise!Typed, cmd_next_idx' + 1, Len(Promise!Typed))
      /\ cmd_next_idx' \in 0 .. Len(Promise!Typed)
  BY <1>1 DEF Before, After
<1> HIDE DEF Promise!Typed
<1>3. UNCHANGED <<Past, cmd_history_idx, Draft>>
  BY HistoryShown
<1> QED
  BY <1>2, <1>3 DEF Promise!Move, Before, After, Past, Draft

LEMMA OlderStep ==
  ASSUME CmdOK, HistoryOK, InputProcessUp
  PROVE  Promise!Older
<1>1. cmd_history_idx + 1 \in 1 .. cmd_history_size /\ cmd_history_idx \in Nat
  BY DEF InputProcessUp, HistoryOK, HistoryIdx
<1>2. /\ cmd_history_idx' = cmd_history_idx + 1
      /\ cmd_history_size' = cmd_history_size
  BY DEF InputProcessUp
<1>3. \A i \in 1 .. cmd_history_size : cmd_history'[i] = cmd_history[i]
  <2>1. \A i \in 1 .. cmd_history_size : i \in HistoryIdx /\ i # 0
    BY EditorPast
  <2> QED
    BY <2>1 DEF InputProcessUp, HistoryOK
<1>4. Past' = Past
  BY <1>2, <1>3 DEF Past
<1>5. Draft' = IF Draft = <<>> THEN <<cmd>> ELSE Draft
  <2>1. CASE SavesDraft /\ cmd_history' = [cmd_history EXCEPT ![0] = cmd]
                        /\ cur_cmd_in_history' = TRUE
    <3>1. 0 \in HistoryIdx
      BY SizeAssumption DEF HistoryIdx
    <3>2. cmd_history'[0] = cmd
      BY <2>1, <3>1 DEF HistoryOK
    <3> QED
      BY <2>1, <3>2 DEF Draft, SavesDraft
  <2>2. CASE ~SavesDraft /\ UNCHANGED <<cmd_history, cur_cmd_in_history>>
    <3>1. cur_cmd_in_history
      BY <2>2 DEF SavesDraft, HistoryOK, HistoryEntries
    <3>2. Draft # <<>>
      BY <3>1 DEF Draft
    <3> QED
      BY <2>2, <3>2 DEF Draft
  <2> QED
    BY <2>1, <2>2 DEF InputProcessUp
<1>6. Promise!Becomes(Past[cmd_history_idx'])
  <2>1. /\ cmd_history'[cmd_history_idx'] = Past[cmd_history_idx']
        /\ cmd_history[cmd_history_idx'] = Past[cmd_history_idx']
        /\ cmd_history_idx' \in HistoryIdx
    BY <1>1, <1>2, <1>3, EditorPast
  <2>2. Past[cmd_history_idx'] \in Seq(Char) /\ Len(Past[cmd_history_idx']) <= CMD_MAX_LEN
    BY <2>1 DEF HistoryOK
  <2>3. ReplaceParserCmd(Past[cmd_history_idx'])
    BY <2>1 DEF InputProcessUp
  <2> QED
    BY <2>2, <2>3, ReplaceBecomes
<1>7. Promise!Typed = cmd /\ cmd_history_idx < Len(Past)
  BY <1>1, EditorText, EditorPast
<1> HIDE DEF Promise!Typed, Promise!Becomes
<1> QED
  BY <1>2, <1>4, <1>5, <1>6, <1>7 DEF Promise!Older, Past, Draft

LEMMA NewerStep ==
  ASSUME CmdOK, HistoryOK, InputProcessDown
  PROVE  Promise!Newer
<1>1. cmd_history_idx \in 1 .. cmd_history_size /\ cmd_history_idx > 0
  BY DEF InputProcessDown, HistoryOK, HistoryIdx
<1>2. /\ cmd_history_idx' = cmd_history_idx - 1
      /\ UNCHANGED <<cmd_history, cmd_history_size, cur_cmd_in_history>>
      /\ ReplaceParserCmd(cmd_history[cmd_history_idx'])
  BY DEF InputProcessDown
<1>3. cmd_history_idx' \in HistoryIdx /\ cmd_history_idx' \in 0 .. cmd_history_size
  BY <1>1, <1>2, SizeAssumption DEF HistoryIdx, HistoryOK
<1>4. cur_cmd_in_history
  BY <1>1 DEF HistoryOK, HistoryEntries
<1>5. cmd_history[cmd_history_idx']
        = IF cmd_history_idx' = 0 THEN Head(Draft) ELSE Past[cmd_history_idx']
  <2>1. Head(Draft) = cmd_history[0]
    BY <1>4 DEF Draft
  <2>2. cmd_history_idx' # 0 => cmd_history_idx' \in 1 .. cmd_history_size
    BY <1>3
  <2> QED
    BY <2>1, <2>2, EditorPast
<1>6. Promise!Becomes(cmd_history[cmd_history_idx'])
  BY <1>2, <1>3, ReplaceBecomes DEF HistoryOK
<1>7. Promise!Becomes(IF cmd_history_idx' = 0 THEN Head(Draft)
                                              ELSE Past[cmd_history_idx'])
  BY <1>5, <1>6
<1>8. UNCHANGED <<Past, Draft>>
  BY <1>2 DEF Past, Draft
<1> HIDE DEF Promise!Becomes
<1> QED
  BY <1>1, <1>2, <1>7, <1>8 DEF Promise!Newer, Past, Draft

LEMMA SubmitStep ==
  ASSUME CmdOK, HistoryOK, NEW exit \in BOOLEAN, InputProcessEnter(exit)
  PROVE  Promise!Submit
<1>1. Promise!Becomes(<<>>)
  <2>1. cmd' = <<>> /\ cmd' \in Seq(Char) /\ cmd_next_idx' = Len(cmd')
    BY DEF InputProcessEnter
  <2> QED
    BY <2>1, BecomesText
<1>2. Promise!Typed = cmd /\ (Promise!IsBlank(Promise!Typed) <=> IsCmdEmpty(cmd))
  BY EditorText DEF Promise!IsBlank, IsCmdEmpty, ToSet, Promise!ToSet
<1>3. CASE IsCmdEmpty(cmd) /\ UNCHANGED history
  <2>1. UNCHANGED <<Past, cmd_history_idx, Draft>>
    BY <1>3, HistoryShown
  <2> HIDE DEF Promise!Becomes, Promise!Typed, Promise!IsBlank
  <2> QED
    BY <1>1, <1>2, <1>3, <2>1 DEF Promise!Submit, Past, Draft
<1>4. CASE /\ ~IsCmdEmpty(cmd)
           /\ cmd_history_size' = IF cmd_history_size < CMD_HISTORY_MAX_SIZE
                                  THEN cmd_history_size + 1 ELSE cmd_history_size
           /\ cmd_history' = HistoryWith(cmd, cmd_history_size')
           /\ cmd_history_idx' = 0
           /\ cur_cmd_in_history' = FALSE
  <2> DEFINE s == <<cmd>> \o Past
             n == cmd_history_size'
  <2>1. /\ n \in 1 .. CMD_HISTORY_MAX_SIZE /\ n <= cmd_history_size + 1
        /\ n = IF cmd_history_size + 1 < CMD_HISTORY_MAX_SIZE
               THEN cmd_history_size + 1 ELSE CMD_HISTORY_MAX_SIZE
    BY <1>4, SizeAssumption DEF HistoryOK, HistoryIdx
  <2>2. /\ s \in Seq(Seq(Char)) /\ Len(s) = cmd_history_size + 1
        /\ \A i \in 1 .. cmd_history_size + 1 :
             s[i] = IF i = 1 THEN cmd ELSE cmd_history[i - 1]
    <3>1. <<cmd>> \in Seq(Seq(Char)) /\ Len(<<cmd>>) = 1 /\ <<cmd>>[1] = cmd
      BY DEF CmdOK
    <3>2. /\ s \in Seq(Seq(Char)) /\ Len(s) = 1 + Len(Past)
          /\ \A i \in 1 .. 1 + Len(Past) : s[i] = IF i <= 1 THEN <<cmd>>[i] ELSE Past[i - 1]
      BY <3>1, EditorPast, ConcatProperties
    <3> HIDE DEF s
    <3>3. Len(s) = cmd_history_size + 1
      BY <3>2, EditorPast
    <3>4. ASSUME NEW i \in 1 .. cmd_history_size + 1
          PROVE  s[i] = IF i = 1 THEN cmd ELSE cmd_history[i - 1]
      <4>1. i \in 1 .. 1 + Len(Past)
        BY EditorPast
      <4>2. CASE i = 1
        <5>1. 1 \in 1 .. 1 + Len(Past)
          BY <4>1, <4>2
        <5>2. s[1] = <<cmd>>[1]
          BY <3>2, <5>1
        <5> QED
          BY <3>1, <4>2, <5>2
      <4>3. CASE i # 1
        <5>1. i - 1 \in 1 .. cmd_history_size /\ ~(i <= 1)
          BY <4>3, EditorPast
        <5> QED
          BY <3>2, <4>1, <4>3, <5>1, EditorPast
      <4> QED
        BY <4>2, <4>3
    <3> QED
      BY <3>2, <3>3, <3>4
  <2> HIDE DEF s
  <2>3. /\ SubSeq(s, 1, n) \in Seq(Seq(Char)) /\ Len(SubSeq(s, 1, n)) = n
        /\ \A i \in 1 .. n : SubSeq(s, 1, n)[i] = s[i]
    <3>1. n \in 0 .. Len(s) /\ 1 \in 1 .. Len(s) + 1 /\ 1 <= n
      BY <2>1, <2>2, EditorPast
    <3>2. /\ SubSeq(s, 1, n) \in Seq(Seq(Char))
          /\ Len(SubSeq(s, 1, n)) = n - 1 + 1
          /\ \A i \in 1 .. n - 1 + 1 : SubSeq(s, 1, n)[i] = s[1 + i - 1]
      BY <2>2, <3>1, Slice
    <3>3. n - 1 + 1 = n /\ \A i \in 1 .. n : 1 + i - 1 = i
      BY <2>1, SizeAssumption
    <3> QED
      BY <3>2, <3>3
  <2>4. /\ Past' \in Seq(Seq(Char)) /\ Len(Past') = n
        /\ \A i \in 1 .. n : Past'[i] = cmd_history'[i]
    <3>1. HistoryOK'
      BY UpdateKeeps DEF InputProcessEnter
    <3>2. n \in Nat /\ \A i \in 1 .. n : i \in HistoryIdx
      BY <2>1, SizeAssumption DEF HistoryIdx
    <3>3. \A i \in 1 .. n : cmd_history'[i] \in Seq(Char)
      BY <3>1, <3>2 DEF HistoryOK
    <3> QED
      BY <3>2, <3>3 DEF Past
  <2>5. ASSUME NEW i \in 1 .. n
        PROVE  Past'[i] = SubSeq(s, 1, n)[i]
    <3>1. i \in HistoryIdx /\ i # 0 /\ i \in 1 .. cmd_history_size + 1
      BY <2>1, SizeAssumption, EditorPast DEF HistoryIdx
    <3>2. HistoryWith(cmd, n)[i] = IF i = 1 THEN cmd ELSE cmd_history[i - 1]
      BY <2>1, <3>1 DEF HistoryWith
    <3> QED
      BY <1>4, <2>2, <2>3, <2>4, <3>1, <3>2
  <2>6. Past' = SubSeq(s, 1, n)
    BY <2>3, <2>4, <2>5, SeqEqual
  <2>7. Promise!Latest(s, CMD_HISTORY_MAX_SIZE) = SubSeq(s, 1, n)
    BY <2>1, <2>2 DEF Promise!Latest
  <2>8. Past' = Promise!Latest(<<cmd>> \o Past, CMD_HISTORY_MAX_SIZE)
    BY <2>6, <2>7 DEF s
  <2>9. Draft' = <<>> /\ cmd_history_idx' = 0
    BY <1>4 DEF Draft
  <2> HIDE DEF Promise!Becomes, Promise!Typed, Promise!IsBlank, Promise!Latest
  <2> QED
    BY <1>1, <1>2, <1>4, <2>8, <2>9 DEF Promise!Submit, Past, Draft
<1> QED
  BY <1>3, <1>4 DEF InputProcessEnter, UpdateCmdHistory

LEMMA ReplaceStep ==
  ASSUME UNCHANGED history, NEW text \in Seq(Char), ReplaceParserCmd(text)
  PROVE  Promise!Replace
<1>1. cmd' \in Seq(Char) /\ Len(cmd') <= CMD_MAX_LEN /\ cmd_next_idx' = Len(cmd')
  BY ReplaceType DEF ReplaceParserCmd
<1>2. cmd' \in Promise!BoundedSeq(Char, CMD_MAX_LEN)
  <2>1. Len(cmd') \in 0 .. CMD_MAX_LEN /\ cmd' \in [1 .. Len(cmd') -> Char]
    BY <1>1, SizeAssumption
  <2> QED
    BY <2>1 DEF Promise!BoundedSeq, Promise!SeqOf
<1>3. Promise!Becomes(cmd')
  BY <1>1, BecomesText
<1>4. UNCHANGED <<Past, cmd_history_idx, Draft>>
  BY HistoryShown
<1> HIDE DEF Promise!Becomes, Promise!BoundedSeq
<1> QED
  BY <1>2, <1>3, <1>4 DEF Promise!Replace, Past, Draft

(* Keys that print something else, or another part of the console, are not
   seen by the line editor.                                                *)
LEMMA StutterStep ==
  ASSUME UNCHANGED <<read_ctx, history>>
  PROVE  UNCHANGED Promise!evars
BY DEF read_ctx, history, Promise!evars

LEMMA KeyRefines ==
  ASSUME IInv, Key
  PROVE  Promise!ENext \/ UNCHANGED Promise!evars
<1>0. CmdOK /\ HistoryOK
  BY IInvParts
<1> HIDE DEF Promise!Insert, Promise!EraseLeft, Promise!EraseRight, Promise!Move,
     Promise!Older, Promise!Newer, Promise!Submit, Promise!Replace, Promise!evars
<1>1. CASE \E c \in Char : InputProcessText(c)
  BY <1>0, <1>1, InsertStep DEF Promise!ENext
<1>2. CASE InputProcessBackspace
  BY <1>0, <1>2, EraseLeftStep DEF Promise!ENext
<1>3. CASE InputProcessDel
  BY <1>0, <1>3, EraseRightStep DEF Promise!ENext
<1>4. CASE \/ InputProcessHome \/ InputProcessEnd
           \/ InputProcessRight \/ InputProcessLeft
  <2>1. UNCHANGED <<cmd, history>> /\ cmd_next_idx' \in 0 .. Len(cmd)
    BY <1>0, <1>4 DEF InputProcessHome, InputProcessEnd, InputProcessRight,
                      InputProcessLeft, CmdOK
  <2> QED
    BY <1>0, <2>1, MoveStep DEF Promise!ENext
<1>5. CASE InputProcessUp
  BY <1>0, <1>5, OlderStep DEF Promise!ENext
<1>6. CASE InputProcessDown
  BY <1>0, <1>6, NewerStep DEF Promise!ENext
<1>7. CASE \E exit \in BOOLEAN : InputProcessEnter(exit)
  BY <1>0, <1>7, SubmitStep DEF Promise!ENext
<1>8. CASE (\E text \in Fill : InputProcessTab(text)) \/ InputProcessCtrl
  <2>1. PICK text \in Seq(Char) : ReplaceParserCmd(text) /\ UNCHANGED history
    <3>1. <<>> \in Seq(Char)
      OBVIOUS
    <3> QED
      BY <1>8, <3>1, CharAssumption DEF InputProcessTab, InputProcessCtrl
  <2> QED
    BY <2>1, ReplaceStep DEF Promise!ENext
<1>9. CASE \/ InputProcessQuestionMark \/ InputProcessTabKeep
           \/ InputProcessScroll \/ InputProcessResize
  BY <1>9, StutterStep DEF InputProcessQuestionMark, InputProcessTabKeep,
     InputProcessScroll, InputProcessResize
<1> QED
  BY <1>1, <1>2, <1>3, <1>4, <1>5, <1>6, <1>7, <1>8, <1>9 DEF Key

LEMMA InitRefines == Init => Promise!EInit
<1> SUFFICES ASSUME Init PROVE Promise!EInit
  OBVIOUS
<1>1. SubSeq(cmd, 1, cmd_next_idx) = <<>>
      /\ SubSeq(cmd, cmd_next_idx + 1, Len(cmd)) = <<>>
  <2>1. cmd = <<>> /\ cmd_next_idx = 0 /\ Len(cmd) = 0
    BY DEF Init
  <2> QED
    BY <2>1, SubSeqEmpty
<1>2. Past = <<>>
  BY DEF Init, Past
<1> QED
  BY <1>1, <1>2 DEF Init, Promise!EInit, Past

-----------------------------------------------------------------------------
(* The theorems.                                                           *)

(* Whatever keys are pressed, indices stay inside the arrays of gvd_main.c:
   the insertion point inside the command, the browser inside the history,
   the command inside its buffer.                                          *)
THEOREM TypeCorrect == Spec => []TypeOK
<1>1. IInv => TypeOK
  BY DEF IInv
<1> QED
  BY <1>1, Invariance, PTL

(* The command on the screen is the one input_process_enter() would run,
   unless calloc() failed for a line that outgrew its slot.                *)
THEOREM ScreenTellsTruth == Spec => []ShownIsRun
<1>1. IInv => ShownIsRun
  BY DEF IInv
<1> QED
  BY <1>1, Invariance, PTL

(* update_cmd_history() and the Up key keep blank commands out of the
   history and drafts out of entry 0 once a command was submitted.         *)
THEOREM HistoryClean == Spec => []HistoryEntries
<1>1. IInv => HistoryEntries
  BY DEF IInv
<1> QED
  BY <1>1, Invariance, PTL

(* Handlers that print the command without adjust_cursor_pos() may leave the
   cursor right of where the next character goes, none leaves it left of
   that; text, history and cursor agree after any sequence of keys.        *)
THEOREM EditorSound == Spec => []EditorConsistent
<1>1. IInv /\ CursorNotBefore => EditorConsistent
  BY DEF IInv, EditorConsistent
<1> QED
  BY <1>1, Invariance, CursorInvariance, PTL

(* Every sequence of keys is one of the line editor: what the handlers of
   gvd_main.c do to the arrays, indices and flags of read_ctx is what the
   user was promised of the text, the insertion point, the commands to
   recall and the draft.                                                   *)
THEOREM Refinement == Spec => KeepsPromise
<1>1. Init => Promise!EInit
  BY InitRefines
<1>2. IInv /\ [Next]_vars => [Promise!ENext]_Promise!evars
  <2>1. IInv /\ Next => Promise!ENext \/ UNCHANGED Promise!evars
    BY KeyRefines DEF Next
  <2>2. UNCHANGED vars => UNCHANGED Promise!evars
    BY DEF vars, Promise!evars
  <2> QED
    BY <2>1, <2>2
<1> QED
  BY <1>1, <1>2, Invariance, PTL DEF Spec, KeepsPromise, Promise!ESpec

=============================================================================
