----------------------------- MODULE ConsoleView -----------------------------
(***************************************************************************)
(* The part of the console on the screen (gvd_line_buffer.c:127-381).      *)
(*                                                                         *)
(* printv(), replace_last_line() and a resize print the end of the console;*)
(* page up and page down move half a screen.  The part printed is found by *)
(* walking the list of module LineBuffer row by row from scr_dump_ctx.  The*)
(* walks trust every pointer, head->prev included, which recycling leaves  *)
(* pointing at the recycled buffer.                                        *)
(*                                                                         *)
(* `fault' is TRUE once the program used a NULL pointer or a freed block.  *)
(***************************************************************************)
EXTENDS LineBuffer, FiniteSets

CONSTANT ScreenSize    \* sizes the window may have: <<rows, columns>>

ASSUME ScreenAssumption ==
  ScreenSize \subseteq {y \in Nat : y >= 2} \X (Nat \ {0})

(* Memory is finite.                                                       *)
ASSUME HeapAssumption == IsFiniteSet(BigBlock)

VARIABLES
  scr_y, scr_x, bottom_p, bottom_offset,   \* scr_dump_ctx
  top_p, top_offset,   \* where the last screen printed began
  due,                 \* the print that follows the call just made, if any
  fault

view  == <<scr_y, scr_x, bottom_p, bottom_offset, top_p, top_offset>>
vvars == <<vars, view, due, fault>>

-----------------------------------------------------------------------------
(* Walking the list.                                                       *)

(* Buffers whose memory the program owns.                                  *)
Owned == Slot \cup heap

(* One row from w, a line and its characters still to be walked over; the
   walk stops at NULL.                                                     *)
NextRow(link, w) ==
  IF w.p \notin Owned THEN w
  ELSE IF w.chars > scr_x THEN [w EXCEPT !.chars = @ - scr_x]
  ELSE LET q == link[w.p]
       IN  [p |-> q, chars |-> IF q \in Owned THEN len[q] ELSE 0]

(* The place n rows from the first `chars' characters of p.                *)
Walk(link, p, chars, n) ==
  LET row[k \in 0 .. n] == IF k = 0 THEN [p |-> p, chars |-> chars]
                                    ELSE NextRow(link, row[k - 1])
  IN  row[n]

(* Rounded up to whole rows.                                               *)
WholeRows(chars) == ((chars + scr_x - 1) \div scr_x) * scr_x

(* Mutant: the walk is not checked for having left the list.               *)
EndUnchecked(w) ==
  CASE w.p \notin Owned       -> [p |-> NULL, offset |-> 0]
    [] w.p \in Owned /\ w.chars = len[w.p]
                              -> [p |-> next[w.p], offset |-> 0]
    [] OTHER                  -> [p |-> w.p, offset |-> WholeRows(w.chars)]

(* The line after the one a walk back ended in, when none of its characters
   was walked over; otherwise the line, from the row the walk ended in.    *)
EndOfWalkBack(w) ==
  CASE w.p \notin Owned       -> [p |-> head, offset |-> 0]
    [] w.p \in Owned /\ w.chars = len[w.p]
                              -> [p |-> next[w.p], offset |-> 0]
    [] OTHER                  -> [p |-> w.p, offset |-> WholeRows(w.chars)]

(* Mutant: the walk covers a row too many.                                 *)
DumpTopEarly(p, offset) == EndOfWalkBack(Walk(prev, p, offset, scr_y + 1))

(* decide_scr_dump_top() for a screen that ends at `offset' of p.          *)
DecideScrDumpTop(p, offset) == EndOfWalkBack(Walk(prev, p, offset, scr_y))

(* Mutant: a quarter of the screen.                                        *)
UpByQuarter ==
  EndOfWalkBack(Walk(prev, bottom_p, len[bottom_p] - bottom_offset, scr_y \div 4))

(* decide_scroll_up_bottom().                                              *)
DecideScrollUpBottom ==
  EndOfWalkBack(Walk(prev, bottom_p, len[bottom_p] - bottom_offset, scr_y \div 2))

(* Mutant: the walk goes on after the last line.                           *)
DownUnchecked ==
  LET w == Walk(next, bottom_p, bottom_offset, scr_y \div 2)
  IN  IF w.p \in Owned /\ w.chars = len[w.p]
      THEN [p |-> prev[w.p], offset |-> 0]
      ELSE [p |-> w.p, offset |-> 0]

(* decide_scroll_down_bottom().                                            *)
DecideScrollDownBottom ==
  LET w == Walk(next, bottom_p, bottom_offset, scr_y \div 2)
  IN  CASE w.p \notin Owned -> [p |-> tail, offset |-> 0]
        [] w.p \in Owned /\ w.chars = len[w.p]
                            -> [p |-> prev[w.p], offset |-> 0]
        [] OTHER            -> [p |-> w.p, offset |-> len[w.p] - w.chars]

(* Mutant: the screen filled from the top ends at the last line.           *)
ReCalcToTail(p) == [p |-> tail, offset |-> 0]

(* re_calc_bottom_from_top().                                              *)
ReCalcBottomFromTop(p) ==
  LET w == Walk(next, p, len[p], scr_y)
  IN  CASE w.p \notin Owned -> [p |-> tail, offset |-> 0]
        [] w.p \in Owned /\ w.chars = len[w.p]
                            -> [p |-> prev[w.p], offset |-> 0]
        [] OTHER            -> [p |-> w.p, offset |-> w.chars]

(* The buffers after p.                                                    *)
After(p) ==
  LET n == Cardinality(Node)
      at[k \in 0 .. n] == IF k = 0 THEN next[p]
                          ELSE IF at[k - 1] \in Owned THEN next[at[k - 1]]
                          ELSE NULL
  IN  {at[k] : k \in 0 .. n}

(* dump_line_buffer_to_scr() prints from t and runs on until it meets b.   *)
DumpFaults(t, b) ==
  \/ t \notin Owned
  \/ next[t] # NULL /\ (b \notin Owned \/ b \notin After(t))

(* A walk back that ran into a freed block.                                *)
WalkFaults(link, p, chars, n) ==
  Walk(link, p, chars, n).p \notin Owned \cup {NULL}

-----------------------------------------------------------------------------
(* Printing.                                                               *)

(* decide_scr_dump_top() and dump_line_buffer_to_scr() with the end of the
   screen at b, reached with or without a fault.                           *)
DumpScr(b, t, faulted) ==
  /\ bottom_p' = b.p /\ bottom_offset' = b.offset
  /\ top_p' = t.p /\ top_offset' = t.offset
  /\ fault' = (faulted \/ DumpFaults(t.p, b.p))

(* refresh_scr(): the end of the console.                                  *)
RefreshScr ==
  /\ due = "refresh"
  /\ due' = "none"
  /\ DumpScr([p |-> tail, offset |-> len[tail]], DecideScrDumpTop(tail, len[tail]),
           WalkFaults(prev, tail, len[tail], scr_y))
  /\ UNCHANGED <<vars, scr_y, scr_x>>

(* resize_refresh().                                                       *)
ResizeRefresh(size) ==
  /\ due = "none" /\ pc = "idle"
  /\ scr_y' = size[1] /\ scr_x' = size[2]
  /\ due' = "refresh"
  /\ UNCHANGED <<vars, bottom_p, bottom_offset, top_p, top_offset, fault>>

(* scroll_up_refresh(): the first screen is filled from the top.           *)
ScrollUpRefresh ==
  /\ due = "none" /\ pc = "idle"
  /\ LET up == DecideScrollUpBottom
         t  == DecideScrDumpTop(up.p, up.offset)
         b  == IF t = [p |-> head, offset |-> 0] THEN ReCalcBottomFromTop(head)
                                                 ELSE up
     IN  DumpScr(b, t, \/ WalkFaults(prev, bottom_p, len[bottom_p] - bottom_offset,
                                   scr_y \div 2)
                     \/ WalkFaults(prev, up.p, up.offset, scr_y))
  /\ UNCHANGED <<vars, scr_y, scr_x, due>>

(* scroll_down_refresh().                                                  *)
ScrollDownRefresh ==
  /\ due = "none" /\ pc = "idle"
  /\ LET b == DecideScrollDownBottom
         t == DecideScrDumpTop(b.p, b.offset)
     IN  DumpScr(b, t, WalkFaults(prev, b.p, b.offset, scr_y))
  /\ UNCHANGED <<vars, scr_y, scr_x, due>>

(* printv() prints the end of the console where it returns.                *)
Returns == pc \in {"save", "retry"} /\ pc' \in {"idle", "dump"}

(* A call of the line store, or a step inside one; every print and every
   change of the last line is followed by refresh_scr().  "logfile flush"
   is a print for the view, and the log file is nothing to it.  (A new line
   sets bottom_p and bottom_offset, and refresh_scr() sets them again before
   anything reads them.)                                                   *)
Store ==
  /\ due = "none"
  /\ \/ /\ Step
        /\ due' = IF Returns THEN "refresh" ELSE "none"
     \/ /\ \E o \in Output : Printv(o)
        /\ UNCHANGED due
     \/ /\ \E n \in PromptLen : ReplaceLastLine(n)
        /\ due' = "refresh"
  /\ UNCHANGED <<view, fault>>

(* The window's size is read and an empty console is printed.              *)
ViewInit ==
  /\ Init
  /\ \E s \in ScreenSize : scr_y = s[1] /\ scr_x = s[2]
  /\ bottom_p = head /\ bottom_offset = 0
  /\ top_p = head /\ top_offset = 0
  /\ due = "refresh"
  /\ fault = FALSE

ViewNext ==
  /\ ~fault
  /\ \/ Store
     \/ RefreshScr
     \/ \E s \in ScreenSize : ResizeRefresh(s)
     \/ ScrollUpRefresh
     \/ ScrollDownRefresh

ViewSpec == ViewInit /\ [][ViewNext]_vvars

-----------------------------------------------------------------------------

(* Every variable has its type.                                            *)
ViewTypeOK ==
  /\ <<scr_y, scr_x>> \in ScreenSize
  /\ bottom_p \in Node \cup {NULL} /\ bottom_offset \in Nat
  /\ top_p \in Node \cup {NULL} /\ top_offset \in Nat
  /\ due \in {"none", "refresh"}
  /\ fault \in BOOLEAN

AtRest == due = "none" /\ pc = "idle"

(* The rows a line takes, numbered from 0; an empty one has a row.         *)
RowsOf(p) == {i \in 0 .. len[p] : i = 0 \/ i * scr_x < len[p]}

(* The rows of the console: each a line and a row of it.                   *)
Rows == UNION {{p} \X RowsOf(p) : p \in Live}

(* How many there are from place o of line p to the end of the console.    *)
RowsFrom(p, o) ==
  Cardinality({r \in Rows : \/ line[r[1]] > line[p]
                            \/ r[1] = p /\ r[2] * scr_x >= o})

(* Rows of the last line that are printed below the bottom of a screen, at
   its end or (page down) at its beginning: the line counts as one row then
   and is printed whole all the same.                                      *)
Beyond(offset) == IF offset = len[tail] THEN 0 ELSE Cardinality(RowsOf(tail)) - 1

(* A screen with its bottom at the end of the console shows exactly its last
   rows: never more than the window holds, which would push the command line
   off it, and as many unless the whole console is on it.  Only where page
   down ended, and the last line wraps, it shows the rest of that line too,
   so that many rows too many.                                             *)
EndOnScreen ==
  AtRest /\ ~fault /\ bottom_p = tail /\ bottom_offset \in {0, len[tail]} =>
    LET rows == scr_y + Beyond(bottom_offset)
    IN  /\ top_p \in Live
        /\ RowsFrom(top_p, top_offset) <= rows
        /\ RowsFrom(top_p, top_offset) = rows \/ (top_p = head /\ top_offset = 0)

(* Every line fits a window less a row.                                    *)
LinesFit == \A p \in Live : len[p] <= (scr_y - 1) * scr_x

(* Paging uses a NULL pointer or a freed block only once lines were
   recycled, when head->prev is stale, or with a line as big as the window,
   when dump_line_buffer_to_scr() starts behind the end it looks for.      *)
FaultNeeds == fault => line[head] > 1 \/ ~LinesFit

(* Until lines are recycled scr_dump_ctx stays inside the list, however the
   console is printed, paged, edited and resized.                          *)
ViewInList ==
  AtRest /\ line[head] = 1 =>
    /\ bottom_p \in Live /\ bottom_offset <= len[bottom_p]
    /\ top_p \in Live /\ top_offset <= len[top_p]
    /\ line[top_p] <= line[bottom_p]

(* Its addresses and offsets are always ones that scr_dump_ctx may hold, and
   until lines are recycled they are in the list.                          *)
ViewConsistent == ViewTypeOK /\ ViewInList

-----------------------------------------------------------------------------
(* Paging.                                                                 *)

(* Place o of line p is before place u of line q, or is that place.        *)
NotAfter(p, o, q, u) == line[p] < line[q] \/ (p = q /\ o <= u)

Calm == line[head] = 1 /\ LinesFit

(* Every line fits half a window.                                          *)
HalfFits == \A p \in Live : len[p] <= (scr_y \div 2) * scr_x

(* Page up never moves the screen down, whatever pages, edits and resizes
   led to it.  (With a line of more than half a window it may: page down
   ends a screen before such a line, and page up counts the line whole.)   *)
PageUpRises ==
  [][ScrollUpRefresh /\ Calm /\ HalfFits /\ ~fault' =>
       NotAfter(top_p', top_offset', top_p, top_offset)]_vvars

(* Every line takes one row, and half a window is two rows or more.        *)
Plain == Calm /\ (\A p \in Live : len[p] <= scr_x) /\ scr_y >= 4

(* Holding page up leads to the first line of the console: page up brings
   it to the screen or moves the screen up.  (A state property: a page up
   that changes nothing would pass for a stutter.)                         *)
PageUpMoves ==
  AtRest /\ Plain =>
    LET up == DecideScrollUpBottom
        t  == DecideScrDumpTop(up.p, up.offset)
    IN  t = [p |-> head, offset |-> 0] \/ ~NotAfter(top_p, top_offset, t.p, t.offset)

(* Holding page down leads back to the last line.                          *)
PageDownMoves ==
  AtRest /\ Plain =>
    LET b == DecideScrollDownBottom
    IN  b.p = tail \/ ~NotAfter(b.p, b.offset, bottom_p, bottom_offset)

(* Either key reaches its end of the console; neither gets stuck before.    *)
PagingMoves == PageUpMoves /\ PageDownMoves

=============================================================================
