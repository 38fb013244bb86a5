----------------------------- MODULE LineBuffer -----------------------------
(***************************************************************************)
(* The console line store of GVD (gvd_line_buffer.c).                      *)
(*                                                                         *)
(* Console text is kept as a doubly linked list of line buffers.  A buffer *)
(* is one of LINE_BUFFER_NUM fixed slots, handed out by a bit mask, or,    *)
(* once its line outgrows a slot, a block of the C heap.  When no slot is  *)
(* left the oldest quarter of the lines is written to the log file and     *)
(* recycled.                                                               *)
(*                                                                         *)
(* The program is single threaded; its loops are unrolled one iteration    *)
(* per step, `pc' saying where in printv() the program is.  Text is        *)
(* abstracted to its length.  `line' is a history variable: the number,    *)
(* counted from 1, of the console line a buffer holds.                     *)
(***************************************************************************)
EXTENDS Integers, Sequences

CONSTANTS
  LINE_BUFFER_NUM,                 (* number of fixed slots                *)
  LINE_BUFFER_MASK_SIZE,           (* bits in one word of the mask         *)
  LINE_BUFFER_CONTENT_MAX_LEN,     (* text that fits in a slot             *)
  BIG_LINE_BUFFER_CONTENT_MAX_LEN, (* text that fits in a heap block       *)
  BigBlock,                        (* the blocks calloc() can return       *)
  NULL,
  Output,      (* texts given to printv(): the lengths of their lines, each
                  but the last ending in a newline                         *)
  PromptLen,   (* lengths of prompt plus command for replace_last_line()   *)
  FlushMsgLen, (* length of "All console content dumped.\n"                *)
  MaxLine      (* bound: console lines a behaviour may create              *)

Slot == 0 .. LINE_BUFFER_NUM - 1
Node == Slot \cup BigBlock
LINE_BUFFER_MASK_NUM == LINE_BUFFER_NUM \div LINE_BUFFER_MASK_SIZE
Word == 0 .. LINE_BUFFER_MASK_NUM - 1
Bit  == 0 .. LINE_BUFFER_MASK_SIZE - 1

(* line_buffer_init() refuses a pool that is not a whole number of mask
   words; recycling a quarter of it frees something only from 4 slots on.  *)
ASSUME PoolAssumption ==
  /\ LINE_BUFFER_NUM \in Nat /\ LINE_BUFFER_NUM >= 4
  /\ LINE_BUFFER_MASK_SIZE \in Nat \ {0}
  /\ LINE_BUFFER_NUM = LINE_BUFFER_MASK_NUM * LINE_BUFFER_MASK_SIZE

ASSUME TextAssumption ==
  /\ LINE_BUFFER_CONTENT_MAX_LEN \in Nat
  /\ BIG_LINE_BUFFER_CONTENT_MAX_LEN \in Nat
  /\ LINE_BUFFER_CONTENT_MAX_LEN <= BIG_LINE_BUFFER_CONTENT_MAX_LEN
  /\ Output \subseteq Seq(Nat) \ {<<>>}
  /\ PromptLen \subseteq 0 .. BIG_LINE_BUFFER_CONTENT_MAX_LEN
  /\ FlushMsgLen \in Nat
  /\ MaxLine \in Nat

ASSUME BlockAssumption ==
  /\ BigBlock \cap Slot = {}
  /\ NULL \notin Node

VARIABLES
  head, tail,              \* ends of the list
  prev, next, len, dirty,  \* the fields of each buffer
  mask,                    \* line_buffer_mask: the bits of the free slots
  heap,                    \* heap blocks calloc()ed and not yet freed
  log,                     \* the log file: numbers of the lines written
  line,                    \* history: number of the line held, 0 for none
  pc, out, left, cur, after \* control of printv() and dump_all_lines_to_disk()

store == <<head, tail, prev, next, len, dirty, mask, heap, line>>
ctl   == <<pc, out, left, cur, after>>
vars  == <<head, tail, prev, next, len, dirty, mask, heap, log, line,
           pc, out, left, cur, after>>

-----------------------------------------------------------------------------
(* The bit mask.                                                           *)

MaskWord(idx) == idx \div LINE_BUFFER_MASK_SIZE

(* `idx & ~LINE_BUFFER_MASK_SIZE' clears one bit of idx and leaves those
   above it.                                                               *)
BitIdx(idx) == IF MaskWord(idx) % 2 = 1 THEN idx - LINE_BUFFER_MASK_SIZE
                                        ELSE idx

(* Mutant: a shift by the width of an int or more gives another bit.       *)
MaskBitUnwrapped(idx) == BitIdx(idx)

(* From idx = 2 * LINE_BUFFER_MASK_SIZE on `1 << bit_idx' shifts by more
   than the width of an int; the compiled shift instruction takes it modulo
   that width.                                                             *)
MaskBit(idx) == BitIdx(idx) % LINE_BUFFER_MASK_SIZE

MaskUsed(idx) == [mask EXCEPT ![MaskWord(idx)] = @ \ {MaskBit(idx)}]
MaskFree(idx) == [mask EXCEPT ![MaskWord(idx)] = @ \cup {MaskBit(idx)}]

(* Mutant: the search returns the position ffs() counts from 1.            *)
AvailFromOne == {i \in Slot \ {0} : (i - 1) % LINE_BUFFER_MASK_SIZE
                                       \in mask[(i - 1) \div LINE_BUFFER_MASK_SIZE]}

(* The slots whose bit is set, as get_avail_line_buffer_idx() numbers them:
   bit b of word w is slot w * LINE_BUFFER_MASK_SIZE + b.                  *)
Avail == {i \in Slot : i % LINE_BUFFER_MASK_SIZE
                         \in mask[i \div LINE_BUFFER_MASK_SIZE]}

IsFree(idx) == MaskBit(idx) \in mask[MaskWord(idx)]

(* The buffers in use.                                                     *)
Live == {i \in Slot : ~IsFree(i)} \cup heap

-----------------------------------------------------------------------------
(* Big lines.                                                              *)

LINE_BUFFER_FLAG_BIG == 2
BigFlag(p) == IF p \in BigBlock THEN LINE_BUFFER_FLAG_BIG ELSE 0

(* `FLAG_GET(flag, BIG) == TRUE' compares the bit, 2, with 1.              *)
RefusesLong(p, total) ==
  BigFlag(p) = 1 /\ total > BIG_LINE_BUFFER_CONTENT_MAX_LEN

NeedsBig(p, total) ==
  BigFlag(p) = 0 /\ total > LINE_BUFFER_CONTENT_MAX_LEN

Capacity(p) == IF p \in BigBlock THEN BIG_LINE_BUFFER_CONTENT_MAX_LEN
                                 ELSE LINE_BUFFER_CONTENT_MAX_LEN

(* Capacity of the buffer p is in once a line of that length is stored.    *)
CapacityFor(p, total) ==
  IF NeedsBig(p, total) THEN BIG_LINE_BUFFER_CONTENT_MAX_LEN ELSE Capacity(p)

(* What a line grows to when it would have `total' characters: the text is
   cut where the buffer ends.                                              *)
Appended(total, cap) == IF total > cap THEN cap ELSE total

(* The field f of a buffer p that is given back.                           *)
Cleaned(f, p, zero) == [f EXCEPT ![p] = zero]

(* Mutant: the buffer before p still points at p.                          *)
NextForgotten(p, b) == [next EXCEPT ![b] = next[p], ![p] = NULL]

(* The pointers once block b has taken the place of slot p in the list.    *)
NextWithBig(p, b) == [q \in Node |-> CASE q = b       -> next[p]
                                      [] q = p       -> NULL
                                      [] q = prev[p] -> b
                                      [] OTHER       -> next[q]]

PrevWithBig(p, b) == [q \in Node |-> CASE q = b       -> prev[p]
                                      [] q = p       -> NULL
                                      [] q = next[p] -> b
                                      [] OTHER       -> prev[q]]

(* prepare_big_line_buffer(p) got the block b, and l characters are stored
   in it afterwards.                                                       *)
PrepareBig(p, b, l) ==
  /\ heap' = heap \cup {b}
  /\ next' = NextWithBig(p, b)
  /\ prev' = PrevWithBig(p, b)
  /\ head' = IF prev[p] = NULL THEN b ELSE head
  /\ tail' = IF next[p] = NULL THEN b ELSE tail
  /\ len'   = Cleaned([len   EXCEPT ![b] = l],        p, 0)
  /\ dirty' = Cleaned([dirty EXCEPT ![b] = dirty[p]], p, FALSE)
  /\ line'  = Cleaned([line  EXCEPT ![b] = line[p]],  p, 0)
  /\ mask' = MaskFree(p)

(* The common part of save_one_line() and replace_last_line_content(): the
   last line is to hold `total' characters and holds l of them afterwards. *)
StoreInTail(total, l) ==
  \/ /\ RefusesLong(tail, total)
     /\ UNCHANGED store
  \/ /\ ~RefusesLong(tail, total)
     /\ ~NeedsBig(tail, total)
     /\ len' = [len EXCEPT ![tail] = l]
     /\ UNCHANGED <<head, tail, prev, next, dirty, mask, heap, line>>
  \/ /\ NeedsBig(tail, total)
     /\ \E b \in BigBlock \ heap : PrepareBig(tail, b, l)
  \/ /\ NeedsBig(tail, total)    \* calloc() fails: the text is dropped
     /\ UNCHANGED store

-----------------------------------------------------------------------------
(* Entry points.                                                           *)

(* printv(): split the text at its newlines.                               *)
Printv(o) ==
  /\ pc = "idle"
  /\ line[tail] + Len(o) - 1 <= MaxLine
  /\ pc' = "save" /\ out' = o /\ after' = "return"
  /\ UNCHANGED <<store, log, left, cur>>

(* "logfile flush": announce it on the console, then dump.                 *)
ExecLogfileFlush ==
  /\ pc = "idle"
  /\ line[tail] + 1 <= MaxLine
  /\ pc' = "save" /\ out' = <<FlushMsgLen, 0>> /\ after' = "dump"
  /\ UNCHANGED <<store, log, left, cur>>

(* "logfile clear": truncate the log file.                                 *)
ExecLogfileClear ==
  /\ pc = "idle"
  /\ log' = <<>>
  /\ UNCHANGED <<store, ctl>>

(* replace_last_line(): the edited command line, n characters with prompt. *)
ReplaceLastLine(n) ==
  /\ pc = "idle"
  /\ StoreInTail(n, n)
  /\ UNCHANGED <<log, ctl>>

-----------------------------------------------------------------------------
(* The steps of printv().                                                  *)

(* Mutant: the dump loop starts one line late.                             *)
SecondLine == next[head]

(* Where dump_all_lines_to_disk() starts.                                  *)
DumpStart == head

(* printv() returns, to its caller or to exec_logfile_flush().             *)
Return ==
  /\ \/ after = "return" /\ pc' = "idle" /\ UNCHANGED cur
     \/ after = "dump"   /\ pc' = "dump" /\ cur' = DumpStart'
  /\ out' = <<>>
  /\ UNCHANGED <<left, after>>

(* save_one_line() on the next piece of text; a newline follows it unless
   it is the last.                                                         *)
SaveOneLine ==
  /\ pc = "save"
  /\ LET total == len[tail] + Head(out)
     IN  StoreInTail(total, Appended(total, CapacityFor(tail, total)))
  /\ \/ /\ Len(out) = 1
        /\ Return
     \/ /\ Len(out) > 1
        /\ pc' = "switch" /\ out' = Tail(out)
        /\ UNCHANGED <<left, cur, after>>
  /\ UNCHANGED log

(* switch_to_new_line_buffer() is given slot i.  p->next is not assigned:
   a free slot is all zeros.                                               *)
SwitchToNewLineBuffer(i) ==
  /\ \A j \in Avail : i <= j
  /\ mask'  = MaskUsed(i)
  /\ dirty' = [dirty EXCEPT ![i] = TRUE]
  /\ next'  = [next EXCEPT ![tail] = i]
  /\ prev'  = [prev EXCEPT ![i] = tail]
  /\ line'  = [line EXCEPT ![i] = line[tail] + 1]
  /\ tail'  = i
  /\ pc' = "save"
  /\ UNCHANGED <<head, len, heap, log, out, left, cur, after>>

TakeSlot ==
  /\ pc \in {"switch", "retry"}
  /\ \E i \in Avail : SwitchToNewLineBuffer(i)

(* Mutant: half of the pool is recycled.                                   *)
RecycleHalf == LINE_BUFFER_NUM \div 2

(* How many lines recycle_line_buffer() gives up.                          *)
RecycleNum == LINE_BUFFER_NUM \div 4

(* recycle_line_buffer() when get_avail_line_buffer_idx() returned -1.     *)
StartRecycle ==
  /\ pc = "switch"
  /\ Avail = {}
  /\ pc' = "recycle" /\ left' = RecycleNum
  /\ UNCHANGED <<store, log, out, cur, after>>

(* Mutant: a line flushed before is not written again.                     *)
DumpedIfDirty(p) == IF dirty[p] THEN Append(log, line[p]) ELSE log

(* dump_one_line_to_disk(p), when write() succeeds: the code does not look
   at its result.                                                          *)
Dumped(p) == Append(log, line[p])

(* recycle_head_line(): the line goes to the log whether or not it was
   flushed before, and head->prev of the line that follows is left alone.  *)
RecycleHeadLine ==
  /\ pc = "recycle"
  /\ left > 0
  /\ head' = next[head]
  /\ log'   = Dumped(head)
  /\ next'  = Cleaned(next, head, NULL)
  /\ prev'  = Cleaned(prev, head, NULL)
  /\ len'   = Cleaned(len, head, 0)
  /\ dirty' = Cleaned(dirty, head, FALSE)
  /\ line'  = Cleaned(line, head, 0)
  /\ \/ /\ BigFlag(head) # 0
        /\ heap' = heap \ {head}
        /\ UNCHANGED mask
     \/ /\ BigFlag(head) = 0
        /\ mask' = MaskFree(head)
        /\ UNCHANGED heap
  /\ left' = left - 1
  /\ UNCHANGED <<tail, pc, out, cur, after>>

EndRecycle ==
  /\ pc = "recycle"
  /\ left = 0
  /\ pc' = "retry"
  /\ UNCHANGED <<store, log, out, left, cur, after>>

(* No slot even now: save_output_to_line_buffer() drops what is left.      *)
DropOutput ==
  /\ pc = "retry"
  /\ Avail = {}
  /\ UNCHANGED <<store, log>>
  /\ Return

(* The loop of dump_all_lines_to_disk() stops at the tail.                 *)
DumpDone == cur = tail

(* Mutant: a clean line is skipped before the cursor is advanced.          *)
NextDirty(p) == IF dirty[p] THEN next[p] ELSE p

(* The line dumped after that in p.                                        *)
NextDumped(p) == next[p]

(* One turn of the loop.                                                   *)
DumpLine ==
  /\ pc = "dump"
  /\ ~DumpDone
  /\ \/ /\ dirty[cur]
        /\ log' = Dumped(cur)
        /\ dirty' = [dirty EXCEPT ![cur] = FALSE]
     \/ /\ ~dirty[cur]
        /\ UNCHANGED <<log, dirty>>
  /\ cur' = NextDumped(cur)
  /\ UNCHANGED <<head, tail, prev, next, len, mask, heap, line,
                 pc, out, left, after>>

DumpEnd ==
  /\ pc = "dump"
  /\ DumpDone
  /\ pc' = "idle" /\ cur' = NULL /\ after' = "return"
  /\ UNCHANGED <<store, log, out, left>>

-----------------------------------------------------------------------------

(* line_buffer_init() took slot 0 for the first line.                      *)
Init ==
  /\ head = 0 /\ tail = 0
  /\ prev  = [p \in Node |-> NULL]
  /\ next  = [p \in Node |-> NULL]
  /\ len   = [p \in Node |-> 0]
  /\ dirty = [p \in Node |-> p = 0]
  /\ line  = [p \in Node |-> IF p = 0 THEN 1 ELSE 0]
  /\ mask  = [w \in Word |-> IF w = 0 THEN Bit \ {0} ELSE Bit]
  /\ heap = {}
  /\ log = <<>>
  /\ pc = "idle" /\ out = <<>> /\ left = 0 /\ cur = NULL /\ after = "return"

(* The steps inside a call, and the calls.                                 *)
Step ==
  \/ SaveOneLine
  \/ TakeSlot
  \/ StartRecycle
  \/ RecycleHeadLine
  \/ EndRecycle
  \/ DropOutput
  \/ DumpLine
  \/ DumpEnd

Call ==
  \/ \E o \in Output : Printv(o)
  \/ \E n \in PromptLen : ReplaceLastLine(n)
  \/ ExecLogfileFlush
  \/ ExecLogfileClear

Next == Step \/ Call

Spec == Init /\ [][Next]_vars

(* The one thread of the program keeps running inside a call.              *)
FairSpec == Spec /\ WF_vars(Step)

-----------------------------------------------------------------------------

StoreTypeOK ==
  /\ head \in Node /\ tail \in Node
  /\ prev \in [Node -> Node \cup {NULL}]
  /\ next \in [Node -> Node \cup {NULL}]
  /\ len \in [Node -> Nat]
  /\ dirty \in [Node -> BOOLEAN]
  /\ line \in [Node -> Nat]
  /\ mask \in [Word -> SUBSET Bit]
  /\ heap \in SUBSET BigBlock

ControlTypeOK ==
  /\ log \in Seq(Nat)
  /\ pc \in {"idle", "save", "switch", "recycle", "retry", "dump"}
  /\ out \in Seq(Nat)
  /\ left \in 0 .. LINE_BUFFER_NUM \div 4
  /\ cur \in Node \cup {NULL}
  /\ after \in {"return", "dump"}

(* Every variable has its type; head is never the NULL that follows the
   last line.                                                              *)
TypeOK == StoreTypeOK /\ ControlTypeOK

(* The buffers in use hold consecutive console lines, each line once.      *)
HoldsLines ==
  /\ head \in Live /\ tail \in Live
  /\ \A p \in Live : line[p] > 0 /\ line[p] \in line[head] .. line[tail]
  /\ \A p, q \in Live : line[p] = line[q] => p = q

(* The list links the lines in use in order.  Only head->prev may be stale:
   recycling does not reset it, and it is NULL before the first recycling,
   which prepare_big_line_buffer() relies on to find out it moves the head.*)
Linked ==
  /\ next[tail] = NULL
  /\ \A p \in Live \ {tail} : /\ next[p] \in Live
                              /\ line[next[p]] = line[p] + 1
  /\ \A p \in Live \ {head} : /\ prev[p] \in Live
                              /\ line[prev[p]] = line[p] - 1
  /\ line[head] = 1 => prev[head] = NULL

(* A free buffer is all zeros: switch_to_new_line_buffer() assigns neither
   its next pointer nor its length.                                        *)
FreeIsZero ==
  \A p \in Node \ Live : /\ next[p] = NULL /\ prev[p] = NULL
                         /\ len[p] = 0 /\ ~dirty[p] /\ line[p] = 0

(* No line is longer than the buffer that holds it, whatever sequence of
   prints, edits and moves to a heap block wrote it.                       *)
FitsBuffer == \A p \in Live : len[p] <= Capacity(p)

(* The line still being written is never in the log, by a flush or by a
   recycling, and neither is one that does not exist yet.                  *)
TailNotLogged ==
  /\ dirty[tail]
  /\ \A i \in DOMAIN log : log[i] < line[tail]

(* Recycling leaves three quarters of a pool's worth of scrollback, so the
   list never runs empty while its head is being recycled.                 *)
RetainsScrollback ==
  line[head] > 1 =>
    line[tail] - line[head] + 1 >= LINE_BUFFER_NUM - LINE_BUFFER_NUM \div 4

(* The list, the slots, the flags and the log agree with one another through
   every print, edit, recycling, flush and move to a heap block, also when
   calloc() fails in the middle of one.                                    *)
StoreConsistent ==
  TypeOK /\ Linked /\ FreeIsZero /\ FitsBuffer /\ TailNotLogged

(* recycle_line_buffer() starts from at least a whole pool of lines.       *)
RecycleCount ==
  pc = "recycle" =>
    line[tail] - line[head] + 1 >=
      LINE_BUFFER_NUM - (LINE_BUFFER_NUM \div 4 - left)

(* While the dump loop runs its cursor is a line in use and every line
   before it is clean.                                                     *)
DumpProgress ==
  pc = "dump" => /\ cur \in Live
                 /\ \A p \in Live : line[p] < line[cur] => ~dirty[p]

(* The pieces of a text still to be saved are there when they are needed.  *)
OutPending == pc \in {"save", "switch", "recycle", "retry"} => out # <<>>

-----------------------------------------------------------------------------
(* Action properties.                                                      *)

(* Lines leave the scrollback oldest first and one at a time, and a line
   that left it is in the log file then, even if it was flushed before and
   the log file was cleared since.                                         *)
NothingLost ==
  [][\/ line'[head'] = line[head]
     \/ /\ line'[head'] = line[head] + 1
        /\ \E i \in DOMAIN log' : log'[i] = line[head]]_vars

(* When "logfile flush" returns every complete line has been written since
   it was created: none is dirty.                                          *)
FlushLeavesClean ==
  [][pc = "dump" /\ pc' = "idle" => \A p \in Live \ {tail} : ~dirty[p]]_vars

(* Liveness: every call returns.                                           *)
CallReturns == pc # "idle" ~> pc = "idle"

-----------------------------------------------------------------------------
(* The line store implements the console of module Console: the scrollback
   runs from the number of the head's line to that of the tail's, and the
   lines saved are those whose buffers are clean.                          *)

SavedLines == {line[p] : p \in {q \in Live : ~dirty[q]}}

Promise == INSTANCE Console WITH
  Keep  <- LINE_BUFFER_NUM - LINE_BUFFER_NUM \div 4,
  first <- line[head],
  last  <- line[tail],
  saved <- SavedLines,
  sweep <- IF pc = "dump" THEN line[cur] ELSE 0,
  disk  <- log

(* Every step is a step of the console or changes nothing it shows.        *)
KeepsPromise == Promise!CSpec

-----------------------------------------------------------------------------
(* What the texts of the repository say and the code does not do.          *)

(* "All console content dumped.": when "logfile flush" returns, the log has
   every line of the console but the last.                                 *)
FlushDumpsAll ==
  [][pc = "dump" /\ pc' = "idle" =>
       \A p \in Live \ {tail} : \E i \in DOMAIN log : log[i] = line[p]]_vars

=============================================================================
