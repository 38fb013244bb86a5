-------------------------- MODULE PrintBufferProofs --------------------------
(***************************************************************************)
(* Proofs about the print buffer, for all sizes and texts.                 *)
(***************************************************************************)
EXTENDS PrintBuffer, TLAPS

(* How much of what is printed is text.                                    *)
Text == IF text = FAILS THEN 0 ELSE text

(* While a text is printed nothing failed, and what was printed before it
   ends at offset; between texts the buffer holds all of it.               *)
Tracks ==
  /\ pc \in {"print", "grow", "retry"} => buf # NULL /\ ~failed /\ total = offset + Text
  /\ pc = "handler" =>
       IF buf = NULL THEN failed ELSE ~failed /\ buf = offset /\ total = offset
  /\ pc = "grow" => ~Fits

(* The buffer is never much longer than what is in it and what is printed,
   as long as conversions succeed; so its size does not wrap.              *)
Bounded ==
  buf # NULL =>
    /\ max_len < UINT_SPAN
    /\ pc = "handler" \/ (pc \in {"print", "grow"} /\ text # FAILS) =>
         free_len <= PRINT_BUFFER_GROW_SIZE + total
    /\ pc = "retry" /\ text # FAILS => free_len <= PRINT_BUFFER_GROW_SIZE + total + text

IInv == TypeOK /\ AddsUp /\ GrowsOnce /\ OverrunNeeds /\ OutputWhole /\ Tracks /\ Bounded

(* The sum of two unsigned numbers is one.                                 *)
LEMMA WrapType ==
  ASSUME NEW n \in Nat, n < 2 * UINT_SPAN
  PROVE  Wrap(n) \in Nat /\ Wrap(n) < UINT_SPAN
BY SizeAssumption DEF Wrap

LEMMA LengthType ==
  ASSUME text \in Nat \cup {FAILS}, text # FAILS => text <= MaxTotal
  PROVE  /\ Length \in Nat /\ Length < UINT_SPAN
         /\ GrowLen \in Nat /\ GrowLen < UINT_SPAN
         /\ text # FAILS => Length = text
         /\ text = FAILS => Length = UINT_SPAN - 1
<1>1. /\ Length \in Nat /\ Length < UINT_SPAN
      /\ text # FAILS => Length = text
      /\ text = FAILS => Length = UINT_SPAN - 1
  BY SizeAssumption DEF Length
<1>2. Wrap(PRINT_BUFFER_GROW_SIZE + Length) \in Nat /\ Wrap(PRINT_BUFFER_GROW_SIZE + Length) < UINT_SPAN
  <2>1. PRINT_BUFFER_GROW_SIZE + Length \in Nat /\ PRINT_BUFFER_GROW_SIZE + Length < 2 * UINT_SPAN
    BY <1>1, SizeAssumption
  <2> QED
    BY <2>1, WrapType
<1> QED
  BY <1>1, <1>2, SizeAssumption DEF GrowLen

(* printb() makes the buffer long enough for any text.                     *)
LEMMA GrowLenIs ==
  ASSUME text \in Nat, text <= MaxTotal
  PROVE  /\ GrowLen \in Nat /\ GrowLen <= PRINT_BUFFER_GROW_SIZE + text
         /\ text < GrowLen
<1>1. text # FAILS
  BY DEF FAILS
<1>2. Length = text
  BY <1>1, LengthType
<1>3. PRINT_BUFFER_GROW_SIZE + text < UINT_SPAN
  BY SizeAssumption
<1> QED
  BY <1>2, <1>3, SizeAssumption DEF GrowLen, Wrap

LEMMA Start == Init => IInv
BY SizeAssumption
DEF Init, IInv, TypeOK, AddsUp, GrowsOnce, OverrunNeeds, OutputWhole, Tracks, Bounded

LEMMA PrintbInv ==
  ASSUME IInv, NEW result \in Nat \cup {FAILS}, Printb(result) PROVE IInv'
<1>1. /\ pc = "handler" /\ total' = (IF result = FAILS THEN total ELSE total + result)
      /\ total' <= MaxTotal
      /\ UNCHANGED <<buf, max_len, offset, free_len, output, failed>>
  BY DEF Printb, buffer
<1>2. total' \in 0 .. MaxTotal /\ total <= total'
  BY <1>1, SizeAssumption DEF IInv, TypeOK, FAILS
<1>3. CASE buf = NULL
  BY <1>1, <1>2, <1>3, SizeAssumption
  DEF Printb, IInv, TypeOK, AddsUp, GrowsOnce, OverrunNeeds, OutputWhole, Tracks, Bounded
<1>4. CASE buf # NULL
  <2>1. text' = result /\ pc' = "print"
    BY <1>4 DEF Printb
  <2>2. TypeOK' /\ AddsUp' /\ GrowsOnce' /\ OverrunNeeds' /\ OutputWhole'
    BY <1>1, <1>2, <1>4, <2>1 DEF IInv, TypeOK, AddsUp, GrowsOnce, OverrunNeeds, OutputWhole
  <2>3. Tracks'
    BY <1>1, <1>2, <1>4, <2>1 DEF IInv, TypeOK, Tracks, Text
  <2>4. Bounded'
    BY <1>1, <1>2, <1>4, <2>1, SizeAssumption DEF IInv, TypeOK, Bounded
  <2> QED
    BY <2>2, <2>3, <2>4 DEF IInv
<1> QED
  BY <1>3, <1>4

(* A text that was converted is part of what a request may print.          *)
LEMMA TextBound ==
  ASSUME IInv, pc \in {"print", "grow", "retry"}
  PROVE  /\ text # FAILS => text \in Nat /\ text <= MaxTotal
         /\ buf \in Nat /\ buf # NULL /\ offset + free_len = max_len /\ free_len > 0
         /\ Length \in Nat /\ Length < UINT_SPAN
         /\ text # FAILS => Length = text
         /\ text = FAILS => Length = UINT_SPAN - 1
<1>1. /\ text # FAILS => text \in Nat /\ text <= MaxTotal
      /\ buf \in Nat /\ buf # NULL /\ offset + free_len = max_len /\ free_len > 0
  BY SizeAssumption DEF IInv, TypeOK, Tracks, Text, AddsUp
<1> QED
  BY <1>1, LengthType DEF IInv, TypeOK

LEMMA GrowInv ==
  ASSUME IInv, Grow PROVE IInv'
<1>1. /\ pc = "grow" /\ NewLen # 0 /\ max_len' = NewLen /\ free_len' = Wrap(free_len + GrowLen)
      /\ pc' = (IF offset < NewLen THEN "retry" ELSE "fault")
      /\ UNCHANGED <<buf, offset, text, output, total, failed>>
  BY DEF Grow
<1>2. /\ text # FAILS => text \in Nat /\ text <= MaxTotal
      /\ buf # NULL /\ offset + free_len = max_len /\ free_len > 0
      /\ Length \in Nat /\ Length < UINT_SPAN
      /\ text # FAILS => Length = text
      /\ text = FAILS => Length = UINT_SPAN - 1
      /\ max_len < UINT_SPAN /\ ~Fits /\ ~failed /\ total = offset + Text
      /\ max_len \in Nat /\ offset \in Nat /\ free_len \in Nat /\ total \in 0 .. MaxTotal
  BY <1>1, TextBound DEF IInv, Bounded, Tracks, TypeOK
<1>3. GrowLen \in Nat /\ GrowLen < UINT_SPAN
  BY <1>2, LengthType DEF IInv, TypeOK
<1>4. NewLen \in Nat /\ NewLen < UINT_SPAN /\ free_len' \in Nat /\ free_len' < UINT_SPAN
  <2>1. /\ max_len + GrowLen \in Nat /\ max_len + GrowLen < 2 * UINT_SPAN
        /\ free_len + GrowLen \in Nat /\ free_len + GrowLen < 2 * UINT_SPAN
    BY <1>2, <1>3, SizeAssumption
  <2> QED
    BY <1>1, <2>1, WrapType DEF NewLen
<1>5. CASE text # FAILS
  <2>1. GrowLen <= PRINT_BUFFER_GROW_SIZE + text /\ text < GrowLen
    BY <1>2, <1>5, GrowLenIs
  <2>2. free_len <= text /\ total = offset + text
    BY <1>2, <1>5 DEF Fits, Text
  <2>3. max_len + GrowLen < UINT_SPAN /\ free_len + GrowLen < UINT_SPAN
    BY <1>2, <1>3, <1>5, <2>1, <2>2, SizeAssumption
  <2>4. NewLen = max_len + GrowLen /\ free_len' = free_len + GrowLen
    BY <1>1, <2>3 DEF NewLen, Wrap
  <2>5. pc' = "retry" /\ text < free_len'
    BY <1>1, <1>2, <1>3, <1>5, <2>1, <2>4
  <2>6. TypeOK' /\ AddsUp' /\ OverrunNeeds' /\ OutputWhole'
    BY <1>1, <1>2, <1>3, <1>4, <2>4, <2>5 DEF IInv, TypeOK, AddsUp, OverrunNeeds, OutputWhole
  <2>7. Length' = Length
    BY <1>1 DEF Length
  <2>8. GrowsOnce'
    BY <1>1, <1>2, <1>5, <2>5, <2>7 DEF GrowsOnce, Fits
  <2>9. Tracks'
    BY <1>1, <1>2, <2>5 DEF Tracks, Text
  <2>10. Bounded'
    BY <1>1, <1>2, <1>3, <1>4, <1>5, <2>1, <2>2, <2>4, <2>5, SizeAssumption DEF Bounded
  <2> QED
    BY <2>6, <2>8, <2>9, <2>10 DEF IInv
<1>6. CASE text = FAILS
  <2>1. ASSUME offset < NewLen PROVE offset + free_len' = NewLen
    <3>1. CASE max_len + GrowLen < UINT_SPAN
      BY <1>1, <1>2, <1>3, <3>1, SizeAssumption DEF NewLen, Wrap
    <3>2. CASE ~(max_len + GrowLen < UINT_SPAN)
      <4>1. NewLen = max_len + GrowLen - UINT_SPAN
        BY <1>2, <1>3, <3>2, SizeAssumption DEF NewLen, Wrap
      <4>2. ~(free_len + GrowLen < UINT_SPAN)
        BY <1>2, <1>3, <2>1, <4>1, SizeAssumption
      <4> QED
        BY <1>1, <1>2, <1>3, <4>1, <4>2, SizeAssumption DEF Wrap
    <3> QED
      BY <3>1, <3>2
  <2>2. TypeOK' /\ OverrunNeeds' /\ OutputWhole'
    BY <1>1, <1>4, <1>6 DEF IInv, TypeOK, OverrunNeeds, OutputWhole
  <2>3. AddsUp'
    BY <1>1, <1>2, <1>4, <2>1 DEF AddsUp
  <2>4. Length' = Length
    BY <1>1 DEF Length
  <2>5. GrowsOnce'
    BY <1>1, <1>2, <1>4, <1>6, <2>4, SizeAssumption DEF GrowsOnce, Fits
  <2>6. Tracks' /\ Bounded'
    BY <1>1, <1>2, <1>4, <1>6 DEF Tracks, Text, Bounded
  <2> QED
    BY <2>2, <2>3, <2>5, <2>6 DEF IInv
<1> QED
  BY <1>5, <1>6

LEMMA LoopInv ==
  ASSUME IInv, Loop PROVE IInv'
<1>1. CASE PrintFits
  <2>1. /\ pc \in {"print", "retry"} /\ Fits /\ pc' = "handler" /\ buf' = offset + Written
        /\ offset' = offset + text /\ free_len' = free_len - text
        /\ UNCHANGED <<max_len, text, output, total, failed>>
    BY <1>1 DEF PrintFits
  <2>2. /\ text # FAILS => text \in Nat /\ text <= MaxTotal
        /\ buf \in Nat /\ buf # NULL /\ offset + free_len = max_len /\ free_len > 0
        /\ text # FAILS => Length = text
        /\ text = FAILS => Length = UINT_SPAN - 1
        /\ max_len < UINT_SPAN /\ ~failed /\ total = offset + Text
        /\ max_len \in Nat /\ offset \in Nat /\ free_len \in Nat /\ total \in 0 .. MaxTotal
    BY <2>1, TextBound DEF IInv, Bounded, Tracks, TypeOK
  <2>3. text # FAILS /\ text \in Nat /\ text < free_len
    BY <2>1, <2>2, SizeAssumption DEF Fits
  <2>4. total = offset + text /\ Written = text
    BY <2>1, <2>2, <2>3 DEF Text, Written
  <2>5. buf' \in Nat /\ buf' # NULL /\ offset' \in Nat /\ free_len' \in Nat /\ free_len' > 0
        /\ offset' + free_len' = max_len /\ buf' = offset' /\ total = offset'
    BY <2>1, <2>2, <2>3, <2>4, SizeAssumption
  <2>6. TypeOK' /\ AddsUp' /\ GrowsOnce' /\ OverrunNeeds' /\ OutputWhole' /\ Tracks'
    BY <2>1, <2>2, <2>5
    DEF IInv, TypeOK, AddsUp, GrowsOnce, OverrunNeeds, OutputWhole, Tracks
  <2>7. Bounded'
    BY <2>1, <2>2, <2>3, <2>5, SizeAssumption DEF IInv, Bounded
  <2> QED
    BY <2>6, <2>7 DEF IInv
<1>2. CASE PrintCut
  <2>1. /\ pc \in {"print", "retry"} /\ ~Fits /\ pc' = "grow" /\ buf' = offset + Written
        /\ UNCHANGED <<max_len, offset, free_len, text, output, total, failed>>
    BY <1>2 DEF PrintCut
  <2>2. pc = "print" \/ text = FAILS
    BY <2>1 DEF IInv, GrowsOnce
  <2>3. /\ free_len \in Nat /\ free_len > 0 /\ offset \in Nat /\ buf # NULL
    BY <2>1, TextBound DEF IInv, TypeOK
  <2>4. Written \in Nat
    BY <2>1, <2>3 DEF Written
  <2>5. buf' \in Nat /\ buf' # NULL
    BY <2>1, <2>3, <2>4, SizeAssumption
  <2>6. Fits' <=> Fits
    BY <2>1 DEF Fits, Length
  <2>7. TypeOK' /\ AddsUp' /\ GrowsOnce' /\ OverrunNeeds' /\ OutputWhole'
    BY <2>1, <2>3, <2>5 DEF IInv, TypeOK, AddsUp, GrowsOnce, OverrunNeeds, OutputWhole
  <2>8. Tracks'
    BY <2>1, <2>3, <2>5, <2>6 DEF IInv, Tracks, Text
  <2>9. Bounded'
    BY <2>1, <2>2, <2>3 DEF IInv, Bounded
  <2> QED
    BY <2>7, <2>8, <2>9 DEF IInv
<1>3. CASE Grow
  BY <1>3, GrowInv
<1>4. CASE GrowFails
  BY <1>4, SizeAssumption
  DEF GrowFails, IInv, TypeOK, AddsUp, GrowsOnce, OverrunNeeds, OutputWhole, Tracks, Bounded
<1> QED
  BY <1>1, <1>2, <1>3, <1>4 DEF Loop

LEMMA NextInv == IInv /\ [Next]_vars => IInv'
<1> SUFFICES ASSUME IInv, [Next]_vars PROVE IInv'
  OBVIOUS
<1>1. CASE Request
  <2>0. failed' \in BOOLEAN /\ ~failed'
    BY <1>1, Zenon DEF Request
  <2>1. TypeOK'
    BY <1>1, <2>0, SizeAssumption DEF Request, IInv, TypeOK
  <2>2. AddsUp' /\ GrowsOnce' /\ OverrunNeeds' /\ OutputWhole'
    BY <1>1, SizeAssumption DEF Request, AddsUp, GrowsOnce, OverrunNeeds, OutputWhole
  <2>3. Tracks' /\ Bounded'
    BY <1>1, <2>0, SizeAssumption DEF Request, Tracks, Bounded
  <2> QED
    BY <2>1, <2>2, <2>3 DEF IInv
<1>7. CASE RequestFails
  BY <1>7, SizeAssumption
  DEF RequestFails, buffer, IInv, TypeOK, AddsUp, GrowsOnce, OverrunNeeds, OutputWhole, Tracks,
      Bounded
<1>2. CASE Return
  BY <1>2, SizeAssumption
  DEF Return, IInv, TypeOK, AddsUp, GrowsOnce, OverrunNeeds, OutputWhole, Tracks, Bounded
<1>3. ASSUME NEW len \in TextLen, Printb(len) PROVE IInv'
  BY <1>3, PrintbInv, SizeAssumption
<1>4. CASE RunShellCmd
  <2> PICK result \in 0 .. SHELL_CMD_OUTPUT_BUF_SIZE \cup ConvertedLen \cup {FAILS} :
        Printb(result)
    BY <1>4 DEF RunShellCmd
  <2>1. result \in Nat \cup {FAILS}
    BY SizeAssumption
  <2> QED
    BY <2>1, PrintbInv
<1>5. CASE Loop
  BY <1>5, LoopInv
<1>6. CASE UNCHANGED vars
  <2>1. (Fits' <=> Fits) /\ Text' = Text
    BY <1>6 DEF vars, Fits, Length, Text
  <2> QED
    BY <1>6, <2>1
    DEF vars, IInv, TypeOK, AddsUp, GrowsOnce, OverrunNeeds, OutputWhole, Tracks, Bounded
<1> QED
  BY <1>1, <1>2, <1>3, <1>4, <1>5, <1>6, <1>7 DEF Next

LEMMA Invariance == Spec => []IInv
BY Start, NextInv, PTL DEF Spec

(* The lengths that printb() and grow_print_buffer() keep apart always add up
   to the size of the buffer.                                              *)
THEOREM BufferBound == Spec => []AddsUp
<1>1. IInv => AddsUp
  BY DEF IInv
<1> QED
  BY Invariance, <1>1, PTL

(* printb() prints a text at most twice, and never ends with one that cannot
   be converted unless it loses the buffer.                                *)
THEOREM OneRetry == Spec => []GrowsOnce
<1>1. IInv => GrowsOnce
  BY DEF IInv
<1> QED
  BY Invariance, <1>1, PTL

(* Both, with the types of all variables, and nothing is written behind the
   buffer before a failing conversion made its size wrap.                  *)
THEOREM BufferSound == Spec => []BufferConsistent
<1>1. IInv => BufferConsistent
  BY DEF IInv, BufferConsistent
<1> QED
  BY Invariance, <1>1, PTL

(* Whatever handlers print, cli_parser_request() returns all of it or, after
   a failed allocation, nothing.                                           *)
THEOREM WholeOutput == Spec => []OutputWhole
<1>1. IInv => OutputWhole
  BY DEF IInv
<1> QED
  BY Invariance, <1>1, PTL

=============================================================================
