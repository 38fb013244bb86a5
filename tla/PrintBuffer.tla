----------------------------- MODULE PrintBuffer -----------------------------
(***************************************************************************)
(* The output of one request to the parser (gvd_common.c and               *)
(* cli_parser_request()): handlers print to a buffer that grows, and the   *)
(* request returns a copy of it.  Text is its length; allocations may fail *)
(* whenever they are made.                                                 *)
(*                                                                         *)
(* Most texts are printed as they are.  What a shell command writes is     *)
(* itself the format: conversions in it give text of any length, or make   *)
(* vsnprintf() fail.  Lengths are unsigned and wrap, the failure included. *)
(* One that stops the process is left out: nothing follows it.             *)
(***************************************************************************)
EXTENDS Integers

CONSTANTS
  PRINT_BUFFER_INIT_SIZE,
  PRINT_BUFFER_GROW_SIZE,
  SHELL_CMD_OUTPUT_BUF_SIZE,
  UINT_SPAN,       (* the values of a uint32_t                             *)
  TextLen,         (* lengths of the texts handlers print                  *)
  ConvertedLen,    (* lengths conversions may give the output of a program *)
  NULL,
  MaxTotal         (* what a request prints at most: the bound of the model *)

(* What vsnprintf() returns when it cannot convert.                        *)
FAILS == -1

ASSUME SizeAssumption ==
  /\ PRINT_BUFFER_INIT_SIZE \in Nat \ {0}
  /\ PRINT_BUFFER_GROW_SIZE \in Nat
  /\ PRINT_BUFFER_GROW_SIZE >= PRINT_BUFFER_INIT_SIZE
  /\ SHELL_CMD_OUTPUT_BUF_SIZE \in Nat /\ TextLen \cup ConvertedLen \subseteq Nat
  /\ MaxTotal \in Nat /\ NULL \notin Nat
  /\ UINT_SPAN \in Nat /\ 2 * MaxTotal + PRINT_BUFFER_GROW_SIZE < UINT_SPAN

VARIABLES
  buf,                        \* strlen() of the buffer, or NULL
  max_len, offset, free_len,
  text,                       \* what vsnprintf() returns for what is printed
  pc,                         \* where the request is
  output,                     \* what the last request returned, or NULL
  total,                      \* how much the handlers printed
  failed                      \* an allocation failed in this request

buffer == <<buf, max_len, offset, free_len>>
vars   == <<buf, max_len, offset, free_len, text, pc, output, total, failed>>

-----------------------------------------------------------------------------
(* printb().                                                               *)

(* printb() is called; without a buffer it returns at once.                *)
Printb(result) ==
  /\ pc = "handler"
  /\ total' = IF result = FAILS THEN total ELSE total + result
  /\ total' <= MaxTotal
  /\ IF buf = NULL
       THEN UNCHANGED <<text, pc>>
       ELSE text' = result /\ pc' = "print"
  /\ UNCHANGED <<buffer, output, failed>>

(* run_shell_cmd() prints what it read up to the first zero byte, and this
   is the format: it is printed as it is if no conversion is in it.  (So is
   what was typed, in autofill_cli().)                                     *)
RunShellCmd ==
  \E result \in 0 .. SHELL_CMD_OUTPUT_BUF_SIZE \cup ConvertedLen \cup {FAILS} :
    Printb(result)

(* The length printb() goes by: an unsigned number.                        *)
Length == IF text = FAILS THEN UINT_SPAN - 1 ELSE text

(* Mutant: a text that leaves no room for its zero byte is taken to fit.   *)
FitsExactly == Length <= free_len

Fits == Length < free_len

(* vsnprintf() cuts a text to leave room for the zero byte.  (Nobody reads
   what it wrote before it failed.)                                        *)
Written == IF text = FAILS THEN 0 ELSE IF Fits THEN text ELSE free_len - 1

PrintFits ==
  /\ pc \in {"print", "retry"} /\ Fits
  /\ buf' = offset + Written
  /\ offset' = offset + text
  /\ free_len' = free_len - text
  /\ pc' = "handler"
  /\ UNCHANGED <<max_len, text, output, total, failed>>

PrintCut ==
  /\ pc \in {"print", "retry"} /\ ~Fits
  /\ buf' = offset + Written
  /\ pc' = "grow"
  /\ UNCHANGED <<max_len, offset, free_len, text, output, total, failed>>

(* The sum of two unsigned numbers.                                        *)
Wrap(n) == IF n < UINT_SPAN THEN n ELSE n - UINT_SPAN

(* Mutants: the length of the text is left out; a short text does not make
   the buffer grow.                                                        *)
GrowLenFixed == PRINT_BUFFER_GROW_SIZE
GrowLenOfLong ==
  IF Length < PRINT_BUFFER_INIT_SIZE THEN 0 ELSE Wrap(PRINT_BUFFER_GROW_SIZE + Length)

GrowLen ==
  IF Length < PRINT_BUFFER_INIT_SIZE
    THEN PRINT_BUFFER_GROW_SIZE
    ELSE Wrap(PRINT_BUFFER_GROW_SIZE + Length)

NewLen == Wrap(max_len + GrowLen)

(* grow_print_buffer().  When its size wrapped the block is smaller than
   before; behind its end the model stops.                                 *)
Grow ==
  /\ pc = "grow" /\ NewLen # 0
  /\ max_len' = NewLen
  /\ free_len' = Wrap(free_len + GrowLen)
  /\ pc' = IF offset < NewLen THEN "retry" ELSE "fault"
  /\ UNCHANGED <<buf, offset, text, output, total, failed>>

(* realloc() fails, or returns NULL for a size of 0: the buffer and all that
   is in it are lost.                                                      *)
GrowFails ==
  /\ pc = "grow"
  /\ buf' = NULL /\ failed' = TRUE
  /\ pc' = "handler"
  /\ UNCHANGED <<max_len, offset, free_len, text, output, total>>

-----------------------------------------------------------------------------
(* Requests.                                                               *)

(* init_cli_parser_info(): a zeroed buffer, and a handler runs.            *)
Request ==
  /\ pc = "idle"
  /\ buf' = 0
  /\ max_len' = PRINT_BUFFER_INIT_SIZE
  /\ free_len' = PRINT_BUFFER_INIT_SIZE
  /\ offset' = 0
  /\ total' = 0 /\ failed' = FALSE
  /\ output' = NULL
  /\ pc' = "handler"
  /\ UNCHANGED text

(* There is no memory for the command or for the buffer.                   *)
RequestFails ==
  /\ pc = "idle"
  /\ total' = 0 /\ failed' = TRUE
  /\ output' = NULL
  /\ UNCHANGED <<buffer, text, pc>>

(* The copy, if there is a buffer and memory for it, and
   clean_cli_parser_info().                                                *)
Return ==
  /\ pc = "handler"
  /\ \/ output' = buf /\ UNCHANGED failed
     \/ output' = NULL /\ failed' = TRUE
  /\ buf' = NULL /\ max_len' = 0 /\ offset' = 0 /\ free_len' = 0
  /\ pc' = "idle"
  /\ UNCHANGED <<text, total>>

-----------------------------------------------------------------------------

Init ==
  /\ buf = NULL /\ max_len = 0 /\ offset = 0 /\ free_len = 0
  /\ text = 0 /\ pc = "idle" /\ output = NULL
  /\ total = 0 /\ failed = TRUE

(* The loop of printb().                                                   *)
Loop == PrintFits \/ PrintCut \/ Grow \/ GrowFails

Next ==
  \/ Request \/ RequestFails \/ Return
  \/ \E len \in TextLen : Printb(len)
  \/ RunShellCmd
  \/ Loop

Spec     == Init /\ [][Next]_vars
FairSpec == Spec /\ WF_vars(Loop)

-----------------------------------------------------------------------------

(* Every variable has its type.                                            *)
TypeOK ==
  /\ buf \in Nat \cup {NULL}
  /\ max_len \in Nat /\ offset \in Nat /\ free_len \in Nat
  /\ text \in Nat \cup {FAILS}
  /\ pc \in {"idle", "handler", "print", "grow", "retry", "fault"}
  /\ output \in Nat \cup {NULL}
  /\ total \in 0 .. MaxTotal /\ failed \in BOOLEAN

(* offset and free_len, which are counted apart, always make up the buffer,
   with room for the zero byte.                                            *)
AddsUp == buf # NULL /\ pc # "fault" => offset + free_len = max_len /\ free_len > 0

(* A buffer that grew once is large enough for a text that was converted.
   For one that was not no buffer is: printb() grows it again and again,
   until realloc() fails.                                                  *)
GrowsOnce == pc = "retry" => (Fits <=> text # FAILS)

(* vsnprintf() never writes behind the buffer, unless a conversion failed so
   often that the size of the buffer wrapped.                              *)
OverrunNeeds == pc = "fault" => text = FAILS

(* The buffer's counters and the retries of printb() stay sound over any
   sequence of texts and failing allocations.                              *)
BufferConsistent == TypeOK /\ AddsUp /\ GrowsOnce /\ OverrunNeeds

(* A request returns all that was printed, or nothing because an allocation
   failed; a text that had to be printed twice is in it once, uncut.       *)
OutputWhole ==
  pc = "idle" => IF output = NULL THEN failed ELSE output = total

(* printb() returns, unless a conversion fails.                            *)
PrintbReturns == pc = "print" /\ text # FAILS ~> pc = "handler"

=============================================================================
