----------------------------- MODULE TtyRegistry -----------------------------
(***************************************************************************)
(* The TTYs of GVD (gvd_tty.c): the main one, which the main thread uses   *)
(* without a lock, and the virtual ones, which other threads create, use   *)
(* and destroy through the registry, under its mutex.                      *)
(*                                                                         *)
(* The threads besides the main one are callers of the exported functions; *)
(* they may call any of them with any id at any time.  What the mutex      *)
(* protects is one action; taking it and giving it back are actions of     *)
(* their own, and a command is not over when its handler waits for a       *)
(* program (popen) or is printing to the console.                          *)
(***************************************************************************)
EXTENDS CliModes, Integers, Sequences, SequencesExt

CONSTANTS
  Caller, Main,    (* the threads                                          *)
  Block, gvd_tty,  (* the memory calloc() returns for a TTY; the main TTY  *)
  NULL,
  ID_SPAN,         (* ids next_tty_id counts through before it wraps       *)
  FIRST_ID,        (* its first value                                      *)
  MaxCreate        (* TTYs that are created: the bound of the model        *)

GVD_INVALID_VTY_ID == 0
TtyId  == 0 .. ID_SPAN - 1
Thread == Caller \cup {Main}
Tty    == Block \cup {gvd_tty}

ASSUME IdAssumption ==
  /\ ID_SPAN \in Nat /\ FIRST_ID \in 1 .. ID_SPAN - 1
  /\ MaxCreate \in Nat

ASSUME ThreadAssumption ==
  Main \notin Caller /\ gvd_tty \notin Block /\ NULL \notin Caller \cup Tty \cup {Main}

VARIABLES
  ctrls,        \* the blocks from tty_ctrl_head on
  tty_id, mode, \* of each block; the mode of the main TTY, too
  next_tty_id,
  mutex,        \* the thread that holds tty_ctrl_mutex, or NULL
  pc,           \* where each thread is
  request, arg, \* what each caller called, with which id
  using,        \* the TTY each thread runs a command on
  created,      \* how many TTYs were created
  given,        \* the ids ever returned for one
  exited        \* the process ended

registry == <<ctrls, tty_id, next_tty_id, created, given>>
calls    == <<request, arg>>
vars     == <<ctrls, tty_id, mode, next_tty_id, mutex, pc, request, arg, using,
              created, given, exited>>

Live == ToSet(ctrls)

Goto(t, place) == pc' = [pc EXCEPT ![t] = place]

-----------------------------------------------------------------------------
(* Calls of the registry.                                                  *)

(* gvd_create_tty(), gvd_destory_tty() or gvd_tty_run_cli() is called.      *)
Call(t) ==
  /\ pc[t] = "idle"
  /\ \E r \in {"create", "destroy", "run"}, id \in TtyId :
       /\ request' = [request EXCEPT ![t] = r]
       /\ arg' = [arg EXCEPT ![t] = IF r = "create" THEN @ ELSE id]
  /\ Goto(t, "lock")
  /\ UNCHANGED <<registry, mode, mutex, using, exited>>

(* Mutant: the mutex is not looked at.                                     *)
LockIgnored(t) ==
  /\ pc[t] = "lock"
  /\ mutex' = t
  /\ Goto(t, request[t])
  /\ UNCHANGED <<registry, mode, calls, using, exited>>

Lock(t) ==
  /\ pc[t] = "lock" /\ mutex = NULL
  /\ mutex' = t
  /\ Goto(t, request[t])
  /\ UNCHANGED <<registry, mode, calls, using, exited>>

(* Mutant: the counter does not count.                                     *)
NextForgotten == next_tty_id

NextId == IF next_tty_id = ID_SPAN - 1 THEN 0 ELSE next_tty_id + 1

(* create_tty(): a zeroed block, if calloc() finds one.                    *)
CreateTty(t) ==
  /\ pc[t] = "create"
  /\ \/ UNCHANGED <<registry, mode>>
     \/ \E b \in Block \ Live :
          /\ created < MaxCreate
          /\ created' = created + 1
          /\ given' = given \cup {next_tty_id}
          /\ tty_id' = [tty_id EXCEPT ![b] = next_tty_id]
          /\ mode' = [mode EXCEPT ![b] = "exec"]
          /\ next_tty_id' = NextId
          /\ ctrls' = <<b>> \o ctrls
  /\ Goto(t, "unlock")
  /\ UNCHANGED <<mutex, calls, using, exited>>

(* The first place of the list with the id.                                *)
Has(id, i) ==
  /\ i \in 1 .. Len(ctrls) /\ tty_id[ctrls[i]] = id
  /\ \A j \in 1 .. i - 1 : tty_id[ctrls[j]] # id

(* Nothing is known of a freed block; calloc() zeroes it before it is used. *)
Freed(b) ==
  /\ tty_id' = [tty_id EXCEPT ![b] = 0]
  /\ mode' = [mode EXCEPT ![b] = "exec"]

(* Mutant: the head is removed when the id was found.                      *)
RemoveHead(t) ==
  /\ pc[t] = "destroy"
  /\ \/ \E i \in 1 .. Len(ctrls) :
          Has(arg[t], i) /\ Freed(ctrls[1]) /\ ctrls' = Tail(ctrls)
     \/ /\ \A i \in 1 .. Len(ctrls) : ~Has(arg[t], i)
        /\ UNCHANGED <<ctrls, tty_id, mode>>
  /\ Goto(t, "unlock")
  /\ UNCHANGED <<next_tty_id, created, given, mutex, calls, using, exited>>

RemoveTtyCtrl(t) ==
  /\ pc[t] = "destroy"
  /\ \/ \E i \in 1 .. Len(ctrls) :
          /\ Has(arg[t], i)
          /\ Freed(ctrls[i])
          /\ ctrls' = RemoveAt(ctrls, i)
     \/ /\ \A i \in 1 .. Len(ctrls) : ~Has(arg[t], i)
        /\ UNCHANGED <<ctrls, tty_id, mode>>
  /\ Goto(t, "unlock")
  /\ UNCHANGED <<next_tty_id, created, given, mutex, calls, using, exited>>

(* Mutant: the mutex is released when the TTY was found.                   *)
FindUnlocksFirst(t) ==
  /\ pc[t] = "run"
  /\ \/ \E i \in 1 .. Len(ctrls) :
          /\ Has(arg[t], i)
          /\ using' = [using EXCEPT ![t] = ctrls[i]]
          /\ Goto(t, "exec")
          /\ mutex' = NULL
     \/ /\ \A i \in 1 .. Len(ctrls) : ~Has(arg[t], i)
        /\ Goto(t, "unlock")
        /\ UNCHANGED <<using, mutex>>
  /\ UNCHANGED <<registry, mode, calls, exited>>

(* Mutant: the error returns with the mutex held.                          *)
FindKeepsLock(t) ==
  /\ pc[t] = "run"
  /\ \/ \E i \in 1 .. Len(ctrls) :
          /\ Has(arg[t], i)
          /\ using' = [using EXCEPT ![t] = ctrls[i]]
          /\ Goto(t, "exec")
     \/ /\ \A i \in 1 .. Len(ctrls) : ~Has(arg[t], i)
        /\ Goto(t, "idle")
        /\ UNCHANGED using
  /\ UNCHANGED <<registry, mode, mutex, calls, exited>>

(* find_tty_ctrl(); the caller is told when there is no such TTY.          *)
FindTtyCtrl(t) ==
  /\ pc[t] = "run"
  /\ \/ \E i \in 1 .. Len(ctrls) :
          /\ Has(arg[t], i)
          /\ using' = [using EXCEPT ![t] = ctrls[i]]
          /\ Goto(t, "exec")
     \/ /\ \A i \in 1 .. Len(ctrls) : ~Has(arg[t], i)
        /\ Goto(t, "unlock")
        /\ UNCHANGED using
  /\ UNCHANGED <<registry, mode, mutex, calls, exited>>

(* The call returns; its arguments are gone.                               *)
Unlock(t) ==
  /\ pc[t] = "unlock"
  /\ mutex' = NULL
  /\ using' = [using EXCEPT ![t] = NULL]
  /\ request' = [request EXCEPT ![t] = "create"] /\ arg' = [arg EXCEPT ![t] = 0]
  /\ Goto(t, "idle")
  /\ UNCHANGED <<registry, mode, exited>>

-----------------------------------------------------------------------------
(* Commands.                                                               *)

(* Where a command leads: into the console, into a program, or on.  The
   main thread prints the output of every command.                         *)
Continues(t, c) ==
  CASE Found(c, mode[using[t]]) /\ c.word = "exec_cmd" -> "program"
    [] Found(c, mode[using[t]]) /\ c.word = "flush"    -> "console"
    [] OTHER -> IF t = Main THEN "console" ELSE "unlock"

(* gvd_run_cli() on the TTY in use.  "quit" ends the process when it is
   the main thread's; of a caller's nothing is known outside.              *)
RunCli(t) ==
  /\ pc[t] = "exec"
  /\ \E c \in Cli :
       /\ mode' = [mode EXCEPT ![using[t]] = ModeAfter(c, @)]
       /\ Goto(t, Continues(t, c))
       /\ exited' = (t = Main /\ Found(c, mode[using[t]]) /\ c.word = "quit")
  /\ UNCHANGED <<registry, mutex, calls, using>>

(* The program a command waits for ends.                                   *)
ProgramEnds(t) ==
  /\ pc[t] = "program"
  /\ Goto(t, IF t = Main THEN "console" ELSE "unlock")
  /\ UNCHANGED <<registry, mode, mutex, calls, using, exited>>

Printed(t) ==
  /\ pc[t] = "console"
  /\ Goto(t, IF t = Main THEN "idle" ELSE "unlock")
  /\ UNCHANGED <<registry, mode, mutex, calls, using, exited>>

(* Enter on the main TTY.                                                  *)
MainEnter ==
  /\ pc[Main] = "idle"
  /\ Goto(Main, "exec")
  /\ UNCHANGED <<registry, mode, mutex, calls, using, exited>>

(* Ctrl-Z on the main TTY.                                                 *)
MainCtrlZ ==
  /\ pc[Main] = "idle"
  /\ mode' = [mode EXCEPT ![gvd_tty] = "exec"]
  /\ Goto(Main, "console")
  /\ UNCHANGED <<registry, mutex, calls, using, exited>>

-----------------------------------------------------------------------------

Init ==
  /\ ctrls = <<>>
  /\ tty_id = [b \in Block |-> 0] /\ mode = [y \in Tty |-> "exec"]
  /\ next_tty_id = FIRST_ID
  /\ mutex = NULL
  /\ pc = [t \in Thread |-> "idle"]
  /\ request = [t \in Caller |-> "create"] /\ arg = [t \in Caller |-> 0]
  /\ using = [t \in Thread |-> IF t = Main THEN gvd_tty ELSE NULL]
  /\ created = 0 /\ given = {}
  /\ exited = FALSE

(* What a thread does on its own once it called.                           *)
Inside(t) ==
  \/ Lock(t) \/ CreateTty(t) \/ RemoveTtyCtrl(t) \/ FindTtyCtrl(t)
  \/ Unlock(t)

InCommand(t) == RunCli(t) \/ Printed(t)

Next ==
  /\ ~exited
  /\ \/ \E t \in Caller : Call(t) \/ Inside(t)
     \/ \E t \in Thread : InCommand(t) \/ ProgramEnds(t)
     \/ MainEnter
     \/ MainCtrlZ

Spec == Init /\ [][Next]_vars

(* The processor runs every thread; nothing says that a program ends.      *)
Fairness ==
  /\ \A t \in Caller : WF_vars(~exited /\ Inside(t))
  /\ \A t \in Thread : WF_vars(~exited /\ InCommand(t))

FairSpec == Spec /\ Fairness

-----------------------------------------------------------------------------

InCall == {"create", "destroy", "run", "exec", "console", "program", "unlock"}

(* Every variable has its type; no block is twice in the list, and a caller
   inside the registry holds the mutex.                                    *)
TypeOK ==
  /\ ctrls \in Seq(Block) /\ IsInjective(ctrls)
  /\ tty_id \in [Block -> TtyId] /\ mode \in [Tty -> Mode]
  /\ next_tty_id \in TtyId
  /\ mutex \in Caller \cup {NULL}
  /\ pc \in [Thread -> {"idle", "lock"} \cup InCall]
  /\ request \in [Caller -> {"create", "destroy", "run"}]
  /\ arg \in [Caller -> TtyId]
  /\ using \in [Thread -> Tty \cup {NULL}]
  /\ created \in 0 .. MaxCreate /\ given \subseteq TtyId
  /\ exited \in BOOLEAN

Commanding(t) == pc[t] \in {"exec", "console", "program"}

(* A command of a virtual TTY runs on a TTY that still exists: no other
   thread frees it in the meantime.                                        *)
RunsOnLive == \A t \in Caller : Commanding(t) => using[t] \in Live

(* However threads create, destroy and use TTYs, the list holds each block
   once and whoever uses a TTY uses one of the list, also after the ids
   wrapped.                                                                *)
RegistryConsistent == TypeOK /\ RunsOnLive

(* The parser's state, the tree's help list and the console have one
   virtual user at a time; the main thread may be a second one.            *)
OneCommand ==
  \A t, u \in Caller : Commanding(t) /\ Commanding(u) => t = u

(* Until the counter wraps an id names one TTY for ever, and none is the
   one that means failure.                                                 *)
IdsUnique ==
  created <= ID_SPAN - FIRST_ID =>
    /\ \A b, d \in Live : tty_id[b] = tty_id[d] => b = d
    /\ \A b \in Live : tty_id[b] \in given
    /\ GVD_INVALID_VTY_ID \notin given

(* The mutex is given back, unless a command waits for a program or the
   process ends: one program that does not end stops all virtual TTYs.     *)
Released ==
  \A t \in Caller :
    mutex = t ~> (mutex # t \/ pc[t] = "program" \/ exited)

-----------------------------------------------------------------------------
(* The registry implements the table of module TtyTable while the counter
   does not wrap.                                                          *)

(* The modes of a set of blocks, by their ids.                              *)
TableOf(blocks, id, m) ==
  [i \in {id[b] : b \in blocks} |-> m[CHOOSE b \in blocks : id[b] = i]]

(* The calls that have not taken effect yet.                               *)
Pending == {"lock", "create", "destroy", "run", "exec"}

Wants ==
  [u \in Caller |->
     IF pc[u] \in Pending
       THEN [op |-> request[u], id |-> arg[u]]
       ELSE [op |-> "none", id |-> GVD_INVALID_VTY_ID]]

Promise == INSTANCE TtyTable WITH
  User      <- Caller,
  Id        <- TtyId,
  InvalidId <- GVD_INVALID_VTY_ID,
  table     <- TableOf(Live, tty_id, mode),
  mainMode  <- mode[gvd_tty],
  want      <- Wants

(* Every call takes effect at one moment, on the TTY with its id: created
   with a new one, destroyed, or its mode changed by the command; a command
   is refused only when there is no such TTY.                              *)
KeepsPromise == Promise!TSpec

=============================================================================
