------------------------------ MODULE TtyTable -------------------------------
(***************************************************************************)
(* What GVD promises the threads that use virtual TTYs, without a list,    *)
(* blocks or a mutex: a table from ids to modes, and the mode of the main  *)
(* TTY.  A call takes effect at one moment between being made and          *)
(* returning, on the TTY it names and no other.                            *)
(***************************************************************************)
EXTENDS CliModes, Integers

CONSTANTS
  User,          \* the threads that use virtual TTYs
  Id, InvalidId  \* the ids a call can name; the one that is never a TTY's

VARIABLES
  table,         \* the modes of the virtual TTYs there are, by id
  mainMode,      \* the mode of the main TTY
  given,         \* the ids ever given out
  want           \* the call of each thread that has not taken effect yet

tvars == <<table, mainMode, given, want>>

NoCall == [op |-> "none", id |-> InvalidId]

Done(u) == want' = [want EXCEPT ![u] = NoCall]

Ask(u) ==
  /\ want[u] = NoCall
  /\ \E op \in {"create", "destroy", "run"}, id \in Id :
       want' = [want EXCEPT ![u] = [op |-> op, id |-> id]]
  /\ UNCHANGED <<table, mainMode, given>>

(* An id is never given out twice; there may be no memory for a TTY.       *)
Create(u) ==
  /\ want[u].op = "create"
  /\ \/ UNCHANGED <<table, given>>
     \/ \E id \in Id \ (given \cup {InvalidId}) :
          /\ given' = given \cup {id}
          /\ table' = [i \in DOMAIN table \cup {id} |->
                         IF i = id THEN "exec" ELSE table[i]]
  /\ Done(u)
  /\ UNCHANGED mainMode

(* The TTY is gone, if there was one.                                      *)
Destroy(u) ==
  /\ want[u].op = "destroy"
  /\ table' = [i \in DOMAIN table \ {want[u].id} |-> table[i]]
  /\ Done(u)
  /\ UNCHANGED <<mainMode, given>>

(* A command is refused only when there is no such TTY.                    *)
Command(u) ==
  /\ want[u].op = "run"
  /\ \/ /\ want[u].id \notin DOMAIN table
        /\ UNCHANGED table
     \/ /\ want[u].id \in DOMAIN table
        /\ \E c \in Cli : table' = [table EXCEPT ![want[u].id] = ModeAfter(c, @)]
  /\ Done(u)
  /\ UNCHANGED <<mainMode, given>>

MainCommand ==
  /\ \/ \E c \in Cli : mainMode' = ModeAfter(c, mainMode)
     \/ mainMode' = "exec"
  /\ UNCHANGED <<table, given, want>>

TInit ==
  /\ table = [i \in {} |-> "exec"] /\ mainMode = "exec" /\ given = {}
  /\ want = [u \in User |-> NoCall]

TNext ==
  \/ \E u \in User : Ask(u) \/ Create(u) \/ Destroy(u) \/ Command(u)
  \/ MainCommand

TSpec == TInit /\ [][TNext]_tvars

=============================================================================
