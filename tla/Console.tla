------------------------------- MODULE Console -------------------------------
(***************************************************************************)
(* What the line store promises to the rest of GVD and to the reader of    *)
(* the log file, without slots, masks, heap blocks or pointers.            *)
(*                                                                         *)
(* Console lines are numbered from 1 in the order they were started.  The  *)
(* scrollback is the run of lines first..last; last is being written.      *)
(* Lines leave it oldest first, into the log file, and only while more     *)
(* than Keep lines are there.  A flush sweeps once over the complete lines *)
(* in order and writes those not written since they were started; nothing  *)
(* else happens to the console while it sweeps.                            *)
(***************************************************************************)
EXTENDS Integers, Sequences

CONSTANT Keep   \* lines of scrollback that are never given up, at least 1

VARIABLES
  first, last,   \* the scrollback
  saved,         \* the lines of the scrollback a flush has written
  sweep,         \* the next line the running flush looks at; 0 for no flush
  disk           \* the log file: the numbers of the lines in it

cvars == <<first, last, saved, sweep, disk>>

NewLine ==
  /\ sweep = 0
  /\ last' = last + 1
  /\ UNCHANGED <<first, saved, sweep, disk>>

Evict ==
  /\ sweep = 0
  /\ last - first >= Keep
  /\ disk' = Append(disk, first)
  /\ saved' = saved \ {first}
  /\ first' = first + 1
  /\ UNCHANGED <<last, sweep>>

Flush ==
  /\ sweep = 0
  /\ sweep' = first
  /\ UNCHANGED <<first, last, saved, disk>>

Sweep ==
  /\ sweep # 0 /\ sweep < last
  /\ disk' = IF sweep \in saved THEN disk ELSE Append(disk, sweep)
  /\ saved' = saved \cup {sweep}
  /\ sweep' = sweep + 1
  /\ UNCHANGED <<first, last>>

Flushed ==
  /\ sweep = last
  /\ sweep' = 0
  /\ UNCHANGED <<first, last, saved, disk>>

Clear ==
  /\ sweep = 0
  /\ disk' = <<>>
  /\ UNCHANGED <<first, last, saved, sweep>>

CInit == first = 1 /\ last = 1 /\ saved = {} /\ sweep = 0 /\ disk = <<>>

CNext == NewLine \/ Evict \/ Flush \/ Sweep \/ Flushed \/ Clear

CSpec == CInit /\ [][CNext]_cvars

-----------------------------------------------------------------------------

(* The scrollback is never empty and never starts before its first line;
   only complete lines are saved or in the log, and what is behind the
   sweep is saved.                                                         *)
CInv ==
  /\ first \in Nat \ {0} /\ last \in Nat /\ first <= last
  /\ saved \subseteq first .. last - 1
  /\ sweep = 0 \/ sweep \in first .. last
  /\ sweep # 0 => first .. sweep - 1 \subseteq saved
  /\ disk \in Seq(Nat)
  /\ \A i \in DOMAIN disk : disk[i] < last

=============================================================================
