-------------------------- MODULE TtyRegistryProofs --------------------------
(***************************************************************************)
(* Proofs about the registry of TTYs, for every number of threads, blocks  *)
(* and ids.                                                                *)
(*                                                                         *)
(* Mutual exclusion (Holds) is what keeps a TTY from being freed under a   *)
(* command; the ids given out are the numbers counted so far (Counted)     *)
(* until the counter wraps.                                                *)
(***************************************************************************)
EXTENDS TtyRegistry, SequenceTheorems, TLAPS

(* A thread in the registry holds the mutex; the main thread is never in it. *)
Holds ==
  /\ \A t \in Caller : pc[t] \in InCall => mutex = t
  /\ pc[Main] \in {"idle", "exec", "console", "program"}
  /\ using[Main] = gvd_tty

Counted ==
  created <= ID_SPAN - FIRST_ID =>
    /\ next_tty_id = IF created = ID_SPAN - FIRST_ID THEN 0 ELSE FIRST_ID + created
    /\ given = FIRST_ID .. FIRST_ID + created - 1
    /\ \A b \in Live : tty_id[b] \in given
    /\ \A b, d \in Live : tty_id[b] = tty_id[d] => b = d

IInv == TypeOK /\ Holds /\ RunsOnLive /\ Counted

-----------------------------------------------------------------------------
(* Lists without repetition.                                               *)

LEMMA ConsSet ==
  ASSUME NEW S, NEW s \in Seq(S), IsInjective(s), NEW b \in S, b \notin ToSet(s)
  PROVE  /\ <<b>> \o s \in Seq(S) /\ IsInjective(<<b>> \o s)
         /\ ToSet(<<b>> \o s) = ToSet(s) \cup {b}
<1> DEFINE r == <<b>> \o s
<1>1. <<b>> \in Seq(S) /\ Len(<<b>>) = 1 /\ <<b>>[1] = b
  OBVIOUS
<1>2. r \in Seq(S) /\ Len(r) = Len(s) + 1
  BY <1>1, ConcatProperties
<1>3. \A k \in 1 .. Len(s) + 1 : r[k] = IF k = 1 THEN b ELSE s[k - 1]
  BY <1>1, ConcatProperties
<1>4. DOMAIN r = 1 .. Len(s) + 1 /\ DOMAIN s = 1 .. Len(s) /\ Len(s) \in Nat
  BY <1>2, LenProperties
<1> HIDE DEF r
<1>5. \A k \in 1 .. Len(s) : s[k] \in ToSet(s) /\ s[k] # b
  BY <1>4 DEF ToSet
<1>6. IsInjective(r)
  <2> SUFFICES ASSUME NEW j \in 1 .. Len(s) + 1, NEW k \in 1 .. Len(s) + 1,
                      r[j] = r[k]
               PROVE  j = k
    BY <1>4 DEF IsInjective
  <2>1. CASE j = 1 \/ k = 1
    BY <2>1, <1>3, <1>4, <1>5
  <2>2. CASE j # 1 /\ k # 1
    <3>1. s[j - 1] = s[k - 1] /\ j - 1 \in 1 .. Len(s) /\ k - 1 \in 1 .. Len(s)
      BY <2>2, <1>3, <1>4
    <3>2. j - 1 = k - 1
      BY <3>1, <1>4 DEF IsInjective
    <3> QED
      BY <3>2
  <2> QED
    BY <2>1, <2>2
<1>7. ToSet(r) = ToSet(s) \cup {b}
  <2>1. ToSet(r) \subseteq ToSet(s) \cup {b}
    BY <1>3, <1>4 DEF ToSet
  <2>2. b \in ToSet(r)
    BY <1>3, <1>4 DEF ToSet
  <2>3. ASSUME NEW k \in 1 .. Len(s) PROVE s[k] \in ToSet(r)
    <3>1. k + 1 \in DOMAIN r /\ r[k + 1] = s[k]
      BY <1>3, <1>4
    <3> QED
      BY <3>1 DEF ToSet
  <2> QED
    BY <2>1, <2>2, <2>3, <1>4 DEF ToSet
<1> QED
  BY <1>2, <1>6, <1>7 DEF r

LEMMA RemoveSet ==
  ASSUME NEW S, NEW s \in Seq(S), IsInjective(s), NEW i \in 1 .. Len(s)
  PROVE  /\ RemoveAt(s, i) \in Seq(S) /\ IsInjective(RemoveAt(s, i))
         /\ ToSet(RemoveAt(s, i)) = ToSet(s) \ {s[i]}
<1> DEFINE l == SubSeq(s, 1, i - 1)
           u == SubSeq(s, i + 1, Len(s))
           r == l \o u
<1>1. l \in Seq(S) /\ Len(l) = i - 1 /\ \A k \in 1 .. i - 1 : l[k] = s[k]
  BY SubSeqProperties
<1>2. u \in Seq(S) /\ Len(u) = Len(s) - i
      /\ \A k \in 1 .. Len(s) - i : u[k] = s[k + i]
  BY SubSeqProperties
<1> HIDE DEF l, u
<1>3. r \in Seq(S) /\ Len(r) = Len(s) - 1
  BY <1>1, <1>2, ConcatProperties
<1>4. \A k \in 1 .. Len(s) - 1 : r[k] = IF k < i THEN s[k] ELSE s[k + 1]
  <2> SUFFICES ASSUME NEW k \in 1 .. Len(s) - 1
               PROVE  r[k] = IF k < i THEN s[k] ELSE s[k + 1]
    OBVIOUS
  <2>1. r[k] = IF k <= Len(l) THEN l[k] ELSE u[k - Len(l)]
    BY <1>1, <1>2, ConcatProperties
  <2>2. CASE k < i
    BY <2>1, <2>2, <1>1
  <2>3. CASE ~(k < i)
    <3>1. Len(s) \in Nat
      BY LenProperties
    <3>2. k - (i - 1) \in 1 .. Len(s) - i /\ (k - (i - 1)) + i = k + 1
      BY <2>3, <3>1
    <3>3. r[k] = u[k - (i - 1)]
      BY <2>1, <2>3, <1>1
    <3> QED
      BY <3>2, <3>3, <2>3, <1>2
  <2> QED
    BY <2>2, <2>3
<1>5. DOMAIN r = 1 .. Len(s) - 1 /\ DOMAIN s = 1 .. Len(s) /\ Len(s) \in Nat
  BY <1>3, LenProperties
<1>6. RemoveAt(s, i) = r
  BY DEF RemoveAt, l, u
<1> HIDE DEF r
<1>7. IsInjective(r)
  <2> SUFFICES ASSUME NEW j \in 1 .. Len(s) - 1, NEW k \in 1 .. Len(s) - 1,
                      r[j] = r[k]
               PROVE  j = k
    BY <1>5 DEF IsInjective
  <2> DEFINE at(n) == IF n < i THEN n ELSE n + 1
  <2>1. at(j) \in 1 .. Len(s) /\ at(k) \in 1 .. Len(s)
        /\ r[j] = s[at(j)] /\ r[k] = s[at(k)]
    BY <1>4
  <2>2. at(j) = at(k)
    BY <2>1, <1>5 DEF IsInjective
  <2> QED
    BY <2>2
<1>8. ToSet(r) = ToSet(s) \ {s[i]}
  <2>1. ASSUME NEW k \in 1 .. Len(s) - 1 PROVE r[k] \in ToSet(s) \ {s[i]}
    <3> DEFINE n == IF k < i THEN k ELSE k + 1
    <3>1. n \in 1 .. Len(s) /\ n # i /\ r[k] = s[n]
      BY <1>4
    <3>2. s[n] # s[i]
      BY <3>1, <1>5 DEF IsInjective
    <3> QED
      BY <3>1, <3>2, <1>5 DEF ToSet
  <2>2. ASSUME NEW n \in 1 .. Len(s), s[n] # s[i] PROVE s[n] \in ToSet(r)
    <3> DEFINE k == IF n < i THEN n ELSE n - 1
    <3>1. k \in 1 .. Len(s) - 1 /\ r[k] = s[n]
      BY <2>2, <1>4
    <3> QED
      BY <3>1, <1>5 DEF ToSet
  <2> QED
    BY <2>1, <2>2, <1>5 DEF ToSet
<1> QED
  BY <1>3, <1>6, <1>7, <1>8

(* What RemoveTtyCtrl and FindTtyCtrl find is in the list.                 *)
LEMMA HasLive ==
  ASSUME TypeOK, NEW id, NEW i \in 1 .. Len(ctrls), Has(id, i)
  PROVE  ctrls[i] \in Block /\ ctrls[i] \in Live /\ tty_id[ctrls[i]] = id
BY DEF TypeOK, Has, Live, ToSet

LEMMA LiveIsBlock == TypeOK => Live \subseteq Block
BY DEF TypeOK, Live, ToSet

LEMMA ModeAfterType ==
  ASSUME NEW c \in Cli, NEW m \in Mode
  PROVE  ModeAfter(c, m) \in Mode
BY DEF ModeAfter, Mode, ReturnUpper, ParentMode

-----------------------------------------------------------------------------
(* The invariant.                                                          *)

LEMMA Start == Init => IInv
<1> SUFFICES ASSUME Init PROVE IInv
  OBVIOUS
<1>1. Live = {}
  BY DEF Init, Live, ToSet
<1>2. TypeOK
  <2>1. ctrls \in Seq(Block) /\ IsInjective(ctrls)
    BY DEF Init, IsInjective
  <2>2. next_tty_id \in TtyId /\ 0 \in TtyId /\ given \subseteq TtyId
        /\ created \in 0 .. MaxCreate
    BY IdAssumption DEF Init, TtyId
  <2>3. using \in [Thread -> Tty \cup {NULL}]
    BY DEF Init, Tty
  <2>4. tty_id \in [Block -> TtyId] /\ arg \in [Caller -> TtyId]
    BY <2>2 DEF Init
  <2> QED
    BY <2>1, <2>2, <2>3, <2>4 DEF Init, TypeOK, Mode
<1>3. Holds
  BY ThreadAssumption DEF Init, Holds, InCall, Thread
<1>4. RunsOnLive
  BY DEF Init, RunsOnLive, Commanding, Thread
<1>5. Counted
  BY <1>1, IdAssumption DEF Init, Counted
<1> QED
  BY <1>2, <1>3, <1>4, <1>5 DEF IInv

(* The list, the ids and the modes stay as they are.                       *)
Unmoved == UNCHANGED <<registry, mode>>

LEMMA UnmovedCounted == Counted /\ Unmoved => Counted'
BY DEF Counted, Unmoved, registry, Live

(* A caller moves on inside the registry, or comes in while it is free.    *)
LEMMA MovesOn ==
  ASSUME TypeOK, Holds, NEW t \in Caller, NEW place \in InCall, Goto(t, place),
         \/ pc[t] \in InCall /\ mutex' = mutex
         \/ mutex = NULL /\ mutex' = t,
         using'[Main] = using[Main]
  PROVE  Holds'
<1>1. pc' = [pc EXCEPT ![t] = place] /\ pc \in [Thread -> {"idle", "lock"} \cup InCall]
  BY DEF Goto, TypeOK
<1>2. t # Main /\ t \in Thread /\ Main \in Thread /\ Caller \subseteq Thread
      /\ NULL \notin Caller
  BY ThreadAssumption DEF Thread
<1>3. pc'[Main] = pc[Main] /\ \A u \in Caller : u # t => pc'[u] = pc[u]
  BY <1>1, <1>2
<1>4. ASSUME NEW u \in Caller, pc'[u] \in InCall PROVE mutex' = u
  BY <1>2, <1>3, <1>4 DEF Holds
<1> QED
  BY <1>3, <1>4 DEF Holds

LEMMA CallInv ==
  ASSUME IInv, NEW t \in Caller, Call(t) PROVE IInv'
<1>0. t \in Thread /\ t # Main /\ pc[t] = "idle" /\ pc' = [pc EXCEPT ![t] = "lock"]
      /\ UNCHANGED <<registry, mode, mutex, using, exited>>
  BY ThreadAssumption DEF Call, Goto, Thread
<1>1. TypeOK'
  <2> PICK r \in {"create", "destroy", "run"}, id \in TtyId :
        /\ request' = [request EXCEPT ![t] = r]
        /\ arg' = [arg EXCEPT ![t] = IF r = "create" THEN @ ELSE id]
    BY DEF Call
  <2>1. arg' \in [Caller -> TtyId]
    BY DEF IInv, TypeOK
  <2> QED
    BY <1>0, <2>1 DEF IInv, TypeOK, registry
<1>2. Holds'
  BY <1>0 DEF IInv, TypeOK, Holds, InCall, Thread
<1>3. RunsOnLive'
  BY <1>0 DEF IInv, TypeOK, RunsOnLive, Commanding, Live, registry, Thread
<1>4. Counted'
  BY <1>0, UnmovedCounted DEF IInv, Unmoved
<1> QED
  BY <1>1, <1>2, <1>3, <1>4 DEF IInv

LEMMA LockInv ==
  ASSUME IInv, NEW t \in Caller, Lock(t) PROVE IInv'
<1>0. t \in Thread /\ t # Main /\ pc[t] = "lock"
      /\ pc' = [pc EXCEPT ![t] = request[t]]
      /\ UNCHANGED <<registry, mode, calls, using, exited>>
      /\ mutex = NULL /\ mutex' = t
  BY ThreadAssumption DEF Lock, Goto, Thread
<1>1. request[t] \in InCall /\ request[t] \in {"create", "destroy", "run"}
  BY DEF IInv, TypeOK, InCall
<1>2. TypeOK'
  BY <1>0, <1>1 DEF IInv, TypeOK, registry, calls
<1>3. Holds'
  BY <1>0, <1>1, MovesOn DEF IInv, Goto
<1>4. RunsOnLive'
  BY <1>0, <1>1 DEF IInv, TypeOK, RunsOnLive, Commanding, Live, registry, Thread
<1>5. Counted'
  BY <1>0, UnmovedCounted DEF IInv, Unmoved
<1> QED
  BY <1>2, <1>3, <1>4, <1>5 DEF IInv

(* Nobody else is in the registry.                                         *)
LEMMA Alone ==
  ASSUME Holds, NEW t \in Caller, pc[t] \in InCall, NEW u \in Caller, u # t
  PROVE  pc[u] \notin InCall /\ ~Commanding(u)
BY DEF Holds, InCall, Commanding

LEMMA CreateTtyInv ==
  ASSUME IInv, NEW t \in Caller, CreateTty(t) PROVE IInv'
<1>0. t \in Thread /\ t # Main /\ pc[t] = "create" /\ pc[t] \in InCall
      /\ pc' = [pc EXCEPT ![t] = "unlock"] /\ "unlock" \in InCall
      /\ UNCHANGED <<mutex, calls, using, exited>>
  BY ThreadAssumption DEF CreateTty, Goto, Thread, InCall
<1>1. Holds'
  BY <1>0, MovesOn DEF IInv, Goto
<1>2. RunsOnLive'
  BY <1>0, Alone DEF IInv, TypeOK, RunsOnLive, Commanding, Thread
<1>3. CASE Unmoved
  <2>1. TypeOK'
    BY <1>0, <1>3 DEF IInv, TypeOK, registry, calls, Unmoved, InCall
  <2> QED
    BY <1>1, <1>2, <1>3, <2>1, UnmovedCounted DEF IInv
<1>4. CASE ~Unmoved
  <2> PICK b \in Block \ Live :
          /\ created < MaxCreate
          /\ created' = created + 1
          /\ given' = given \cup {next_tty_id}
          /\ tty_id' = [tty_id EXCEPT ![b] = next_tty_id]
          /\ mode' = [mode EXCEPT ![b] = "exec"]
          /\ next_tty_id' = NextId
          /\ ctrls' = <<b>> \o ctrls
    BY <1>4 DEF CreateTty, Unmoved
  <2>1. ctrls' \in Seq(Block) /\ IsInjective(ctrls') /\ Live' = Live \cup {b}
    BY ConsSet DEF IInv, TypeOK, Live
  <2>2. next_tty_id' \in TtyId
    BY IdAssumption DEF IInv, TypeOK, NextId, TtyId
  <2>3. created' \in 0 .. MaxCreate
    BY IdAssumption DEF IInv, TypeOK
  <2>4. tty_id' \in [Block -> TtyId] /\ mode' \in [Tty -> Mode] /\ given' \subseteq TtyId
    BY DEF IInv, TypeOK, Mode
  <2>5. TypeOK'
    BY <1>0, <2>1, <2>2, <2>3, <2>4 DEF IInv, TypeOK, calls, InCall
  <2>6. Counted'
    <3> SUFFICES ASSUME created' <= ID_SPAN - FIRST_ID
                 PROVE  /\ next_tty_id' = IF created' = ID_SPAN - FIRST_ID
                                          THEN 0 ELSE FIRST_ID + created'
                        /\ given' = FIRST_ID .. FIRST_ID + created' - 1
                        /\ \A c \in Live' : tty_id'[c] \in given'
                        /\ \A c, d \in Live' : tty_id'[c] = tty_id'[d] => c = d
      BY DEF Counted
    <3>1. created \in Nat /\ ID_SPAN \in Nat /\ FIRST_ID \in Nat
          /\ created < ID_SPAN - FIRST_ID
      BY IdAssumption DEF IInv, TypeOK
    <3>2. next_tty_id = FIRST_ID + created /\ given = FIRST_ID .. FIRST_ID + created - 1
          /\ (\A c \in Live : tty_id[c] \in given)
          /\ (\A c, d \in Live : tty_id[c] = tty_id[d] => c = d)
      BY <3>1 DEF IInv, Counted
    <3>3. next_tty_id \notin given
      BY <3>1, <3>2
    <3>8. given' = FIRST_ID .. FIRST_ID + created' - 1
      <4>1. /\ given' = given \cup {FIRST_ID + created}
            /\ FIRST_ID + created' - 1 = FIRST_ID + created
        BY <3>1, <3>2
      <4>2. (FIRST_ID .. FIRST_ID + created - 1) \cup {FIRST_ID + created}
              = FIRST_ID .. FIRST_ID + created
        BY <3>1
      <4> QED
        BY <3>2, <4>1, <4>2
    <3>4. next_tty_id' = IF created' = ID_SPAN - FIRST_ID THEN 0 ELSE FIRST_ID + created'
      BY <3>1, <3>2 DEF NextId
    <3>5. tty_id'[b] = next_tty_id /\ \A c \in Live : c # b /\ tty_id'[c] = tty_id[c]
      BY LiveIsBlock DEF IInv, TypeOK
    <3>6. \A c \in Live' : tty_id'[c] \in given'
      BY <2>1, <3>2, <3>5
    <3>7. \A c, d \in Live' : tty_id'[c] = tty_id'[d] => c = d
      BY <2>1, <3>2, <3>3, <3>5
    <3> QED
      BY <3>8, <3>4, <3>6, <3>7
  <2> QED
    BY <1>1, <1>2, <2>5, <2>6 DEF IInv
<1> QED
  BY <1>3, <1>4

LEMMA RemoveTtyCtrlInv ==
  ASSUME IInv, NEW t \in Caller, RemoveTtyCtrl(t) PROVE IInv'
<1>0. t \in Thread /\ t # Main /\ pc[t] = "destroy" /\ pc[t] \in InCall
      /\ pc' = [pc EXCEPT ![t] = "unlock"] /\ "unlock" \in InCall
      /\ UNCHANGED <<next_tty_id, created, given, mutex, calls, using, exited>>
  BY ThreadAssumption DEF RemoveTtyCtrl, Goto, Thread, InCall
<1>1. Holds'
  BY <1>0, MovesOn DEF IInv, Goto
<1>2. RunsOnLive'
  BY <1>0, Alone DEF IInv, TypeOK, RunsOnLive, Commanding, Thread
<1>3. CASE UNCHANGED <<ctrls, tty_id, mode>>
  <2>1. TypeOK'
    BY <1>0, <1>3 DEF IInv, TypeOK, calls, InCall
  <2>2. Counted'
    BY <1>0, <1>3 DEF IInv, Counted, Live
  <2> QED
    BY <1>1, <1>2, <2>1, <2>2 DEF IInv
<1>4. CASE ~UNCHANGED <<ctrls, tty_id, mode>>
  <2> PICK i \in 1 .. Len(ctrls) :
        Has(arg[t], i) /\ Freed(ctrls[i]) /\ ctrls' = RemoveAt(ctrls, i)
    BY <1>4 DEF RemoveTtyCtrl
  <2>1. ctrls' \in Seq(Block) /\ IsInjective(ctrls') /\ Live' = Live \ {ctrls[i]}
    BY RemoveSet DEF IInv, TypeOK, Live
  <2>2. ctrls[i] \in Block
    BY HasLive DEF IInv
  <2>7. 0 \in TtyId /\ "exec" \in Mode
    BY IdAssumption DEF TtyId, Mode
  <2>3. tty_id' \in [Block -> TtyId] /\ mode' \in [Tty -> Mode]
    BY <2>7 DEF IInv, TypeOK, Freed
  <2>4. TypeOK'
    BY <1>0, <2>1, <2>3 DEF IInv, TypeOK, calls, InCall
  <2>5. \A c \in Live' : c \in Live /\ tty_id'[c] = tty_id[c]
    BY <2>1, LiveIsBlock DEF IInv, TypeOK, Freed
  <2>6. Counted'
    BY <1>0, <2>5 DEF IInv, Counted
  <2> QED
    BY <1>1, <1>2, <2>4, <2>6 DEF IInv
<1> QED
  BY <1>3, <1>4

LEMMA FindTtyCtrlInv ==
  ASSUME IInv, NEW t \in Caller, FindTtyCtrl(t) PROVE IInv'
<1>0. t \in Thread /\ t # Main /\ pc[t] = "run" /\ pc[t] \in InCall
      /\ UNCHANGED <<registry, mode, mutex, calls, exited>>
  BY ThreadAssumption DEF FindTtyCtrl, Thread, InCall
<1>1. Counted'
  BY <1>0, UnmovedCounted DEF IInv, Unmoved
<1>2. Live' = Live
  BY <1>0 DEF Live, registry
<1>3. CASE Goto(t, "unlock") /\ UNCHANGED using
  <2>1. pc' = [pc EXCEPT ![t] = "unlock"] /\ "unlock" \in InCall
    BY <1>3 DEF Goto, InCall
  <2>2. TypeOK'
    BY <1>0, <1>3, <2>1 DEF IInv, TypeOK, registry, calls
  <2>3. Holds'
    BY <1>0, <1>3, <2>1, MovesOn DEF IInv
  <2>4. RunsOnLive'
    BY <1>0, <1>2, <1>3, <2>1, Alone DEF IInv, TypeOK, RunsOnLive, Commanding, Thread
  <2> QED
    BY <1>1, <2>2, <2>3, <2>4 DEF IInv
<1>4. ASSUME NEW i \in 1 .. Len(ctrls), Has(arg[t], i), Goto(t, "exec"),
             using' = [using EXCEPT ![t] = ctrls[i]]
      PROVE  IInv'
  <2>1. pc' = [pc EXCEPT ![t] = "exec"] /\ "exec" \in InCall
    BY <1>4 DEF Goto, InCall
  <2>2. ctrls[i] \in Block /\ ctrls[i] \in Live
    BY <1>4, HasLive DEF IInv
  <2>3. using' \in [Thread -> Tty \cup {NULL}] /\ using'[t] = ctrls[i]
        /\ using'[Main] = using[Main]
    BY <1>0, <1>4, <2>2 DEF IInv, TypeOK, Tty, Thread
  <2>4. TypeOK'
    BY <1>0, <2>1, <2>3 DEF IInv, TypeOK, registry, calls
  <2>5. Holds'
    BY <1>0, <1>4, <2>1, <2>3, MovesOn DEF IInv
  <2>6. RunsOnLive'
    BY <1>0, <1>2, <2>1, <2>2, <2>3, Alone
    DEF IInv, TypeOK, RunsOnLive, Commanding, Thread
  <2> QED
    BY <1>1, <2>4, <2>5, <2>6 DEF IInv
<1> QED
  BY <1>3, <1>4 DEF FindTtyCtrl

LEMMA UnlockInv ==
  ASSUME IInv, NEW t \in Caller, Unlock(t) PROVE IInv'
<1>0. t \in Thread /\ t # Main /\ pc[t] = "unlock" /\ pc[t] \in InCall
      /\ pc' = [pc EXCEPT ![t] = "idle"] /\ mutex' = NULL
      /\ using' = [using EXCEPT ![t] = NULL]
      /\ UNCHANGED <<registry, mode, exited>>
  BY ThreadAssumption DEF Unlock, Goto, Thread, InCall
<1>1. TypeOK'
  <2>1. 0 \in TtyId
    BY IdAssumption DEF TtyId
  <2>2. arg' \in [Caller -> TtyId]
        /\ request' \in [Caller -> {"create", "destroy", "run"}]
    BY <2>1 DEF Unlock, IInv, TypeOK
  <2> QED
    BY <1>0, <2>2 DEF IInv, TypeOK, registry
<1>2. \A u \in Caller : pc'[u] \notin InCall
  <2> TAKE u \in Caller
  <2>1. CASE u = t
    BY <1>0, <2>1 DEF IInv, TypeOK, InCall
  <2>2. CASE u # t
    BY <1>0, <2>2, Alone DEF IInv, TypeOK, Thread
  <2> QED
    BY <2>1, <2>2
<1>3. Holds'
  BY <1>0, <1>2 DEF IInv, TypeOK, Holds, Thread
<1>4. RunsOnLive'
  BY <1>2 DEF RunsOnLive, Commanding, InCall
<1>5. Counted'
  BY <1>0, UnmovedCounted DEF IInv, Unmoved
<1> QED
  BY <1>1, <1>3, <1>4, <1>5 DEF IInv

(* A thread in a command goes on; the registry stays as it is.             *)
LEMMA CommandMoves ==
  ASSUME IInv, NEW t \in Thread, pc[t] \in {"exec", "program", "console"},
         NEW place \in {"idle", "program", "console", "unlock"}, Goto(t, place),
         t = Main => place \in {"idle", "console", "program"},
         t \in Caller => place # "idle",
         UNCHANGED <<registry, mutex, calls, using>>,
         mode' \in [Tty -> Mode], exited' \in BOOLEAN
  PROVE  IInv'
<1>1. /\ pc' = [pc EXCEPT ![t] = place]
      /\ pc \in [Thread -> {"idle", "lock"} \cup InCall]
  BY DEF Goto, IInv, TypeOK
<1>2. Main \in Thread /\ Caller \subseteq Thread /\ Main \notin Caller
  BY ThreadAssumption DEF Thread
<1>3. TypeOK'
  <2>1. pc' \in [Thread -> {"idle", "lock"} \cup InCall]
    BY <1>1 DEF InCall
  <2> QED
    BY <2>1 DEF IInv, TypeOK, registry, calls
<1>4. Holds'
  <2>1. \A u \in Caller : pc'[u] \in InCall => pc[u] \in InCall
    BY <1>1, <1>2 DEF InCall
  <2>2. pc'[Main] \in {"idle", "exec", "console", "program"}
    BY <1>1, <1>2 DEF IInv, Holds
  <2> QED
    BY <2>1, <2>2 DEF IInv, Holds
<1>5. RunsOnLive'
  <2>1. Live' = Live
    BY DEF Live, registry
  <2>2. \A u \in Caller : Commanding(u)' => Commanding(u)
    BY <1>1, <1>2 DEF Commanding
  <2> QED
    BY <2>1, <2>2 DEF IInv, RunsOnLive
<1>6. Counted'
  BY DEF IInv, Counted, registry, Live
<1> QED
  BY <1>3, <1>4, <1>5, <1>6 DEF IInv

LEMMA RunCliInv ==
  ASSUME IInv, NEW t \in Thread, RunCli(t) PROVE IInv'
<1>1. PICK c \in Cli :
        /\ mode' = [mode EXCEPT ![using[t]] = ModeAfter(c, @)]
        /\ Goto(t, Continues(t, c))
        /\ exited' = (t = Main /\ Found(c, mode[using[t]]) /\ c.word = "quit")
  BY DEF RunCli
<1>2. pc[t] = "exec" /\ UNCHANGED <<registry, mutex, calls, using>>
  BY DEF RunCli
<1>3. mode' \in [Tty -> Mode]
  <2>1. mode \in [Tty -> Mode]
    BY DEF IInv, TypeOK
  <2>2. CASE using[t] \in Tty
    <3>1. ModeAfter(c, mode[using[t]]) \in Mode
      BY <2>1, <2>2, ModeAfterType
    <3> QED
      BY <1>1, <2>1, <3>1
  <2>3. CASE using[t] \notin Tty
    BY <1>1, <2>1, <2>3
  <2> QED
    BY <2>2, <2>3
<1>4. exited' \in BOOLEAN
  BY <1>1
<1> DEFINE place == Continues(t, c)
<1>5. /\ place \in {"idle", "program", "console", "unlock"} /\ place # "idle"
      /\ t = Main => place \in {"idle", "console", "program"}
  BY DEF Continues
<1>6. Goto(t, place)
  BY <1>1
<1> HIDE DEF place
<1> QED
  BY <1>2, <1>3, <1>4, <1>5, <1>6, CommandMoves

LEMMA ProgramEndsInv ==
  ASSUME IInv, NEW t \in Thread, ProgramEnds(t) PROVE IInv'
<1> DEFINE place == IF t = Main THEN "console" ELSE "unlock"
<1>1. /\ pc[t] = "program" /\ Goto(t, place)
      /\ UNCHANGED <<registry, mode, mutex, calls, using, exited>>
  BY DEF ProgramEnds
<1>2. /\ place \in {"idle", "program", "console", "unlock"} /\ place # "idle"
      /\ t = Main => place \in {"idle", "console", "program"}
  OBVIOUS
<1>3. mode' \in [Tty -> Mode] /\ exited' \in BOOLEAN
  BY <1>1 DEF IInv, TypeOK
<1> HIDE DEF place
<1> QED
  BY <1>1, <1>2, <1>3, CommandMoves

LEMMA PrintedInv ==
  ASSUME IInv, NEW t \in Thread, Printed(t) PROVE IInv'
<1> DEFINE place == IF t = Main THEN "idle" ELSE "unlock"
<1>1. /\ pc[t] = "console" /\ Goto(t, place)
      /\ UNCHANGED <<registry, mode, mutex, calls, using, exited>>
  BY DEF Printed
<1>2. /\ place \in {"idle", "program", "console", "unlock"}
      /\ t = Main => place \in {"idle", "console", "program"}
      /\ t \in Caller => place # "idle"
  BY ThreadAssumption
<1>3. mode' \in [Tty -> Mode] /\ exited' \in BOOLEAN
  BY <1>1 DEF IInv, TypeOK
<1> HIDE DEF place
<1> QED
  BY <1>1, <1>2, <1>3, CommandMoves

(* The main thread starts a command, or goes to print after Ctrl-Z.        *)
LEMMA MainInv ==
  ASSUME IInv, MainEnter \/ MainCtrlZ PROVE IInv'
<1>1. PICK place \in {"exec", "console"} : pc' = [pc EXCEPT ![Main] = place]
  BY DEF MainEnter, MainCtrlZ, Goto
<1>2. UNCHANGED <<registry, mutex, calls, using, exited>>
  BY DEF MainEnter, MainCtrlZ
<1>3. Main \in Thread /\ Caller \subseteq Thread /\ Main \notin Caller
      /\ pc \in [Thread -> {"idle", "lock"} \cup InCall]
  BY ThreadAssumption DEF Thread, IInv, TypeOK
<1>4. mode' \in [Tty -> Mode]
  BY DEF MainEnter, MainCtrlZ, IInv, TypeOK, Mode
<1>5. pc' \in [Thread -> {"idle", "lock"} \cup InCall] /\ pc'[Main] = place
      /\ \A u \in Caller : pc'[u] = pc[u]
  BY <1>1, <1>3 DEF InCall
<1>6. TypeOK'
  BY <1>2, <1>4, <1>5 DEF IInv, TypeOK, registry, calls
<1>7. Holds'
  BY <1>2, <1>5 DEF IInv, Holds
<1>8. RunsOnLive'
  BY <1>2, <1>5 DEF IInv, RunsOnLive, Commanding, Live, registry
<1>9. Counted'
  BY <1>2 DEF IInv, Counted, registry, Live
<1> QED
  BY <1>6, <1>7, <1>8, <1>9 DEF IInv

LEMMA NextInv == IInv /\ [Next]_vars => IInv'
<1> SUFFICES ASSUME IInv, [Next]_vars PROVE IInv'
  OBVIOUS
<1>1. ASSUME NEW t \in Caller, Call(t) PROVE IInv'
  BY <1>1, CallInv
<1>2. ASSUME NEW t \in Caller, Inside(t) PROVE IInv'
  BY <1>2, LockInv, CreateTtyInv, RemoveTtyCtrlInv, FindTtyCtrlInv, UnlockInv DEF Inside
<1>3. ASSUME NEW t \in Thread, InCommand(t) \/ ProgramEnds(t) PROVE IInv'
  BY <1>3, RunCliInv, PrintedInv, ProgramEndsInv DEF InCommand
<1>4. CASE MainEnter \/ MainCtrlZ
  BY <1>4, MainInv
<1>5. CASE UNCHANGED vars
  <2>1. TypeOK'
    BY <1>5 DEF vars, IInv, TypeOK
  <2>2. Holds'
    BY <1>5 DEF vars, IInv, Holds
  <2>3. RunsOnLive'
    BY <1>5 DEF vars, IInv, RunsOnLive, Commanding, Live
  <2>4. Counted'
    BY <1>5 DEF vars, IInv, Counted, Live
  <2> QED
    BY <2>1, <2>2, <2>3, <2>4 DEF IInv
<1> QED
  BY <1>1, <1>2, <1>3, <1>4, <1>5 DEF Next

-----------------------------------------------------------------------------
(* Results.                                                                *)

THEOREM Invariance == Spec => []IInv
BY Start, NextInv, PTL DEF Spec

(* Every variable keeps its type, and the list of gvd_tty.c never holds a
   block twice.                                                            *)
THEOREM TypeCorrect == Spec => []TypeOK
<1>1. IInv => TypeOK
  BY DEF IInv
<1> QED
  BY Invariance, <1>1, PTL

(* However many threads create and destroy TTYs, no command runs on one that
   was freed.                                                              *)
THEOREM CommandsOnLive == Spec => []RunsOnLive
<1>1. IInv => RunsOnLive
  BY DEF IInv
<1> QED
  BY Invariance, <1>1, PTL

(* Both together.                                                          *)
THEOREM RegistrySound == Spec => []RegistryConsistent
BY TypeCorrect, CommandsOnLive, PTL DEF RegistryConsistent

(* The commands of virtual TTYs are run one at a time, the programs they
   wait for included.                                                      *)
THEOREM OneAtATime == Spec => []OneCommand
<1>1. IInv => OneCommand
  BY DEF IInv, Holds, OneCommand, Commanding, InCall
<1> QED
  BY Invariance, <1>1, PTL

(* As long as next_tty_id did not wrap, gvd_create_tty() returns an id that
   no TTY ever had, and never the invalid one.                             *)
THEOREM IdsNeverRepeat == Spec => []IdsUnique
<1>1. ASSUME IInv PROVE IdsUnique
  <2>1. SUFFICES ASSUME created <= ID_SPAN - FIRST_ID
                 PROVE  0 \notin given
    BY <1>1 DEF IInv, Counted, IdsUnique, GVD_INVALID_VTY_ID
  <2>2. given = FIRST_ID .. FIRST_ID + created - 1 /\ FIRST_ID \in Nat \ {0}
    BY <1>1, <2>1, IdAssumption DEF IInv, Counted
  <2> QED
    BY <2>2
<1> QED
  BY Invariance, <1>1, PTL

-----------------------------------------------------------------------------
(* What a caller does is what it called.                                   *)

Serves ==
  \A t \in Caller :
    /\ pc[t] \in {"create", "destroy", "run"} => request[t] = pc[t]
    /\ pc[t] = "exec" => request[t] = "run" /\ tty_id[using[t]] = arg[t]

(* The others are not disturbed: they stay where they are, and what they do
   stays as it is, or they are not in the registry.                        *)
LEMMA OthersServe ==
  ASSUME TypeOK, Holds, Serves, NEW t \in Thread, NEW place,
         pc' = [pc EXCEPT ![t] = place],
         NEW u \in Caller, u # t,
         \/ t \in Caller /\ pc[t] \in InCall
         \/ UNCHANGED tty_id /\ using'[u] = using[u],
         request'[u] = request[u] /\ arg'[u] = arg[u]
  PROVE  /\ pc'[u] \in {"create", "destroy", "run"} => request'[u] = pc'[u]
         /\ pc'[u] = "exec" => request'[u] = "run" /\ tty_id'[using'[u]] = arg'[u]
<1>1. u \in Thread /\ pc'[u] = pc[u]
  BY DEF Thread, TypeOK
<1>2. CASE t \in Caller /\ pc[t] \in InCall
  <2>1. pc[u] \notin InCall
    BY <1>2, Alone
  <2> QED
    BY <1>1, <2>1 DEF InCall
<1>3. CASE UNCHANGED tty_id /\ using'[u] = using[u]
  BY <1>1, <1>3 DEF Serves
<1> QED
  BY <1>2, <1>3

(* A step of a thread that leaves the calls as they are.                   *)
LEMMA ThreadServes ==
  ASSUME TypeOK, Holds, Serves, NEW t \in Thread, NEW place,
         pc' = [pc EXCEPT ![t] = place], UNCHANGED calls,
         (t \in Caller /\ pc[t] \in InCall) \/ UNCHANGED <<tty_id, using>>,
         t \in Caller =>
           /\ place \in {"create", "destroy", "run"} => request[t] = place
           /\ place = "exec" => request[t] = "run" /\ tty_id'[using'[t]] = arg[t]
  PROVE  Serves'
<1>1. UNCHANGED <<request, arg>>
  BY DEF calls
<1>2. ASSUME NEW u \in Caller, u # t
      PROVE  /\ pc'[u] \in {"create", "destroy", "run"} => request'[u] = pc'[u]
             /\ pc'[u] = "exec" => request'[u] = "run" /\ tty_id'[using'[u]] = arg'[u]
  BY <1>1, <1>2, OthersServe
<1>3. pc'[t] = place
  BY DEF TypeOK
<1> QED
  BY <1>1, <1>2, <1>3 DEF Serves

LEMMA ServesInv == IInv /\ Serves /\ [Next]_vars => Serves'
<1> SUFFICES ASSUME IInv, Serves, [Next]_vars PROVE Serves'
  OBVIOUS
<1> USE DEF IInv
<1>0. Caller \subseteq Thread /\ Main \in Thread /\ Main \notin Caller
  BY ThreadAssumption DEF Thread
<1>1. ASSUME NEW t \in Caller, Call(t) PROVE Serves'
  <2>1. pc' = [pc EXCEPT ![t] = "lock"] /\ UNCHANGED <<tty_id, using>>
    BY <1>1 DEF Call, Goto, registry
  <2>2. ASSUME NEW u \in Caller, u # t PROVE request'[u] = request[u] /\ arg'[u] = arg[u]
    BY <1>1, <2>2 DEF Call, TypeOK
  <2>3. pc'[t] = "lock"
    BY <1>0, <2>1 DEF TypeOK
  <2> QED
    BY <1>0, <2>1, <2>2, <2>3, OthersServe DEF Serves
<1>2. ASSUME NEW t \in Caller, Lock(t) PROVE Serves'
  <2>1. pc' = [pc EXCEPT ![t] = request[t]] /\ UNCHANGED <<tty_id, using>>
        /\ UNCHANGED calls
    BY <1>2 DEF Lock, Goto, registry
  <2>2. request[t] \in {"create", "destroy", "run"}
    BY DEF TypeOK
  <2> QED
    BY <1>0, <2>1, <2>2, ThreadServes
<1>3. ASSUME NEW t \in Caller, CreateTty(t) \/ RemoveTtyCtrl(t) PROVE Serves'
  <2>1. pc[t] \in InCall /\ pc' = [pc EXCEPT ![t] = "unlock"] /\ UNCHANGED calls
    BY <1>3 DEF CreateTty, RemoveTtyCtrl, Goto, InCall
  <2> QED
    BY <1>0, <2>1, ThreadServes
<1>4. ASSUME NEW t \in Caller, FindTtyCtrl(t) PROVE Serves'
  <2>1. pc[t] = "run" /\ pc[t] \in InCall /\ UNCHANGED calls /\ UNCHANGED tty_id
    BY <1>4 DEF FindTtyCtrl, InCall, registry
  <2>2. request[t] = "run"
    BY <2>1 DEF Serves
  <2>3. CASE pc' = [pc EXCEPT ![t] = "unlock"]
    BY <1>0, <2>1, <2>3, ThreadServes
  <2>4. ASSUME NEW i \in 1 .. Len(ctrls), Has(arg[t], i),
               using' = [using EXCEPT ![t] = ctrls[i]],
               pc' = [pc EXCEPT ![t] = "exec"]
        PROVE  Serves'
    <3>1. tty_id[ctrls[i]] = arg[t] /\ using'[t] = ctrls[i]
      BY <1>0, <2>4 DEF Has, TypeOK
    <3> QED
      BY <1>0, <2>1, <2>2, <2>4, <3>1, ThreadServes
  <2> QED
    BY <1>4, <2>3, <2>4 DEF FindTtyCtrl, Goto
<1>5. ASSUME NEW t \in Caller, Unlock(t) PROVE Serves'
  <2>1. pc[t] \in InCall /\ pc' = [pc EXCEPT ![t] = "idle"]
    BY <1>5 DEF Unlock, Goto, InCall
  <2>2. ASSUME NEW u \in Caller, u # t PROVE request'[u] = request[u] /\ arg'[u] = arg[u]
    BY <1>5, <2>2 DEF Unlock, TypeOK
  <2>3. pc'[t] = "idle"
    BY <1>0, <2>1 DEF TypeOK
  <2> QED
    BY <1>0, <2>1, <2>2, <2>3, OthersServe DEF Serves
<1>6. ASSUME NEW t \in Thread, RunCli(t) PROVE Serves'
  <2> PICK c \in Cli : pc' = [pc EXCEPT ![t] = Continues(t, c)]
    BY <1>6 DEF RunCli, Goto
  <2>1. Continues(t, c) \notin {"create", "destroy", "run", "exec"}
    BY DEF Continues
  <2>2. UNCHANGED calls /\ UNCHANGED <<tty_id, using>>
    BY <1>6 DEF RunCli, registry
  <2> QED
    BY <2>1, <2>2, ThreadServes
<1>7. ASSUME NEW t \in Thread, Printed(t) \/ ProgramEnds(t) PROVE Serves'
  <2> PICK place \in {"idle", "console", "unlock"} : pc' = [pc EXCEPT ![t] = place]
    BY <1>7 DEF Printed, ProgramEnds, Goto
  <2>1. UNCHANGED calls /\ UNCHANGED <<tty_id, using>>
    BY <1>7 DEF Printed, ProgramEnds, registry
  <2> QED
    BY <2>1, ThreadServes
<1>8. CASE MainEnter \/ MainCtrlZ
  <2> PICK place \in {"exec", "console"} : pc' = [pc EXCEPT ![Main] = place]
    BY <1>8 DEF MainEnter, MainCtrlZ, Goto
  <2>1. UNCHANGED calls /\ UNCHANGED <<tty_id, using>>
    BY <1>8 DEF MainEnter, MainCtrlZ, registry
  <2> QED
    BY <1>0, <2>1, ThreadServes
<1>9. CASE UNCHANGED vars
  BY <1>9 DEF vars, Serves
<1> QED
  BY <1>1, <1>2, <1>3, <1>4, <1>5, <1>6, <1>7, <1>8, <1>9
  DEF Next, Inside, InCommand

-----------------------------------------------------------------------------
(* The registry implements the table.                                      *)

Distinct(L, f) == \A b, d \in L : f[b] = f[d] => b = d

(* A table with the ids f and the modes m of the blocks L.                 *)
IsTable(T, L, f, m) ==
  /\ T = [i \in {f[b] : b \in L} |-> T[i]]
  /\ \A b \in L : T[f[b]] = m[b]

LEMMA TableHas ==
  ASSUME NEW L, NEW f, NEW m, Distinct(L, f)
  PROVE  IsTable(TableOf(L, f, m), L, f, m)
<1>1. ASSUME NEW b \in L PROVE (CHOOSE d \in L : f[d] = f[b]) = b
  BY DEF Distinct
<1> DEFINE T == TableOf(L, f, m)
<1>2. T = [i \in {f[b] : b \in L} |-> m[CHOOSE b \in L : f[b] = i]]
  BY DEF TableOf
<1> HIDE DEF T
<1>3. ASSUME NEW b \in L PROVE T[f[b]] = m[b]
  <2>1. T[f[b]] = m[CHOOSE d \in L : f[d] = f[b]]
    BY <1>2
  <2> QED
    BY <1>1, <2>1
<1>4. T = [i \in {f[b] : b \in L} |-> T[i]]
  BY <1>2
<1> QED
  BY <1>3, <1>4 DEF T, IsTable

LEMMA TableIs ==
  ASSUME NEW L, NEW f, NEW m, Distinct(L, f), NEW T, IsTable(T, L, f, m)
  PROVE  TableOf(L, f, m) = T
<1>1. ASSUME NEW b \in L PROVE (CHOOSE d \in L : f[d] = f[b]) = b
  BY DEF Distinct
<1>2. ASSUME NEW i \in {f[b] : b \in L}
      PROVE  T[i] = m[CHOOSE d \in L : f[d] = i]
  <2> PICK b \in L : i = f[b]
    OBVIOUS
  <2> QED
    BY <1>1 DEF IsTable
<1> QED
  BY <1>2 DEF TableOf, IsTable

LEMMA SameMode ==
  ASSUME NEW c, NEW m PROVE Promise!ModeAfter(c, m) = ModeAfter(c, m)
BY DEF Promise!ModeAfter, ModeAfter, Promise!Found, Found, Promise!Root, Root,
       Promise!Tree, Tree, Promise!Mode, Mode, Promise!ReturnUpper, ReturnUpper,
       Promise!ParentMode, ParentMode

(* Before the counter wraps.                                               *)
Unwrapped ==
  created <= ID_SPAN - FIRST_ID /\ Distinct(Live, tty_id)

(* The call of a thread takes effect, or is not changed.                   *)
LEMMA WantsDone ==
  ASSUME TypeOK, NEW t \in Caller, NEW place, place \notin Pending,
         Goto(t, place), UNCHANGED calls
  PROVE  Promise!Done(t)
<1>1. pc' = [pc EXCEPT ![t] = place] /\ pc \in [Thread -> {"idle", "lock"} \cup InCall]
      /\ Caller \subseteq Thread /\ UNCHANGED <<request, arg>>
  BY DEF Goto, TypeOK, Thread, calls
<1>2. ASSUME NEW u \in Caller
      PROVE  (IF pc'[u] \in Pending THEN [op |-> request'[u], id |-> arg'[u]]
              ELSE Promise!NoCall)
             = IF u = t THEN Promise!NoCall
               ELSE IF pc[u] \in Pending THEN [op |-> request[u], id |-> arg[u]]
               ELSE Promise!NoCall
  BY <1>1
<1> QED
  BY <1>2 DEF Promise!Done, Wants, Promise!NoCall

LEMMA WantsSame ==
  ASSUME TypeOK, NEW t \in Thread, NEW place, pc' = [pc EXCEPT ![t] = place],
         UNCHANGED calls,
         t \in Caller => (pc[t] \in Pending <=> place \in Pending)
  PROVE  UNCHANGED Wants
<1>1. pc \in [Thread -> {"idle", "lock"} \cup InCall]
      /\ Caller \subseteq Thread /\ UNCHANGED <<request, arg>>
  BY DEF TypeOK, Thread, calls
<1>2. ASSUME NEW u \in Caller PROVE pc'[u] \in Pending <=> pc[u] \in Pending
  BY <1>1
<1> QED
  BY <1>1, <1>2 DEF Wants

(* The id of a TTY is found.                                               *)
LEMMA FoundIfThere ==
  ASSUME TypeOK, Unwrapped, NEW id, \A i \in 1 .. Len(ctrls) : ~Has(id, i)
  PROVE  id \notin DOMAIN TableOf(Live, tty_id, mode)
<1> SUFFICES ASSUME NEW c \in Live, tty_id[c] = id PROVE FALSE
  BY DEF TableOf
<1>1. DOMAIN ctrls = 1 .. Len(ctrls) /\ Len(ctrls) \in Nat
  BY LenProperties DEF TypeOK
<1>2. PICK i \in 1 .. Len(ctrls) : ctrls[i] = c
  BY <1>1 DEF Live, ToSet
<1>3. ASSUME NEW j \in 1 .. i - 1, tty_id[ctrls[j]] = id PROVE FALSE
  <2>1. j \in 1 .. Len(ctrls) /\ j # i
    BY <1>1
  <2>2. ctrls[j] \in Live
    BY <1>1, <2>1 DEF Live, ToSet
  <2>3. ctrls[j] = ctrls[i]
    BY <1>2, <1>3, <2>2 DEF Unwrapped, Distinct
  <2> QED
    BY <1>1, <2>1, <2>3 DEF TypeOK, IsInjective
<1>4. Has(id, i)
  BY <1>2, <1>3 DEF Has
<1> QED
  BY <1>4

LEMMA StartImplements == Init => Promise!TInit
<1> SUFFICES ASSUME Init PROVE Promise!TInit
  OBVIOUS
<1>1. Live = {}
  BY DEF Init, Live, ToSet
<1>2. TableOf(Live, tty_id, mode) = [i \in {} |-> "exec"]
  BY <1>1 DEF TableOf
<1>3. mode[gvd_tty] = "exec" /\ given = {}
  BY DEF Init, Tty
<1>4. Wants = [u \in Caller |-> Promise!NoCall]
  BY DEF Init, Wants, Pending, Thread, Promise!NoCall
<1> QED
  BY <1>2, <1>3, <1>4 DEF Promise!TInit

LEMMA CreateWanted ==
  ASSUME IInv, Serves, NEW t \in Caller, CreateTty(t)
  PROVE  Wants[t].op = "create" /\ Promise!Done(t)
<1>1. pc[t] = "create" /\ Goto(t, "unlock") /\ UNCHANGED calls
  BY DEF CreateTty
<1>2. "unlock" \notin Pending /\ "create" \in Pending
  BY DEF Pending
<1>3. Wants[t].op = "create"
  BY <1>1, <1>2 DEF Wants, Serves
<1> QED
  BY <1>1, <1>2, <1>3, WantsDone DEF IInv

LEMMA DestroyWanted ==
  ASSUME IInv, Serves, NEW t \in Caller, RemoveTtyCtrl(t)
  PROVE  Wants[t].op = "destroy" /\ Wants[t].id = arg[t] /\ Promise!Done(t)
<1>1. pc[t] = "destroy" /\ Goto(t, "unlock") /\ UNCHANGED calls
  BY DEF RemoveTtyCtrl
<1>2. "unlock" \notin Pending /\ "destroy" \in Pending
  BY DEF Pending
<1>3. Wants[t].op = "destroy" /\ Wants[t].id = arg[t]
  BY <1>1, <1>2 DEF Wants, Serves
<1> QED
  BY <1>1, <1>2, <1>3, WantsDone DEF IInv

LEMMA CreateImplements ==
  ASSUME IInv, Serves, MaxCreate <= ID_SPAN - FIRST_ID,
         NEW t \in Caller, CreateTty(t), ~Unmoved
  PROVE  Promise!Create(t)
<1> PICK b \in Block \ Live :
        /\ created < MaxCreate
        /\ created' = created + 1
        /\ given' = given \cup {next_tty_id}
        /\ tty_id' = [tty_id EXCEPT ![b] = next_tty_id]
        /\ mode' = [mode EXCEPT ![b] = "exec"]
        /\ ctrls' = <<b>> \o ctrls
  BY DEF CreateTty, Unmoved
<1>1. Live' = Live \cup {b}
  BY ConsSet DEF IInv, TypeOK, Live
<1>2. created \in Nat /\ created < ID_SPAN - FIRST_ID /\ ID_SPAN \in Nat
      /\ FIRST_ID \in Nat \ {0} /\ MaxCreate \in Nat
  BY IdAssumption DEF IInv, TypeOK
<1>3. /\ next_tty_id = FIRST_ID + created /\ given = FIRST_ID .. FIRST_ID + created - 1
      /\ \A c \in Live : tty_id[c] \in given
      /\ \A c, d \in Live : tty_id[c] = tty_id[d] => c = d
  BY <1>2 DEF IInv, Counted
<1>4. next_tty_id \in TtyId \ (given \cup {GVD_INVALID_VTY_ID})
  BY <1>2, <1>3 DEF TtyId, GVD_INVALID_VTY_ID
<1>5. /\ tty_id'[b] = next_tty_id /\ mode'[b] = "exec" /\ mode'[gvd_tty] = mode[gvd_tty]
      /\ \A c \in Live : tty_id'[c] = tty_id[c] /\ mode'[c] = mode[c]
  BY LiveIsBlock, ThreadAssumption DEF IInv, TypeOK, Tty
<1> DEFINE old == TableOf(Live, tty_id, mode)
           T == [i \in DOMAIN old \cup {next_tty_id} |->
                   IF i = next_tty_id THEN "exec" ELSE old[i]]
<1>6. /\ DOMAIN old = {tty_id[c] : c \in Live}
      /\ \A c \in Live : old[tty_id[c]] = mode[c]
  <2>1. IsTable(old, Live, tty_id, mode)
    BY <1>3, TableHas DEF Distinct
  <2> HIDE DEF old
  <2> QED
    BY <2>1 DEF IsTable
<1>7. DOMAIN old \cup {next_tty_id} = {tty_id'[c] : c \in Live'}
  BY <1>1, <1>5, <1>6
<1>8. \A c \in Live' : T[tty_id'[c]] = mode'[c]
  BY <1>1, <1>3, <1>4, <1>5, <1>6
<1>9. \A c, d \in Live' : tty_id'[c] = tty_id'[d] => c = d
  BY <1>1, <1>3, <1>4, <1>5
<1>10. T = [i \in {tty_id'[c] : c \in Live'} |-> T[i]]
  BY <1>7
<1> HIDE DEF T
<1>11. TableOf(Live', tty_id', mode') = T
  <2>1. IsTable(T, Live', tty_id', mode') /\ Distinct(Live', tty_id')
    BY <1>8, <1>9, <1>10 DEF IsTable, Distinct
  <2> QED
    BY <2>1, TableIs
<1> QED
  BY <1>4, <1>5, <1>11, CreateWanted DEF Promise!Create, T

LEMMA DestroyImplements ==
  ASSUME IInv, Serves, Unwrapped, NEW t \in Caller, RemoveTtyCtrl(t),
         ~UNCHANGED <<ctrls, tty_id, mode>>
  PROVE  Promise!Destroy(t)
<1> PICK i \in 1 .. Len(ctrls) :
      Has(arg[t], i) /\ Freed(ctrls[i]) /\ ctrls' = RemoveAt(ctrls, i)
  BY DEF RemoveTtyCtrl
<1> DEFINE b == ctrls[i]
           id == tty_id[b]
           old == TableOf(Live, tty_id, mode)
           T == [k \in DOMAIN old \ {id} |-> old[k]]
<1>1. Live' = Live \ {b} /\ b \in Live
  BY RemoveSet, HasLive DEF IInv, TypeOK, Live
<1>2. given' = given
  BY DEF RemoveTtyCtrl
<1>3. /\ mode'[gvd_tty] = mode[gvd_tty]
      /\ \A c \in Live' : tty_id'[c] = tty_id[c] /\ mode'[c] = mode[c]
  BY <1>1, LiveIsBlock, ThreadAssumption DEF IInv, TypeOK, Tty, Freed
<1>11. IsTable(old, Live, tty_id, mode)
  BY TableHas DEF Unwrapped
<1> HIDE DEF old, b
<1>4. /\ DOMAIN old = {tty_id[c] : c \in Live}
      /\ \A c \in Live : old[tty_id[c]] = mode[c]
  BY <1>11 DEF IsTable
<1>5. DOMAIN old \ {id} = {tty_id'[c] : c \in Live'}
  BY <1>1, <1>3, <1>4 DEF Unwrapped, Distinct
<1>6. \A c \in Live' : T[tty_id'[c]] = mode'[c]
  BY <1>1, <1>3, <1>4, <1>5
<1>7. \A c, d \in Live' : tty_id'[c] = tty_id'[d] => c = d
  BY <1>1, <1>3 DEF Unwrapped, Distinct
<1>8. T = [k \in {tty_id'[c] : c \in Live'} |-> T[k]]
  BY <1>5
<1> HIDE DEF T
<1>9. TableOf(Live', tty_id', mode') = T
  <2>1. IsTable(T, Live', tty_id', mode') /\ Distinct(Live', tty_id')
    BY <1>6, <1>7, <1>8 DEF IsTable, Distinct
  <2> QED
    BY <2>1, TableIs
<1>10. id = arg[t]
  BY DEF Has, b
<1> QED
  BY <1>2, <1>3, <1>9, <1>10, DestroyWanted DEF Promise!Destroy, T, old

LEMMA NothingDestroyed ==
  ASSUME IInv, Serves, Unwrapped, NEW t \in Caller, RemoveTtyCtrl(t),
         UNCHANGED <<ctrls, tty_id, mode>>
  PROVE  Promise!Destroy(t)
<1> DEFINE old == TableOf(Live, tty_id, mode)
<1>1. \A i \in 1 .. Len(ctrls) : ~Has(arg[t], i)
  <2> SUFFICES ASSUME NEW i \in 1 .. Len(ctrls), ctrls = RemoveAt(ctrls, i)
               PROVE  FALSE
    BY DEF RemoveTtyCtrl
  <2>1. ToSet(ctrls) = ToSet(ctrls) \ {ctrls[i]}
    BY RemoveSet DEF IInv, TypeOK
  <2> QED
    <3>1. DOMAIN ctrls = 1 .. Len(ctrls)
      BY LenProperties DEF IInv, TypeOK
    <3>2. ctrls[i] \in ToSet(ctrls)
      BY <3>1 DEF ToSet
    <3> QED
      BY <2>1, <3>2
<1>2. arg[t] \notin DOMAIN old
  BY <1>1, FoundIfThere DEF IInv
<1>3. old = [i \in DOMAIN old \ {arg[t]} |-> old[i]]
  BY <1>2 DEF TableOf
<1>4. TableOf(Live, tty_id, mode)' = old /\ given' = given /\ mode'[gvd_tty] = mode[gvd_tty]
  BY DEF RemoveTtyCtrl, Live
<1> HIDE DEF old
<1> QED
  BY <1>3, <1>4, DestroyWanted DEF Promise!Destroy, old

LEMMA CommandImplements ==
  ASSUME IInv, Serves, Unwrapped, NEW t \in Thread, RunCli(t)
  PROVE  \/ t \in Caller /\ Promise!Command(t)
         \/ Promise!MainCommand
<1> PICK c \in Cli : /\ mode' = [mode EXCEPT ![using[t]] = ModeAfter(c, @)]
                     /\ Goto(t, Continues(t, c))
  BY DEF RunCli
<1>0. pc[t] = "exec" /\ UNCHANGED <<registry, mutex, calls, using>>
  BY DEF RunCli
<1>1. Live' = Live /\ tty_id' = tty_id /\ given' = given
  BY <1>0 DEF registry, Live
<1>2. c \in Promise!Cli /\ mode \in [Tty -> Mode] /\ gvd_tty \in Tty
  BY DEF Promise!Cli, Cli, IInv, TypeOK, Tty
<1> DEFINE old == TableOf(Live, tty_id, mode)
<1>3. IsTable(old, Live, tty_id, mode) /\ Distinct(Live, tty_id)
  BY TableHas DEF Unwrapped
<1> HIDE DEF old
<1>4. Live \subseteq Block /\ gvd_tty \notin Block /\ Block \subseteq Tty
  BY LiveIsBlock, ThreadAssumption DEF IInv, Tty
<1>5. CASE t = Main
  <2>1. using[t] = gvd_tty
    BY <1>5 DEF IInv, Holds
  <2>2. mode'[gvd_tty] = ModeAfter(c, mode[gvd_tty]) /\ \A b \in Live : mode'[b] = mode[b]
    BY <1>2, <1>4, <2>1
  <2>3. IsTable(old, Live, tty_id, mode')
    BY <1>3, <2>2 DEF IsTable
  <2>4. TableOf(Live', tty_id', mode') = old
    BY <1>1, <1>3, <2>3, TableIs
  <2>5. UNCHANGED Wants
    BY <1>0, <1>5, ThreadAssumption, WantsSame DEF IInv, Goto
  <2> QED
    BY <1>1, <1>2, <2>2, <2>4, <2>5, SameMode DEF Promise!MainCommand, old
<1>6. CASE t # Main
  <2>1. using[t] \in Live
    BY <1>0, <1>6 DEF IInv, RunsOnLive, Commanding, Thread
  <2> DEFINE y == using[t]
             T == [old EXCEPT ![tty_id[y]] = Promise!ModeAfter(c, @)]
  <2>2. /\ mode'[y] = Promise!ModeAfter(c, mode[y]) /\ mode'[gvd_tty] = mode[gvd_tty]
        /\ \A b \in Live : b # y => mode'[b] = mode[b]
    BY <1>2, <1>4, <2>1, SameMode
  <2> HIDE DEF y
  <2>3. T = [i \in {tty_id[b] : b \in Live} |-> T[i]]
    BY <1>3 DEF IsTable
  <2>4. \A b \in Live : T[tty_id[b]] = mode'[b]
    BY <1>3, <2>1, <2>2 DEF IsTable, Distinct, y
  <2> HIDE DEF T
  <2>5. TableOf(Live', tty_id', mode') = T
    <3>1. IsTable(T, Live, tty_id, mode')
      BY <2>3, <2>4 DEF IsTable
    <3> QED
      BY <1>1, <1>3, <3>1, TableIs
  <2>6. tty_id[y] \in DOMAIN old
    BY <1>3, <2>1 DEF IsTable, y
  <2>7. t \in Caller /\ Continues(t, c) \notin Pending
    BY <1>6 DEF Thread, Continues, Pending
  <2>8. Promise!Done(t)
    BY <1>0, <2>7, WantsDone DEF IInv
  <2>9. Wants[t].op = "run" /\ Wants[t].id = tty_id[y]
    BY <1>0, <2>7 DEF Wants, Pending, Serves, y
  <2> QED
    BY <1>1, <1>2, <2>2, <2>5, <2>6, <2>7, <2>8, <2>9 DEF Promise!Command, T, old
<1> QED
  BY <1>5, <1>6

(* A command for a TTY that does not exist is refused.                     *)
LEMMA RefusalImplements ==
  ASSUME IInv, Serves, Unwrapped, NEW t \in Caller, FindTtyCtrl(t), Goto(t, "unlock")
  PROVE  Promise!Command(t)
<1>1. pc[t] = "run" /\ pc' = [pc EXCEPT ![t] = "unlock"] /\ t \in Thread
      /\ UNCHANGED <<registry, mode, calls>>
  BY DEF FindTtyCtrl, Goto, Thread
<1>2. pc'[t] = "unlock"
  BY <1>1 DEF IInv, TypeOK
<1>3. \A i \in 1 .. Len(ctrls) : ~Has(arg[t], i)
  <2> SUFFICES ASSUME Goto(t, "exec") PROVE FALSE
    BY DEF FindTtyCtrl
  <2>1. pc'[t] = "exec"
    BY <1>1 DEF Goto, IInv, TypeOK
  <2> QED
    BY <1>2, <2>1
<1>4. arg[t] \notin DOMAIN TableOf(Live, tty_id, mode)
  BY <1>3, FoundIfThere DEF IInv
<1>5. "unlock" \notin Pending /\ "run" \in Pending
  BY DEF Pending
<1>6. Promise!Done(t)
  BY <1>1, <1>5, WantsDone DEF IInv, Goto
<1>7. Wants[t].op = "run" /\ Wants[t].id = arg[t]
  BY <1>1, <1>5 DEF Wants, Serves
<1>8. UNCHANGED <<TableOf(Live, tty_id, mode), mode[gvd_tty], given>>
  BY <1>1 DEF registry, Live
<1> QED
  BY <1>4, <1>6, <1>7, <1>8 DEF Promise!Command

LEMMA CallImplements ==
  ASSUME IInv, NEW t \in Caller, Call(t) PROVE Promise!Ask(t)
<1> PICK r \in {"create", "destroy", "run"}, id \in TtyId :
      /\ request' = [request EXCEPT ![t] = r]
      /\ arg' = [arg EXCEPT ![t] = IF r = "create" THEN @ ELSE id]
  BY DEF Call
<1>1. pc[t] = "idle" /\ pc' = [pc EXCEPT ![t] = "lock"] /\ Caller \subseteq Thread
      /\ UNCHANGED <<registry, mode>>
  BY DEF Call, Goto, Thread
<1>2. request'[t] = r /\ arg'[t] \in TtyId
      /\ \A u \in Caller : u # t => request'[u] = request[u] /\ arg'[u] = arg[u]
  BY DEF IInv, TypeOK
<1>3. pc'[t] = "lock" /\ \A u \in Caller : u # t => pc'[u] = pc[u]
  BY <1>1 DEF IInv, TypeOK
<1>4. Wants[t] = Promise!NoCall
  BY <1>1 DEF Wants, Pending, Promise!NoCall
<1>5. Wants' = [Wants EXCEPT ![t] = [op |-> request'[t], id |-> arg'[t]]]
  BY <1>2, <1>3 DEF Wants, Pending
<1>6. UNCHANGED <<TableOf(Live, tty_id, mode), mode[gvd_tty], given>>
  BY <1>1 DEF registry, Live
<1> QED
  BY <1>2, <1>4, <1>5, <1>6 DEF Promise!Ask

LEMMA UnmovedStutters == Unmoved /\ UNCHANGED Wants => UNCHANGED Promise!tvars
BY DEF Unmoved, registry, Live, Promise!tvars

(* The calls change only when they are made, and when they have returned.  *)
LEMMA UnlockStutters ==
  ASSUME IInv, NEW t \in Caller, Unlock(t) PROVE Unmoved /\ UNCHANGED Wants
<1>1. pc[t] = "unlock" /\ pc' = [pc EXCEPT ![t] = "idle"] /\ Caller \subseteq Thread
  BY DEF Unlock, Goto, Thread
<1>2. \A u \in Caller : u # t =>
        pc'[u] = pc[u] /\ request'[u] = request[u] /\ arg'[u] = arg[u]
  BY <1>1 DEF Unlock, IInv, TypeOK
<1>3. pc'[t] = "idle"
  BY <1>1 DEF IInv, TypeOK
<1> QED
  BY <1>1, <1>2, <1>3 DEF Wants, Pending, Unlock, Unmoved

LEMMA StepImplements ==
  ASSUME IInv, Serves, MaxCreate <= ID_SPAN - FIRST_ID, [Next]_vars
  PROVE  [Promise!TNext]_(Promise!tvars)
<1> DEFINE Stutter == Unmoved /\ UNCHANGED Wants
<1>0. Caller \subseteq Thread /\ Main \in Thread /\ Main \notin Caller
  BY ThreadAssumption DEF Thread
<1>1. Unwrapped
  <2>1. created <= ID_SPAN - FIRST_ID
    BY IdAssumption DEF IInv, TypeOK
  <2> QED
    BY <2>1 DEF IInv, Counted, Unwrapped, Distinct
<1>2. ASSUME NEW t \in Caller, Call(t) PROVE Promise!TNext
  BY <1>2, CallImplements DEF Promise!TNext
<1>3. ASSUME NEW t \in Caller, Lock(t) PROVE Stutter
  <2>1. pc[t] = "lock" /\ pc' = [pc EXCEPT ![t] = request[t]] /\ UNCHANGED calls
    BY <1>3 DEF Lock, Goto
  <2>2. pc[t] \in Pending /\ request[t] \in Pending
    BY <2>1 DEF Pending, IInv, TypeOK
  <2>3. UNCHANGED Wants
    BY <1>0, <2>1, <2>2, WantsSame DEF IInv
  <2> QED
    BY <1>3, <2>3 DEF Lock, Unmoved
<1>4. ASSUME NEW t \in Thread, Printed(t) \/ ProgramEnds(t) PROVE Stutter
  <2> PICK place \in {"idle", "console", "unlock"} : pc' = [pc EXCEPT ![t] = place]
    BY <1>4 DEF Printed, ProgramEnds, Goto
  <2>1. pc[t] \notin Pending /\ place \notin Pending /\ UNCHANGED calls
    BY <1>4 DEF Printed, ProgramEnds, Pending
  <2>2. UNCHANGED Wants
    BY <2>1, WantsSame DEF IInv
  <2> QED
    BY <1>4, <2>2 DEF Printed, ProgramEnds, Unmoved
<1>5. CASE MainEnter
  <2>1. pc' = [pc EXCEPT ![Main] = "exec"] /\ UNCHANGED calls
    BY <1>5 DEF MainEnter, Goto
  <2>2. UNCHANGED Wants
    BY <1>0, <2>1, WantsSame DEF IInv
  <2> QED
    BY <1>5, <2>2, UnmovedStutters DEF MainEnter, Unmoved
<1>6. ASSUME NEW t \in Caller, CreateTty(t) PROVE Promise!TNext
  <2>1. CASE ~Unmoved
    BY <1>6, <2>1, CreateImplements DEF Promise!TNext
  <2>2. CASE Unmoved
    <3>1. UNCHANGED <<TableOf(Live, tty_id, mode), mode[gvd_tty], given>>
      BY <2>2 DEF Unmoved, registry, Live
    <3>2. Promise!Create(t)
      BY <1>6, <3>1, CreateWanted DEF Promise!Create
    <3> QED
      BY <3>2 DEF Promise!TNext
  <2> QED
    BY <2>1, <2>2
<1>7. ASSUME NEW t \in Caller, RemoveTtyCtrl(t) PROVE Promise!TNext
  BY <1>1, <1>7, DestroyImplements, NothingDestroyed DEF Promise!TNext
<1>8. ASSUME NEW t \in Caller, FindTtyCtrl(t) PROVE Promise!TNext \/ Stutter
  <2>1. CASE Goto(t, "unlock")
    BY <1>1, <1>8, <2>1, RefusalImplements DEF Promise!TNext
  <2>2. CASE Goto(t, "exec")
    <3>1. pc[t] \in Pending /\ "exec" \in Pending /\ UNCHANGED calls
      BY <1>8 DEF FindTtyCtrl, Pending
    <3>2. UNCHANGED Wants
      BY <1>0, <2>2, <3>1, WantsSame DEF IInv, Goto
    <3> QED
      BY <1>8, <3>2 DEF FindTtyCtrl, Unmoved
  <2> QED
    BY <1>8, <2>1, <2>2 DEF FindTtyCtrl
<1>9. CASE MainCtrlZ
  <2>1. UNCHANGED registry /\ mode' = [mode EXCEPT ![gvd_tty] = "exec"]
        /\ pc' = [pc EXCEPT ![Main] = "console"] /\ UNCHANGED calls
    BY <1>9 DEF MainCtrlZ, Goto
  <2>2. Live' = Live /\ tty_id' = tty_id /\ given' = given
    BY <2>1 DEF registry, Live
  <2>3. mode'[gvd_tty] = "exec" /\ \A b \in Live : mode'[b] = mode[b]
    BY <2>1, LiveIsBlock, ThreadAssumption DEF IInv, TypeOK, Tty
  <2> DEFINE old == TableOf(Live, tty_id, mode)
  <2>4. IsTable(old, Live, tty_id, mode)
    BY <1>1, TableHas DEF Unwrapped
  <2> HIDE DEF old
  <2>5. IsTable(old, Live, tty_id, mode')
    BY <2>3, <2>4 DEF IsTable
  <2>6. TableOf(Live', tty_id', mode') = old
    BY <1>1, <2>2, <2>5, TableIs DEF Unwrapped
  <2>7. UNCHANGED Wants
    BY <1>0, <2>1, WantsSame DEF IInv
  <2> QED
    BY <2>2, <2>3, <2>6, <2>7 DEF old, Promise!TNext, Promise!MainCommand
<1>10. ASSUME NEW t \in Thread, RunCli(t) PROVE Promise!TNext
  BY <1>1, <1>10, CommandImplements DEF Promise!TNext
<1>11. CASE UNCHANGED vars
  <2>1. Stutter
    BY <1>11 DEF vars, Unmoved, registry, Wants
  <2> QED
    BY <2>1, UnmovedStutters
<1>12. CASE Next
  <2>1. ASSUME NEW t \in Caller, Inside(t) PROVE Promise!TNext \/ Stutter
    BY <1>3, <1>6, <1>7, <1>8, <2>1, UnlockStutters DEF Inside
  <2>2. ASSUME NEW t \in Thread, InCommand(t) \/ ProgramEnds(t)
        PROVE  Promise!TNext \/ Stutter
    BY <1>4, <1>10, <2>2 DEF InCommand
  <2> HIDE DEF Stutter
  <2>3. [Promise!TNext]_(Promise!tvars) \/ Stutter \/ MainEnter
    BY <1>2, <1>9, <1>12, <2>1, <2>2 DEF Next
  <2> QED
    BY <1>5, <2>3, UnmovedStutters DEF Stutter
<1> QED
  BY <1>11, <1>12

(* While fewer TTYs are created than there are ids, what threads see of the
   registry is a table from ids to modes: every call takes effect at one
   moment on the TTY it names, and no id names two TTYs.                   *)
THEOREM Refinement ==
  ASSUME MaxCreate <= ID_SPAN - FIRST_ID
  PROVE  Spec => KeepsPromise
<1>1. Init => Promise!TInit
  BY StartImplements
<1>2. Init => Serves
  BY DEF Init, Serves, Thread
<1>3. IInv /\ Serves /\ [Next]_vars => [Promise!TNext]_(Promise!tvars)
  BY StepImplements
<1> QED
  BY <1>1, <1>2, <1>3, Invariance, ServesInv, PTL DEF Spec, KeepsPromise, Promise!TSpec

=============================================================================
