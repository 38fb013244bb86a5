---------------------------- MODULE CliTreeProofs ----------------------------
(***************************************************************************)
(* Proofs about start-up: whatever chains are linked, merged and re-linked *)
(* and whichever allocation fails,                                         *)
(*   - the pointers of the nodes stay sound and no list of alternatives    *)
(*     becomes a ring (TreeSound).  Instead of reachability each node has a *)
(*     number that falls along the list (Ranks), and every write of a      *)
(*     pointer leaves such numbers;                                        *)
(*   - if no command is declared twice or is the beginning of another one, *)
(*     each mode gets exactly the commands declared for it, and no write   *)
(*     takes one away (MergesWholeAlways, CommandsAreKept,                 *)
(*     BuildinsAreAsPromised).                                             *)
(*                                                                         *)
(* For the second, each node has the words that lead to it (Path).  The    *)
(* trees of all modes are one set T of nodes, and a pointer to a list leads *)
(* all of T that has the same mode and words (Leads): to put a node that is *)
(* new on a list behind the first one adds to T all that is declared behind *)
(* the node (GroveGrows), and what is not in T is pending in exactly one of *)
(* the calls of merge_cli_tree() (Unmerged).  What the parser can then read *)
(* (Commands) are the paths of the END nodes of T (GroveCommands).         *)
(***************************************************************************)
EXTENDS CliTree, Iteration, SequenceTheorems

Addr == Node \cup {NULL}

LEMMA NodeFinite == IsFiniteSet(Node) /\ Cardinality(Node) \in Nat
<1>1. IsFiniteSet(Mode \X Template)
  <2>1. IsFiniteSet(Template) /\ IsFiniteSet(Mode)
    <3>1. Template = {"node_exit", "node_end"} \cup {"node_no", "node_default"}
      BY DEF Template
    <3>2. Mode = {"exec", "shell"} \cup {"config", "gvd"}
      BY DEF Mode
    <3>3. \A a, b : IsFiniteSet({a, b})
      <4> TAKE a, b
      <4>1. {a, b} = {a} \cup {b}
        OBVIOUS
      <4>2. IsFiniteSet({a}) /\ IsFiniteSet({b})
        BY FS_Singleton
      <4>3. IsFiniteSet({a} \cup {b})
        BY <4>2, FS_Union
      <4> QED
        BY <4>1, <4>3
    <3> QED
      BY <3>1, <3>2, <3>3, FS_Union
  <2> QED
    BY <2>1, FS_Product
<1> DEFINE f == [x \in Mode \X Template |-> Clone[x[1]][x[2]]]
<1>2. f \in Surjection(Mode \X Template, CloneName)
  <2>1. \A x \in Mode \X Template : f[x] \in CloneName
    BY DEF CloneName
  <2>2. \A m \in Mode, t \in Template : <<m, t>> \in Mode \X Template /\ f[<<m, t>>] = Clone[m][t]
    OBVIOUS
  <2>3. ASSUME NEW c \in CloneName
        PROVE  \E x \in Mode \X Template : f[x] = c
    <3>1. PICK m \in Mode, t \in Template : c = Clone[m][t]
      BY DEF CloneName
    <3> HIDE DEF f
    <3>2. <<m, t>> \in Mode \X Template /\ f[<<m, t>>] = c
      BY <2>2, <3>1
    <3> QED
      BY <3>2
  <2> QED
    BY <2>1, <2>3 DEF Surjection
<1>3. IsFiniteSet(CloneName)
  BY <1>1, <1>2, FS_Surjection
<1>4. IsFiniteSet(Node)
  BY <1>3, NodeAssumption, FS_Union DEF Node
<1> QED
  BY <1>4, FS_CardinalityType

(* What the list from x on is at bound k, once it is known at k - 1.       *)
Longer(h, step) == [x \in Addr |-> IF x = NULL THEN <<>> ELSE <<x>> \o h[step[x]]]

(* ListFrom() is what its recursive definition says: a function that gives
   the lists of all nodes at every bound k exists.                         *)
LEMMA ListsExist ==
  ASSUME NEW step \in [Node -> Addr]
  PROVE  \E f \in [Nat -> [Addr -> Seq(Node)]] :
           f = [k \in Nat |-> [x \in Addr |->
                  IF k = 0 \/ x = NULL THEN <<>> ELSE <<x>> \o f[k - 1][step[x]]]]
<1> DEFINE A == [Addr -> Seq(Node)]
           a == [x \in Addr |-> <<>>]
           G == [h \in A |-> Longer(h, step)]
<1>1. a \in A
  OBVIOUS
<1>2. ASSUME NEW h \in A
      PROVE  Longer(h, step) \in A
  <2>1. ASSUME NEW x \in Addr, x # NULL
        PROVE  <<x>> \o h[step[x]] \in Seq(Node)
    <3>1. x \in Node /\ <<x>> \in Seq(Node) /\ h[step[x]] \in Seq(Node)
      BY <2>1 DEF Addr
    <3> QED
      BY <3>1, ConcatProperties
  <2> QED
    BY <2>1 DEF Longer
<1>3. G \in [A -> A]
  BY <1>2
<1> HIDE DEF A, a, G
<1>4. PICK g \in [Nat -> A] : g[0] = a /\ \A n \in Nat : g[n + 1] = G[g[n]]
  BY <1>1, <1>3, IterationExists, SMTT(60)
<1>5. ASSUME NEW k \in Nat, NEW x \in Addr
      PROVE  g[k][x] = IF k = 0 \/ x = NULL THEN <<>> ELSE <<x>> \o g[k - 1][step[x]]
  <2>1. CASE k = 0
    BY <1>4, <2>1 DEF a
  <2>2. CASE k # 0
    <3>1. k - 1 \in Nat /\ (k - 1) + 1 = k
      BY <2>2
    <3>2. g[k] = Longer(g[k - 1], step)
      BY <1>4, <3>1 DEF G
    <3> QED
      BY <2>2, <3>2 DEF Longer
  <2> QED
    BY <2>1, <2>2
<1>6. \A k \in Nat : g[k] \in [Addr -> Seq(Node)]
  BY <1>4 DEF A
<1>7. \A k \in Nat : g[k] = [x \in Addr |-> g[k][x]]
  BY <1>6
<1>8. \A k \in Nat :
        g[k] = [x \in Addr |-> IF k = 0 \/ x = NULL THEN <<>> ELSE <<x>> \o g[k - 1][step[x]]]
  BY <1>5, <1>7
<1>9. g = [k \in Nat |-> [x \in Addr |->
             IF k = 0 \/ x = NULL THEN <<>> ELSE <<x>> \o g[k - 1][step[x]]]]
  BY <1>4, <1>8
<1> QED
  BY <1>6, <1>9, <1>4 DEF A

(* The lists of all nodes at every bound, as ListFrom() takes them.        *)
Lists(step) ==
  CHOOSE f : f = [k \in Nat |-> [x \in Addr |->
                    IF k = 0 \/ x = NULL THEN <<>> ELSE <<x>> \o f[k - 1][step[x]]]]

LEMMA ListFromIs ==
  ASSUME NEW x, NEW step
  PROVE  ListFrom(x, step) = Lists(step)[Cardinality(Node)][x]
BY DEF ListFrom, Lists, Addr

LEMMA ListsRec ==
  ASSUME NEW step \in [Node -> Addr], NEW k \in Nat, NEW x \in Addr
  PROVE  Lists(step)[k][x] = IF k = 0 \/ x = NULL THEN <<>>
                             ELSE <<x>> \o Lists(step)[k - 1][step[x]]
<1> DEFINE f == Lists(step)
<1>1. f = [j \in Nat |-> [y \in Addr |->
             IF j = 0 \/ y = NULL THEN <<>> ELSE <<y>> \o f[j - 1][step[y]]]]
  BY ListsExist DEF Lists
<1> HIDE DEF f
<1>2. f[k] = [y \in Addr |->
             IF k = 0 \/ y = NULL THEN <<>> ELSE <<y>> \o f[k - 1][step[y]]]
  BY <1>1
<1>3. f[k][x] = IF k = 0 \/ x = NULL THEN <<>> ELSE <<x>> \o f[k - 1][step[x]]
  BY <1>2
<1> QED
  BY <1>3 DEF f

(* Putting a node before a list.                                           *)
LEMMA ConsProperties ==
  ASSUME NEW S, NEW x \in S, NEW t \in Seq(S)
  PROVE  /\ <<x>> \o t \in Seq(S) /\ Len(<<x>> \o t) = Len(t) + 1
         /\ (<<x>> \o t)[1] = x
         /\ \A i \in 1 .. Len(t) : (<<x>> \o t)[i + 1] = t[i]
<1>1. <<x>> \in Seq(S) /\ Len(<<x>>) = 1 /\ <<x>>[1] = x
  OBVIOUS
<1> DEFINE o == <<x>>
           s == o \o t
<1> HIDE DEF o
<1>2. s \in Seq(S) /\ Len(s) = 1 + Len(t)
      /\ \A i \in 1 .. 1 + Len(t) : s[i] = IF i <= 1 THEN o[i] ELSE t[i - 1]
  BY <1>1, ConcatProperties DEF o
<1>0. Len(t) \in Nat
  OBVIOUS
<1> HIDE DEF s
<1>3. s[1] = x
  BY <1>0, <1>1, <1>2 DEF o
<1>4. ASSUME NEW i \in 1 .. Len(t)
      PROVE  s[i + 1] = t[i]
  <2>1. i + 1 \in 1 .. 1 + Len(t) /\ ~(i + 1 <= 1) /\ (i + 1) - 1 = i
    BY <1>0
  <2> QED
    BY <1>2, <2>1
<1> QED
  BY <1>0, <1>2, <1>3, <1>4 DEF s, o

(* s is the list from x on, cut after k nodes.                             *)
IsList(s, k, x, step) ==
  /\ s \in Seq(Node) /\ Len(s) <= k
  /\ x = NULL \/ k = 0 => s = <<>>
  /\ x # NULL /\ k # 0 => s # <<>> /\ s[1] = x
  /\ \A i \in 1 .. Len(s) - 1 : s[i + 1] = step[s[i]]
  /\ s # <<>> /\ Len(s) < k => step[s[Len(s)]] = NULL

LEMMA ListsAreLists ==
  ASSUME NEW step \in [Node -> Addr]
  PROVE  \A k \in Nat, x \in Addr : IsList(Lists(step)[k][x], k, x, step)
<1> DEFINE f == Lists(step)
           S == {k \in Nat : \A x \in Addr : IsList(f[k][x], k, x, step)}
<1>r. \A k \in Nat, x \in Addr :
        f[k][x] = IF k = 0 \/ x = NULL THEN <<>> ELSE <<x>> \o f[k - 1][step[x]]
  BY ListsRec
<1> HIDE DEF f
<1>e. \A k \in Nat, x \in Addr : k = 0 \/ x = NULL => IsList(<<>>, k, x, step)
  BY DEF IsList
<1>1. 0 \in S
  <2>1. \A x \in Addr : f[0][x] = <<>>
    BY <1>r
  <2> QED
    BY <1>e, <2>1
<1>2. ASSUME NEW k \in Nat, k \in S
      PROVE  k + 1 \in S
  <2> SUFFICES ASSUME NEW x \in Addr
               PROVE  IsList(f[k + 1][x], k + 1, x, step)
    OBVIOUS
  <2>1. CASE x = NULL
    <3>0. k + 1 \in Nat
      OBVIOUS
    <3>1. f[k + 1][x] = <<>>
      BY <1>r, <2>1, <3>0, Zenon
    <3> QED
      BY <1>e, <2>1, <3>1
  <2>2. CASE x # NULL
    <3> DEFINE t == f[k][step[x]]
               s == <<x>> \o t
    <3>0. x \in Node /\ step[x] \in Addr
      BY <2>2 DEF Addr
    <3>1. f[k + 1][x] = s
      <4>1. k + 1 \in Nat /\ k + 1 # 0 /\ (k + 1) - 1 = k
        OBVIOUS
      <4> QED
        BY <1>r, <2>2, <4>1
    <3>2. IsList(t, k, step[x], step)
      BY <1>2, <3>0
    <3> HIDE DEF t
    <3>3. t \in Seq(Node) /\ Len(t) \in Nat /\ Len(t) <= k
      BY <3>2 DEF IsList
    <3>4. /\ s \in Seq(Node) /\ Len(s) = Len(t) + 1 /\ s[1] = x
          /\ \A i \in 1 .. Len(t) : s[i + 1] = t[i]
      BY <3>0, <3>3, ConsProperties
    <3> HIDE DEF s
    <3>5. ASSUME NEW i \in 1 .. Len(s) - 1
          PROVE  s[i + 1] = step[s[i]]
      <4>0. i \in 1 .. Len(t) /\ s[i + 1] = t[i]
        BY <3>3, <3>4
      <4>1. CASE i = 1
        BY <3>2, <3>3, <3>4, <4>0, <4>1 DEF IsList
      <4>2. CASE i # 1
        <5>1. i - 1 \in 1 .. Len(t) - 1 /\ i - 1 \in 1 .. Len(t) /\ (i - 1) + 1 = i
          BY <3>3, <4>0, <4>2
        <5>2. t[(i - 1) + 1] = step[t[i - 1]]
          BY <3>2, <5>1 DEF IsList
        <5>3. s[(i - 1) + 1] = t[i - 1]
          BY <3>4, <5>1
        <5> QED
          BY <4>0, <5>1, <5>2, <5>3
      <4> QED
        BY <4>1, <4>2
    <3>6. Len(s) < k + 1 => step[s[Len(s)]] = NULL
      <4> SUFFICES ASSUME Len(s) < k + 1
                   PROVE  step[s[Len(s)]] = NULL
        OBVIOUS
      <4>1. Len(t) < k
        BY <3>3, <3>4
      <4>2. CASE t = <<>>
        <5>1. step[x] = NULL
          BY <3>2, <3>3, <4>1, <4>2 DEF IsList
        <5>2. Len(s) = 1
          BY <3>4, <4>2
        <5> QED
          BY <3>4, <5>1, <5>2
      <4>3. CASE t # <<>>
        <5>1. step[t[Len(t)]] = NULL /\ Len(t) \in 1 .. Len(t)
          BY <3>2, <3>3, <4>1, <4>3 DEF IsList
        <5> QED
          BY <3>4, <5>1
      <4> QED
        BY <4>2, <4>3
    <3>7. s # <<>>
      BY <3>3, <3>4
    <3>8. IsList(s, k + 1, x, step)
      BY <2>2, <3>3, <3>4, <3>5, <3>6, <3>7 DEF IsList
    <3> QED
      BY <3>1, <3>8
  <2> QED
    BY <2>1, <2>2
<1> HIDE DEF S
<1>3. \A k \in Nat : k \in S
  BY <1>1, <1>2, NatSetInduction
<1> QED
  BY <1>3 DEF S, f

LEMMA ListFromIsList ==
  ASSUME NEW step \in [Node -> Addr], NEW n \in Node
  PROVE  LET s == ListFrom(n, step) IN
         /\ IsList(s, Cardinality(Node), n, step)
         /\ s \in Seq(Node) /\ Len(s) \in Nat /\ s # <<>>
         /\ Len(s) >= 1 /\ Len(s) <= Cardinality(Node)
         /\ s[1] = n /\ Last(s) = s[Len(s)]
<1> DEFINE s == ListFrom(n, step)
           c == Cardinality(Node)
<1>1. IsFiniteSet(Node) /\ c \in Nat
  BY NodeFinite
<1>2. c # 0
  BY <1>1, FS_EmptySet
<1>3. IsList(s, c, n, step)
  <2>1. n \in Addr
    BY DEF Addr
  <2>2. s = Lists(step)[c][n]
    BY ListFromIs
  <2> QED
    BY <1>1, <2>1, <2>2, ListsAreLists
<1>4. n # NULL
  BY NodeAssumption
<1> HIDE DEF s, c
<1>5. s \in Seq(Node) /\ Len(s) <= c /\ s # <<>> /\ s[1] = n
  BY <1>2, <1>3, <1>4 DEF IsList
<1>6. Len(s) \in Nat /\ Len(s) >= 1
  BY <1>5
<1>7. Last(s) = s[Len(s)]
  BY DEF Last
<1> QED
  BY <1>3, <1>5, <1>6, <1>7 DEF s, c

-----------------------------------------------------------------------------
(* Lists that end.                                                         *)

(* The next alternative has the lower rank.                                *)
Ranks(r, step) ==
  /\ r \in [Node -> Nat]
  /\ \A n \in Node : step[n] # NULL => r[step[n]] < r[n]

Ranked(step) == \E r : Ranks(r, step)

LEMMA RanksFall ==
  ASSUME NEW step \in [Node -> Addr], NEW r, Ranks(r, step), NEW n \in Node
  PROVE  LET s == ListFrom(n, step) IN
         \A j \in 1 .. Len(s) : \A i \in 1 .. j - 1 : r[s[j]] < r[s[i]]
<1> DEFINE s == ListFrom(n, step)
           S == {j \in Nat : j \in 1 .. Len(s) =>
                               \A i \in 1 .. j - 1 : r[s[j]] < r[s[i]]}
<1>1. s \in Seq(Node) /\ Len(s) \in Nat /\ \A i \in 1 .. Len(s) - 1 : s[i + 1] = step[s[i]]
  BY ListFromIsList DEF IsList
<1> HIDE DEF s
<1>2. \A i \in 1 .. Len(s) : s[i] \in Node /\ r[s[i]] \in Nat
  BY <1>1 DEF Ranks
<1>3. 0 \in S
  OBVIOUS
<1>4. ASSUME NEW j \in Nat, j \in S
      PROVE  j + 1 \in S
  <2> SUFFICES ASSUME j + 1 \in 1 .. Len(s), NEW i \in 1 .. j
               PROVE  r[s[j + 1]] < r[s[i]]
    OBVIOUS
  <2>1. j \in 1 .. Len(s) - 1 /\ j \in 1 .. Len(s) /\ i \in 1 .. Len(s)
    BY <1>1
  <2>2. s[j + 1] = step[s[j]] /\ s[j + 1] \in Node /\ s[j] \in Node
    BY <1>1, <1>2, <2>1
  <2>3. r[s[j + 1]] < r[s[j]]
    BY <2>2, NodeAssumption DEF Ranks
  <2>4. i = j \/ r[s[j]] < r[s[i]]
    BY <1>4, <2>1
  <2>5. r[s[j + 1]] \in Nat /\ r[s[j]] \in Nat /\ r[s[i]] \in Nat
    BY <1>2, <2>1
  <2> QED
    BY <2>3, <2>4, <2>5
<1> HIDE DEF S
<1>5. \A j \in Nat : j \in S
  BY <1>3, <1>4, NatSetInduction
<1>6. \A j \in 1 .. Len(s) : \A i \in 1 .. j - 1 : r[s[j]] < r[s[i]]
  BY <1>5 DEF S
<1> QED
  BY <1>6 DEF s

(* A list along which the ranks fall has an end: as long as the cut, it would
   have all nodes, and the next one would be among them.                   *)
LEMMA RankedListEnds ==
  ASSUME NEW step \in [Node -> Addr], NEW r, Ranks(r, step), NEW n \in Node
  PROVE  ListEnds(n, step)
<1> DEFINE s == ListFrom(n, step)
           c == Cardinality(Node)
<1>1. /\ s \in Seq(Node) /\ Len(s) \in Nat /\ s # <<>> /\ Len(s) >= 1 /\ Len(s) <= c
      /\ Last(s) = s[Len(s)]
      /\ Len(s) < c => step[s[Len(s)]] = NULL
  BY ListFromIsList DEF IsList
<1>2. \A j \in 1 .. Len(s) : \A i \in 1 .. j - 1 : r[s[j]] < r[s[i]]
  BY RanksFall
<1>3. IsFiniteSet(Node) /\ c \in Nat
  BY NodeFinite
<1> HIDE DEF s, c
<1>4. \A i \in 1 .. Len(s) : s[i] \in Node /\ r[s[i]] \in Nat
  BY <1>1 DEF Ranks
<1>5. CASE Len(s) = c
  <2> SUFFICES ASSUME step[s[Len(s)]] # NULL
               PROVE  FALSE
    BY <1>1 DEF ListEnds, s
  <2>1. s \in Injection(1 .. c, Node)
    <3>1. \A i, j \in 1 .. c : s[i] = s[j] => i = j
      <4> SUFFICES ASSUME NEW i \in 1 .. c, NEW j \in 1 .. c, s[i] = s[j], i < j
                   PROVE  FALSE
        BY <1>3
      <4>1. i \in 1 .. j - 1
        BY <1>3
      <4> QED
        BY <1>2, <1>4, <1>5, <4>1
    <3>2. s \in [1 .. c -> Node]
      BY <1>1, <1>5
    <3> QED
      BY <3>1, <3>2 DEF Injection, IsInjective
  <2>2. s \in Surjection(1 .. c, Node)
    <3>1. Cardinality(1 .. c) = c
      BY <1>3, FS_Interval
    <3> QED
      BY <1>3, <2>1, <3>1, FS_Injection DEF c
  <2>3. Len(s) \in 1 .. Len(s) /\ s[Len(s)] \in Node /\ step[s[Len(s)]] \in Node
    BY <1>1, <1>4 DEF Addr
  <2>4. PICK i \in 1 .. c : s[i] = step[s[Len(s)]]
    BY <2>2, <2>3 DEF Surjection
  <2>5. r[s[i]] < r[s[Len(s)]]
    BY <2>3, <2>4 DEF Ranks
  <2>6. i = Len(s) \/ i \in 1 .. Len(s) - 1
    BY <1>1, <1>5
  <2> QED
    BY <1>2, <1>4, <1>5, <2>3, <2>5, <2>6
<1>6. CASE Len(s) < c
  BY <1>1, <1>6 DEF ListEnds, s
<1> QED
  BY <1>1, <1>3, <1>5, <1>6

(* The nodes of a list and those behind them.                              *)
Elements(n, step) == {ListFrom(n, step)[i] : i \in 1 .. Len(ListFrom(n, step))}

LEMMA ListIsClosed ==
  ASSUME NEW step \in [Node -> Addr], NEW r, Ranks(r, step), NEW n \in Node
  PROVE  /\ n \in Elements(n, step) /\ Elements(n, step) \subseteq Node
         /\ \A x \in Elements(n, step) : /\ r[x] <= r[n]
                                         /\ step[x] \in Elements(n, step) \cup {NULL}
<1> DEFINE s == ListFrom(n, step)
           E == {s[i] : i \in 1 .. Len(s)}
<1>1. /\ s \in Seq(Node) /\ Len(s) \in Nat /\ Len(s) >= 1 /\ s[1] = n
      /\ Last(s) = s[Len(s)]
      /\ \A i \in 1 .. Len(s) - 1 : s[i + 1] = step[s[i]]
  BY ListFromIsList DEF IsList
<1>2. \A j \in 1 .. Len(s) : \A i \in 1 .. j - 1 : r[s[j]] < r[s[i]]
  BY RanksFall
<1>3. step[Last(s)] = NULL
  BY RankedListEnds DEF ListEnds
<1> HIDE DEF s
<1>4. \A i \in 1 .. Len(s) : s[i] \in Node /\ r[s[i]] \in Nat
  BY <1>1 DEF Ranks
<1>5. 1 \in 1 .. Len(s)
  BY <1>1
<1>6. ASSUME NEW i \in 1 .. Len(s)
      PROVE  r[s[i]] <= r[n] /\ step[s[i]] \in E \cup {NULL}
  <2>1. r[s[i]] <= r[n]
    <3>1. CASE i = 1
      BY <1>1, <1>4, <3>1
    <3>2. CASE i # 1
      <4>1. 1 \in 1 .. i - 1
        BY <3>2
      <4> QED
        BY <1>1, <1>2, <1>4, <1>5, <4>1
    <3> QED
      BY <3>1, <3>2
  <2>2. CASE i = Len(s)
    BY <1>1, <1>3, <2>1, <2>2
  <2>3. CASE i # Len(s)
    <3>1. i \in 1 .. Len(s) - 1 /\ i + 1 \in 1 .. Len(s)
      BY <1>1, <2>3
    <3> QED
      BY <1>1, <2>1, <3>1
  <2> QED
    BY <2>2, <2>3
<1>7. n \in E /\ E \subseteq Node
  BY <1>1, <1>4, <1>5
<1>8. \A x \in E : r[x] <= r[n] /\ step[x] \in E \cup {NULL}
  BY <1>6
<1> QED
  BY <1>7, <1>8 DEF Elements, s

(* A list that ends before the cut is the same with a later cut.           *)
LEMMA EndedListStays ==
  ASSUME NEW step \in [Node -> Addr]
  PROVE  \A k \in Nat : \A x \in Addr :
           LET t == Lists(step)[k][x] IN
           t # <<>> /\ step[t[Len(t)]] = NULL => Lists(step)[k + 1][x] = t
<1> DEFINE f == Lists(step)
           Ended(t) == t # <<>> /\ step[t[Len(t)]] = NULL
           S == {k \in Nat : \A x \in Addr : Ended(f[k][x]) => f[k + 1][x] = f[k][x]}
<1>1. \A k \in Nat, x \in Addr : k = 0 \/ x = NULL => f[k][x] = <<>>
  BY ListsRec, Zenon
<1>2. ASSUME NEW k \in Nat, NEW x \in Node
      PROVE  f[k + 1][x] = <<x>> \o f[k][step[x]]
  <2>1. x \in Addr /\ x # NULL /\ k + 1 \in Nat /\ k + 1 # 0 /\ (k + 1) - 1 = k
    BY NodeAssumption DEF Addr
  <2>2. f[k + 1][x] = IF k + 1 = 0 \/ x = NULL THEN <<>> ELSE <<x>> \o f[(k + 1) - 1][step[x]]
    BY <2>1, ListsRec
  <2> HIDE DEF f
  <2> QED
    BY <2>1, <2>2
<1>3. \A k \in Nat, x \in Addr : f[k][x] \in Seq(Node)
  BY ListsAreLists DEF IsList
<1> HIDE DEF f
<1>4. 0 \in S
  BY <1>1
<1>5. ASSUME NEW k \in Nat, k \in S
      PROVE  k + 1 \in S
  <2> SUFFICES ASSUME NEW x \in Addr, Ended(f[k + 1][x])
               PROVE  f[(k + 1) + 1][x] = f[k + 1][x]
    OBVIOUS
  <2>1. x \in Node /\ step[x] \in Addr /\ k + 1 \in Nat
    <3>1. k + 1 \in Nat
      OBVIOUS
    <3>2. x # NULL
      BY <1>1, <3>1
    <3> QED
      BY <3>1, <3>2 DEF Addr
  <2> DEFINE t == f[k][step[x]]
             s == f[k + 1][x]
  <2>2. s = <<x>> \o t /\ f[(k + 1) + 1][x] = <<x>> \o f[k + 1][step[x]]
    BY <1>2, <2>1
  <2>3. t \in Seq(Node) /\ Len(t) \in Nat
    BY <1>3, <2>1
  <2>7. t = <<>> \/ Ended(t) => f[k + 1][step[x]] = t
    <3>1. CASE Ended(t)
      BY <1>5, <2>1, <3>1
    <3>2. CASE t = <<>>
      <4>1. s = <<x>> /\ s[Len(s)] = x
        BY <2>1, <2>2, <3>2
      <4>2. step[x] = NULL
        BY <4>1
      <4> QED
        BY <1>1, <2>1, <3>2, <4>2
    <3> QED
      BY <3>1, <3>2
  <2>8. t # <<>> => Ended(t)
    <3> SUFFICES ASSUME t # <<>>
                 PROVE  step[t[Len(t)]] = NULL
      OBVIOUS
    <3> HIDE DEF t
    <3>1. Len(s) = Len(t) + 1 /\ \A i \in 1 .. Len(t) : s[i + 1] = t[i]
      BY <2>1, <2>2, <2>3, ConsProperties
    <3>2. Len(t) \in 1 .. Len(t)
      BY <2>3
    <3>3. s[Len(s)] = t[Len(t)]
      BY <3>1, <3>2
    <3> QED
      BY <3>3
  <2> QED
    BY <2>2, <2>7, <2>8
<1> HIDE DEF S
<1>6. \A k \in Nat : k \in S
  BY <1>4, <1>5, NatSetInduction
<1> QED
  BY <1>6 DEF S, f


(* What is known of a node is what was declared of one.                    *)
LEMMA DeclaredAs == \A n \in Node : \E x \in Static : Def[n] = StaticNode[x]
<1>1. \A n \in Node : n \in Static => Def[n] = StaticNode[n]
  BY DEF Def, Static
<1>2. ASSUME NEW n \in Node, n \notin Static
      PROVE  \E t \in Template : Def[n] = StaticNode[t]
  <2>1. \E t \in Template : \E m \in Mode : n = Clone[m][t]
    BY <1>2 DEF Node, CloneName, Static
  <2>2. (CHOOSE t \in Template : \E m \in Mode : n = Clone[m][t]) \in Template
    BY <2>1
  <2>3. Def[n] = StaticNode[CHOOSE t \in Template : \E m \in Mode : n = Clone[m][t]]
    BY <1>2 DEF Def, Static
  <2> QED
    BY <2>2, <2>3
<1> QED
  BY <1>1, <1>2, NodeAssumption DEF Static

(* What a declared node points to is declared.                             *)
LEMMA DeclaredPointers ==
  /\ \A n \in Node : Def[n].alter \in Static \cup {NULL} /\ Def[n].acc \in Static \cup {NULL}
  /\ \A n \in Static : n \in Node /\ n \notin CloneName /\ Def[n] = StaticNode[n]
  /\ Static \cap CloneName = {} /\ Node = Static \cup CloneName
<1>1. \A n \in Static : n \in Node /\ n \notin CloneName /\ Def[n] = StaticNode[n]
  BY NodeAssumption DEF Def, Node, Static
<1>2. \A n \in Node : Def[n].alter \in Static \cup {NULL} /\ Def[n].acc \in Static \cup {NULL}
  BY DeclaredAs, NodeAssumption DEF Static
<1> QED
  BY <1>1, <1>2, NodeAssumption DEF Node, Static

(* The lists that are declared end, so their lengths are ranks.            *)
LEMMA DeclaredRanked ==
  ASSUME NEW al \in [Node -> Addr],
         \A n \in Node : al[n] = IF n \in CloneName THEN NULL ELSE Def[n].alter
  PROVE  Ranked(al)
<1> DEFINE step == [x \in Node |-> Def[x].alter]
           c == Cardinality(Node)
           r == [n \in Node |-> IF n \in CloneName THEN 0 ELSE Len(ListFrom(n, step))]
<1>1. step \in [Node -> Addr]
  BY DeclaredPointers DEF Addr, Node
<1>2. \A n \in Static : ListEnds(n, step)
  BY ListAssumption DEF Static
<1>3. \A n \in Node : step[n] = Def[n].alter
  OBVIOUS
<1> HIDE DEF step
<1>4. ASSUME NEW n \in Node
      PROVE  r[n] \in Nat
  BY <1>1, ListFromIsList
<1>5. ASSUME NEW n \in Node, al[n] # NULL
      PROVE  r[al[n]] < r[n]
  <2> DEFINE y == al[n]
             s == ListFrom(n, step)
             t == Lists(step)[c - 1][y]
  <2>1. n \notin CloneName /\ n \in Static /\ y = step[n] /\ y \in Static /\ y \notin CloneName
    BY <1>3, <1>5, DeclaredPointers
  <2>2. c \in Nat /\ c # 0 /\ c - 1 \in Nat /\ (c - 1) + 1 = c
    BY NodeFinite, FS_EmptySet
  <2>3. n \in Addr /\ y \in Addr /\ n # NULL
    BY <2>1, NodeAssumption DEF Addr, Static, Node
  <2> HIDE DEF c
  <2>4. s = Lists(step)[c][n] /\ ListFrom(y, step) = Lists(step)[c][y]
    BY ListFromIs DEF c
  <2>5. s = <<n>> \o t
    <3>1. Lists(step)[c][n] = IF c = 0 \/ n = NULL THEN <<>> ELSE <<n>> \o Lists(step)[c - 1][step[n]]
      BY <1>1, <2>2, <2>3, ListsRec
    <3> QED
      BY <2>1, <2>2, <2>3, <2>4, <3>1
  <2>6. IsList(t, c - 1, y, step) /\ t \in Seq(Node) /\ Len(t) \in Nat
    BY <1>1, <2>2, <2>3, ListsAreLists DEF IsList
  <2> HIDE DEF t
  <2>7. /\ Len(s) = Len(t) + 1 /\ s[1] = n
        /\ \A i \in 1 .. Len(t) : s[i + 1] = t[i]
    BY <2>5, <2>6, ConsProperties
  <2>8. step[s[Len(s)]] = NULL
    BY <1>1, <1>2, <2>1, ListFromIsList DEF ListEnds
  <2> HIDE DEF s
  <2>9. t # <<>> /\ step[t[Len(t)]] = NULL
    <3>1. CASE t = <<>>
      <4>1. Len(s) = 1
        BY <2>7, <3>1
      <4> QED
        BY <1>5, <2>1, <2>7, <2>8, <4>1
    <3>2. CASE t # <<>>
      <4>1. Len(t) \in 1 .. Len(t)
        BY <2>6, <3>2
      <4> QED
        BY <2>7, <2>8, <3>2, <4>1
    <3> QED
      BY <3>1, <3>2
  <2>10. Lists(step)[c][y] = t
    <3>1. Lists(step)[(c - 1) + 1][y] = t
      BY <1>1, <2>2, <2>3, <2>9, EndedListStays DEF t
    <3> QED
      BY <2>2, <3>1
  <2>11. r[y] = Len(t) /\ r[n] = Len(s)
    BY <2>1, <2>4, <2>10, DeclaredPointers DEF s
  <2> QED
    BY <2>6, <2>7, <2>11
<1> HIDE DEF r
<1>6. Ranks(r, al)
  <2>1. r \in [Node -> Nat]
    BY <1>4 DEF r
  <2> QED
    BY <1>5, <2>1 DEF Ranks
<1> QED
  BY <1>6 DEF Ranked

-----------------------------------------------------------------------------
(* Merging.                                                                *)

(* find_node_in_org_root(): a node of the list that is the same, or NULL when
   there is none.                                                          *)
LEMMA FoundNode ==
  ASSUME NEW org \in Node, NEW n, alter \in [Node -> Addr]
  PROVE  LET m == FindNodeInOrgRoot(org, n) IN
         IF m = NULL THEN \A x \in Elements(org, alter) : ~IsNodeSame(x, n)
                     ELSE m \in Elements(org, alter) /\ IsNodeSame(m, n)
<1> DEFINE list == ListFrom(org, alter)
           I == {i \in 1 .. Len(list) : IsNodeSame(list[i], n)}
<1>1. FindNodeInOrgRoot(org, n) =
        IF I # {} THEN (IF Min(I) = 0 THEN NULL ELSE list[Min(I)]) ELSE NULL
  BY DEF FindNodeInOrgRoot, SelectInSeq
<1>2. list \in Seq(Node) /\ Len(list) \in Nat
  BY ListFromIsList
<1>3. Elements(org, alter) = {list[i] : i \in 1 .. Len(list)}
  BY DEF Elements
<1>4. I # {} => Min(I) \in I
  <2>1. I \subseteq Nat
    OBVIOUS
  <2> HIDE DEF I
  <2> SUFFICES ASSUME I # {}
               PROVE  Min(I) \in I
    OBVIOUS
  <2>2. \E x \in I : \A y \in I : x <= y
    BY <2>1, LeastNat
  <2> QED
    BY <2>2 DEF Min
<1> HIDE DEF list
<1>5. CASE I = {}
  BY <1>1, <1>3, <1>5
<1>6. CASE I # {}
  <2>1. Min(I) \in 1 .. Len(list) /\ IsNodeSame(list[Min(I)], n)
    BY <1>4, <1>6
  <2> DEFINE j == Min(I)
  <2> HIDE DEF j
  <2>2. j # 0 /\ list[j] \in Node /\ list[j] # NULL
    BY <1>2, <2>1, NodeAssumption DEF j
  <2>3. FindNodeInOrgRoot(org, n) = list[j]
    BY <1>1, <1>6, <2>2 DEF j
  <2> QED
    BY <1>3, <2>1, <2>2, <2>3 DEF j
<1> QED
  BY <1>5, <1>6

(* A node that is behind no node of the list can be put behind the first one:
   it takes the rank of that one, which goes up by one, and the nodes that
   are not of the list go up by more.                                      *)
LEMMA InsertionRanked ==
  ASSUME NEW al \in [Node -> Addr], Ranked(al), NEW org \in Node, NEW add \in Node,
         add \notin Elements(org, al)
  PROVE  Ranked([al EXCEPT ![org] = add, ![add] = al[org]])
<1>1. PICK r : Ranks(r, al)
  BY DEF Ranked
<1> DEFINE E == Elements(org, al)
           b == [al EXCEPT ![org] = add, ![add] = al[org]]
           q == [n \in Node |-> IF n = add THEN r[org]
                                ELSE IF n = org THEN r[org] + 1
                                ELSE IF n \in E THEN r[n]
                                ELSE r[n] + r[org] + 2]
<1>2. /\ org \in E /\ E \subseteq Node
      /\ \A x \in E : r[x] <= r[org] /\ al[x] \in E \cup {NULL}
  BY <1>1, ListIsClosed
<1> HIDE DEF E
<1>3. add \notin E /\ add # org
  BY <1>2 DEF E
<1>4. b \in [Node -> Addr] /\ b[org] = add /\ b[add] = al[org]
      /\ \A n \in Node : n # org /\ n # add => b[n] = al[n]
  BY <1>3 DEF Addr
<1>5. \A n \in Node : r[n] \in Nat /\ (al[n] # NULL => al[n] \in Node /\ r[al[n]] < r[n])
  BY <1>1 DEF Ranks, Addr
<1>6. /\ q[add] = r[org] /\ q[org] = r[org] + 1
      /\ \A n \in E : n # org => q[n] = r[n]
      /\ \A n \in Node : n \notin E /\ n # add => q[n] = r[n] + r[org] + 2
      /\ \A n \in Node : q[n] \in Nat
  BY <1>2, <1>3, <1>5
<1> HIDE DEF b, q
<1>7. ASSUME NEW n \in Node, b[n] # NULL
      PROVE  q[b[n]] < q[n]
  <2>1. CASE n = org
    BY <1>4, <1>5, <1>6, <2>1
  <2>2. CASE n = add
    <3>1. al[org] \in E /\ r[al[org]] < r[org]
      BY <1>2, <1>4, <1>5, <1>7, <2>2
    <3> QED
      BY <1>4, <1>5, <1>6, <2>2, <3>1
  <2>3. CASE n \in E /\ n # org
    <3>1. b[n] = al[n] /\ al[n] \in E /\ r[al[n]] < r[n] /\ r[n] <= r[org]
      BY <1>2, <1>3, <1>4, <1>5, <1>7, <2>3
    <3>2. al[n] # org
      BY <1>5, <3>1
    <3> QED
      BY <1>6, <2>3, <3>1, <3>2
  <2>4. CASE n \notin E /\ n # add
    <3>1. b[n] = al[n] /\ al[n] \in Node /\ r[al[n]] < r[n]
      BY <1>2, <1>4, <1>5, <1>7, <2>4
    <3>2. q[n] = r[n] + r[org] + 2
      BY <1>6, <2>4
    <3> DEFINE y == al[n]
    <3>3. r[y] \in Nat /\ r[org] \in Nat /\ r[n] \in Nat
      BY <1>5, <3>1
    <3>4. q[y] \in {r[org], r[org] + 1, r[y], r[y] + r[org] + 2}
      BY <1>6, <3>1
    <3> QED
      BY <3>1, <3>2, <3>3, <3>4
  <2> QED
    BY <1>2, <2>1, <2>2, <2>3, <2>4
<1>8. Ranks(q, b)
  BY <1>6, <1>7 DEF Ranks, q
<1> QED
  BY <1>8 DEF Ranked, b

(* add_buildin_nodes(): copies that nothing points to can lead any list, for
   they take ranks above all others.                                       *)
LEMMA BuildinRanked ==
  ASSUME NEW al \in [Node -> Addr], Ranked(al), NEW first \in Addr, NEW m \in Mode,
         \A t \in Template : first # Clone[m][t] /\ \A n \in Node : al[n] # Clone[m][t],
         NEW b \in [Node -> Addr],
         \A n \in Node : (\A t \in Template : n # Clone[m][t]) => b[n] = al[n],
         b[Clone[m]["node_exit"]] = Clone[m]["node_end"],
         b[Clone[m]["node_end"]] \in {Clone[m]["node_no"], first},
         b[Clone[m]["node_no"]] \in {Clone[m]["node_default"], al[Clone[m]["node_no"]]},
         b[Clone[m]["node_default"]] \in {first, al[Clone[m]["node_default"]]}
  PROVE  Ranked(b)
<1>1. PICK r : Ranks(r, al)
  BY DEF Ranked
<1> DEFINE ex == Clone[m]["node_exit"]
           en == Clone[m]["node_end"]
           no == Clone[m]["node_no"]
           de == Clone[m]["node_default"]
           h  == IF first = NULL THEN 0 ELSE r[first]
           B  == r[no] + r[de] + h
           q  == [n \in Node |-> IF n = ex THEN B + 4 ELSE IF n = en THEN B + 3
                                 ELSE IF n = no THEN B + 2 ELSE IF n = de THEN B + 1
                                 ELSE r[n]]
<1>2. /\ ex # en /\ ex # no /\ ex # de /\ en # no /\ en # de /\ no # de
      /\ ex \in Node /\ en \in Node /\ no \in Node /\ de \in Node
  <2>1. "node_exit" \in Template /\ "node_end" \in Template
        /\ "node_no" \in Template /\ "node_default" \in Template
    BY DEF Template
  <2>2. \A t \in Template : Clone[m][t] \in Node
    BY DEF Node, CloneName
  <2>3. \A t, u \in Template : Clone[m][t] = Clone[m][u] => t = u
    BY NodeAssumption
  <2>4. Clone[m]["node_exit"] \in Node /\ Clone[m]["node_end"] \in Node
        /\ Clone[m]["node_no"] \in Node /\ Clone[m]["node_default"] \in Node
    BY <2>1, <2>2
  <2> QED
    BY <2>1, <2>3, <2>4
<1>3. \A n \in Node : (n # ex /\ n # en /\ n # no /\ n # de)
                        <=> \A t \in Template : n # Clone[m][t]
  BY DEF Template
<1>4. /\ \A n \in Node : n # ex /\ n # en /\ n # no /\ n # de => b[n] = al[n]
      /\ \A n \in Node : al[n] # ex /\ al[n] # en /\ al[n] # no /\ al[n] # de
      /\ first # ex /\ first # en /\ first # no /\ first # de
  BY <1>3 DEF Template
<1>5. b[ex] = en /\ b[en] \in {no, first} /\ b[no] \in {de, al[no]} /\ b[de] \in {first, al[de]}
  OBVIOUS
<1> HIDE DEF ex, en, no, de
<1>6. \A n \in Node : r[n] \in Nat /\ (al[n] # NULL => al[n] \in Node /\ r[al[n]] < r[n])
  BY <1>1 DEF Ranks, Addr
<1>7. h \in Nat /\ r[no] \in Nat /\ r[de] \in Nat /\ B \in Nat
  BY <1>2, <1>6 DEF Addr
<1>8. first # NULL => first \in Node /\ r[first] <= B
  BY <1>7 DEF Addr
<1>9. r[no] <= B /\ r[de] <= B
  BY <1>7
<1> HIDE DEF B, h
<1>10. /\ q[ex] = B + 4 /\ q[en] = B + 3 /\ q[no] = B + 2 /\ q[de] = B + 1
       /\ \A n \in Node : n # ex /\ n # en /\ n # no /\ n # de => q[n] = r[n]
       /\ \A n \in Node : q[n] \in Nat
  BY <1>2, <1>6, <1>7
<1> HIDE DEF q
<1>11. ASSUME NEW n \in Node, b[n] # NULL
       PROVE  q[b[n]] < q[n]
  <2>1. CASE n = ex
    BY <1>2, <1>5, <1>7, <1>10, <2>1
  <2>2. first # NULL => q[first] <= B
    BY <1>4, <1>8, <1>10
  <2>3. CASE n = en
    BY <1>2, <1>5, <1>7, <1>8, <1>10, <1>11, <2>2, <2>3
  <2>4. al[no] # NULL => q[al[no]] < r[no]
    BY <1>2, <1>4, <1>6, <1>10
  <2>5. CASE n = no
    <3>1. CASE b[n] = de
      BY <1>7, <1>10, <2>5, <3>1
    <3>2. CASE b[n] = al[no]
      <4>1. q[al[no]] < r[no] /\ al[no] \in Node /\ q[al[no]] \in Nat
        BY <1>2, <1>6, <1>10, <1>11, <2>4, <3>2
      <4> QED
        BY <1>7, <1>9, <1>10, <2>5, <3>2, <4>1
    <3> QED
      BY <1>5, <2>5, <3>1, <3>2
  <2>6. al[de] # NULL => q[al[de]] < r[de]
    BY <1>2, <1>4, <1>6, <1>10
  <2>7. CASE n = de
    <3>1. CASE b[n] = first
      BY <1>7, <1>8, <1>10, <1>11, <2>2, <2>7, <3>1
    <3>2. CASE b[n] = al[de]
      <4>1. q[al[de]] < r[de] /\ al[de] \in Node /\ q[al[de]] \in Nat
        BY <1>2, <1>6, <1>10, <1>11, <2>6, <3>2
      <4> QED
        BY <1>7, <1>9, <1>10, <2>7, <3>2, <4>1
    <3> QED
      BY <1>5, <2>7, <3>1, <3>2
  <2>8. CASE n # ex /\ n # en /\ n # no /\ n # de
    BY <1>4, <1>6, <1>10, <1>11, <2>8
  <2> QED
    BY <2>1, <2>3, <2>5, <2>7, <2>8
<1>12. q \in [Node -> Nat]
  BY <1>10 DEF q
<1>13. Ranks(q, b)
  BY <1>11, <1>12 DEF Ranks
<1> QED
  BY <1>13 DEF Ranked

-----------------------------------------------------------------------------
(* The invariant of start-up.                                              *)

(* The chains keep what follows their words, and lead to no copies.        *)
StaticKept ==
  \A n \in Static : acc[n] = StaticNode[n].acc /\ alter[n] \in Static \cup {NULL}

(* The calls of merge_cli_tree() that have a list to add to if they have one
   to add.                                                                 *)
Calls ==
  {c \in [org : Static \cup {NULL}, node : Static \cup {NULL}] : c.org = NULL => c.node = NULL}

(* Merging is over before the copies are made, so it sees none.            *)
MergesStatic ==
  /\ stack # <<>> => stage = "links"
  /\ stack \in Seq(Calls)
  /\ stage \in {"start", "links"} => \A m \in Mode : root[m] \in Static \cup {NULL}

(* Nothing points to the copies that are not in their tree yet.            *)
Unlinked ==
  \A i \in buildin .. Len(CliModeDefs), t \in Template :
    /\ \A n \in Node : alter[n] # Clone[CliModeDefs[i]][t]
    /\ \A m \in Mode : root[m] # Clone[CliModeDefs[i]][t]

(* The nodes that are in use or may come to be: a copy is when something
   follows it.                                                             *)
InUse == {n \in Node : n \in Static \/ acc[n] # NULL}

(* Pointers from nodes in use lead to nodes in use.                        *)
Wired ==
  /\ \A n \in InUse : {acc[n], alter[n]} \subseteq InUse \cup {NULL}
  /\ \A m \in Mode : root[m] \in InUse \cup {NULL}

TreeInv ==
  TreeTypeOK /\ StaticKept /\ MergesStatic /\ Ranked(alter) /\ Unlinked /\ Wired

(* The links in the order they are taken.                                  *)
LEMMA LinksTyped ==
  ASSUME example \in ExampleLinks
  PROVE  /\ Len(Links) \in Nat
         /\ \A i \in 1 .. Len(Links) : Links[i].root \in Static /\ Links[i].mode \in Mode
<1>1. DefaultLinks \in LinkSeq /\ example \in LinkSeq
  BY NodeAssumption
<1>2. Links \in Seq([root : DOMAIN StaticNode, mode : Mode])
  BY <1>1 DEF Links, LinksWith, LinkSeq
<1> HIDE DEF Links
<1>3. Len(Links) \in Nat
  BY <1>2
<1>4. \A i \in 1 .. Len(Links) : Links[i] \in [root : DOMAIN StaticNode, mode : Mode]
  BY <1>2, ElementOfSeq
<1> QED
  BY <1>3, <1>4 DEF Static

LEMMA TreeInvInit == TreeInit => TreeInv
<1> SUFFICES ASSUME TreeInit
             PROVE  TreeInv
  OBVIOUS
<1>1. /\ \A n \in Node : acc[n] = IF n \in CloneName THEN NULL ELSE Def[n].acc
      /\ \A n \in Node : alter[n] = IF n \in CloneName THEN NULL ELSE Def[n].alter
      /\ acc \in [Node -> Addr] /\ alter \in [Node -> Addr]
  BY DeclaredPointers DEF TreeInit, Addr
<1>2. TreeTypeOK
  <2>1. /\ root \in [Mode -> Node \cup {NULL}] /\ example \in ExampleLinks
        /\ stage \in {"start", "links", "buildin", "ready", "failed"}
    BY DEF TreeInit
  <2>2. link \in 1 .. Len(Links) + 1
    BY LinksTyped DEF TreeInit
  <2>3. stack = <<>> /\ buildin \in 1 .. Len(CliModeDefs) + 1
    BY DEF TreeInit, CliModeDefs
  <2>4. /\ stack \in Seq([org : Node \cup {NULL}, node : Node \cup {NULL}])
        /\ \A i \in DOMAIN stack : stack[i].org = NULL => stack[i].node = NULL
    BY <2>3
  <2> QED
    BY <1>1, <2>1, <2>2, <2>3, <2>4 DEF TreeTypeOK, Addr
<1>3. StaticKept
  BY <1>1, DeclaredPointers DEF StaticKept
<1>4. MergesStatic
  BY DEF MergesStatic, TreeInit
<1>5. Ranked(alter)
  BY <1>1, DeclaredRanked
<1>6. Unlinked
  <2>1. ASSUME NEW m \in Mode, NEW t \in Template
        PROVE  Clone[m][t] \in CloneName /\ Clone[m][t] # NULL
    <3>1. Clone[m][t] \in CloneName
      BY DEF CloneName
    <3> QED
      BY <3>1, NodeAssumption DEF Node
  <2>2. \A i \in buildin .. Len(CliModeDefs) : CliModeDefs[i] \in Mode
    BY DEF CliModeDefs, Mode, TreeInit
  <2>3. \A n \in Node : alter[n] \notin CloneName \/ alter[n] = NULL
    BY <1>1, DeclaredPointers
  <2> QED
    BY <2>1, <2>2, <2>3 DEF Unlinked, TreeInit
<1>7. Wired
  <2>1. \A n \in InUse : n \in Static
    BY <1>1, DeclaredPointers DEF InUse
  <2>2. \A n \in Static : n \in InUse
    BY DeclaredPointers DEF InUse
  <2>3. \A n \in Static : {acc[n], alter[n]} \subseteq Static \cup {NULL}
    BY <1>1, DeclaredPointers
  <2> QED
    BY <2>1, <2>2, <2>3 DEF Wired, TreeInit
<1> QED
  BY <1>2, <1>3, <1>4, <1>5, <1>6, <1>7 DEF TreeInv

(* A stack of such calls has its type.                                     *)
LEMMA StackTyped ==
  ASSUME NEW s \in Seq(Calls)
  PROVE  /\ s \in Seq([org : Node \cup {NULL}, node : Node \cup {NULL}])
         /\ \A i \in DOMAIN s : s[i].org = NULL => s[i].node = NULL
<1>1. Calls \subseteq [org : Node \cup {NULL}, node : Node \cup {NULL}]
  BY DeclaredPointers DEF Calls
<1>2. s \in Seq([org : Node \cup {NULL}, node : Node \cup {NULL}])
  BY <1>1, SeqMonotonic
<1>3. \A i \in 1 .. Len(s) : s[i] \in Calls
  BY ElementOfSeq
<1>4. DOMAIN s = 1 .. Len(s)
  OBVIOUS
<1> QED
  BY <1>2, <1>3, <1>4 DEF Calls

LEMMA TopOfStack ==
  ASSUME stack \in Seq(Calls), stack # <<>>
  PROVE  Top \in Calls /\ Below \in Seq(Calls)
<1>1. Len(stack) \in 1 .. Len(stack)
  BY LenProperties, EmptySeq
<1>2. Top \in Calls
  BY <1>1, ElementOfSeq DEF Top, Last
<1>3. Below \in Seq(Calls)
  <2>1. Len(stack) \in Nat /\ Len(stack) - 1 \in 0 .. Len(stack)
    BY <1>1
  <2>2. SubSeq(stack, 1, Len(stack) - 1) \in Seq(Calls)
    BY <2>1, SubSeqProperties
  <2> QED
    BY <2>2 DEF Below, Front
<1> QED
  BY <1>2, <1>3

LEMMA TreeStartSteps ==
  ASSUME TreeInv, (\E ok \in BOOLEAN : InitCliMode(ok)) \/ LinksDone
                  \/ SkipBuildinNodes \/ InitCliTreeReturns
  PROVE  TreeInv'
<1>1. UNCHANGED <<acc, alter, root, example, link, stack>>
  BY DEF InitCliMode, LinksDone, SkipBuildinNodes, InitCliTreeReturns
<1>2. buildin' \in buildin .. Len(CliModeDefs) + 1 /\ buildin \in 1 .. Len(CliModeDefs) + 1
  BY DEF InitCliMode, LinksDone, SkipBuildinNodes, InitCliTreeReturns, TreeInv, TreeTypeOK,
         CliModeDefs
<1>3. stage' \in {"start", "links", "buildin", "ready", "failed"}
      /\ (stage' \in {"start", "links"} => stage \in {"start", "links"})
      /\ (stage = "links" /\ stack # <<>> => stage' = "links")
  BY DEF InitCliMode, LinksDone, SkipBuildinNodes, InitCliTreeReturns, TreeInv, TreeTypeOK
<1>4. TreeTypeOK'
  <2>1. buildin' \in 1 .. Len(CliModeDefs) + 1
    BY <1>2 DEF CliModeDefs
  <2>2. Len(Links') = Len(Links)
    BY <1>1 DEF Links
  <2> QED
    BY <1>1, <1>3, <2>1, <2>2 DEF TreeInv, TreeTypeOK
<1>5. StaticKept'
  BY <1>1 DEF TreeInv, StaticKept
<1>6. MergesStatic'
  BY <1>1, <1>3 DEF TreeInv, MergesStatic
<1>7. Ranked(alter)'
  BY <1>1 DEF TreeInv, Ranked, Ranks
<1>8. Unlinked'
  <2>1. \A i \in buildin' .. Len(CliModeDefs) : i \in buildin .. Len(CliModeDefs)
    BY <1>2 DEF CliModeDefs
  <2> QED
    BY <1>1, <2>1 DEF TreeInv, Unlinked
<1>9. Wired'
  BY <1>1 DEF TreeInv, Wired, InUse
<1> QED
  BY <1>4, <1>5, <1>6, <1>7, <1>8, <1>9 DEF TreeInv

(* The nodes that can be made the tree of a mode.                          *)
LEMMA StaticInUse ==
  ASSUME NEW n \in Static
  PROVE  n \in Node /\ n \in InUse /\ n # NULL
         /\ \A m \in Mode, t \in Template : n # Clone[m][t]
<1>1. \A m \in Mode, t \in Template : Clone[m][t] \in CloneName
  BY DEF CloneName
<1>2. n \in Node /\ n \notin CloneName
  BY DeclaredPointers
<1> QED
  BY <1>1, <1>2, NodeAssumption DEF InUse

LEMMA TreeLinkSteps ==
  ASSUME TreeInv, LinkRoot \/ LinkMerge
  PROVE  TreeInv'
<1>1. UNCHANGED <<acc, alter, example, stage, buildin>> /\ stage = "links"
  BY DEF LinkRoot, LinkMerge
<1>2. /\ link \in 1 .. Len(Links) /\ link' = link + 1 /\ Len(Links) \in Nat
      /\ Links[link].root \in Static /\ Links[link].mode \in Mode
  <2>1. link \in 1 .. Len(Links) + 1 /\ link <= Len(Links) /\ link' = link + 1
    BY DEF TreeInv, TreeTypeOK, LinkRoot, LinkMerge
  <2>2. example \in ExampleLinks
    BY DEF TreeInv, TreeTypeOK
  <2> QED
    BY <2>1, <2>2, LinksTyped
<1> DEFINE mo == Links[link].mode
           ro == Links[link].root
<1> HIDE DEF mo, ro
<1>3. root' = root \/ root' = [root EXCEPT ![mo] = ro]
  BY DEF LinkRoot, LinkMerge, mo, ro
<1>4. stack' \in Seq(Calls)
  <2>1. CASE LinkRoot
    BY <2>1 DEF LinkRoot, TreeInv, MergesStatic
  <2>2. CASE LinkMerge
    <3>1. root[mo] \in Static
      BY <1>1, <1>2, <2>2 DEF LinkMerge, TreeInv, MergesStatic, mo
    <3>2. [org |-> root[mo], node |-> ro] \in Calls
      BY <1>2, <3>1, NodeAssumption DEF Calls, ro, mo, Static, Node
    <3>3. stack' = <<[org |-> root[mo], node |-> ro]>>
      BY <2>2 DEF LinkMerge, mo, ro
    <3> QED
      BY <3>2, <3>3
  <2> QED
    BY <2>1, <2>2
<1>5. mo \in Mode /\ ro \in Node /\ ro \in InUse /\ ro \in Static
      /\ \A m \in Mode, t \in Template : ro # Clone[m][t]
  BY <1>2, StaticInUse DEF mo, ro
<1>6. \A m \in Mode : root'[m] \in {root[m], ro}
  BY <1>3 DEF TreeInv, TreeTypeOK
<1>7. TreeTypeOK'
  <2>1. root' \in [Mode -> Node \cup {NULL}]
    BY <1>3, <1>5 DEF TreeInv, TreeTypeOK
  <2>2. Len(Links') = Len(Links) /\ link' \in 1 .. Len(Links) + 1
    BY <1>1, <1>2 DEF Links
  <2>3. /\ stack' \in Seq([org : Node \cup {NULL}, node : Node \cup {NULL}])
        /\ \A i \in DOMAIN stack' : stack'[i].org = NULL => stack'[i].node = NULL
    BY <1>4, StackTyped
  <2> QED
    BY <1>1, <2>1, <2>2, <2>3 DEF TreeInv, TreeTypeOK
<1>8. StaticKept'
  BY <1>1 DEF TreeInv, StaticKept
<1>9. MergesStatic'
  BY <1>1, <1>4, <1>5, <1>6 DEF TreeInv, MergesStatic
<1>10. Ranked(alter)'
  BY <1>1 DEF TreeInv, Ranked, Ranks
<1>11. Unlinked'
  <2> SUFFICES ASSUME NEW i \in buildin .. Len(CliModeDefs), NEW t \in Template
               PROVE  /\ \A n \in Node : alter[n] # Clone[CliModeDefs[i]][t]
                      /\ \A m \in Mode : root'[m] # Clone[CliModeDefs[i]][t]
    BY <1>1 DEF Unlinked
  <2>1. CliModeDefs[i] \in Mode
    BY DEF CliModeDefs, Mode, TreeInv, TreeTypeOK
  <2> QED
    BY <1>5, <1>6, <2>1 DEF TreeInv, Unlinked
<1>12. Wired'
  BY <1>1, <1>5, <1>6 DEF TreeInv, Wired, InUse
<1> QED
  BY <1>7, <1>8, <1>9, <1>10, <1>11, <1>12 DEF TreeInv

(* A list does not leave a set that its links do not leave.                *)
LEMMA ListInClosedSet ==
  ASSUME NEW step \in [Node -> Addr], NEW S, \A x \in S : step[x] \in S \cup {NULL},
         NEW n \in Node, n \in S
  PROVE  Elements(n, step) \subseteq S
<1> DEFINE s == ListFrom(n, step)
           I == {i \in Nat : i \in 1 .. Len(s) => s[i] \in S}
<1>1. /\ s \in Seq(Node) /\ Len(s) \in Nat /\ s[1] = n
      /\ \A i \in 1 .. Len(s) - 1 : s[i + 1] = step[s[i]]
  BY ListFromIsList DEF IsList
<1> HIDE DEF s
<1>2. 0 \in I
  OBVIOUS
<1>3. ASSUME NEW i \in Nat, i \in I
      PROVE  i + 1 \in I
  <2> SUFFICES ASSUME i + 1 \in 1 .. Len(s)
               PROVE  s[i + 1] \in S
    OBVIOUS
  <2>1. CASE i = 0
    BY <1>1, <2>1
  <2>2. CASE i # 0
    <3>1. i \in 1 .. Len(s) - 1 /\ i \in 1 .. Len(s)
      BY <1>1, <2>2
    <3>2. s[i + 1] = step[s[i]] /\ s[i] \in S
      BY <1>1, <1>3, <3>1
    <3>3. s[i + 1] \in Node
      BY <1>1
    <3> QED
      BY <3>2, <3>3, NodeAssumption
  <2> QED
    BY <2>1, <2>2
<1> HIDE DEF I
<1>4. \A i \in Nat : i \in I
  BY <1>2, <1>3, NatSetInduction
<1>5. \A i \in 1 .. Len(s) : s[i] \in S
  BY <1>4 DEF I
<1> QED
  BY <1>5 DEF Elements, s

(* What the call on top of the stack sees: all its nodes are declared ones. *)
LEMMA MergeFinds ==
  ASSUME TreeInv, stack # <<>>, Top.node # NULL
  PROVE  /\ Top.org \in Static /\ Top.node \in Static
         /\ Elements(Top.org, alter) \subseteq Static
         /\ LET m == FindNodeInOrgRoot(Top.org, Top.node) IN
            IF m = NULL THEN Top.node \notin Elements(Top.org, alter)
                        ELSE m \in Static /\ IsNodeSame(m, Top.node)
<1>1. Top \in Calls
  BY TopOfStack DEF TreeInv, MergesStatic
<1>2. Top.org \in Static /\ Top.node \in Static
  BY <1>1 DEF Calls
<1>3. alter \in [Node -> Addr]
  BY DEF TreeInv, TreeTypeOK, Addr
<1>4. Top.org \in Node /\ \A x \in Static : alter[x] \in Static \cup {NULL}
  BY <1>2, DeclaredPointers DEF TreeInv, StaticKept
<1>5. Elements(Top.org, alter) \subseteq Static
  BY <1>2, <1>3, <1>4, ListInClosedSet
<1>6. IsNodeSame(Top.node, Top.node)
  BY DEF IsNodeSame
<1> DEFINE m == FindNodeInOrgRoot(Top.org, Top.node)
<1>7. IF m = NULL THEN \A x \in Elements(Top.org, alter) : ~IsNodeSame(x, Top.node)
                  ELSE m \in Elements(Top.org, alter) /\ IsNodeSame(m, Top.node)
  BY <1>3, <1>4, FoundNode
<1> QED
  BY <1>2, <1>5, <1>6, <1>7

LEMMA MergeReturnsStep ==
  ASSUME TreeInv, MergeReturns
  PROVE  TreeInv'
<1>1. UNCHANGED <<acc, alter, root, example, stage, link, buildin>>
      /\ stack # <<>> /\ stack' = Below
  BY DEF MergeReturns
<1>2. stack' \in Seq(Calls)
  BY <1>1, TopOfStack DEF TreeInv, MergesStatic
<1>3. TreeTypeOK'
  <2>1. Len(Links') = Len(Links)
    BY <1>1 DEF Links
  <2>2. /\ stack' \in Seq([org : Node \cup {NULL}, node : Node \cup {NULL}])
        /\ \A i \in DOMAIN stack' : stack'[i].org = NULL => stack'[i].node = NULL
    BY <1>2, StackTyped
  <2> QED
    BY <1>1, <2>1, <2>2 DEF TreeInv, TreeTypeOK
<1>4. StaticKept'
  BY <1>1 DEF TreeInv, StaticKept
<1>5. MergesStatic'
  BY <1>1, <1>2 DEF TreeInv, MergesStatic
<1>6. Ranked(alter)'
  BY <1>1 DEF TreeInv, Ranked, Ranks
<1>7. Unlinked'
  BY <1>1 DEF TreeInv, Unlinked
<1>8. Wired'
  BY <1>1 DEF TreeInv, Wired, InUse
<1> QED
  BY <1>3, <1>4, <1>5, <1>6, <1>7, <1>8 DEF TreeInv

LEMMA MergeAddsStep ==
  ASSUME TreeInv, MergeAdds
  PROVE  TreeInv'
<1> DEFINE org == Top.org
           add == Top.node
<1>1. /\ UNCHANGED <<acc, root, example, stage, link, buildin>>
      /\ stack # <<>> /\ add # NULL /\ FindNodeInOrgRoot(org, add) = NULL
      /\ alter' = [alter EXCEPT ![org] = add, ![add] = alter[org]]
      /\ stack' = Append(Below, [Top EXCEPT !.node = alter[add]])
  BY DEF MergeAdds, AddNodeToOrg
<1>2. org \in Static /\ add \in Static /\ add \notin Elements(org, alter)
  BY <1>1, MergeFinds
<1>3. org \in Node /\ add \in Node /\ org \in InUse /\ add \in InUse
      /\ org # NULL
      /\ \A m \in Mode, t \in Template : add # Clone[m][t]
  BY <1>2, StaticInUse
<1>4. alter \in [Node -> Addr]
  BY DEF TreeInv, TreeTypeOK, Addr
<1>5. stack' \in Seq(Calls)
  <2>1. Top \in Calls /\ Below \in Seq(Calls)
    BY <1>1, TopOfStack DEF TreeInv, MergesStatic
  <2>2. alter[add] \in Static \cup {NULL}
    BY <1>2 DEF TreeInv, StaticKept
  <2>3. [Top EXCEPT !.node = alter[add]] \in Calls
    BY <1>3, <2>1, <2>2 DEF Calls
  <2> QED
    BY <1>1, <2>1, <2>3, AppendProperties
<1> HIDE DEF org, add
<1>6. \A n \in Node : alter'[n] = IF n = add THEN alter[org] ELSE IF n = org THEN add ELSE alter[n]
  BY <1>1, <1>3, <1>4
<1>7. TreeTypeOK'
  <2>1. Len(Links') = Len(Links)
    BY <1>1 DEF Links
  <2>2. /\ stack' \in Seq([org : Node \cup {NULL}, node : Node \cup {NULL}])
        /\ \A i \in DOMAIN stack' : stack'[i].org = NULL => stack'[i].node = NULL
    BY <1>5, StackTyped
  <2>3. alter' \in [Node -> Node \cup {NULL}]
    BY <1>1, <1>3, <1>4 DEF Addr
  <2> QED
    BY <1>1, <2>1, <2>2, <2>3 DEF TreeInv, TreeTypeOK
<1>8. StaticKept'
  <2>1. \A n \in Static : n \in Node
    BY DeclaredPointers
  <2> QED
    BY <1>1, <1>2, <1>6, <2>1 DEF TreeInv, StaticKept
<1>9. MergesStatic'
  BY <1>1, <1>5 DEF TreeInv, MergesStatic
<1>10. Ranked(alter)'
  <2>1. Ranked([alter EXCEPT ![org] = add, ![add] = alter[org]])
    BY <1>2, <1>3, <1>4, InsertionRanked DEF TreeInv
  <2>2. Ranked(alter')
    BY <1>1, <2>1
  <2> QED
    BY <2>2 DEF Ranked, Ranks
<1>11. Unlinked'
  <2> SUFFICES ASSUME NEW i \in buildin .. Len(CliModeDefs), NEW t \in Template
               PROVE  /\ \A n \in Node : alter'[n] # Clone[CliModeDefs[i]][t]
                      /\ \A m \in Mode : root[m] # Clone[CliModeDefs[i]][t]
    BY <1>1 DEF Unlinked
  <2>1. CliModeDefs[i] \in Mode
    BY DEF CliModeDefs, Mode, TreeInv, TreeTypeOK
  <2> QED
    BY <1>3, <1>6, <2>1 DEF TreeInv, Unlinked
<1>12. Wired'
  <2>1. InUse' = InUse
    BY <1>1 DEF InUse
  <2>2. \A n \in InUse : n \in Node /\ acc[n] \in InUse \cup {NULL}
                           /\ alter[n] \in InUse \cup {NULL}
    BY DEF TreeInv, Wired, InUse
  <2>3. \A n \in InUse : acc'[n] \in InUse \cup {NULL} /\ alter'[n] \in InUse \cup {NULL}
    BY <1>1, <1>3, <1>6, <2>2
  <2>4. \A k \in Mode : root'[k] \in InUse \cup {NULL}
    BY <1>1 DEF TreeInv, Wired
  <2> QED
    BY <2>1, <2>3, <2>4 DEF Wired
<1> QED
  BY <1>7, <1>8, <1>9, <1>10, <1>11, <1>12 DEF TreeInv

LEMMA MergeDescendsStep ==
  ASSUME TreeInv, MergeDescends
  PROVE  TreeInv'
<1> DEFINE node == Top.node
           m    == FindNodeInOrgRoot(Top.org, Top.node)
           c1   == [Top EXCEPT !.node = alter[node]]
           c2   == [org |-> acc[m], node |-> acc[node]]
<1>1. /\ UNCHANGED <<acc, alter, root, example, stage, link, buildin>>
      /\ stack # <<>> /\ node # NULL /\ m # NULL
      /\ stack' = Below \o <<c1, c2>>
  BY DEF MergeDescends
<1>2. Top.org \in Static /\ node \in Static /\ m \in Static /\ IsNodeSame(m, node)
  BY <1>1, MergeFinds
<1>3. Top \in Calls /\ Below \in Seq(Calls)
  BY <1>1, TopOfStack DEF TreeInv, MergesStatic
<1>4. c1 \in Calls
  <2>1. alter[node] \in Static \cup {NULL} /\ Top.org # NULL
    BY <1>2, NodeAssumption DEF TreeInv, StaticKept, Static, Node
  <2> QED
    BY <1>3, <2>1 DEF Calls
<1>5. c2 \in Calls
  <2>1. acc[m] \in Static \cup {NULL} /\ acc[node] \in Static \cup {NULL}
    BY <1>2, NodeAssumption DEF TreeInv, StaticKept, Static
  <2>2. acc[m] = NULL => acc[node] = NULL
    <3>1. StaticNode[m].type = StaticNode[node].type
      BY <1>2, DeclaredPointers DEF IsNodeSame, Type
    <3>2. /\ acc[m] = StaticNode[m].acc /\ acc[node] = StaticNode[node].acc
          /\ StaticNode[m].acc = NULL <=> StaticNode[m].type \in EndType
          /\ StaticNode[node].acc = NULL <=> StaticNode[node].type \in EndType
      BY <1>2, NodeAssumption DEF TreeInv, StaticKept, Static
    <3> QED
      BY <3>1, <3>2
  <2> QED
    BY <2>1, <2>2 DEF Calls
<1> HIDE DEF c1, c2
<1>6. stack' \in Seq(Calls)
  <2>1. <<c1, c2>> \in Seq(Calls)
    BY <1>4, <1>5
  <2> QED
    BY <1>1, <1>3, <2>1, ConcatProperties
<1>7. TreeTypeOK'
  <2>1. Len(Links') = Len(Links)
    BY <1>1 DEF Links
  <2>2. /\ stack' \in Seq([org : Node \cup {NULL}, node : Node \cup {NULL}])
        /\ \A i \in DOMAIN stack' : stack'[i].org = NULL => stack'[i].node = NULL
    BY <1>6, StackTyped
  <2> QED
    BY <1>1, <2>1, <2>2 DEF TreeInv, TreeTypeOK
<1>8. StaticKept'
  BY <1>1 DEF TreeInv, StaticKept
<1>9. MergesStatic'
  BY <1>1, <1>6 DEF TreeInv, MergesStatic
<1>10. Ranked(alter)'
  BY <1>1 DEF TreeInv, Ranked, Ranks
<1>11. Unlinked'
  BY <1>1 DEF TreeInv, Unlinked
<1>12. Wired'
  BY <1>1 DEF TreeInv, Wired, InUse
<1> QED
  BY <1>7, <1>8, <1>9, <1>10, <1>11, <1>12 DEF TreeInv

LEMMA AddBuildinNodesStep ==
  ASSUME TreeInv, AddBuildinNodes
  PROVE  TreeInv'
<1> DEFINE m  == CliModeDefs[buildin]
           ex == Clone[m]["node_exit"]
           en == Clone[m]["node_end"]
           no == Clone[m]["node_no"]
           de == Clone[m]["node_default"]
<1>1. /\ UNCHANGED <<example, stage, link, stack>>
      /\ stage = "buildin" /\ buildin <= Len(CliModeDefs) /\ buildin' = buildin + 1
      /\ root' = [root EXCEPT ![m] = ex]
      /\ (root[m] # NULL /\ WithAll(m)) \/ WithExit(m, root[m])
  BY DEF AddBuildinNodes
<1>2. buildin \in 1 .. 4 /\ Len(CliModeDefs) = 4 /\ m \in Mode
      /\ \A i \in buildin + 1 .. 4 : CliModeDefs[i] \in Mode /\ CliModeDefs[i] # m
  BY <1>1 DEF TreeInv, TreeTypeOK, CliModeDefs, Mode
<1>3. /\ alter \in [Node -> Addr] /\ acc \in [Node -> Addr] /\ root \in [Mode -> Addr]
      /\ Ranked(alter)
  BY DEF TreeInv, TreeTypeOK, Addr
<1> HIDE DEF m
<1>4. /\ ex \in CloneName /\ en \in CloneName /\ no \in CloneName /\ de \in CloneName
      /\ ex # en /\ ex # no /\ ex # de /\ en # no /\ en # de /\ no # de
  <2>1. "node_exit" \in Template /\ "node_end" \in Template
        /\ "node_no" \in Template /\ "node_default" \in Template
    BY DEF Template
  <2>2. \A t \in Template : Clone[m][t] \in CloneName
    BY <1>2 DEF CloneName
  <2>3. \A t, u \in Template : Clone[m][t] = Clone[m][u] => t = u
    BY <1>2, NodeAssumption
  <2>4. ex \in CloneName /\ en \in CloneName /\ no \in CloneName /\ de \in CloneName
    BY <2>1, <2>2
  <2> QED
    BY <2>1, <2>3, <2>4
<1>5. \A t \in Template : root[m] # Clone[m][t] /\ \A n \in Node : alter[n] # Clone[m][t]
  <2>1. buildin \in buildin .. Len(CliModeDefs) /\ m = CliModeDefs[buildin]
    BY <1>2 DEF m
  <2> QED
    BY <1>2, <2>1 DEF TreeInv, Unlinked
<1>6. \A t \in Template : t \in {"node_exit", "node_end", "node_no", "node_default"}
  BY DEF Template
<1>7. \A n \in Node : (\A t \in Template : n # Clone[m][t]) =>
                        n # ex /\ n # en /\ n # no /\ n # de
  BY DEF Template
<1>8. \A n \in Static : n \in Node /\ n \notin CloneName
  BY DeclaredPointers
<1>9. \A n \in CloneName : n \in Node
  BY DeclaredPointers
<1>10. "node_exit_end" \in Static /\ "node_end_end" \in Static
  BY NodeAssumption DEF Static
<1> DEFINE first == root[m]
<1>a. first \in Addr
  BY <1>2, <1>3
<1>11. /\ \A n \in Node : n # ex /\ n # en /\ n # no /\ n # de => alter'[n] = alter[n]
       /\ alter'[ex] = en /\ alter'[en] \in {no, first}
       /\ alter'[no] \in {de, alter[no]} /\ alter'[de] \in {first, alter[de]}
       /\ alter' \in [Node -> Addr]
  <2>1. CASE WithAll(m)
    BY <1>3, <1>4, <1>9, <1>a, <2>1 DEF WithAll, Addr
  <2>2. CASE WithExit(m, root[m])
    BY <1>3, <1>4, <1>9, <1>a, <2>2 DEF WithExit, Addr
  <2> QED
    BY <1>1, <2>1, <2>2
<1>12. /\ \A n \in Node : n # ex /\ n # en /\ n # no /\ n # de => acc'[n] = acc[n]
       /\ acc' \in [Node -> Addr]
       /\ acc'[ex] = "node_exit_end" /\ acc'[en] = "node_end_end"
       /\ \/ /\ first # NULL /\ acc'[no] = first /\ acc'[de] = first
             /\ alter'[no] = de /\ alter'[de] = first
          \/ /\ acc'[no] = acc[no] /\ acc'[de] = acc[de] /\ alter'[en] = first
             /\ alter'[no] = alter[no] /\ alter'[de] = alter[de]
  <2>0. "node_exit_end" \in Node /\ "node_end_end" \in Node
    BY <1>8, <1>10
  <2>1. CASE root[m] # NULL /\ WithAll(m)
    BY <1>3, <1>4, <1>9, <1>a, <2>0, <2>1 DEF WithAll, Addr
  <2>2. CASE WithExit(m, root[m])
    BY <1>3, <1>4, <1>9, <1>a, <2>0, <2>2 DEF WithExit, Addr
  <2> QED
    BY <1>1, <2>1, <2>2
<1>13. TreeTypeOK'
  <2>1. Len(Links') = Len(Links)
    BY <1>1 DEF Links
  <2>2. root' \in [Mode -> Node \cup {NULL}]
    BY <1>1, <1>2, <1>3, <1>4, <1>9 DEF Addr
  <2>3. buildin' \in 1 .. Len(CliModeDefs) + 1
    BY <1>1, <1>2
  <2> QED
    BY <1>1, <1>11, <1>12, <2>1, <2>2, <2>3 DEF TreeInv, TreeTypeOK, Addr
<1>14. StaticKept'
  <2>1. ASSUME NEW n \in Static
        PROVE  acc'[n] = acc[n] /\ alter'[n] = alter[n]
    BY <1>4, <1>8, <1>11, <1>12
  <2> QED
    BY <2>1 DEF TreeInv, StaticKept
<1>15. MergesStatic'
  BY <1>1 DEF TreeInv, MergesStatic
<1>16. Ranked(alter)'
  <2>1. \A n \in Node : (\A t \in Template : n # Clone[m][t]) => alter'[n] = alter[n]
    BY <1>7, <1>11
  <2>2. Ranked(alter')
    BY <1>2, <1>3, <1>5, <1>a, <1>11, <2>1, BuildinRanked
  <2> QED
    BY <2>2 DEF Ranked, Ranks
<1> HIDE DEF first
<1>17. Unlinked'
  <2> SUFFICES ASSUME NEW i \in buildin' .. Len(CliModeDefs), NEW t \in Template
               PROVE  /\ \A n \in Node : alter'[n] # Clone[CliModeDefs[i]][t]
                      /\ \A k \in Mode : root'[k] # Clone[CliModeDefs[i]][t]
    BY DEF Unlinked
  <2> DEFINE c == Clone[CliModeDefs[i]][t]
  <2>1. i \in buildin + 1 .. 4 /\ i \in buildin .. Len(CliModeDefs)
    BY <1>1, <1>2
  <2>2. CliModeDefs[i] \in Mode /\ CliModeDefs[i] # m
    BY <1>2, <2>1
  <2>3. \A u \in Template : Clone[m][u] # c
    BY <1>2, <2>2, NodeAssumption
  <2>4. c # ex /\ c # en /\ c # no /\ c # de
    BY <2>3 DEF Template
  <2>5. (\A n \in Node : alter[n] # c) /\ (\A k \in Mode : root[k] # c)
    BY <2>1 DEF TreeInv, Unlinked
  <2> HIDE DEF c
  <2>6. first # c
    BY <1>2, <2>5 DEF first
  <2>7. \A n \in Node : alter'[n] # c
    BY <1>4, <1>9, <1>11, <2>4, <2>5, <2>6
  <2>8. \A k \in Mode : root'[k] # c
    BY <1>1, <1>2, <1>3, <2>4, <2>5
  <2> QED
    BY <2>7, <2>8 DEF c
<1>18. Wired'
  <2>1. first \in InUse \cup {NULL}
    BY <1>2 DEF TreeInv, Wired, first
  <2>2. ex # NULL /\ en # NULL /\ no # NULL /\ de # NULL
        /\ "node_exit_end" # NULL /\ "node_end_end" # NULL
    BY <1>4, <1>8, <1>9, <1>10, NodeAssumption
  <2>3. \A n \in InUse : n \in Node /\ acc[n] \in InUse \cup {NULL}
                         /\ alter[n] \in InUse \cup {NULL}
    BY DEF TreeInv, Wired, InUse
  <2>4. \A n \in Node : acc[n] # NULL => acc'[n] # NULL
    BY <1>4, <1>12, <2>2
  <2>5. InUse \subseteq InUse'
    BY <2>4 DEF InUse
  <2>6. \A n \in InUse' : n \in Node /\ (n \in Static \/ acc'[n] # NULL)
    BY DEF InUse
  <2>7. ex \in InUse' /\ en \in InUse'
    BY <1>4, <1>9, <1>12, <2>2 DEF InUse
  <2>8. "node_exit_end" \in InUse' /\ "node_end_end" \in InUse'
    BY <1>8, <1>10 DEF InUse
  <2>9. first # NULL => (acc'[no] = first /\ acc'[de] = first => no \in InUse' /\ de \in InUse')
    BY <1>4, <1>9 DEF InUse
  <2>10. ASSUME NEW n \in InUse'
         PROVE  acc'[n] \in InUse' \cup {NULL} /\ alter'[n] \in InUse' \cup {NULL}
    <3>1. n \in Node /\ (n \in Static \/ acc'[n] # NULL)
      BY <2>6
    <3>2. CASE n # ex /\ n # en /\ n # no /\ n # de
      <4>1. acc'[n] = acc[n] /\ alter'[n] = alter[n]
        BY <1>11, <1>12, <3>1, <3>2
      <4>2. n \in InUse
        BY <3>1, <4>1 DEF InUse
      <4> QED
        BY <2>3, <2>5, <4>1, <4>2
    <3>3. CASE n = ex
      BY <1>11, <1>12, <2>7, <2>8, <3>3
    <3>4. CASE n = en
      BY <1>11, <1>12, <2>1, <2>5, <2>8, <2>9, <3>4
    <3>5. CASE n = no \/ n = de
      <4>1. CASE first # NULL /\ acc'[no] = first /\ acc'[de] = first
                 /\ alter'[no] = de /\ alter'[de] = first
        BY <2>1, <2>5, <2>9, <3>5, <4>1
      <4>2. CASE /\ acc'[no] = acc[no] /\ acc'[de] = acc[de]
                 /\ alter'[no] = alter[no] /\ alter'[de] = alter[de]
        <5>1. n \in InUse
          BY <1>4, <1>8, <3>1, <3>5, <4>2 DEF InUse
        <5> QED
          BY <2>3, <2>5, <3>5, <4>2, <5>1
      <4> QED
        BY <1>12, <4>1, <4>2
    <3> QED
      BY <3>2, <3>3, <3>4, <3>5
  <2>11. \A k \in Mode : root'[k] \in InUse' \cup {NULL}
    <3>1. \A k \in Mode : root'[k] \in {root[k], ex}
      BY <1>1, <1>2, <1>3
    <3>2. \A k \in Mode : root[k] \in InUse \cup {NULL}
      BY DEF TreeInv, Wired
    <3> QED
      BY <2>5, <2>7, <3>1, <3>2
  <2> QED
    BY <2>10, <2>11 DEF Wired
<1> QED
  BY <1>13, <1>14, <1>15, <1>16, <1>17, <1>18 DEF TreeInv

-----------------------------------------------------------------------------

LEMMA TreeInvNext == TreeInv /\ [TreeNext]_treeVars => TreeInv'
<1> SUFFICES ASSUME TreeInv, [TreeNext]_treeVars
             PROVE  TreeInv'
  OBVIOUS
<1>1. CASE (\E ok \in BOOLEAN : InitCliMode(ok)) \/ LinksDone
           \/ SkipBuildinNodes \/ InitCliTreeReturns
  BY <1>1, TreeStartSteps
<1>2. CASE LinkRoot \/ LinkMerge
  BY <1>2, TreeLinkSteps
<1>3. CASE MergeReturns
  BY <1>3, MergeReturnsStep
<1>4. CASE MergeAdds
  BY <1>4, MergeAddsStep
<1>5. CASE MergeDescends
  BY <1>5, MergeDescendsStep
<1>6. CASE AddBuildinNodes
  BY <1>6, AddBuildinNodesStep
<1>7. CASE UNCHANGED treeVars
  <2>1. UNCHANGED <<acc, alter, root, example, stage, link, stack, buildin>>
    BY <1>7 DEF treeVars
  <2>2. TreeTypeOK' /\ Links' = Links
    BY <2>1 DEF TreeInv, TreeTypeOK, Links
  <2>3. StaticKept' /\ MergesStatic' /\ Ranked(alter)' /\ Unlinked' /\ Wired'
    BY <2>1 DEF TreeInv, StaticKept, MergesStatic, Ranked, Ranks, Unlinked, Wired, InUse
  <2> QED
    BY <2>2, <2>3 DEF TreeInv
<1> QED
  BY <1>1, <1>2, <1>3, <1>4, <1>5, <1>6, <1>7 DEF TreeNext

(* TreeConsistent: at every step of start-up every pointer is sound, a merge
   that is under way has a list to add to, and no list of alternatives is a
   ring, whatever chains the program and its examples link.                *)
THEOREM TreeSound == TreeSpec => []TreeConsistent
<1>1. TreeInit => TreeInv
  BY TreeInvInit
<1>2. TreeInv /\ [TreeNext]_treeVars => TreeInv'
  BY TreeInvNext
<1>3. TreeInv => TreeConsistent
  <2> SUFFICES ASSUME TreeInv, NEW n \in Node
               PROVE  ListEnds(n, alter)
    BY DEF TreeConsistent, NoRing, TreeInv
  <2>1. alter \in [Node -> Addr]
    BY DEF TreeInv, TreeTypeOK, Addr
  <2>2. PICK r : Ranks(r, alter)
    BY DEF TreeInv, Ranked
  <2> QED
    BY <2>1, <2>2, RankedListEnds
<1> QED
  BY <1>1, <1>2, <1>3, PTL DEF TreeSpec

-----------------------------------------------------------------------------
(* Lists as sets: the nodes of a list are the least set that has the first
   one and is closed under the pointer.                                    *)

LEMMA ListUnfoldsToSet ==
  ASSUME NEW al \in [Node -> Addr], Ranked(al), NEW n \in Node
  PROVE  Elements(n, al) = {n} \cup (IF al[n] = NULL THEN {} ELSE Elements(al[n], al))
<1>1. PICK r : Ranks(r, al)
  BY DEF Ranked
<1> DEFINE S == {n} \cup (IF al[n] = NULL THEN {} ELSE Elements(al[n], al))
<1>2. /\ n \in Elements(n, al) /\ Elements(n, al) \subseteq Node
      /\ \A x \in Elements(n, al) : al[x] \in Elements(n, al) \cup {NULL}
  BY <1>1, ListIsClosed
<1>3. Elements(n, al) \subseteq S
  <2>1. CASE al[n] = NULL
    <3>1. \A x \in {n} : al[x] \in {n} \cup {NULL}
      BY <2>1
    <3>2. Elements(n, al) \subseteq {n}
      BY <3>1, ListInClosedSet
    <3> QED
      BY <3>2
  <2>2. CASE al[n] # NULL
    <3>1. al[n] \in Node
      BY <2>2 DEF Addr
    <3>2. /\ al[n] \in Elements(al[n], al)
          /\ \A x \in Elements(al[n], al) : al[x] \in Elements(al[n], al) \cup {NULL}
      BY <1>1, <3>1, ListIsClosed
    <3>3. \A x \in S : al[x] \in S \cup {NULL}
      BY <2>2, <3>2
    <3> HIDE DEF S
    <3>4. n \in S
      BY DEF S
    <3> QED
      BY <3>3, <3>4, ListInClosedSet
  <2> QED
    BY <2>1, <2>2
<1>4. S \subseteq Elements(n, al)
  <2>1. CASE al[n] = NULL
    BY <1>2, <2>1
  <2>2. CASE al[n] # NULL
    <3>1. al[n] \in Node /\ al[n] \in Elements(n, al)
      BY <1>2, <2>2 DEF Addr
    <3>2. Elements(al[n], al) \subseteq Elements(n, al)
      BY <1>2, <3>1, ListInClosedSet
    <3> QED
      BY <1>2, <2>2, <3>2
  <2> QED
    BY <2>1, <2>2
<1> QED
  BY <1>3, <1>4

(* No other node of a list comes back to its first one.                    *)
LEMMA FirstComesFirst ==
  ASSUME NEW al \in [Node -> Addr], Ranked(al), NEW n \in Node, NEW x \in Node,
         x \in Elements(n, al), n \in Elements(x, al)
  PROVE  x = n
<1>1. PICK r : Ranks(r, al)
  BY DEF Ranked
<1> SUFFICES ASSUME x # n
             PROVE  FALSE
  OBVIOUS
<1>2. al[n] # NULL /\ x \in Elements(al[n], al)
  BY ListUnfoldsToSet
<1>3. al[n] \in Node
  BY <1>2 DEF Addr
<1>4. r[x] <= r[al[n]] /\ r[al[n]] < r[n] /\ r[n] <= r[x]
  BY <1>1, <1>2, <1>3, ListIsClosed DEF Ranks
<1>5. r[x] \in Nat /\ r[n] \in Nat /\ r[al[n]] \in Nat
  BY <1>1, <1>3 DEF Ranks
<1> QED
  BY <1>4, <1>5

(* A list is what it was if the pointers of its nodes are.                 *)
LEMMA UntouchedList ==
  ASSUME NEW al \in [Node -> Addr], NEW bl \in [Node -> Addr], Ranked(al), Ranked(bl),
         NEW n \in Node, \A x \in Elements(n, al) : bl[x] = al[x]
  PROVE  Elements(n, bl) = Elements(n, al)
<1>1. PICK r : Ranks(r, al)
  BY DEF Ranked
<1>2. PICK s : Ranks(s, bl)
  BY DEF Ranked
<1>3. /\ n \in Elements(n, al)
      /\ \A x \in Elements(n, al) : al[x] \in Elements(n, al) \cup {NULL}
  BY <1>1, ListIsClosed
<1>4. Elements(n, bl) \subseteq Elements(n, al)
  BY <1>3, ListInClosedSet
<1>5. /\ n \in Elements(n, bl)
      /\ \A x \in Elements(n, bl) : bl[x] \in Elements(n, bl) \cup {NULL}
  BY <1>2, ListIsClosed
<1>6. Elements(n, al) \subseteq Elements(n, bl)
  <2>1. \A x \in Elements(n, bl) : al[x] \in Elements(n, bl) \cup {NULL}
    BY <1>4, <1>5
  <2> QED
    BY <1>5, <2>1, ListInClosedSet
<1> QED
  BY <1>4, <1>6

(* A node put behind the first one is all that a list gets.                *)
LEMMA InsertionElements ==
  ASSUME NEW al \in [Node -> Addr], NEW bl \in [Node -> Addr], Ranked(al), Ranked(bl),
         NEW org \in Node, NEW add \in Node, add \notin Elements(org, al), bl[org] = add,
         bl[add] = al[org], \A x \in Node : x # org /\ x # add => bl[x] = al[x]
  PROVE  Elements(org, bl) = Elements(org, al) \cup {add}
<1> DEFINE rest == IF al[org] = NULL THEN {} ELSE Elements(al[org], al)
<1>1. Elements(org, al) = {org} \cup rest
  BY ListUnfoldsToSet
<1>2. al[org] # NULL => al[org] \in Node
  BY DEF Addr
<1>3. al[org] # NULL => org \notin Elements(al[org], al)
  <2> SUFFICES ASSUME al[org] # NULL, org \in Elements(al[org], al)
               PROVE  FALSE
    OBVIOUS
  <2>1. PICK r : Ranks(r, al)
    BY DEF Ranked
  <2>2. r[org] <= r[al[org]] /\ r[al[org]] < r[org]
    BY <1>2, <2>1, ListIsClosed DEF Ranks
  <2>3. r[org] \in Nat /\ r[al[org]] \in Nat
    BY <1>2, <2>1 DEF Ranks
  <2> QED
    BY <2>2, <2>3
<1>4. al[org] # NULL => Elements(al[org], bl) = Elements(al[org], al)
  <2> SUFFICES ASSUME al[org] # NULL
               PROVE  Elements(al[org], bl) = Elements(al[org], al)
    OBVIOUS
  <2>1. PICK r : Ranks(r, al)
    BY DEF Ranked
  <2>2. Elements(al[org], al) \subseteq Node
    BY <1>2, <2>1, ListIsClosed
  <2>3. \A x \in Elements(al[org], al) : bl[x] = al[x]
    BY <1>1, <1>3, <2>2
  <2> QED
    BY <1>2, <2>3, UntouchedList
<1>5. add # NULL
  BY NodeAssumption
<1>6. Elements(add, bl) = {add} \cup (IF al[org] = NULL THEN {} ELSE Elements(al[org], bl))
  BY ListUnfoldsToSet
<1>7. Elements(org, bl) = {org} \cup Elements(add, bl)
  BY <1>5, ListUnfoldsToSet
<1> QED
  BY <1>1, <1>4, <1>6, <1>7

-----------------------------------------------------------------------------
(* Paths.                                                                  *)

(* t begins with s.                                                        *)
Prefixed(s, t) == Len(s) <= Len(t) /\ \A i \in 1 .. Len(s) : s[i] = t[i]

(* What is assumed of a chained node, as facts about sequences.            *)
LEMMA PathsTyped ==
  ASSUME NEW n \in Chained
  PROVE  /\ n \in Static /\ n \in Node /\ n # NO_ALT /\ Chain(n) \in Linkable
         /\ Path(n) \in Seq(Keywords) /\ Len(Path(n)) \in Nat /\ Len(Path(n)) < MaxWords
         /\ Def[n].keyword \in Keywords
         /\ PathBehind(n) \in Seq(Keywords) /\ Len(PathBehind(n)) = Len(Path(n)) + 1
<1>1. n \in Static /\ n # NO_ALT /\ Chain(n) \in Linkable
  BY DEF Chained
<1>2. Path(n) \in Seq(Keywords) /\ Len(Path(n)) < MaxWords
  BY ChainAssumption
<1>3. Def[n].keyword \in Keywords
  BY <1>1 DEF Keywords
<1>4. PathBehind(n) \in Seq(Keywords) /\ Len(PathBehind(n)) = Len(Path(n)) + 1
  BY <1>2, <1>3, AppendProperties DEF PathBehind
<1> QED
  BY <1>1, <1>2, <1>3, <1>4, DeclaredPointers

(* The words that lead behind a node say where it is and which it is.      *)
LEMMA PathsApart ==
  ASSUME NEW x \in Chained, NEW y \in Chained
  PROVE  PathBehind(x) = PathBehind(y) <=> Path(x) = Path(y) /\ Def[x].keyword = Def[y].keyword
<1>1. /\ Path(x) \in Seq(Keywords) /\ Path(y) \in Seq(Keywords)
      /\ Len(PathBehind(x)) = Len(Path(x)) + 1 /\ Len(PathBehind(y)) = Len(Path(y)) + 1
      /\ Def[x].keyword \in Keywords /\ Def[y].keyword \in Keywords
  BY PathsTyped
<1> DEFINE p == Path(x)
           q == Path(y)
           v == Def[x].keyword
           w == Def[y].keyword
<1>2. ASSUME PathBehind(x) = PathBehind(y)
      PROVE  p = q /\ v = w
  <2>1. Append(p, v) = Append(q, w)
    BY <1>2 DEF PathBehind
  <2>2. p \in Seq(Keywords) /\ q \in Seq(Keywords) /\ v \in Keywords /\ w \in Keywords
    BY <1>1
  <2> HIDE DEF p, q, v, w
  <2> QED
    BY <2>1, <2>2, AppendProperties, SeqEqual
<1> QED
  BY <1>2 DEF PathBehind

(* Beginnings of one sequence that are as long as each other are the same. *)
LEMMA PrefixesMeet ==
  ASSUME NEW s \in Seq(Keywords), NEW t \in Seq(Keywords), NEW u \in Seq(Keywords),
         Prefixed(s, u), Prefixed(t, u), Len(s) = Len(t)
  PROVE  s = t
<1>1. \A i \in 1 .. Len(s) : s[i] = t[i]
  BY DEF Prefixed
<1> QED
  BY <1>1, SeqEqual

(* To begin with is transitive.                                            *)
LEMMA PrefixOfPrefix ==
  ASSUME NEW s \in Seq(Keywords), NEW t \in Seq(Keywords), NEW u \in Seq(Keywords),
         Prefixed(s, t), Prefixed(t, u)
  PROVE  Prefixed(s, u)
<1>1. Len(s) \in Nat /\ Len(t) \in Nat /\ Len(u) \in Nat
  OBVIOUS
<1> QED
  BY <1>1 DEF Prefixed

(* The first words of a path.                                              *)
LEMMA CutPath ==
  ASSUME NEW s \in Seq(Keywords), NEW i \in 1 .. Len(s)
  PROVE  /\ SubSeq(s, 1, i) \in Seq(Keywords) /\ Len(SubSeq(s, 1, i)) = i
         /\ Prefixed(SubSeq(s, 1, i), s)
<1>1. Len(s) \in Nat /\ i \in 0 .. Len(s)
  OBVIOUS
<1>2. /\ SubSeq(s, 1, i) \in Seq(Keywords) /\ Len(SubSeq(s, 1, i)) = i
      /\ \A j \in 1 .. i : SubSeq(s, 1, i)[j] = s[j]
  BY <1>1, SubSeqProperties
<1> QED
  BY <1>1, <1>2 DEF Prefixed

(* A path goes on from its own beginning.                                  *)
LEMMA PathBegins ==
  ASSUME NEW x \in Chained, NEW t \in Seq(Keywords), Prefixed(PathBehind(x), t)
  PROVE  Prefixed(Path(x), t) /\ Len(Path(x)) < Len(t)
<1>1. /\ Path(x) \in Seq(Keywords) /\ Len(Path(x)) \in Nat /\ Def[x].keyword \in Keywords
      /\ Len(PathBehind(x)) = Len(Path(x)) + 1
  BY PathsTyped
<1>2. \A i \in 1 .. Len(Path(x)) : PathBehind(x)[i] = Path(x)[i]
  BY <1>1, AppendProperties DEF PathBehind
<1>3. Len(t) \in Nat
  OBVIOUS
<1> QED
  BY <1>1, <1>2, <1>3 DEF Prefixed

-----------------------------------------------------------------------------
(* What is declared behind a node.                                         *)

(* The node and all that its word leads to in its chain.                   *)
Under(x) ==
  {z \in Chained : Chain(z) = Chain(x) /\ (z = x \/ Prefixed(PathBehind(x), Path(z)))}

(* Two nodes of a chain whose word leads to the same place are one.        *)
LEMMA SameSpot ==
  ASSUME NEW x \in Chained, NEW y \in Chained, Chain(x) = Chain(y),
         PathBehind(x) = PathBehind(y)
  PROVE  x = y
<1>1. Path(x) = Path(y) /\ Def[x].keyword = Def[y].keyword
  BY PathsApart
<1>2. y \in DeclaredAt(Chain(x), Path(x))
  BY <1>1, PathsTyped DEF DeclaredAt
<1> QED
  BY <1>1, <1>2, ChainAssumption

(* What is behind a node is all there is behind it.                        *)
LEMMA UnderIsClosed ==
  ASSUME NEW x \in Chained, NEW z \in Under(x)
  PROVE  /\ z \in Chained /\ x \in Under(x) /\ Under(z) \subseteq Under(x)
         /\ \A y \in Chained : Chain(y) = Chain(z) /\ Path(y) = PathBehind(z) =>
              y \in Under(x) /\ y # x /\ y # z
<1>1. z \in Chained /\ Chain(z) = Chain(x) /\ (z = x \/ Prefixed(PathBehind(x), Path(z)))
  BY DEF Under
<1>2. ASSUME NEW y \in Chained, Chain(y) = Chain(z), Prefixed(PathBehind(z), Path(y))
      PROVE  Prefixed(PathBehind(x), Path(y))
  <2>1. CASE z = x
    BY <1>2, <2>1
  <2>2. CASE z # x
    <3>1. /\ PathBehind(x) \in Seq(Keywords) /\ Path(z) \in Seq(Keywords)
          /\ Path(y) \in Seq(Keywords)
      BY <1>1, PathsTyped
    <3>2. Prefixed(Path(z), Path(y))
      BY <1>1, <1>2, <3>1, PathBegins
    <3> QED
      BY <1>1, <2>2, <3>1, <3>2, PrefixOfPrefix
  <2> QED
    BY <2>1, <2>2
<1>3. Under(z) \subseteq Under(x)
  BY <1>1, <1>2 DEF Under
<1>4. ASSUME NEW y \in Chained, Chain(y) = Chain(z), Path(y) = PathBehind(z)
      PROVE  y \in Under(x) /\ y # x /\ y # z
  <2>1. /\ Len(Path(y)) = Len(Path(z)) + 1 /\ Len(Path(z)) \in Nat /\ Path(y) \in Seq(Keywords)
        /\ Path(z) \in Seq(Keywords) /\ Len(Path(x)) \in Nat /\ Len(Path(y)) \in Nat
    BY <1>1, <1>4, PathsTyped
  <2>2. Prefixed(PathBehind(z), Path(y))
    BY <1>4, <2>1 DEF Prefixed
  <2>3. y \in Under(x)
    BY <1>1, <1>2, <1>4, <2>2 DEF Under
  <2>4. Len(Path(x)) <= Len(Path(z))
    BY <1>1, <2>1, PathBegins
  <2> QED
    BY <2>1, <2>3, <2>4
<1> QED
  BY <1>1, <1>3, <1>4 DEF Under

(* Alternatives lead to different nodes.                                   *)
LEMMA UnderApart ==
  ASSUME NEW x \in Chained, NEW y \in Chained, Chain(x) = Chain(y), Path(x) = Path(y), x # y
  PROVE  Under(x) \cap Under(y) = {}
<1> SUFFICES ASSUME NEW z \in Chained, z \in Under(x), z \in Under(y)
             PROVE  FALSE
  BY DEF Under
<1>1. /\ Path(x) \in Seq(Keywords) /\ Path(z) \in Seq(Keywords) /\ Len(Path(x)) \in Nat
      /\ PathBehind(x) \in Seq(Keywords) /\ PathBehind(y) \in Seq(Keywords)
      /\ Len(PathBehind(x)) = Len(PathBehind(y))
  BY PathsTyped
<1>2. z # x
  <2>1. Prefixed(PathBehind(y), Path(x)) => Len(Path(y)) < Len(Path(x))
    BY <1>1, PathBegins
  <2> QED
    BY <1>1, <2>1 DEF Under
<1>3. z # y
  <2>1. Prefixed(PathBehind(x), Path(y)) => Len(Path(x)) < Len(Path(y))
    BY <1>1, PathBegins
  <2> QED
    BY <1>1, <2>1 DEF Under
<1>4. Prefixed(PathBehind(x), Path(z)) /\ Prefixed(PathBehind(y), Path(z))
  BY <1>2, <1>3 DEF Under
<1>5. PathBehind(x) = PathBehind(y)
  BY <1>1, <1>4, PrefixesMeet
<1> QED
  BY <1>5, SameSpot

(* A node is behind nodes of its chain all the way.                        *)
LEMMA UnderIsRooted ==
  ASSUME NEW x \in Chained, NEW z \in Under(x), NEW i \in 1 .. Len(Path(z)), i > Len(Path(x))
  PROVE  \E y \in Under(x) : IsWord(y) /\ PathBehind(y) = SubSeq(Path(z), 1, i)
<1>1. z \in Chained /\ Chain(z) = Chain(x)
  BY DEF Under
<1>2. /\ Path(x) \in Seq(Keywords) /\ Path(z) \in Seq(Keywords) /\ Len(Path(x)) \in Nat
      /\ PathBehind(x) \in Seq(Keywords) /\ Len(PathBehind(x)) = Len(Path(x)) + 1
      /\ Len(Path(z)) \in Nat
  BY <1>1, PathsTyped
<1>3. Prefixed(PathBehind(x), Path(z))
  BY <1>2 DEF Under
<1>4. i \in DOMAIN Path(z)
  BY <1>2
<1>5. PICK k \in Chained : IsWord(k) /\ Chain(k) = Chain(z) /\ PathBehind(k) = SubSeq(Path(z), 1, i)
  BY <1>1, <1>4, ChainAssumption
<1>6. Len(PathBehind(k)) = i /\ Prefixed(PathBehind(k), Path(z)) /\ PathBehind(k) \in Seq(Keywords)
  BY <1>2, <1>5, CutPath
<1>7. CASE i = Len(Path(x)) + 1
  <2>1. PathBehind(k) = PathBehind(x)
    BY <1>2, <1>3, <1>6, <1>7, PrefixesMeet
  <2>2. k = x
    BY <1>1, <1>5, <2>1, SameSpot
  <2> QED
    BY <1>5, <2>2, UnderIsClosed
<1>8. CASE i # Len(Path(x)) + 1
  <2>1. /\ Path(k) \in Seq(Keywords) /\ Len(Path(k)) = i - 1 /\ Prefixed(Path(k), Path(z))
    BY <1>2, <1>6, PathsTyped, PathBegins
  <2>2. Prefixed(PathBehind(x), Path(k))
    <3>1. Len(PathBehind(x)) <= Len(Path(k))
      BY <1>2, <1>8, <2>1
    <3>2. \A j \in 1 .. Len(PathBehind(x)) : PathBehind(x)[j] = Path(z)[j]
      BY <1>3 DEF Prefixed
    <3>3. \A j \in 1 .. Len(Path(k)) : Path(k)[j] = Path(z)[j]
      BY <2>1 DEF Prefixed
    <3>4. \A j \in 1 .. Len(PathBehind(x)) : j \in 1 .. Len(Path(k))
      BY <1>2, <2>1, <3>1
    <3> QED
      BY <3>1, <3>2, <3>3, <3>4 DEF Prefixed
  <2> QED
    BY <1>1, <1>5, <2>2 DEF Under
<1> QED
  BY <1>7, <1>8

(* What is behind a node is behind one of the nodes that follow it.        *)
LEMMA UnderIsDivided ==
  ASSUME NEW x \in Chained, NEW z \in Under(x), z # x
  PROVE  \E y \in Chained : Chain(y) = Chain(x) /\ Path(y) = PathBehind(x) /\ z \in Under(y)
<1>1. z \in Chained /\ Chain(z) = Chain(x) /\ Prefixed(PathBehind(x), Path(z))
  BY DEF Under
<1>2. /\ Path(z) \in Seq(Keywords) /\ Len(Path(z)) \in Nat /\ Len(Path(x)) \in Nat
      /\ PathBehind(x) \in Seq(Keywords) /\ Len(PathBehind(x)) = Len(Path(x)) + 1
  BY <1>1, PathsTyped
<1> DEFINE i == Len(Path(x)) + 2
<1>3. CASE Len(Path(z)) < i
  <2>1. \A j \in 1 .. Len(Path(z)) : Path(z)[j] = PathBehind(x)[j]
    BY <1>1, <1>2, <1>3 DEF Prefixed
  <2>2. Len(Path(z)) = Len(PathBehind(x))
    BY <1>1, <1>2, <1>3 DEF Prefixed
  <2>3. Path(z) = PathBehind(x)
    BY <1>2, <2>1, <2>2, SeqEqual
  <2>4. z \in Under(z)
    BY <1>1 DEF Under
  <2> QED
    BY <1>1, <2>3, <2>4
<1>4. CASE Len(Path(z)) >= i
  <2>1. i \in DOMAIN Path(z) /\ i \in 1 .. Len(Path(z))
    BY <1>2, <1>4
  <2>2. PICK y \in Chained : Chain(y) = Chain(z) /\ PathBehind(y) = SubSeq(Path(z), 1, i)
    BY <1>1, <2>1, ChainAssumption
  <2>3. Len(PathBehind(y)) = i /\ Prefixed(PathBehind(y), Path(z))
    BY <1>2, <2>1, <2>2, CutPath
  <2>4. /\ Path(y) \in Seq(Keywords) /\ Len(Path(y)) = Len(PathBehind(x))
        /\ Prefixed(Path(y), Path(z))
    BY <1>2, <2>3, PathsTyped, PathBegins
  <2>5. Path(y) = PathBehind(x)
    BY <1>1, <1>2, <2>4, PrefixesMeet
  <2> QED
    BY <1>1, <2>2, <2>3, <2>5 DEF Under
<1> QED
  BY <1>2, <1>3, <1>4

(* The pointers of the declared nodes, of copies too, make no ring.        *)
LEMMA DeclaredAlterRanked == DeclaredAlter \in [Node -> Addr] /\ Ranked(DeclaredAlter)
<1> DEFINE al == [n \in Node |-> IF n \in CloneName THEN NULL ELSE Def[n].alter]
<1>1. al \in [Node -> Addr]
  BY DeclaredPointers DEF Addr
<1>2. PICK r : Ranks(r, al)
  BY <1>1, DeclaredRanked DEF Ranked
<1> DEFINE s == [n \in Node |-> IF n \in CloneName /\ Def[n].alter # NULL
                                THEN r[Def[n].alter] + 1 ELSE r[n]]
<1>3. \A n \in Static : n \in Node /\ n \notin CloneName
  BY DeclaredPointers
<1>4. \A n \in Node : Def[n].alter \in Static \cup {NULL}
  BY DeclaredPointers
<1>5. r \in [Node -> Nat] /\ \A n \in Node : al[n] # NULL => r[al[n]] < r[n]
  BY <1>2 DEF Ranks
<1>6. s \in [Node -> Nat]
  BY <1>3, <1>4, <1>5
<1>7. ASSUME NEW n \in Node, Def[n].alter # NULL
      PROVE  s[Def[n].alter] < s[n]
  <2>1. Def[n].alter \in Node /\ s[Def[n].alter] = r[Def[n].alter]
    BY <1>3, <1>4, <1>7
  <2>2. CASE n \in CloneName
    BY <1>5, <1>7, <2>1, <2>2
  <2>3. CASE n \notin CloneName
    BY <1>5, <1>7, <2>1, <2>3
  <2> QED
    BY <2>2, <2>3
<1>8. Ranks(s, DeclaredAlter)
  BY <1>6, <1>7 DEF Ranks, DeclaredAlter
<1> QED
  BY <1>3, <1>4, <1>8 DEF Ranked, DeclaredAlter, Addr

(* As long as their pointers are those declared, the nodes of a level are
   all on its list.                                                        *)
LEMMA DeclaredLevel ==
  ASSUME NEW h, NEW chain \in Linkable, NEW p, Declares(h, chain, p), h # NO_ALT,
         NEW al \in [Node -> Addr], Ranked(al), al[NO_ALT] = NULL,
         \A x \in Chained : Chain(x) = chain /\ Path(x) = p => al[x] = StaticNode[x].alter
  PROVE  /\ h \in Chained /\ Chain(h) = chain /\ Path(h) = p
         /\ Elements(h, al) \ {NO_ALT} = {x \in Chained : Chain(x) = chain /\ Path(x) = p}
<1>1. h \in Static /\ h \in Node
  BY DeclaredPointers DEF Declares
<1>2. DeclaredAt(chain, p) = {x \in Chained : Chain(x) = chain /\ Path(x) = p}
  BY DEF DeclaredAt, Chained
<1>3. Elements(h, DeclaredAlter) \ {NO_ALT} = DeclaredAt(chain, p)
  <2>1. ListFrom(h, DeclaredAlter) \in Seq(Node)
    BY <1>1, DeclaredAlterRanked, ListFromIsList
  <2> DEFINE s == ListFrom(h, DeclaredAlter)
  <2>2. DOMAIN s = 1 .. Len(s)
    BY <2>1
  <2>3. ToSet(s) = Elements(h, DeclaredAlter)
    BY <2>2 DEF ToSet, Elements
  <2> QED
    BY <2>3 DEF Declares
<1>4. PICK r : Ranks(r, DeclaredAlter)
  BY DeclaredAlterRanked DEF Ranked
<1>5. h \in Elements(h, DeclaredAlter)
  BY <1>1, <1>4, DeclaredAlterRanked, ListIsClosed
<1>6. ASSUME NEW x \in Elements(h, DeclaredAlter)
      PROVE  al[x] = DeclaredAlter[x]
  <2>1. CASE x = NO_ALT
    <3>1. NO_ALT \in Static /\ Type[NO_ALT] = "DEAD"
      BY NodeAssumption, ChainAssumption DEF Static
    <3>2. StaticNode[NO_ALT].alter = NULL
      BY <3>1, ChainAssumption DEF EndType
    <3> QED
      BY <2>1, <3>1, <3>2, DeclaredPointers DEF DeclaredAlter
  <2>2. CASE x # NO_ALT
    <3>1. x \in Chained /\ Chain(x) = chain /\ Path(x) = p
      BY <1>2, <1>3, <2>2
    <3> QED
      BY <3>1, PathsTyped, DeclaredPointers DEF DeclaredAlter
  <2> QED
    BY <2>1, <2>2
<1>7. Elements(h, al) = Elements(h, DeclaredAlter)
  BY <1>1, <1>6, DeclaredAlterRanked, UntouchedList
<1> QED
  BY <1>2, <1>3, <1>5, <1>7

-----------------------------------------------------------------------------
(* The trees of the modes, as one set of nodes.                            *)

(* h is the first of the list that has what of V belongs there.            *)
Leads(links, V, al, h, m, p) ==
  /\ h \in V
  /\ Elements(h, al) \ {NO_ALT} = {x \in V : ModeOf(links, x) = m /\ Path(x) = p}

(* What follows each word of V leads on in V, and each node of V is reached
   along words of V.                                                       *)
Grove(links, V, al) ==
  \A x \in V :
    /\ IsWord(x) => Leads(links, V, al, StaticNode[x].acc, ModeOf(links, x), PathBehind(x))
    /\ \A i \in 1 .. Len(Path(x)) : \E y \in V :
         IsWord(y) /\ ModeOf(links, y) = ModeOf(links, x) /\ PathBehind(y) = SubSeq(Path(x), 1, i)

(* Where one path begins with another, their first words are the same.     *)
LEMMA PrefixesCut ==
  ASSUME NEW s \in Seq(Keywords), NEW t \in Seq(Keywords), Prefixed(s, t), NEW i \in 1 .. Len(s)
  PROVE  i \in 1 .. Len(t) /\ SubSeq(s, 1, i) = SubSeq(t, 1, i)
<1>1. i \in 1 .. Len(t)
  BY DEF Prefixed
<1>2. /\ SubSeq(s, 1, i) \in Seq(Keywords) /\ Len(SubSeq(s, 1, i)) = i
      /\ SubSeq(t, 1, i) \in Seq(Keywords) /\ Len(SubSeq(t, 1, i)) = i
      /\ Prefixed(SubSeq(s, 1, i), s) /\ Prefixed(SubSeq(t, 1, i), t)
  BY <1>1, CutPath
<1>3. Prefixed(SubSeq(s, 1, i), t)
  BY <1>2, PrefixOfPrefix
<1> QED
  BY <1>1, <1>2, <1>3, PrefixesMeet

(* What a node of a list leads to does not say which list it is on.        *)
LEMMA HeadUnique ==
  ASSUME NEW al \in [Node -> Addr], Ranked(al), NEW h \in Chained, NEW k \in Chained,
         Elements(h, al) \ {NO_ALT} = Elements(k, al) \ {NO_ALT}
  PROVE  h = k
<1>1. PICK r : Ranks(r, al)
  BY DEF Ranked
<1>2. h \in Node /\ k \in Node /\ h # NO_ALT /\ k # NO_ALT
  BY PathsTyped
<1>3. h \in Elements(h, al) /\ k \in Elements(k, al)
  BY <1>1, <1>2, ListIsClosed
<1> QED
  BY <1>2, <1>3, FirstComesFirst

(* The first node of a list is one of those that belong there.             *)
LEMMA LeaderOnList ==
  ASSUME NEW links, NEW V, V \subseteq Chained, NEW al \in [Node -> Addr], Ranked(al),
         NEW h, NEW m, NEW p, Leads(links, V, al, h, m, p)
  PROVE  h \in V /\ h \in Elements(h, al) /\ ModeOf(links, h) = m /\ Path(h) = p
<1>1. PICK r : Ranks(r, al)
  BY DEF Ranked
<1>2. h \in V /\ h \in Node /\ h # NO_ALT
  BY PathsTyped DEF Leads
<1>3. h \in Elements(h, al)
  BY <1>1, <1>2, ListIsClosed
<1> QED
  BY <1>2, <1>3 DEF Leads

(* A word that no node of a mode has at its place leads to none of them.   *)
LEMMA NothingBehindMissing ==
  ASSUME NEW links, NEW V, V \subseteq Chained, NEW al, Grove(links, V, al),
         NEW add \in Chained,
         \A y \in V : ModeOf(links, y) = ModeOf(links, add) => PathBehind(y) # PathBehind(add),
         NEW x \in V, ModeOf(links, x) = ModeOf(links, add)
  PROVE  x \notin Under(add) /\ ~Prefixed(PathBehind(add), Path(x))
<1>1. /\ PathBehind(add) \in Seq(Keywords) /\ Path(x) \in Seq(Keywords) /\ Len(Path(x)) \in Nat
      /\ Len(PathBehind(add)) = Len(Path(add)) + 1 /\ Len(Path(add)) \in Nat
  BY PathsTyped
<1>2. ASSUME Prefixed(PathBehind(add), Path(x))
      PROVE  FALSE
  <2> DEFINE i == Len(PathBehind(add))
  <2>1. i \in 1 .. Len(Path(x)) /\ i \in 1 .. Len(PathBehind(add))
    BY <1>1, <1>2 DEF Prefixed
  <2>2. PICK y \in V : ModeOf(links, y) = ModeOf(links, x) /\ PathBehind(y) = SubSeq(Path(x), 1, i)
    BY <2>1 DEF Grove
  <2>3. Len(SubSeq(Path(x), 1, i)) = i /\ SubSeq(Path(x), 1, i) \in Seq(Keywords)
        /\ Prefixed(SubSeq(Path(x), 1, i), Path(x))
    BY <1>1, <2>1, CutPath
  <2>4. PathBehind(y) = PathBehind(add)
    BY <1>1, <1>2, <2>2, <2>3, PrefixesMeet
  <2> QED
    BY <2>2, <2>4
<1>3. x # add
  OBVIOUS
<1> QED
  BY <1>2, <1>3 DEF Under

(* What is behind a node is of its mode.                                   *)
LEMMA UnderSameMode ==
  ASSUME NEW links, NEW x \in Chained, NEW z \in Under(x)
  PROVE  ModeOf(links, z) = ModeOf(links, x)
BY DEF Under, ModeOf

(* The same of what follows a word.                                        *)
LEMMA LevelBehind ==
  ASSUME NEW x \in Chained, IsWord(x), NEW al \in [Node -> Addr], Ranked(al), al[NO_ALT] = NULL,
         \A y \in Chained : Chain(y) = Chain(x) /\ Path(y) = PathBehind(x) =>
           al[y] = StaticNode[y].alter
  PROVE  LET h == StaticNode[x].acc IN
         /\ h \in Chained /\ Chain(h) = Chain(x) /\ Path(h) = PathBehind(x)
         /\ Elements(h, al) \ {NO_ALT}
              = {y \in Chained : Chain(y) = Chain(x) /\ Path(y) = PathBehind(x)}
<1>1. /\ Declares(StaticNode[x].acc, Chain(x), PathBehind(x)) /\ StaticNode[x].acc # NO_ALT
      /\ Chain(x) \in Linkable
  BY ChainAssumption, PathsTyped
<1> DEFINE h  == StaticNode[x].acc
           ch == Chain(x)
           q  == PathBehind(x)
<1>2. /\ Declares(h, ch, q) /\ h # NO_ALT /\ ch \in Linkable
      /\ \A y \in Chained : Chain(y) = ch /\ Path(y) = q => al[y] = StaticNode[y].alter
  BY <1>1
<1> HIDE DEF h, ch, q
<1>3. /\ h \in Chained /\ Chain(h) = ch /\ Path(h) = q
      /\ Elements(h, al) \ {NO_ALT} = {y \in Chained : Chain(y) = ch /\ Path(y) = q}
  BY <1>2, DeclaredLevel
<1> QED
  BY <1>3 DEF h, ch, q

(* merge_cli_tree(): a word that is new on its list brings all that is behind
   it.                                                                     *)
LEMMA GroveGrows ==
  ASSUME NEW links, NEW V, V \subseteq Chained, NEW al \in [Node -> Addr], Ranked(al),
         NEW bl \in [Node -> Addr], Ranked(bl), Grove(links, V, al),
         NEW org \in V, Leads(links, V, al, org, ModeOf(links, org), Path(org)),
         NEW add \in Chained, Meet(links, add, org),
         \A y \in V : ModeOf(links, y) = ModeOf(links, add) => PathBehind(y) # PathBehind(add),
         bl[org] = add, bl[add] = al[org], \A x \in Node : x # org /\ x # add => bl[x] = al[x],
         \A x \in Under(add) : al[x] = StaticNode[x].alter, al[NO_ALT] = NULL
  PROVE  /\ V \cap Under(add) = {}
         /\ \A h, m, p : Leads(links, V, al, h, m, p) =>
              Leads(links, V \cup Under(add), bl, h, m, p)
         /\ Grove(links, V \cup Under(add), bl)
<1> DEFINE U == Under(add)
           W == V \cup U
<1>1. V \cap U = {}
  BY NothingBehindMissing, UnderSameMode
<1>2. add \in U /\ add \notin V /\ org \notin U /\ U \subseteq Chained /\ add # org
  BY <1>1 DEF Under
<1>3. ModeOf(links, add) = ModeOf(links, org) /\ Path(add) = Path(org)
  BY DEF Meet
<1>4. ASSUME NEW z \in U
      PROVE  z = add \/ Prefixed(PathBehind(add), Path(z))
  BY DEF Under
<1>5. PICK r : Ranks(r, al)
  BY DEF Ranked
<1>6. /\ org \in Node /\ add \in Node /\ add # NO_ALT /\ org # NO_ALT
      /\ PathBehind(add) \in Seq(Keywords) /\ Path(add) \in Seq(Keywords)
      /\ Len(PathBehind(add)) = Len(Path(add)) + 1 /\ Len(Path(add)) \in Nat
  BY PathsTyped
<1>7. \A h, m, p : Leads(links, V, al, h, m, p) => Leads(links, W, bl, h, m, p)
  <2> SUFFICES ASSUME NEW h, NEW m, NEW p, Leads(links, V, al, h, m, p)
               PROVE  Leads(links, W, bl, h, m, p)
    OBVIOUS
  <2>1. h \in V /\ h \in Elements(h, al) /\ ModeOf(links, h) = m /\ Path(h) = p
    BY LeaderOnList
  <2>2. h \in Node /\ h \in Chained
    BY <2>1, PathsTyped
  <2>3. Elements(h, al) \ {NO_ALT} = {x \in V : ModeOf(links, x) = m /\ Path(x) = p}
    BY DEF Leads
  <2>4. CASE m = ModeOf(links, add) /\ p = Path(add)
    <3>1. Elements(org, al) \ {NO_ALT} = {x \in V : ModeOf(links, x) = m /\ Path(x) = p}
      BY <1>3, <2>4 DEF Leads
    <3>2. h = org
      BY <2>2, <2>3, <3>1, HeadUnique
    <3>3. add \notin Elements(org, al)
      BY <1>2, <1>6, <3>1
    <3>4. Elements(org, bl) = Elements(org, al) \cup {add}
      BY <1>6, <3>3, InsertionElements
    <3>5. {x \in U : ModeOf(links, x) = m /\ Path(x) = p} = {add}
      <4>1. ASSUME NEW z \in U, Path(z) = p
            PROVE  z = add
        <5>1. ~Prefixed(PathBehind(add), Path(z))
          BY <1>6, <2>4, <4>1 DEF Prefixed
        <5> QED
          BY <1>4, <5>1
      <4> QED
        BY <1>2, <2>4, <4>1
    <3>6. Elements(org, bl) \ {NO_ALT} = {x \in W : ModeOf(links, x) = m /\ Path(x) = p}
      BY <1>6, <3>1, <3>4, <3>5
    <3> QED
      BY <2>1, <3>2, <3>6 DEF Leads
  <2>5. CASE ~(m = ModeOf(links, add) /\ p = Path(add))
    <3>1. org \notin Elements(h, al) /\ add \notin Elements(h, al)
      BY <1>2, <1>3, <1>6, <2>3, <2>5
    <3>2. Elements(h, al) \subseteq Node
      BY <1>5, <2>2, ListIsClosed
    <3>3. \A x \in Elements(h, al) : bl[x] = al[x]
      BY <3>1, <3>2
    <3>4. Elements(h, bl) = Elements(h, al)
      BY <2>2, <3>3, UntouchedList
    <3>5. ASSUME NEW z \in U, ModeOf(links, z) = m, Path(z) = p
          PROVE  FALSE
      <4>1. ModeOf(links, h) = ModeOf(links, add)
        BY <2>1, <3>5, UnderSameMode
      <4>2. z # add
        BY <2>1, <2>5, <3>5, <4>1
      <4>3. Prefixed(PathBehind(add), Path(h))
        BY <1>4, <2>1, <3>5, <4>2
      <4> QED
        BY <2>1, <4>1, <4>3, NothingBehindMissing
    <3> QED
      BY <2>1, <2>3, <3>4, <3>5 DEF Leads
  <2> QED
    BY <2>4, <2>5
<1>8. ASSUME NEW x \in V
      PROVE  /\ IsWord(x) => Leads(links, W, bl, StaticNode[x].acc, ModeOf(links, x), PathBehind(x))
             /\ \A i \in 1 .. Len(Path(x)) : \E y \in W :
                  IsWord(y) /\ ModeOf(links, y) = ModeOf(links, x)
                  /\ PathBehind(y) = SubSeq(Path(x), 1, i)
  <2>1. IsWord(x) => Leads(links, V, al, StaticNode[x].acc, ModeOf(links, x), PathBehind(x))
    BY DEF Grove
  <2>2. \A i \in 1 .. Len(Path(x)) : \E y \in V :
          IsWord(y) /\ ModeOf(links, y) = ModeOf(links, x) /\ PathBehind(y) = SubSeq(Path(x), 1, i)
    BY DEF Grove
  <2> HIDE DEF W
  <2>3. IsWord(x) => Leads(links, W, bl, StaticNode[x].acc, ModeOf(links, x), PathBehind(x))
    BY <1>7, <2>1
  <2>4. V \subseteq W
    BY DEF W
  <2> QED
    BY <2>2, <2>3, <2>4
<1>9. ASSUME NEW x \in U, IsWord(x)
      PROVE  Leads(links, W, bl, StaticNode[x].acc, ModeOf(links, x), PathBehind(x))
  <2> DEFINE h == StaticNode[x].acc
  <2>1. x \in Chained /\ Chain(x) = Chain(add) /\ ModeOf(links, x) = ModeOf(links, add)
    BY <1>2, UnderSameMode DEF Under
  <2>2. /\ Declares(h, Chain(x), PathBehind(x)) /\ h # NO_ALT /\ Chain(x) \in Linkable
        /\ PathBehind(x) \in Seq(Keywords) /\ Path(x) \in Seq(Keywords)
        /\ Len(PathBehind(x)) = Len(Path(x)) + 1 /\ Len(Path(x)) \in Nat
    BY <1>9, <2>1, ChainAssumption, PathsTyped
  <2>3. \A y \in Chained : Chain(y) = Chain(x) /\ Path(y) = PathBehind(x) => y \in U /\ y # add
    <3>1. add \in Under(x) => x = add
      <4>1. CASE x # add
        <5>1. Prefixed(PathBehind(add), Path(x))
          BY <1>4, <4>1
        <5>2. Len(Path(add)) < Len(Path(x))
          BY <2>2, <5>1, PathBegins
        <5>3. Prefixed(PathBehind(x), Path(add)) => Len(Path(x)) < Len(Path(add))
          BY <1>6, <2>1, PathBegins
        <5> QED
          BY <1>6, <2>2, <4>1, <5>2, <5>3 DEF Under
      <4> QED
        BY <4>1
    <3>2. \A y \in Chained : Chain(y) = Chain(x) /\ Path(y) = PathBehind(x) => y \in U /\ y # add
      BY UnderIsClosed
    <3> QED
      BY <3>2
  <2>4. ASSUME NEW y \in Chained, Chain(y) = Chain(x), Path(y) = PathBehind(x)
        PROVE  bl[y] = StaticNode[y].alter
    <3>1. y \in U /\ y # add /\ y # org /\ y \in Node
      BY <1>2, <2>3, <2>4, PathsTyped
    <3> QED
      BY <3>1
  <2>5. bl[NO_ALT] = NULL
    BY <1>6, NodeAssumption DEF Node
  <2>6. /\ h \in Chained /\ Chain(h) = Chain(x) /\ Path(h) = PathBehind(x)
        /\ Elements(h, bl) \ {NO_ALT} = {y \in Chained : Chain(y) = Chain(x) /\ Path(y) = PathBehind(x)}
    BY <1>9, <2>1, <2>4, <2>5, LevelBehind
  <2>7. Prefixed(PathBehind(add), PathBehind(x))
    <3>1. CASE x = add
      BY <1>6, <3>1 DEF Prefixed
    <3>2. CASE x # add
      <4>1. Prefixed(PathBehind(add), Path(x))
        BY <1>4, <3>2
      <4>2. Prefixed(PathBehind(x), PathBehind(x))
        BY <2>2 DEF Prefixed
      <4>3. Prefixed(Path(x), PathBehind(x))
        BY <2>1, <2>2, <4>2, PathBegins
      <4> QED
        BY <1>6, <2>2, <4>1, <4>3, PrefixOfPrefix
    <3> QED
      BY <3>1, <3>2
  <2>8. ASSUME NEW y \in V, ModeOf(links, y) = ModeOf(links, x)
        PROVE  Path(y) # PathBehind(x)
    BY <2>1, <2>7, <2>8, NothingBehindMissing
  <2>9. \A y \in U : Chain(y) = Chain(x) /\ ModeOf(links, y) = ModeOf(links, x)
    BY <2>1, UnderSameMode DEF Under
  <2>10. {y \in Chained : Chain(y) = Chain(x) /\ Path(y) = PathBehind(x)}
           = {y \in W : ModeOf(links, y) = ModeOf(links, x) /\ Path(y) = PathBehind(x)}
    BY <1>2, <2>3, <2>8, <2>9
  <2>11. h \in W
    BY <2>3, <2>6
  <2> QED
    BY <2>6, <2>10, <2>11 DEF Leads
<1>10. ASSUME NEW x \in U, NEW i \in 1 .. Len(Path(x))
       PROVE  \E y \in W : IsWord(y) /\ ModeOf(links, y) = ModeOf(links, x)
                           /\ PathBehind(y) = SubSeq(Path(x), 1, i)
  <2>1. /\ Path(x) \in Seq(Keywords) /\ Len(Path(x)) \in Nat
        /\ ModeOf(links, x) = ModeOf(links, add)
    BY <1>2, PathsTyped, UnderSameMode
  <2>2. CASE i > Len(Path(add))
    <3>1. PICK y \in Under(add) : IsWord(y) /\ PathBehind(y) = SubSeq(Path(x), 1, i)
      BY <2>2, UnderIsRooted
    <3> QED
      BY <2>1, <3>1, UnderSameMode
  <2>3. CASE i <= Len(Path(add))
    <3>1. Prefixed(Path(add), Path(x))
      <4>1. CASE x = add
        BY <2>1, <4>1 DEF Prefixed
      <4>2. CASE x # add
        BY <1>4, <2>1, <4>2, PathBegins
      <4> QED
        BY <4>1, <4>2
    <3>2. i \in 1 .. Len(Path(org)) /\ SubSeq(Path(x), 1, i) = SubSeq(Path(org), 1, i)
      BY <1>3, <1>6, <2>1, <2>3, <3>1, PrefixesCut
    <3>3. PICK y \in V : IsWord(y) /\ ModeOf(links, y) = ModeOf(links, org)
                         /\ PathBehind(y) = SubSeq(Path(org), 1, i)
      BY <3>2 DEF Grove
    <3> QED
      BY <1>3, <2>1, <3>2, <3>3
  <2> QED
    BY <1>6, <2>2, <2>3
<1>11. Grove(links, W, bl)
  <2> HIDE DEF U
  <2>1. \A x \in W : x \in V \/ x \in U
    OBVIOUS
  <2> HIDE DEF W
  <2> QED
    BY <1>8, <1>9, <1>10, <2>1 DEF Grove
<1> QED
  BY <1>1, <1>7, <1>11

(* The nodes of a chain.                                                   *)
ChainNodes(r) == {x \in Chained : Chain(x) = r}

(* link_one_root_node(): a chain is the tree of a mode that has none.      *)
LEMMA GroveTakesChain ==
  ASSUME NEW links, NEW V, V \subseteq Chained, NEW al \in [Node -> Addr], Ranked(al),
         Grove(links, V, al), NEW r \in Linkable,
         \A x \in V : ModeOf(links, x) # ChainMode(links, r),
         \A x \in ChainNodes(r) : al[x] = StaticNode[x].alter, al[NO_ALT] = NULL
  PROVE  LET W == V \cup ChainNodes(r) IN
         /\ W \subseteq Chained /\ V \cap ChainNodes(r) = {}
         /\ Grove(links, W, al) /\ Leads(links, W, al, r, ChainMode(links, r), <<>>)
         /\ \A h, m, p : Leads(links, V, al, h, m, p) => Leads(links, W, al, h, m, p)
<1> DEFINE C == ChainNodes(r)
           W == V \cup C
<1>1. \A x \in C : x \in Chained /\ Chain(x) = r /\ ModeOf(links, x) = ChainMode(links, r)
  BY DEF ChainNodes, ModeOf
<1>2. V \cap C = {} /\ W \subseteq Chained
  BY <1>1
<1>3. \A h, m, p : Leads(links, V, al, h, m, p) => Leads(links, W, al, h, m, p)
  <2> SUFFICES ASSUME NEW h, NEW m, NEW p, Leads(links, V, al, h, m, p)
               PROVE  Leads(links, W, al, h, m, p)
    OBVIOUS
  <2>1. h \in V /\ ModeOf(links, h) = m
    BY LeaderOnList
  <2> QED
    BY <1>1, <2>1 DEF Leads
<1>4. r \in C /\ Leads(links, W, al, r, ChainMode(links, r), <<>>)
  <2> DEFINE p == <<>>
  <2>1. Declares(r, r, p) /\ r # NO_ALT
    BY ChainAssumption
  <2>2. \A x \in Chained : Chain(x) = r /\ Path(x) = p => al[x] = StaticNode[x].alter
    BY DEF ChainNodes
  <2> HIDE DEF p
  <2>3. /\ r \in Chained /\ Chain(r) = r
        /\ Elements(r, al) \ {NO_ALT} = {x \in Chained : Chain(x) = r /\ Path(x) = p}
    BY <2>1, <2>2, DeclaredLevel
  <2>4. {x \in Chained : Chain(x) = r /\ Path(x) = p}
          = {x \in W : ModeOf(links, x) = ChainMode(links, r) /\ Path(x) = p}
    BY <1>1 DEF ChainNodes
  <2>5. r \in C
    BY <2>3 DEF ChainNodes
  <2> QED
    BY <2>3, <2>4, <2>5 DEF Leads, p
<1>5. ASSUME NEW x \in V
      PROVE  /\ IsWord(x) => Leads(links, W, al, StaticNode[x].acc, ModeOf(links, x), PathBehind(x))
             /\ \A i \in 1 .. Len(Path(x)) : \E y \in W :
                  IsWord(y) /\ ModeOf(links, y) = ModeOf(links, x)
                  /\ PathBehind(y) = SubSeq(Path(x), 1, i)
  <2>1. IsWord(x) => Leads(links, V, al, StaticNode[x].acc, ModeOf(links, x), PathBehind(x))
    BY DEF Grove
  <2>2. \A i \in 1 .. Len(Path(x)) : \E y \in V :
          IsWord(y) /\ ModeOf(links, y) = ModeOf(links, x) /\ PathBehind(y) = SubSeq(Path(x), 1, i)
    BY DEF Grove
  <2> HIDE DEF W
  <2>3. IsWord(x) => Leads(links, W, al, StaticNode[x].acc, ModeOf(links, x), PathBehind(x))
    BY <1>3, <2>1
  <2>4. V \subseteq W
    BY DEF W
  <2> QED
    BY <2>2, <2>3, <2>4
<1>6. ASSUME NEW x \in C, IsWord(x)
      PROVE  Leads(links, W, al, StaticNode[x].acc, ModeOf(links, x), PathBehind(x))
  <2>1. /\ x \in Chained /\ Chain(x) = r
        /\ \A y \in Chained : Chain(y) = Chain(x) /\ Path(y) = PathBehind(x) =>
             al[y] = StaticNode[y].alter
    BY <1>1 DEF ChainNodes
  <2> DEFINE h == StaticNode[x].acc
  <2>2. /\ h \in Chained /\ Chain(h) = Chain(x)
        /\ Elements(h, al) \ {NO_ALT} = {y \in Chained : Chain(y) = r /\ Path(y) = PathBehind(x)}
    BY <1>6, <2>1, LevelBehind
  <2>3. {y \in Chained : Chain(y) = r /\ Path(y) = PathBehind(x)}
          = {y \in W : ModeOf(links, y) = ModeOf(links, x) /\ Path(y) = PathBehind(x)}
    BY <1>1 DEF ChainNodes
  <2>4. h \in W
    BY <2>1, <2>2 DEF ChainNodes
  <2> QED
    BY <2>2, <2>3, <2>4 DEF Leads
<1>7. ASSUME NEW x \in C, NEW i \in 1 .. Len(Path(x))
      PROVE  \E y \in W : IsWord(y) /\ ModeOf(links, y) = ModeOf(links, x)
                          /\ PathBehind(y) = SubSeq(Path(x), 1, i)
  <2>1. x \in Chained /\ i \in DOMAIN Path(x)
    BY <1>1, PathsTyped
  <2>2. PICK y \in Chained : IsWord(y) /\ Chain(y) = Chain(x) /\ PathBehind(y) = SubSeq(Path(x), 1, i)
    BY <2>1, ChainAssumption
  <2>3. y \in C
    BY <1>1, <2>2 DEF ChainNodes
  <2> QED
    BY <1>1, <2>2, <2>3
<1>8. Grove(links, W, al)
  <2>1. \A x \in W : x \in V \/ x \in C
    OBVIOUS
  <2> HIDE DEF W, C
  <2> QED
    BY <1>5, <1>6, <1>7, <2>1 DEF Grove
<1> QED
  BY <1>2, <1>3, <1>4, <1>8

(* No two nodes of V that belong on one list say the same.                 *)
Distinct(links, V) ==
  \A x, y \in V : Meet(links, x, y) /\ Def[x].keyword = Def[y].keyword => x = y

(* A word that is new on its list brings nothing that is there already,    *)
LEMMA DistinctGrows ==
  ASSUME NEW links, NEW V, V \subseteq Chained, NEW al, Grove(links, V, al), Distinct(links, V),
         NEW add \in Chained,
         \A y \in V : ModeOf(links, y) = ModeOf(links, add) => PathBehind(y) # PathBehind(add)
  PROVE  Distinct(links, V \cup Under(add))
<1>1. ASSUME NEW x \in V, NEW y \in Under(add), Path(x) = Path(y),
             ModeOf(links, x) = ModeOf(links, y), Def[x].keyword = Def[y].keyword
      PROVE  FALSE
  <2>1. ModeOf(links, x) = ModeOf(links, add)
    BY <1>1, UnderSameMode
  <2>2. CASE y = add
    BY <1>1, <2>1, <2>2 DEF PathBehind
  <2>3. CASE y # add
    <3>1. Prefixed(PathBehind(add), Path(x))
      BY <1>1, <2>3 DEF Under
    <3> QED
      BY <2>1, <3>1, NothingBehindMissing
  <2> QED
    BY <2>2, <2>3
<1>2. ASSUME NEW x \in Under(add), NEW y \in Under(add), Path(x) = Path(y),
             Def[x].keyword = Def[y].keyword
      PROVE  x = y
  <2>1. x \in Chained /\ y \in Chained /\ Chain(x) = Chain(y)
    BY DEF Under
  <2> QED
    BY <1>2, <2>1, SameSpot DEF PathBehind
<1> QED
  BY <1>1, <1>2 DEF Distinct, Meet

(* nor does a chain that is the tree of a mode.                            *)
LEMMA DistinctTakesChain ==
  ASSUME NEW links, NEW V, Distinct(links, V), NEW r \in Linkable,
         \A x \in V : ModeOf(links, x) # ChainMode(links, r)
  PROVE  Distinct(links, V \cup ChainNodes(r))
<1>1. \A x \in ChainNodes(r) : x \in Chained /\ Chain(x) = r /\ ModeOf(links, x) = ChainMode(links, r)
  BY DEF ChainNodes, ModeOf
<1>2. ASSUME NEW x \in ChainNodes(r), NEW y \in ChainNodes(r), Path(x) = Path(y),
             Def[x].keyword = Def[y].keyword
      PROVE  x = y
  BY <1>1, <1>2, SameSpot DEF PathBehind
<1> QED
  BY <1>1, <1>2 DEF Distinct, Meet

(* A tree whose pointers are not written stays what it is.                 *)
LEMMA GroveKept ==
  ASSUME NEW links, NEW V, V \subseteq Chained, NEW al \in [Node -> Addr], Ranked(al),
         NEW bl \in [Node -> Addr], Ranked(bl), al[NO_ALT] = NULL,
         \A x \in V \cup {NO_ALT} : bl[x] = al[x]
  PROVE  /\ \A h, m, p : Leads(links, V, al, h, m, p) => Leads(links, V, bl, h, m, p)
         /\ Grove(links, V, al) => Grove(links, V, bl)
<1>1. PICK r : Ranks(r, al)
  BY DEF Ranked
<1>2. \A h, m, p : Leads(links, V, al, h, m, p) => Leads(links, V, bl, h, m, p)
  <2> SUFFICES ASSUME NEW h, NEW m, NEW p, Leads(links, V, al, h, m, p)
               PROVE  Leads(links, V, bl, h, m, p)
    OBVIOUS
  <2>1. h \in Node /\ \A x \in Elements(h, al) : x \in V \cup {NO_ALT}
    BY PathsTyped DEF Leads
  <2>2. Elements(h, bl) = Elements(h, al)
    BY <2>1, UntouchedList
  <2> QED
    BY <2>2 DEF Leads
<1> QED
  BY <1>2 DEF Grove

-----------------------------------------------------------------------------
(* What a merge has still to do.                                           *)

(* The list of alternatives from a node on stays on its level.             *)
LEMMA DeclaredListOnLevel ==
  ASSUME NEW x \in Chained
  PROVE  /\ DeclaredAlter[x] = StaticNode[x].alter
         /\ \A y \in Elements(x, DeclaredAlter) \ {NO_ALT} :
              y \in Chained /\ Chain(y) = Chain(x) /\ Path(y) = Path(x)
         /\ StaticNode[x].alter \in
              {NULL, NO_ALT} \cup {y \in Chained : Chain(y) = Chain(x) /\ Path(y) = Path(x)}
         /\ IsWord(x) => StaticNode[x].alter # NULL
         /\ ~IsWord(x) => StaticNode[x].alter = NULL
<1> DEFINE L == {y \in Chained : Chain(y) = Chain(x) /\ Path(y) = Path(x)}
           S == {NO_ALT} \cup L
<1>1. ASSUME NEW y \in Chained
      PROVE  /\ DeclaredAlter[y] = StaticNode[y].alter
             /\ IsWord(y) => StaticNode[y].alter \in DeclaredAt(Chain(y), Path(y)) \cup {NO_ALT}
             /\ ~IsWord(y) => StaticNode[y].alter = NULL
  <2>1. y \in Static /\ y \in Node /\ Def[y] = StaticNode[y]
    BY PathsTyped, DeclaredPointers
  <2> QED
    BY <2>1, ChainAssumption DEF DeclaredAlter, IsWord
<1>2. \A y \in L : DeclaredAt(Chain(y), Path(y)) = L
  BY PathsTyped DEF DeclaredAt, Chained
<1>3. DeclaredAlter[NO_ALT] = NULL
  <2>1. NO_ALT \in Static
    BY NodeAssumption DEF Static
  <2>2. StaticNode[NO_ALT].alter = NULL
    BY <2>1, ChainAssumption DEF EndType
  <2> QED
    BY <2>1, <2>2, DeclaredPointers DEF DeclaredAlter
<1>4. \A y \in L : StaticNode[y].alter \in S \cup {NULL}
  BY <1>1, <1>2
<1>5. x \in L /\ x \in S /\ x \in Node
  BY PathsTyped
<1>6. \A y \in S : DeclaredAlter[y] \in S \cup {NULL}
  BY <1>1, <1>3, <1>4
<1> HIDE DEF S
<1>7. Elements(x, DeclaredAlter) \subseteq S
  BY <1>5, <1>6, DeclaredAlterRanked, ListInClosedSet
<1>8. IsWord(x) => StaticNode[x].alter # NULL
  <2>1. L \cup {NO_ALT} \subseteq Node
    BY PathsTyped, DeclaredPointers, NodeAssumption DEF Static
  <2> QED
    BY <1>1, <1>2, <1>5, <2>1, NodeAssumption
<1> QED
  BY <1>1, <1>4, <1>5, <1>7, <1>8 DEF S

(* All that is behind a node or one of its next alternatives.              *)
Pending(n) ==
  IF n = NULL THEN {} ELSE UNION {Under(y) : y \in Elements(n, DeclaredAlter) \ {NO_ALT}}

(* Where a list ends, nothing is pending.                                  *)
LEMMA NothingPending == Pending(NULL) = {} /\ Pending(NO_ALT) = {}
<1>1. NO_ALT \in Static /\ NO_ALT \in Node
  BY NodeAssumption, DeclaredPointers DEF Static
<1>2. DeclaredAlter[NO_ALT] = NULL
  <2>1. StaticNode[NO_ALT].alter = NULL
    BY <1>1, ChainAssumption DEF EndType
  <2> QED
    BY <1>1, <2>1, DeclaredPointers DEF DeclaredAlter
<1>3. Elements(NO_ALT, DeclaredAlter) = {NO_ALT}
  BY <1>1, <1>2, DeclaredAlterRanked, ListUnfoldsToSet
<1>4. NO_ALT # NULL
  BY <1>1, NodeAssumption
<1> QED
  BY <1>3, <1>4 DEF Pending

(* The loop over the added list takes one node after the other.            *)
LEMMA PendingUnfolds ==
  ASSUME NEW x \in Chained
  PROVE  /\ Pending(x) = Under(x) \cup Pending(StaticNode[x].alter)
         /\ Under(x) \cap Pending(StaticNode[x].alter) = {}
<1> DEFINE n == StaticNode[x].alter
           E(y) == Elements(y, DeclaredAlter)
<1>1. x \in Node /\ x # NULL /\ x # NO_ALT /\ DeclaredAlter[x] = n
  BY PathsTyped, DeclaredListOnLevel, NodeAssumption
<1>2. E(x) = {x} \cup (IF n = NULL THEN {} ELSE E(n))
  BY <1>1, DeclaredAlterRanked, ListUnfoldsToSet
<1>3. Pending(x) = Under(x) \cup Pending(n)
  BY <1>1, <1>2 DEF Pending
<1>4. ASSUME NEW y \in E(n), n # NULL, y # NO_ALT
      PROVE  Under(x) \cap Under(y) = {}
  <2>1. y \in Chained /\ Chain(y) = Chain(x) /\ Path(y) = Path(x)
    BY <1>2, <1>4, DeclaredListOnLevel
  <2>2. y # x
    <3>1. PICK r : Ranks(r, DeclaredAlter)
      BY DeclaredAlterRanked DEF Ranked
    <3>2. n \in Node
      BY <1>1, <1>4, DeclaredAlterRanked DEF Addr
    <3>3. r[y] <= r[n] /\ r[n] < r[x]
      BY <1>1, <1>4, <3>1, <3>2, DeclaredAlterRanked, ListIsClosed DEF Ranks
    <3>4. r[y] \in Nat /\ r[n] \in Nat /\ r[x] \in Nat
      BY <1>1, <2>1, <3>1, <3>2, PathsTyped DEF Ranks
    <3> QED
      BY <3>3, <3>4
  <2> QED
    BY <2>1, <2>2, UnderApart
<1>5. Under(x) \cap Pending(n) = {}
  BY <1>4 DEF Pending
<1> QED
  BY <1>3, <1>5

(* What follows a word is pending while it is merged.                      *)
LEMMA PendingBehind ==
  ASSUME NEW x \in Chained, IsWord(x)
  PROVE  Pending(StaticNode[x].acc) = Under(x) \ {x}
<1> DEFINE h == StaticNode[x].acc
           L == {y \in Chained : Chain(y) = Chain(x) /\ Path(y) = PathBehind(x)}
<1>0. DeclaredAlter[NO_ALT] = NULL /\ \A y \in Chained : DeclaredAlter[y] = StaticNode[y].alter
  <2>1. NO_ALT \in Static
    BY NodeAssumption DEF Static
  <2>2. StaticNode[NO_ALT].alter = NULL
    BY <2>1, ChainAssumption DEF EndType
  <2> QED
    BY <2>1, <2>2, DeclaredPointers, DeclaredListOnLevel DEF DeclaredAlter
<1>1. h \in Chained /\ Elements(h, DeclaredAlter) \ {NO_ALT} = L
  BY <1>0, DeclaredAlterRanked, LevelBehind
<1>2. h # NULL
  BY <1>1, PathsTyped, NodeAssumption
<1>3. Pending(h) = UNION {Under(y) : y \in L}
  BY <1>1, <1>2 DEF Pending
<1>4. ASSUME NEW y \in L
      PROVE  Under(y) \subseteq Under(x) \ {x}
  <2>1. x \in Under(x)
    BY DEF Under
  <2>2. y \in Under(x) /\ y # x
    BY <2>1, UnderIsClosed
  <2>3. Under(y) \subseteq Under(x)
    BY <2>2, UnderIsClosed
  <2>4. ~Prefixed(PathBehind(y), Path(x))
    <3>1. /\ Len(Path(y)) = Len(Path(x)) + 1 /\ Len(Path(x)) \in Nat /\ Len(Path(y)) \in Nat
          /\ Path(x) \in Seq(Keywords)
      BY PathsTyped
    <3>2. Prefixed(PathBehind(y), Path(x)) => Len(Path(y)) < Len(Path(x))
      BY <3>1, PathBegins
    <3> QED
      BY <3>1, <3>2
  <2> QED
    BY <2>2, <2>3, <2>4 DEF Under
<1>5. ASSUME NEW z \in Under(x), z # x
      PROVE  \E y \in L : z \in Under(y)
  BY <1>5, UnderIsDivided
<1> QED
  BY <1>3, <1>4, <1>5

(* So is a whole chain when it is linked.                                  *)
LEMMA PendingChain ==
  ASSUME NEW r \in Linkable
  PROVE  Pending(r) = ChainNodes(r) /\ r \in ChainNodes(r) /\ Path(r) = <<>>
<1> DEFINE p == <<>>
           L == {y \in Chained : Chain(y) = r /\ Path(y) = p}
<1>0. DeclaredAlter[NO_ALT] = NULL /\ \A y \in Chained : DeclaredAlter[y] = StaticNode[y].alter
  <2>1. NO_ALT \in Static
    BY NodeAssumption DEF Static
  <2>2. StaticNode[NO_ALT].alter = NULL
    BY <2>1, ChainAssumption DEF EndType
  <2> QED
    BY <2>1, <2>2, DeclaredPointers, DeclaredListOnLevel DEF DeclaredAlter
<1>1. Declares(r, r, p) /\ r # NO_ALT /\ Path(r) = <<>>
  BY ChainAssumption
<1> HIDE DEF p
<1>2. r \in Chained /\ Chain(r) = r /\ Elements(r, DeclaredAlter) \ {NO_ALT} = L
  <2>1. \A y \in Chained : Chain(y) = r /\ Path(y) = p => DeclaredAlter[y] = StaticNode[y].alter
    BY <1>0
  <2>2. DeclaredAlter \in [Node -> Addr] /\ Ranked(DeclaredAlter)
    BY DeclaredAlterRanked
  <2>3. Declares(r, r, p) /\ r # NO_ALT /\ r \in Linkable /\ DeclaredAlter[NO_ALT] = NULL
    BY <1>0, <1>1
  <2> QED
    BY <2>1, <2>2, <2>3, DeclaredLevel
<1>3. r # NULL
  BY <1>2, PathsTyped, NodeAssumption
<1>4. Pending(r) = UNION {Under(y) : y \in L}
  BY <1>2, <1>3 DEF Pending
<1>5. \A y \in L : Under(y) \subseteq ChainNodes(r)
  BY DEF Under, ChainNodes
<1>6. ASSUME NEW z \in ChainNodes(r)
      PROVE  \E y \in L : z \in Under(y)
  <2>1. z \in Chained /\ Chain(z) = r /\ Path(z) \in Seq(Keywords) /\ Len(Path(z)) \in Nat
    BY PathsTyped DEF ChainNodes
  <2>2. CASE Path(z) = p
    BY <2>1, <2>2 DEF Under
  <2>3. CASE Path(z) # p
    <3>1. 1 \in DOMAIN Path(z) /\ 1 \in 1 .. Len(Path(z))
      BY <2>1, <2>3 DEF p
    <3>a. \A i \in DOMAIN Path(z) : \E y \in Chained :
            IsWord(y) /\ Chain(y) = Chain(z) /\ PathBehind(y) = SubSeq(Path(z), 1, i)
      BY <2>1, ChainAssumption
    <3>2. PICK y \in Chained : Chain(y) = Chain(z) /\ PathBehind(y) = SubSeq(Path(z), 1, 1)
      BY <3>1, <3>a
    <3>3. Len(PathBehind(y)) = 1 /\ Prefixed(PathBehind(y), Path(z))
      BY <2>1, <3>1, <3>2, CutPath
    <3>4. Path(y) = p
      BY <3>3, PathsTyped, EmptySeq DEF p
    <3> QED
      BY <2>1, <3>2, <3>3, <3>4 DEF Under
  <2> QED
    BY <2>2, <2>3
<1>7. r \in ChainNodes(r)
  BY <1>2 DEF ChainNodes
<1> QED
  BY <1>1, <1>4, <1>5, <1>6, <1>7

-----------------------------------------------------------------------------
(* The links.                                                              *)

LEMMA LinkedRoots ==
  ASSUME NEW file \in ExampleLinks, NEW i \in 1 .. Len(LinksWith(file))
  PROVE  /\ i \in DOMAIN LinksWith(file)
         /\ LinksWith(file)[i].root \in Linkable /\ LinksWith(file)[i].mode \in Mode
         /\ ChainMode(LinksWith(file), LinksWith(file)[i].root) = LinksWith(file)[i].mode
<1> DEFINE R == [root : DOMAIN StaticNode, mode : Mode]
           links == LinksWith(file)
           D == DefaultLinks
           DD == D \o file
<1>1. D \in Seq(R) /\ file \in Seq(R)
  BY NodeAssumption DEF LinkSeq
<1>2. /\ \A j \in DOMAIN D : D[j].root \in Linkable /\ D[j].mode \in Mode
      /\ \A j \in DOMAIN file : file[j].root \in Linkable /\ file[j].mode \in Mode
  <2>1. \A j \in DOMAIN D : D[j].root \in Linkable
    BY DEF Linkable
  <2>2. \A j \in DOMAIN file : file[j].root \in Linkable
    BY DEF Linkable
  <2>3. \A j \in 1 .. Len(D) : D[j] \in R
    BY <1>1, ElementOfSeq
  <2>4. \A j \in 1 .. Len(file) : file[j] \in R
    BY <1>1, ElementOfSeq
  <2>5. DOMAIN D = 1 .. Len(D) /\ DOMAIN file = 1 .. Len(file)
    BY <1>1
  <2> QED
    BY <2>1, <2>2, <2>3, <2>4, <2>5
<1> HIDE DEF R, D
<1>3. /\ DD \in Seq(R) /\ Len(DD) = Len(D) + Len(file)
      /\ \A j \in 1 .. Len(D) + Len(file) :
           DD[j] = IF j <= Len(D) THEN D[j] ELSE file[j - Len(D)]
  BY <1>1, ConcatProperties
<1>4. Len(D) \in Nat /\ Len(file) \in Nat /\ DOMAIN D = 1 .. Len(D) /\ DOMAIN file = 1 .. Len(file)
  BY <1>1
<1>5. \A j \in 1 .. Len(DD) : DD[j].root \in Linkable /\ DD[j].mode \in Mode
  <2> TAKE j \in 1 .. Len(DD)
  <2>1. CASE j <= Len(D)
    BY <1>2, <1>3, <1>4, <2>1
  <2>2. CASE j > Len(D)
    <3>1. j - Len(D) \in DOMAIN file
      BY <1>3, <1>4, <2>2
    <3>2. DD[j] = file[j - Len(D)]
      BY <1>3, <1>4, <2>2
    <3> QED
      BY <1>2, <3>1, <3>2
  <2> QED
    BY <1>3, <1>4, <2>1, <2>2
<1>a. links = DD \o file
  BY DEF LinksWith, D
<1> HIDE DEF DD, links
<1>b. /\ DD \o file \in Seq(R) /\ Len(DD \o file) = Len(DD) + Len(file)
      /\ \A j \in 1 .. Len(DD) + Len(file) :
           (DD \o file)[j] = IF j <= Len(DD) THEN DD[j] ELSE file[j - Len(DD)]
  <2>1. DD \in Seq(R) /\ file \in Seq(R)
    BY <1>1, <1>3
  <2> QED
    BY <2>1, ConcatProperties
<1>6. /\ links \in Seq(R) /\ Len(links) = Len(DD) + Len(file)
      /\ \A j \in 1 .. Len(DD) + Len(file) :
           links[j] = IF j <= Len(DD) THEN DD[j] ELSE file[j - Len(DD)]
  BY <1>a, <1>b
<1>7. Len(DD) \in Nat
  BY <1>3
<1>8. i \in 1 .. Len(links) /\ i \in DOMAIN links
  BY <1>6 DEF links
<1>9. links[i].root \in Linkable /\ links[i].mode \in Mode
  <2>1. CASE i <= Len(DD)
    BY <1>5, <1>6, <1>7, <1>8, <2>1
  <2>2. CASE i > Len(DD)
    <3>1. i - Len(DD) \in DOMAIN file
      BY <1>4, <1>6, <1>7, <1>8, <2>2
    <3>2. links[i] = file[i - Len(DD)]
      BY <1>4, <1>6, <1>7, <1>8, <2>2
    <3> QED
      BY <1>2, <3>1, <3>2
  <2> QED
    BY <1>7, <1>8, <2>1, <2>2
<1>10. \A j \in DOMAIN links : links[j].root = links[i].root => links[j].mode = links[i].mode
  BY <1>8, MergeAssumption DEF links
<1>11. ChainMode(links, links[i].root) = links[i].mode
  BY <1>8, <1>9, <1>10 DEF ChainMode
<1> QED
  BY <1>8, <1>9, <1>11 DEF links

(* Nothing is where a command ends but its END node.                       *)
LEMMA EndsAlone ==
  ASSUME NEW file \in ExampleLinks, Apart(LinksWith(file)), NEW u \in Nat, u <= Len(LinksWith(file)),
         NEW n \in LinkedBy(LinksWith(file), u), NEW k \in LinkedBy(LinksWith(file), u),
         Meet(LinksWith(file), n, k), ~IsWord(n)
  PROVE  k = n
<1> DEFINE links == LinksWith(file)
<1>1. Len(links) \in Nat
  BY NodeAssumption DEF LinksWith, LinkSeq
<1>2. n \in LinkedBy(links, Len(links)) /\ k \in LinkedBy(links, Len(links))
  BY <1>1 DEF LinkedBy
<1>3. n \in Chained
  BY DEF LinkedBy
<1>4. Type[n] = "END"
  BY <1>3, ChainAssumption DEF IsWord, EndType, Chained
<1> QED
  BY <1>2, <1>4 DEF Apart

(* is_node_same() tells apart what stands on one list.                     *)
LEMMA SameWords ==
  ASSUME NEW n \in Chained, NEW k \in Chained, IsWord(n)
  PROVE  /\ IsNodeSame(k, n) => IsWord(k) /\ Def[k].keyword = Def[n].keyword
         /\ IsWord(k) /\ Def[k].keyword = Def[n].keyword => IsNodeSame(k, n)
<1>1. /\ Type[n] \in {"KEYWORD", "STRING"} /\ (Type[n] = "STRING" <=> Def[n].keyword = "WORD")
      /\ Type[k] \in {"KEYWORD", "STRING", "END"}
      /\ IsWord(k) => (Type[k] = "STRING" <=> Def[k].keyword = "WORD")
  BY ChainAssumption DEF IsWord, EndType
<1> QED
  BY <1>1 DEF IsNodeSame, IsWord, EndType

-----------------------------------------------------------------------------
(* The trees at every step of start-up.                                    *)

(* The nodes of the chains that were taken so far.                         *)
Home == LinkedBy(Links, link - 1)

(* T is what the trees of the modes are made of, first the first node that
   was linked to each.                                                     *)
Planted(T, first) ==
  /\ T \subseteq Home
  /\ Grove(Links, T, alter) /\ Distinct(Links, T)
  /\ \A m \in Mode : IF first[m] = NULL THEN \A x \in T : ModeOf(Links, x) # m
                                        ELSE Leads(Links, T, alter, first[m], m, <<>>)

(* Only nodes of the trees were re-linked, each to one that meets it.      *)
Levelled(T) ==
  /\ \A n \in Static \ T : alter[n] = StaticNode[n].alter
  /\ \A n \in Static : Type[n] \in EndType => alter[n] = NULL
  /\ \A x \in Home : IsWord(x) => \/ alter[x] = NO_ALT
                                  \/ alter[x] \in Home /\ Meet(Links, alter[x], x)

(* A call of merge_cli_tree() adds what belongs there to a list of the tree. *)
Merges(T, f) ==
  /\ Leads(Links, T, alter, f.org, ModeOf(Links, f.org), Path(f.org))
  /\ \/ f.node = NULL
     \/ f.node = NO_ALT /\ IsWord(f.org)
     \/ f.node \in Home /\ Meet(Links, f.node, f.org)

(* All the calls on the stack do.                                          *)
Merging(T) == \A i \in 1 .. Len(stack) : stack[i].org # NULL => Merges(T, stack[i])

(* While a chain is merged for the first time, what is not in the tree is
   pending in exactly one call.                                            *)
Unmerged(T) ==
  /\ \A i \in 1 .. Len(stack) : Pending(stack[i].node) \cap T = {}
  /\ \A i, j \in 1 .. Len(stack) :
       i # j => Pending(stack[i].node) \cap Pending(stack[j].node) = {}
  /\ \A e \in Home : ~IsWord(e) => \/ e \in T
                                   \/ \E i \in 1 .. Len(stack) : e \in Pending(stack[i].node)

(* Every command has its end in the tree.                                  *)
Merged(T) == \A e \in Home : ~IsWord(e) => e \in T

(* The built-in commands lead the list of mode m, which was led by n:
   without the prefixes, and with them.                                    *)
LedByExit(m, n) ==
  /\ root[m] = Clone[m]["node_exit"]
  /\ acc[Clone[m]["node_exit"]] = "node_exit_end" /\ acc[Clone[m]["node_end"]] = "node_end_end"
  /\ alter[Clone[m]["node_exit"]] = Clone[m]["node_end"]
  /\ alter[Clone[m]["node_end"]] = n

LedByAll(m, n) ==
  /\ n # NULL /\ IsCliModeInConfig(m)
  /\ root[m] = Clone[m]["node_exit"]
  /\ acc[Clone[m]["node_exit"]] = "node_exit_end" /\ acc[Clone[m]["node_end"]] = "node_end_end"
  /\ acc[Clone[m]["node_no"]] = n /\ acc[Clone[m]["node_default"]] = n
  /\ alter[Clone[m]["node_exit"]] = Clone[m]["node_end"]
  /\ alter[Clone[m]["node_end"]] = Clone[m]["node_no"]
  /\ alter[Clone[m]["node_no"]] = Clone[m]["node_default"]
  /\ alter[Clone[m]["node_default"]] = n

(* The list of each mode begins with what was linked, or with built-in
   commands in front of it.                                                *)
Tops(first) ==
  /\ \A m \in Mode : root[m] = first[m] \/ (m # "exec" /\ (LedByExit(m, first[m]) \/ LedByAll(m, first[m])))
  /\ \A i \in buildin .. Len(CliModeDefs) : root[CliModeDefs[i]] = first[CliModeDefs[i]]
  /\ stage \in {"start", "links", "failed"} => \A m \in Mode : root[m] = first[m]

(* The trees, while the chains are merged and afterwards.                  *)
Shape(T, first) ==
  Planted(T, first) /\ Levelled(T) /\ Merging(T) /\ (Merged(T) \/ Unmerged(T)) /\ Tops(first)

-----------------------------------------------------------------------------

LEMMA ShapeInit == TreeInit => Shape({}, [m \in Mode |-> NULL])
<1> SUFFICES ASSUME TreeInit
             PROVE  Shape({}, [m \in Mode |-> NULL])
  OBVIOUS
<1>1. Home = {} /\ Len(stack) = 0
  BY DEF TreeInit, Home, LinkedBy
<1>2. \A n \in Static : alter[n] = StaticNode[n].alter
  BY DeclaredPointers DEF TreeInit
<1>3. \A n \in Static : Type[n] \in EndType => StaticNode[n].alter = NULL
  BY ChainAssumption
<1>4. Levelled({})
  BY <1>1, <1>2, <1>3 DEF Levelled
<1>5. Planted({}, [m \in Mode |-> NULL])
  BY <1>1 DEF Planted, Grove, Distinct
<1>6. Tops([m \in Mode |-> NULL])
  BY DEF Tops, TreeInit, CliModeDefs, Mode
<1> QED
  BY <1>1, <1>4, <1>5, <1>6 DEF Shape, Merging, Merged

(* What was linked is chained, and declared to one of the modes.           *)
LEMMA HomeTyped ==
  ASSUME TreeInv
  PROVE  /\ example \in ExampleLinks /\ Links = LinksWith(example)
         /\ link \in Nat \ {0} /\ link - 1 \in Nat
         /\ link - 1 <= Len(Links) /\ Len(Links) \in Nat
         /\ Home \subseteq Chained /\ NO_ALT \notin Chained
         /\ alter \in [Node -> Addr] /\ Ranked(alter)
         /\ \A n \in Static : n \in Node /\ acc[n] = StaticNode[n].acc
BY LinksTyped, DeclaredPointers, PathsTyped
   DEF TreeInv, TreeTypeOK, Addr, Links, Home, LinkedBy, StaticKept

(* node_dead is the last node of every list.                               *)
LEMMA DeadIsLast ==
  ASSUME NEW T, T \subseteq Chained, Levelled(T)
  PROVE  alter[NO_ALT] = NULL /\ NO_ALT \in Static /\ NO_ALT \notin T
<1>1. NO_ALT \in Static
  BY NodeAssumption DEF Static
<1>2. StaticNode[NO_ALT].alter = NULL
  BY <1>1, ChainAssumption DEF EndType
<1> QED
  BY <1>1, <1>2, PathsTyped DEF Levelled

(* A list that begins with a word has node_dead at its end.                *)
LEMMA ListEndsDead ==
  ASSUME TreeInv, EndsApart, NEW T, T \subseteq Chained, Levelled(T), NEW x \in Home, IsWord(x)
  PROVE  NO_ALT \in Elements(x, alter)
<1> DEFINE S == {y \in Home : IsWord(y)} \cup {NO_ALT}
<1>1. ASSUME NEW y \in Home, IsWord(y)
      PROVE  alter[y] \in S /\ alter[y] # NULL
  <2>1. CASE alter[y] = NO_ALT
    BY <2>1, DeadIsLast, NodeAssumption, DeclaredPointers
  <2>2. CASE alter[y] \in Home /\ Meet(Links, alter[y], y)
    <3>1. IsWord(alter[y])
      <4>1. ~IsWord(alter[y]) => y = alter[y]
        BY <2>2, HomeTyped, EndsAlone DEF Home, EndsApart
      <4> QED
        BY <1>1, <4>1
    <3> QED
      BY <2>2, <3>1, HomeTyped, PathsTyped, NodeAssumption
  <2> QED
    BY <1>1, <2>1, <2>2 DEF Levelled
<1>2. \A y \in S : alter[y] \in S \cup {NULL}
  BY <1>1, DeadIsLast
<1>3. x \in S /\ x \in Node
  BY HomeTyped, PathsTyped
<1> HIDE DEF S
<1>4. Elements(x, alter) \subseteq S
  BY <1>2, <1>3, HomeTyped, ListInClosedSet
<1> DEFINE s == ListFrom(x, alter)
<1>5. Len(s) \in 1 .. Len(s) /\ Last(s) = s[Len(s)]
  BY <1>3, HomeTyped, ListFromIsList
<1>6. alter[s[Len(s)]] = NULL
  <2>1. PICK r : Ranks(r, alter)
    BY HomeTyped DEF Ranked
  <2>2. ListEnds(x, alter)
    BY <1>3, <2>1, HomeTyped, RankedListEnds
  <2> QED
    BY <1>5, <2>2 DEF ListEnds
<1>7. s[Len(s)] \in Elements(x, alter)
  BY <1>5 DEF Elements
<1> QED
  BY <1>1, <1>4, <1>6, <1>7 DEF S

-----------------------------------------------------------------------------

LEMMA ShapeStart ==
  ASSUME TreeInv, NEW T, NEW first, Shape(T, first),
         (\E ok \in BOOLEAN : InitCliMode(ok)) \/ LinksDone
           \/ SkipBuildinNodes \/ InitCliTreeReturns \/ UNCHANGED treeVars
  PROVE  Shape(T, first)'
<1>1. UNCHANGED <<acc, alter, root, example, link, stack>>
  BY DEF InitCliMode, LinksDone, SkipBuildinNodes, InitCliTreeReturns, treeVars
<1>2. \A i \in buildin' .. Len(CliModeDefs) : i \in buildin .. Len(CliModeDefs)
  BY DEF InitCliMode, LinksDone, SkipBuildinNodes, InitCliTreeReturns, treeVars, TreeInv,
         TreeTypeOK, CliModeDefs
<1>3. stage' \in {"start", "links", "failed"} => stage \in {"start", "links", "failed"}
  BY DEF InitCliMode, LinksDone, SkipBuildinNodes, InitCliTreeReturns, treeVars, TreeInv,
         TreeTypeOK
<1>4. Links' = Links /\ Home' = Home
  BY <1>1 DEF Links, Home
<1>5. Planted(T, first)'
  BY <1>1, <1>4 DEF Shape, Planted
<1>6. Levelled(T)'
  BY <1>1, <1>4 DEF Shape, Levelled
<1>7. Merging(T)'
  BY <1>1, <1>4 DEF Shape, Merging, Merges
<1>8. Merged(T)' \/ Unmerged(T)'
  BY <1>1, <1>4 DEF Shape, Merged, Unmerged
<1>9. Tops(first)'
  BY <1>1, <1>2, <1>3 DEF Shape, Tops, LedByExit, LedByAll
<1> QED
  BY <1>5, <1>6, <1>7, <1>8, <1>9 DEF Shape

(* What the next link takes.                                               *)
LEMMA LinkTakes ==
  ASSUME TreeInv, link <= Len(Links), link' = link + 1, example' = example
  PROVE  LET r == Links[link].root IN
         /\ Links' = Links /\ Home' = Home \cup ChainNodes(r)
         /\ r \in Linkable /\ r \in ChainNodes(r) /\ Path(r) = <<>> /\ Links[link].mode \in Mode
         /\ ChainMode(Links, r) = Links[link].mode /\ r \in Addr /\ r # NULL
         /\ \A x \in ChainNodes(r) : x \in Chained /\ ModeOf(Links, x) = Links[link].mode
         /\ ChainNodes(r) \subseteq Home \/ ChainNodes(r) \cap Home = {}
<1> DEFINE r == Links[link].root
<1>1. /\ link \in 1 .. Len(LinksWith(example)) /\ Links' = Links /\ example \in ExampleLinks
      /\ Links = LinksWith(example)
  BY HomeTyped DEF Links
<1>2. /\ r \in Linkable /\ Links[link].mode \in Mode
      /\ ChainMode(Links, r) = Links[link].mode
  BY <1>1, LinkedRoots
<1>3. r \in ChainNodes(r) /\ Path(r) = <<>>
  BY <1>2, PendingChain
<1>4. \A x \in ChainNodes(r) : x \in Chained /\ ModeOf(Links, x) = Links[link].mode
  BY <1>2 DEF ChainNodes, ModeOf
<1>5. r \in Addr /\ r # NULL
  BY <1>3, <1>4, PathsTyped, NodeAssumption DEF Addr
<1>6. link \in Nat /\ link - 1 \in Nat /\ link' - 1 = link
  BY HomeTyped
<1>7. Home' = Home \cup ChainNodes(r)
  <2>1. \A i : i \in 1 .. link <=> i \in 1 .. link - 1 \/ i = link
    BY <1>1, <1>6
  <2>2. Home' = {x \in Chained : \E i \in 1 .. link : Links[i].root = Chain(x)}
    BY <1>1, <1>6 DEF Home, LinkedBy
  <2> QED
    BY <2>1, <2>2 DEF Home, LinkedBy, ChainNodes
<1>8. ChainNodes(r) \subseteq Home \/ ChainNodes(r) \cap Home = {}
  BY DEF Home, LinkedBy, ChainNodes
<1> QED
  BY <1>1, <1>2, <1>3, <1>4, <1>5, <1>7, <1>8

(* link_one_root_node(): the first chain of a mode becomes its tree.       *)
LEMMA ShapeLinkRoot ==
  ASSUME TreeInv, NEW T, NEW first \in [Mode -> Addr], Shape(T, first), LinkRoot
  PROVE  \E U \in SUBSET Chained, g \in [Mode -> Addr] : T \subseteq U /\ Shape(U, g)'
<1> DEFINE r == Links[link].root
           m == Links[link].mode
           C == ChainNodes(r)
<1>0. PICK U, g : U = T \cup C /\ g = [first EXCEPT ![m] = r]
  OBVIOUS
<1>1. /\ UNCHANGED <<acc, alter, example, stage, stack, buildin>>
      /\ stage = "links" /\ stack = <<>> /\ link <= Len(Links) /\ link' = link + 1
      /\ root[m] = NULL /\ root' = [root EXCEPT ![m] = r]
  BY DEF LinkRoot
<1>2. /\ Links' = Links /\ Home' = Home \cup C /\ r \in Linkable /\ m \in Mode
      /\ ChainMode(Links, r) = m /\ r \in Addr /\ r # NULL /\ C \subseteq Chained
      /\ \A x \in C : ModeOf(Links, x) = m
  BY <1>1, LinkTakes
<1>3. T \subseteq Home /\ T \subseteq Chained /\ alter[NO_ALT] = NULL
  BY HomeTyped, DeadIsLast DEF Shape, Planted
<1>4. first[m] = NULL /\ \A k \in Mode : root[k] = first[k]
  BY <1>1, <1>2 DEF Shape, Tops
<1>5. \A x \in T : ModeOf(Links, x) # m
  BY <1>2, <1>4 DEF Shape, Planted
<1>6. \A x \in C : alter[x] = StaticNode[x].alter
  BY <1>2, <1>5, PathsTyped DEF Shape, Levelled
<1> HIDE DEF C, r, m
<1>7. /\ Grove(Links, U, alter) /\ Leads(Links, U, alter, r, m, <<>>)
      /\ \A h, k, p : Leads(Links, T, alter, h, k, p) => Leads(Links, U, alter, h, k, p)
  BY <1>0, <1>2, <1>3, <1>5, <1>6, HomeTyped, GroveTakesChain DEF Shape, Planted, C
<1>8. g \in [Mode -> Addr] /\ g[m] = r /\ \A k \in Mode : k # m => g[k] = first[k]
  BY <1>0, <1>2
<1>9. U \subseteq Home' /\ U \subseteq Chained /\ T \subseteq U
  BY <1>0, <1>2, <1>3
<1>10. Planted(U, g)'
  <2>1. ASSUME NEW k \in Mode
        PROVE  IF g[k] = NULL THEN \A x \in U : ModeOf(Links, x) # k
                              ELSE Leads(Links, U, alter, g[k], k, <<>>)
    <3>1. CASE k = m
      BY <1>2, <1>7, <1>8, <3>1
    <3>2. CASE k # m
      <4>1. IF first[k] = NULL THEN \A x \in T : ModeOf(Links, x) # k
                               ELSE Leads(Links, T, alter, first[k], k, <<>>)
        BY DEF Shape, Planted
      <4>2. g[k] = first[k]
        BY <1>8, <3>2
      <4>3. CASE first[k] = NULL
        BY <1>0, <1>2, <3>2, <4>1, <4>2, <4>3
      <4>4. CASE first[k] # NULL
        BY <1>7, <4>1, <4>2, <4>4
      <4> QED
        BY <4>3, <4>4
    <3> QED
      BY <3>1, <3>2
  <2>2. Distinct(Links, U)
    BY <1>0, <1>2, <1>5, DistinctTakesChain DEF Shape, Planted, C
  <2> QED
    BY <1>1, <1>2, <1>7, <1>9, <2>1, <2>2 DEF Planted
<1>11. Levelled(U)'
  <2>1. ASSUME NEW x \in C, IsWord(x)
        PROVE  alter[x] = NO_ALT \/ (alter[x] \in C /\ Meet(Links, alter[x], x))
    <3>1. /\ x \in Chained /\ Chain(x) = r
          /\ alter[x] = NO_ALT \/ (alter[x] \in Chained /\ Chain(alter[x]) = Chain(x)
                                   /\ Path(alter[x]) = Path(x))
      BY <1>6, <2>1, DeclaredListOnLevel DEF C, ChainNodes
    <3> QED
      BY <3>1 DEF C, ChainNodes, Meet, ModeOf
  <2>2. \A x \in Home : IsWord(x) => alter[x] = NO_ALT \/ (alter[x] \in Home /\ Meet(Links, alter[x], x))
    BY DEF Shape, Levelled
  <2> QED
    BY <1>0, <1>1, <1>2, <1>9, <2>1, <2>2 DEF Shape, Levelled
<1>12. Merging(U)'
  BY <1>1 DEF Merging
<1>13. Merged(U)'
  <2>1. Merged(T)
    BY <1>1 DEF Shape, Unmerged, Merged
  <2> QED
    BY <1>0, <1>2, <2>1 DEF Merged
<1>14. Tops(g)'
  <2>1. \A k \in Mode : root'[k] = g[k]
    BY <1>1, <1>2, <1>4, <1>8 DEF TreeInv, TreeTypeOK
  <2>2. \A i \in 1 .. Len(CliModeDefs) : CliModeDefs[i] \in Mode
    BY DEF CliModeDefs, Mode
  <2>3. \A i \in buildin .. Len(CliModeDefs) : i \in 1 .. Len(CliModeDefs)
    BY DEF TreeInv, TreeTypeOK, CliModeDefs
  <2> QED
    BY <1>1, <2>1, <2>2, <2>3 DEF Tops
<1> QED
  BY <1>8, <1>9, <1>10, <1>11, <1>12, <1>13, <1>14 DEF Shape

(* link_one_root_node(): a further chain starts a merge, which has to add all
   of it, or nothing if the chain was taken before.                        *)
LEMMA ShapeLinkMerge ==
  ASSUME TreeInv, NEW T, NEW first \in [Mode -> Addr], Shape(T, first), LinkMerge
  PROVE  Shape(T, first)'
<1> DEFINE r == Links[link].root
           m == Links[link].mode
           C == ChainNodes(r)
<1>0. PICK f : f = [org |-> root[m], node |-> r]
  OBVIOUS
<1>1. /\ UNCHANGED <<acc, alter, root, example, stage, buildin>>
      /\ stage = "links" /\ stack = <<>> /\ link <= Len(Links) /\ link' = link + 1
      /\ root[m] # NULL /\ stack' = <<f>>
  BY <1>0 DEF LinkMerge
<1>2. /\ Links' = Links /\ Home' = Home \cup C /\ r \in Linkable /\ m \in Mode
      /\ ChainMode(Links, r) = m /\ r \in C /\ r # NULL /\ C \subseteq Chained /\ Path(r) = <<>>
      /\ \A x \in C : ModeOf(Links, x) = m
      /\ C \subseteq Home \/ C \cap Home = {}
  BY <1>1, LinkTakes
<1>3. T \subseteq Home /\ T \subseteq Chained
  BY HomeTyped DEF Shape, Planted
<1>4. root[m] = first[m] /\ Leads(Links, T, alter, root[m], m, <<>>)
  BY <1>1, <1>2 DEF Shape, Tops, Planted
<1>5. root[m] \in T /\ ModeOf(Links, root[m]) = m /\ Path(root[m]) = <<>>
  BY <1>3, <1>4, HomeTyped, LeaderOnList
<1>6. Pending(r) = C
  BY <1>2, PendingChain
<1> HIDE DEF C, r, m
<1>7. Planted(T, first)'
  BY <1>1, <1>2, <1>3 DEF Shape, Planted
<1>8. Levelled(T)'
  <2>1. ASSUME NEW x \in Home', IsWord(x)
        PROVE  alter[x] = NO_ALT \/ (alter[x] \in Home' /\ Meet(Links, alter[x], x))
    <3>1. CASE x \in Home
      BY <1>2, <2>1, <3>1 DEF Shape, Levelled
    <3>2. CASE x \notin Home
      <4>1. x \in C /\ x \in Chained /\ x \notin T
        BY <1>2, <1>3, <3>2
      <4>2. alter[x] = StaticNode[x].alter
        BY <4>1, PathsTyped DEF Shape, Levelled
      <4>3. /\ Chain(x) = r
            /\ alter[x] = NO_ALT \/ (alter[x] \in Chained /\ Chain(alter[x]) = Chain(x)
                                     /\ Path(alter[x]) = Path(x))
        BY <2>1, <4>1, <4>2, DeclaredListOnLevel DEF C, ChainNodes
      <4> QED
        BY <1>2, <4>3 DEF C, ChainNodes, Meet, ModeOf
    <3> QED
      BY <3>1, <3>2
  <2> QED
    BY <1>1, <1>2, <2>1 DEF Shape, Levelled
<1>9. Merging(T)'
  <2>1. Meet(Links, r, root[m]) /\ r \in Home'
    BY <1>2, <1>5 DEF Meet
  <2>2. Len(stack') = 1 /\ stack'[1] = f
    BY <1>1
  <2>3. Merges(T, f)'
    BY <1>0, <1>1, <1>2, <1>4, <1>5, <2>1 DEF Merges
  <2> QED
    BY <2>2, <2>3 DEF Merging
<1>10. Merged(T)' \/ Unmerged(T)'
  <2>1. Merged(T)
    BY <1>1 DEF Shape, Unmerged, Merged
  <2>2. CASE C \subseteq Home
    BY <1>2, <2>1, <2>2 DEF Merged
  <2>3. CASE C \cap Home = {}
    <3>1. Len(stack') = 1 /\ stack'[1].node = r
      BY <1>0, <1>1
    <3>2. Unmerged(T)'
      BY <1>2, <1>3, <1>6, <2>1, <2>3, <3>1 DEF Unmerged, Merged
    <3> QED
      BY <3>2
  <2> QED
    BY <1>2, <2>2, <2>3
<1>11. Tops(first)'
  BY <1>1 DEF Shape, Tops, LedByExit, LedByAll
<1> QED
  BY <1>7, <1>8, <1>9, <1>10, <1>11 DEF Shape

(* What the call on top of the stack works on.                             *)
LEMMA TopMerges ==
  ASSUME TreeInv, EndsApart, NEW T, NEW first, Shape(T, first), stack # <<>>, Top.node # NULL
  PROVE  /\ Len(stack) \in Nat /\ Len(stack) \in 1 .. Len(stack) /\ Top = stack[Len(stack)]
         /\ Top.org # NULL /\ Merges(T, Top)
         /\ Top.org \in T /\ Top.org \in Home /\ Top.org \in Chained /\ Top.org \in Node
         /\ Top.node # NO_ALT => /\ Top.node \in Home /\ Top.node \in Chained
                                 /\ Meet(Links, Top.node, Top.org)
         /\ ~IsWord(Top.org) => Top.node = Top.org
<1>1. Top \in Calls /\ Len(stack) \in Nat /\ Len(stack) \in 1 .. Len(stack)
  BY TopOfStack, LenProperties, EmptySeq DEF TreeInv, MergesStatic
<1>2. Top = stack[Len(stack)] /\ Top.org # NULL
  BY <1>1 DEF Top, Last, Calls
<1>3. Merges(T, Top)
  BY <1>1, <1>2 DEF Shape, Merging
<1>4. T \subseteq Home /\ Home \subseteq Chained
  BY HomeTyped DEF Shape, Planted
<1>5. Top.org \in T /\ Top.org \in Home /\ Top.org \in Chained /\ Top.org \in Node
  BY <1>3, <1>4, PathsTyped DEF Merges, Leads
<1>6. Top.node # NO_ALT => Top.node \in Home /\ Top.node \in Chained /\ Meet(Links, Top.node, Top.org)
  BY <1>3, <1>4 DEF Merges
<1>7. ~IsWord(Top.org) => Top.node = Top.org
  <2> SUFFICES ASSUME ~IsWord(Top.org)
               PROVE  Top.node = Top.org
    OBVIOUS
  <2>1. Top.node \in Home /\ Meet(Links, Top.org, Top.node)
    BY <1>3 DEF Merges, Meet
  <2> DEFINE n == Top.org
             k == Top.node
  <2>2. n \in Home /\ k \in Home /\ Meet(Links, n, k) /\ ~IsWord(n)
    BY <1>5, <2>1
  <2> HIDE DEF n, k
  <2>3. k = n
    BY <2>2, HomeTyped, EndsAlone DEF Home, EndsApart
  <2> QED
    BY <2>3 DEF n, k
<1> QED
  BY <1>1, <1>2, <1>3, <1>5, <1>6, <1>7

(* The calls below the top.                                                *)
LEMMA BelowTop ==
  ASSUME TreeInv, stack # <<>>
  PROVE  /\ Len(Below) = Len(stack) - 1 /\ Below \in Seq(Calls)
         /\ \A i \in 1 .. Len(stack) - 1 : Below[i] = stack[i]
<1>1. stack \in Seq(Calls) /\ Below \in Seq(Calls)
  BY TopOfStack DEF TreeInv, MergesStatic
<1>2. Len(stack) \in Nat /\ Len(stack) >= 1
  BY <1>1, LenProperties, EmptySeq
<1> DEFINE l == Len(stack) - 1
<1>3. l \in Nat /\ l \in Int /\ 1 \in Int /\ \A i \in 1 .. l : stack[i] \in Calls
  BY <1>1, <1>2, ElementOfSeq
<1> HIDE DEF l
<1>4. /\ Len(SubSeq(stack, 1, l)) = IF 1 <= l THEN l - 1 + 1 ELSE 0
      /\ \A i \in 1 .. l - 1 + 1 : SubSeq(stack, 1, l)[i] = stack[1 + i - 1]
  BY <1>3, SubSeqProperties
<1>5. Below = SubSeq(stack, 1, l)
  BY DEF Below, Front, l
<1>6. Len(Below) = l /\ \A i \in 1 .. l : Below[i] = stack[i]
  <2>1. \A i \in 1 .. l : i \in 1 .. l - 1 + 1 /\ 1 + i - 1 = i
    BY <1>3
  <2>2. \A i \in 1 .. l : SubSeq(stack, 1, l)[i] = stack[i]
    BY <1>4, <2>1
  <2> QED
    BY <1>3, <1>4, <1>5, <2>2
<1> QED
  BY <1>1, <1>6 DEF l

(* merge_cli_tree() returns at the end of the list it adds: nothing is
   pending in it.                                                          *)
LEMMA ShapeReturns ==
  ASSUME TreeInv, EndsApart, NEW T, NEW first, Shape(T, first), MergeReturns
  PROVE  Shape(T, first)'
<1>1. /\ UNCHANGED <<acc, alter, root, example, stage, link, buildin>>
      /\ stack # <<>> /\ stack' = Below /\ (Top.node # NULL => Type[Top.node] = "END")
  BY DEF MergeReturns
<1>2. Links' = Links /\ Home' = Home
  BY <1>1 DEF Links, Home
<1>3. /\ Len(stack) \in Nat /\ Len(stack) \in 1 .. Len(stack) /\ Len(stack') = Len(stack) - 1
      /\ \A i \in 1 .. Len(stack') : i \in 1 .. Len(stack) /\ stack'[i] = stack[i]
      /\ Top = stack[Len(stack)]
  <2>1. stack \in Seq(Calls)
    BY DEF TreeInv, MergesStatic
  <2>2. Len(stack) \in Nat /\ Len(stack) \in 1 .. Len(stack)
    BY <1>1, <2>1, LenProperties, EmptySeq
  <2>3. /\ Len(Below) = Len(stack) - 1
        /\ \A i \in 1 .. Len(stack) - 1 : Below[i] = stack[i]
    BY <1>1, BelowTop
  <2> QED
    BY <1>1, <2>2, <2>3 DEF Top, Last
<1>4. Planted(T, first)' /\ Levelled(T)' /\ Tops(first)'
  BY <1>1, <1>2 DEF Shape, Planted, Levelled, Tops, LedByExit, LedByAll
<1>5. Merging(T)'
  BY <1>1, <1>2, <1>3 DEF Shape, Merging, Merges
<1>6. CASE Merged(T)
  BY <1>1, <1>2, <1>4, <1>5, <1>6 DEF Shape, Merged
<1>7. CASE Unmerged(T)
  <2>1. Pending(Top.node) = {}
    <3>1. CASE Top.node = NULL
      BY <3>1, NothingPending
    <3>2. CASE Top.node # NULL
      <4>1. Type[Top.node] = "END" /\ ~IsWord(Top.node) /\ Top.node # NO_ALT
        <5>1. Type[NO_ALT] = "DEAD"
          BY ChainAssumption, NodeAssumption DEF Static
        <5> QED
          BY <1>1, <3>2, <5>1 DEF IsWord, EndType
      <4> DEFINE n == Top.node
                 k == Top.org
      <4>2. n \in Home /\ n \in Chained /\ k \in Home /\ Meet(Links, n, k) /\ ~IsWord(n) /\ k \in T
        BY <1>1, <3>2, <4>1, TopMerges
      <4>3. n \in Pending(n) /\ Pending(n) \cap T = {}
        <5>1. n \in Pending(n)
          BY <4>2, PendingUnfolds DEF Under
        <5>2. Pending(n) \cap T = {}
          BY <1>3, <1>7 DEF Unmerged
        <5> QED
          BY <5>1, <5>2
      <4> HIDE DEF n, k
      <4>4. k = n
        BY <4>2, HomeTyped, EndsAlone DEF Home, EndsApart
      <4> QED
        BY <4>2, <4>3, <4>4
    <3> QED
      BY <3>1, <3>2
  <2>2. ASSUME NEW i \in 1 .. Len(stack), NEW e \in Pending(stack[i].node)
        PROVE  i \in 1 .. Len(stack') /\ stack'[i] = stack[i]
    <3>1. i # Len(stack)
      BY <1>3, <2>1, <2>2
    <3>2. i \in 1 .. Len(stack')
      BY <1>3, <3>1
    <3> QED
      BY <1>3, <3>2
  <2>3. Unmerged(T)'
    <3>1. \A i \in 1 .. Len(stack') : Pending(stack'[i].node) \cap T = {}
      BY <1>3, <1>7 DEF Unmerged
    <3>2. \A i, j \in 1 .. Len(stack') :
            i # j => Pending(stack'[i].node) \cap Pending(stack'[j].node) = {}
      BY <1>3, <1>7 DEF Unmerged
    <3>3. ASSUME NEW e \in Home, ~IsWord(e), e \notin T
          PROVE  \E i \in 1 .. Len(stack') : e \in Pending(stack'[i].node)
      <4>1. PICK i \in 1 .. Len(stack) : e \in Pending(stack[i].node)
        BY <1>7, <3>3 DEF Unmerged
      <4> QED
        BY <2>2, <4>1
    <3> QED
      BY <1>2, <3>1, <3>2, <3>3 DEF Unmerged
  <2> QED
    BY <1>4, <1>5, <2>3 DEF Shape
<1> QED
  BY <1>6, <1>7 DEF Shape

(* The node that a call goes on with.                                      *)
LEMMA NextMerges ==
  ASSUME TreeInv, EndsApart, NEW T, NEW first, Shape(T, first), stack # <<>>, Top.node # NULL,
         IsWord(Top.node), Top.node # NO_ALT
  PROVE  /\ \/ alter[Top.node] = NO_ALT /\ IsWord(Top.org)
            \/ alter[Top.node] \in Home /\ Meet(Links, alter[Top.node], Top.org)
         /\ IsWord(Top.org) /\ Top.node \in Static
         /\ Unmerged(T) => /\ Top.node \notin T
                           /\ Pending(Top.node) = Under(Top.node) \cup Pending(alter[Top.node])
                           /\ Under(Top.node) \cap Pending(alter[Top.node]) = {}
<1> DEFINE n == Top.node
           k == Top.org
<1>1. /\ n \in Home /\ n \in Chained /\ Meet(Links, n, k) /\ (~IsWord(k) => n = k)
      /\ Len(stack) \in 1 .. Len(stack) /\ Top = stack[Len(stack)]
  BY TopMerges
<1>2. IsWord(k)
  BY <1>1
<1>3. alter[n] = NO_ALT \/ (alter[n] \in Home /\ Meet(Links, alter[n], n))
  BY <1>1 DEF Shape, Levelled
<1>4. ASSUME Unmerged(T)
      PROVE  /\ n \notin T /\ Pending(n) = Under(n) \cup Pending(alter[n])
             /\ Under(n) \cap Pending(alter[n]) = {}
  <2>1. n \in Under(n) /\ n \in Pending(n)
    BY <1>1, PendingUnfolds DEF Under
  <2>2. n \notin T
    BY <1>1, <1>4, <2>1 DEF Unmerged
  <2>3. alter[n] = StaticNode[n].alter
    BY <1>1, <2>2, PathsTyped DEF Shape, Levelled
  <2> QED
    BY <1>1, <2>2, <2>3, PendingUnfolds
<1> QED
  BY <1>1, <1>2, <1>3, <1>4, PathsTyped DEF Meet

(* A word that is not on the list has no node of the tree at its place.    *)
LEMMA NotFound ==
  ASSUME TreeInv, EndsApart, NEW T, NEW first, Shape(T, first), stack # <<>>, Top.node # NULL,
         Type[Top.node] # "END", FindNodeInOrgRoot(Top.org, Top.node) = NULL
  PROVE  /\ Top.node # NO_ALT /\ IsWord(Top.node)
         /\ \A y \in T : ModeOf(Links, y) = ModeOf(Links, Top.node) =>
              PathBehind(y) # PathBehind(Top.node)
<1> DEFINE n == Top.node
           k == Top.org
<1>1. \A x \in Elements(k, alter) : ~IsNodeSame(x, n)
  BY TopMerges, HomeTyped, FoundNode
<1>2. T \subseteq Home /\ T \subseteq Chained
  BY HomeTyped DEF Shape, Planted
<1>3. n # NO_ALT
  <2> SUFFICES ASSUME n = NO_ALT
               PROVE  FALSE
    OBVIOUS
  <2>1. IsWord(k) /\ k \in Home
    BY TopMerges, HomeTyped
  <2>2. NO_ALT \in Elements(k, alter)
    BY <1>2, <2>1, ListEndsDead DEF Shape
  <2>3. IsNodeSame(NO_ALT, NO_ALT)
    BY DEF IsNodeSame
  <2> QED
    BY <1>1, <2>2, <2>3
<1>4. /\ n \in Home /\ n \in Chained /\ Meet(Links, n, k) /\ k \in Chained
      /\ Leads(Links, T, alter, k, ModeOf(Links, k), Path(k))
  BY <1>3, TopMerges DEF Merges
<1>5. IsWord(n)
  BY <1>4, ChainAssumption DEF IsWord, EndType
<1>6. ASSUME NEW y \in T, ModeOf(Links, y) = ModeOf(Links, n), PathBehind(y) = PathBehind(n)
      PROVE  FALSE
  <2>1. y \in Chained /\ y \in Home /\ Path(y) = Path(n) /\ Def[y].keyword = Def[n].keyword
    BY <1>2, <1>4, <1>6, PathsApart
  <2>2. y \in Elements(k, alter)
    BY <1>4, <1>6, <2>1 DEF Leads, Meet
  <2>3. IsWord(y)
    <3>1. Meet(Links, y, n)
      BY <1>6, <2>1 DEF Meet
    <3>2. ~IsWord(y) => n = y
      BY <1>4, <2>1, <3>1, HomeTyped, EndsAlone DEF Home, EndsApart
    <3> QED
      BY <1>5, <3>2
  <2>4. IsNodeSame(y, n)
    BY <1>4, <1>5, <2>1, <2>3, SameWords
  <2> QED
    BY <1>1, <2>2, <2>4
<1> QED
  BY <1>3, <1>5, <1>6

(* merge_cli_tree() puts a node that is new on a list behind the first one.*)
LEMMA ShapeAdds ==
  ASSUME TreeInv, EndsApart, NEW T, NEW first \in [Mode -> Addr], Shape(T, first), MergeAdds,
         Ranked(alter')
  PROVE  \E U \in SUBSET Chained : T \subseteq U /\ Shape(U, first)'
<1>0. PICK n, k, s : n = Top.node /\ k = Top.org /\ s = alter[Top.node]
  OBVIOUS
<1>1. /\ UNCHANGED <<acc, root, example, stage, link, buildin>>
      /\ stack # <<>> /\ n # NULL /\ Type[n] # "END" /\ FindNodeInOrgRoot(k, n) = NULL
      /\ alter' = [alter EXCEPT ![k] = n, ![n] = alter[k]]
      /\ stack' = Append(Below, [Top EXCEPT !.node = s])
  BY <1>0 DEF MergeAdds, AddNodeToOrg
<1>2. Links' = Links /\ Home' = Home
  BY <1>1 DEF Links, Home
<1>3. T \subseteq Home /\ T \subseteq Chained /\ alter[NO_ALT] = NULL
  BY HomeTyped, DeadIsLast DEF Shape, Planted
<1>4. /\ n # NO_ALT /\ IsWord(n)
      /\ \A y \in T : ModeOf(Links, y) = ModeOf(Links, n) => PathBehind(y) # PathBehind(n)
  BY <1>0, <1>1, NotFound
<1>5. /\ Len(stack) \in Nat /\ Len(stack) \in 1 .. Len(stack) /\ Top = stack[Len(stack)]
      /\ k # NULL /\ Merges(T, Top) /\ k \in T /\ k \in Home /\ k \in Chained /\ k \in Node
      /\ n \in Home /\ n \in Chained /\ Meet(Links, n, k)
      /\ Leads(Links, T, alter, k, ModeOf(Links, k), Path(k))
  BY <1>0, <1>1, <1>4, TopMerges DEF Merges
<1>6. /\ (s = NO_ALT /\ IsWord(k)) \/ (s \in Home /\ Meet(Links, s, k))
      /\ IsWord(k) /\ s = alter[n]
      /\ Unmerged(T) => /\ n \notin T /\ Pending(n) = Under(n) \cup Pending(s)
                        /\ Under(n) \cap Pending(s) = {}
  BY <1>0, <1>1, <1>4, NextMerges
<1>7. PICK U : U = T \cup Under(n)
  OBVIOUS
<1>8. /\ Under(n) \subseteq Home /\ n \in Under(n) /\ n \in Node /\ n # k
      /\ \A x \in Under(n) : ModeOf(Links, x) = ModeOf(Links, n)
  <2>1. Under(n) \subseteq Home
    BY <1>5 DEF Under, Home, LinkedBy
  <2> QED
    BY <1>4, <1>5, <2>1, UnderSameMode, PathsTyped DEF Under
<1>9. \A x \in Under(n) : alter[x] = StaticNode[x].alter
  <2>1. \A x \in Under(n) : x \notin T
    BY <1>3, <1>4, <1>5, <1>8, NothingBehindMissing DEF Shape, Planted
  <2> QED
    BY <1>8, <2>1, HomeTyped, PathsTyped DEF Shape, Levelled
<1>10. /\ alter' \in [Node -> Addr] /\ alter'[k] = n /\ alter'[n] = alter[k]
       /\ \A x \in Node : x # k /\ x # n => alter'[x] = alter[x]
  BY <1>1, <1>5, <1>8, HomeTyped DEF Addr
<1>11. /\ T \cap Under(n) = {}
       /\ \A h, m, p : Leads(Links, T, alter, h, m, p) => Leads(Links, U, alter', h, m, p)
       /\ Grove(Links, U, alter')
  <2> DEFINE al == alter
             bl == alter'
             links == Links
  <2>1. /\ al \in [Node -> Addr] /\ Ranked(al) /\ bl \in [Node -> Addr] /\ Ranked(bl)
        /\ Grove(links, T, al) /\ T \subseteq Chained /\ k \in T
        /\ Leads(links, T, al, k, ModeOf(links, k), Path(k)) /\ n \in Chained /\ Meet(links, n, k)
        /\ \A y \in T : ModeOf(links, y) = ModeOf(links, n) => PathBehind(y) # PathBehind(n)
        /\ bl[k] = n /\ bl[n] = al[k] /\ \A x \in Node : x # k /\ x # n => bl[x] = al[x]
        /\ \A x \in Under(n) : al[x] = StaticNode[x].alter
        /\ al[NO_ALT] = NULL
    BY <1>3, <1>4, <1>5, <1>9, <1>10, HomeTyped DEF Shape, Planted
  <2> HIDE DEF al, bl, links
  <2>2. /\ T \cap Under(n) = {}
        /\ \A h, m, p : Leads(links, T, al, h, m, p) => Leads(links, T \cup Under(n), bl, h, m, p)
        /\ Grove(links, T \cup Under(n), bl)
    BY <2>1, GroveGrows
  <2> QED
    BY <1>7, <2>2 DEF al, bl, links
<1>12. U \subseteq Home /\ U \subseteq Chained /\ T \subseteq U
  BY <1>3, <1>7, <1>8, HomeTyped
<1>13. Planted(U, first)'
  <2>1. ASSUME NEW m \in Mode
        PROVE  IF first[m] = NULL THEN \A x \in U : ModeOf(Links, x) # m
                                  ELSE Leads(Links, U, alter', first[m], m, <<>>)
    <3>1. IF first[m] = NULL THEN \A x \in T : ModeOf(Links, x) # m
                             ELSE Leads(Links, T, alter, first[m], m, <<>>)
      BY DEF Shape, Planted
    <3>2. CASE first[m] = NULL
      BY <1>5, <1>7, <1>8, <3>1, <3>2 DEF Meet
    <3>3. CASE first[m] # NULL
      BY <1>11, <3>1, <3>3
    <3> QED
      BY <3>2, <3>3
  <2>2. Distinct(Links, U)
    <3>1. /\ T \subseteq Chained /\ Grove(Links, T, alter) /\ Distinct(Links, T) /\ n \in Chained
          /\ \A y \in T : ModeOf(Links, y) = ModeOf(Links, n) => PathBehind(y) # PathBehind(n)
      BY <1>3, <1>4, <1>5 DEF Shape, Planted
    <3>2. Distinct(Links, T \cup Under(n))
      BY <3>1, DistinctGrows
    <3> QED
      BY <1>7, <3>2
  <2> QED
    BY <1>2, <1>11, <1>12, <2>1, <2>2 DEF Planted
<1>14. Levelled(U)'
  <2>1. \A x \in Static \ U : alter'[x] = StaticNode[x].alter
    BY <1>5, <1>7, <1>8, <1>10, <1>12, HomeTyped DEF Shape, Levelled
  <2>2. \A x \in Static : Type[x] \in EndType => alter'[x] = NULL
    BY <1>4, <1>6, <1>10, HomeTyped DEF Shape, Levelled, IsWord
  <2>3. ASSUME NEW x \in Home, IsWord(x)
        PROVE  alter'[x] = NO_ALT \/ (alter'[x] \in Home /\ Meet(Links, alter'[x], x))
    <3>1. alter[x] = NO_ALT \/ (alter[x] \in Home /\ Meet(Links, alter[x], x))
      BY <2>3 DEF Shape, Levelled
    <3>2. alter[k] = NO_ALT \/ (alter[k] \in Home /\ Meet(Links, alter[k], k))
      BY <1>5, <1>6 DEF Shape, Levelled
    <3>3. x \in Node
      BY <2>3, HomeTyped, PathsTyped
    <3> QED
      BY <1>5, <1>10, <3>1, <3>2, <3>3 DEF Meet
  <2> QED
    BY <1>1, <1>2, <2>1, <2>2, <2>3 DEF Levelled
<1>15. /\ Len(stack') = Len(stack) /\ stack'[Len(stack)] = [Top EXCEPT !.node = s]
       /\ \A i \in 1 .. Len(stack) : i # Len(stack) => stack'[i] = stack[i]
       /\ stack'[Len(stack)].node = s /\ stack'[Len(stack)].org = k
  <2>1. /\ Below \in Seq(Calls) /\ Len(Below) = Len(stack) - 1
        /\ \A i \in 1 .. Len(stack) - 1 : Below[i] = stack[i]
    BY <1>1, BelowTop
  <2> DEFINE b == Below
             c == [Top EXCEPT !.node = s]
  <2>2. Top \in [org : Static \cup {NULL}, node : Static \cup {NULL}]
    BY <1>1, TopOfStack DEF TreeInv, MergesStatic, Calls
  <2>3. c.node = s /\ c.org = k
    BY <1>0, <2>2
  <2> HIDE DEF b, c
  <2>4. /\ Len(Append(b, c)) = Len(b) + 1
        /\ \A i \in 1 .. Len(b) : Append(b, c)[i] = b[i]
        /\ Append(b, c)[Len(b) + 1] = c
    BY <2>1 DEF b
  <2>5. stack' = Append(b, c)
    BY <1>1 DEF b, c
  <2>6. Len(b) = Len(stack) - 1 /\ \A i \in 1 .. Len(stack) - 1 : b[i] = stack[i]
    BY <2>1 DEF b
  <2>7. \A i \in 1 .. Len(stack) : i # Len(stack) => i \in 1 .. Len(stack) - 1
    BY <1>5
  <2>8. Len(stack') = Len(stack) /\ stack'[Len(stack)] = c
    BY <1>5, <2>4, <2>5, <2>6
  <2>9. \A i \in 1 .. Len(stack) : i # Len(stack) => stack'[i] = stack[i]
    BY <2>4, <2>5, <2>6, <2>7
  <2> QED
    BY <2>3, <2>8, <2>9 DEF c
<1>16. Merging(U)'
  <2> SUFFICES ASSUME NEW i \in 1 .. Len(stack), NEW f, f = stack'[i], f.org # NULL
               PROVE  Merges(U, f)'
    BY <1>15 DEF Merging
  <2>1. CASE i # Len(stack)
    <3>1. f = stack[i] /\ Merges(T, f)
      BY <1>15, <2>1 DEF Shape, Merging
    <3> QED
      BY <1>2, <1>11, <3>1 DEF Merges
  <2>2. CASE i = Len(stack)
    <3>1. f.node = s /\ f.org = k
      BY <1>15, <2>2
    <3>2. Leads(Links, U, alter', k, ModeOf(Links, k), Path(k))
      BY <1>5, <1>11
    <3> QED
      BY <1>2, <1>6, <3>1, <3>2 DEF Merges
  <2> QED
    BY <2>1, <2>2
<1>17. Merged(U)' \/ Unmerged(U)'
  <2>1. CASE Merged(T)
    BY <1>2, <1>12, <2>1 DEF Merged
  <2>2. CASE Unmerged(T)
    <3> DEFINE P(i) == Pending(stack[i].node)
               Q(i) == Pending(stack'[i].node)
               l    == Len(stack)
    <3>1. /\ P(l) = Under(n) \cup Q(l) /\ Under(n) \cap Q(l) = {}
          /\ \A i \in 1 .. l : i # l => Q(i) = P(i)
      BY <1>0, <1>5, <1>6, <1>15, <2>2
    <3>2. /\ \A i \in 1 .. l : P(i) \cap T = {}
          /\ \A i, j \in 1 .. l : i # j => P(i) \cap P(j) = {}
          /\ \A e \in Home : ~IsWord(e) => e \in T \/ \E i \in 1 .. l : e \in P(i)
      BY <2>2 DEF Unmerged
    <3>3. l \in 1 .. l /\ Len(stack') = l
      BY <1>5, <1>15
    <3> HIDE DEF P, Q, l
    <3>4. \A i \in 1 .. l : Q(i) \subseteq P(i) /\ Q(i) \cap Under(n) = {}
      <4> TAKE i \in 1 .. l
      <4>1. CASE i = l
        BY <3>1, <4>1
      <4>2. CASE i # l
        BY <3>1, <3>2, <3>3, <4>2
      <4> QED
        BY <4>1, <4>2
    <3>5. \A i \in 1 .. l : Q(i) \cap U = {}
      BY <1>7, <3>2, <3>4
    <3>6. \A i, j \in 1 .. l : i # j => Q(i) \cap Q(j) = {}
      BY <3>2, <3>4
    <3>7. \A e \in Home : ~IsWord(e) => e \in U \/ \E i \in 1 .. l : e \in Q(i)
      <4> SUFFICES ASSUME NEW e \in Home, ~IsWord(e), e \notin U
                   PROVE  \E i \in 1 .. l : e \in Q(i)
        OBVIOUS
      <4>1. PICK i \in 1 .. l : e \in P(i)
        BY <1>12, <3>2
      <4>2. e \in Q(i)
        BY <1>7, <3>1, <4>1
      <4> QED
        BY <4>2
    <3>8. Unmerged(U)'
      BY <1>2, <3>3, <3>5, <3>6, <3>7 DEF Unmerged, Q
    <3> QED
      BY <3>8
  <2> QED
    BY <2>1, <2>2 DEF Shape
<1>18. Tops(first)'
  <2>1. stage = "links"
    BY <1>1 DEF TreeInv, MergesStatic
  <2>2. \A m \in Mode : root[m] = first[m]
    BY <2>1 DEF Shape, Tops
  <2>3. \A i \in buildin .. Len(CliModeDefs) : CliModeDefs[i] \in Mode
    BY DEF CliModeDefs, Mode, TreeInv, TreeTypeOK
  <2> QED
    BY <1>1, <2>2, <2>3 DEF Tops
<1> QED
  BY <1>12, <1>13, <1>14, <1>16, <1>17, <1>18 DEF Shape

(* What follows a word that the list has, in the tree and in the chain.    *)
LEMMA FoundBehind ==
  ASSUME TreeInv, EndsApart, NEW T, NEW first, Shape(T, first), stack # <<>>, Top.node # NULL,
         Type[Top.node] # "END", FindNodeInOrgRoot(Top.org, Top.node) # NULL
  PROVE  LET m == FindNodeInOrgRoot(Top.org, Top.node) IN
         \/ Top.node = NO_ALT /\ m = NO_ALT /\ alter[NO_ALT] = NULL /\ acc[NO_ALT] = NULL
         \/ /\ Top.node # NO_ALT /\ IsWord(Top.node)
            /\ Leads(Links, T, alter, acc[m], ModeOf(Links, acc[m]), Path(acc[m]))
            /\ acc[Top.node] \in Home /\ Meet(Links, acc[Top.node], acc[m])
            /\ Pending(acc[Top.node]) = Under(Top.node) \ {Top.node}
<1>0. PICK n, k, m : n = Top.node /\ k = Top.org /\ m = FindNodeInOrgRoot(Top.org, Top.node)
  OBVIOUS
<1>1. m \in Elements(k, alter) /\ IsNodeSame(m, n) /\ m \in Static /\ n \in Static
  <2>1. IF m = NULL THEN \A x \in Elements(k, alter) : ~IsNodeSame(x, n)
                    ELSE m \in Elements(k, alter) /\ IsNodeSame(m, n)
    BY <1>0, TopMerges, HomeTyped, FoundNode
  <2>2. n \in Static /\ m \in Static
    BY <1>0, MergeFinds
  <2> QED
    BY <1>0, <2>1, <2>2
<1>2. T \subseteq Home /\ T \subseteq Chained /\ alter[NO_ALT] = NULL /\ NO_ALT \in Static
  BY HomeTyped, DeadIsLast DEF Shape, Planted
<1>3. (n = NO_ALT <=> Type[n] = "DEAD") /\ (m = NO_ALT <=> Type[m] = "DEAD") /\ Type[m] = Type[n]
  BY <1>1, ChainAssumption DEF IsNodeSame
<1>4. CASE n = NO_ALT
  <2>1. acc[NO_ALT] = NULL
    <3>1. acc[NO_ALT] = StaticNode[NO_ALT].acc /\ StaticNode[NO_ALT].type = "DEAD"
      BY <1>2, <1>3, <1>4, HomeTyped, DeclaredPointers DEF Type
    <3> QED
      BY <1>2, <3>1, NodeAssumption DEF Static, EndType
  <2> QED
    BY <1>0, <1>2, <1>3, <1>4, <2>1
<1>5. CASE n # NO_ALT
  <2>1. /\ n \in Home /\ n \in Chained /\ Meet(Links, n, k) /\ k \in Chained
        /\ Leads(Links, T, alter, k, ModeOf(Links, k), Path(k))
    BY <1>0, <1>5, TopMerges DEF Merges
  <2>2. IsWord(n)
    BY <1>0, <2>1, ChainAssumption DEF IsWord, EndType
  <2>3. m \in T /\ m \in Chained /\ ModeOf(Links, m) = ModeOf(Links, n) /\ Path(m) = Path(n)
    BY <1>1, <1>2, <1>3, <1>5, <2>1 DEF Leads, Meet
  <2>4. IsWord(m) /\ Def[m].keyword = Def[n].keyword
    BY <1>1, <2>1, <2>2, <2>3, SameWords
  <2>5. PathBehind(m) = PathBehind(n)
    BY <2>1, <2>3, <2>4, PathsApart
  <2>6. acc[m] = StaticNode[m].acc /\ acc[n] = StaticNode[n].acc
    BY <1>1, HomeTyped
  <2>7. Leads(Links, T, alter, acc[m], ModeOf(Links, n), PathBehind(n))
    BY <2>3, <2>4, <2>5, <2>6 DEF Shape, Planted, Grove
  <2>8. ModeOf(Links, acc[m]) = ModeOf(Links, n) /\ Path(acc[m]) = PathBehind(n)
    BY <1>2, <2>7, HomeTyped, LeaderOnList
  <2>9. acc[n] \in Chained /\ Chain(acc[n]) = Chain(n) /\ Path(acc[n]) = PathBehind(n)
    <3>1. DeclaredAlter[NO_ALT] = NULL /\ \A y \in Chained : DeclaredAlter[y] = StaticNode[y].alter
      <4>1. StaticNode[NO_ALT].alter = NULL
        BY <1>2, ChainAssumption DEF EndType
      <4> QED
        BY <1>2, <4>1, DeclaredPointers, DeclaredListOnLevel DEF DeclaredAlter
    <3> QED
      BY <2>1, <2>2, <2>6, <3>1, DeclaredAlterRanked, LevelBehind
  <2>10. acc[n] \in Home /\ Meet(Links, acc[n], acc[m])
    <3>1. acc[n] \in Home
      BY <2>1, <2>9 DEF Home, LinkedBy
    <3> QED
      BY <2>8, <2>9, <3>1 DEF Meet, ModeOf
  <2>11. Pending(acc[n]) = Under(n) \ {n}
    BY <2>1, <2>2, <2>6, PendingBehind
  <2>12. Leads(Links, T, alter, acc[m], ModeOf(Links, acc[m]), Path(acc[m]))
    BY <2>7, <2>8
  <2> QED
    BY <1>0, <1>5, <2>2, <2>10, <2>11, <2>12
<1> QED
  BY <1>4, <1>5

(* merge_cli_tree() calls itself for a word that both lists have.          *)
LEMMA ShapeDescends ==
  ASSUME TreeInv, EndsApart, NEW T, NEW first, Shape(T, first), MergeDescends
  PROVE  Shape(T, first)'
<1>0. PICK n, k, s, c, d :
        /\ n = Top.node /\ k = Top.org /\ s = alter[Top.node]
        /\ c = [Top EXCEPT !.node = s]
        /\ d = [org |-> acc[FindNodeInOrgRoot(Top.org, Top.node)], node |-> acc[Top.node]]
  OBVIOUS
<1>1. /\ UNCHANGED <<acc, alter, root, example, stage, link, buildin>>
      /\ stack # <<>> /\ n # NULL /\ Type[n] # "END" /\ FindNodeInOrgRoot(k, n) # NULL
      /\ stack' = Below \o <<c, d>>
  BY <1>0 DEF MergeDescends
<1>2. Links' = Links /\ Home' = Home
  BY <1>1 DEF Links, Home
<1>3. /\ Len(stack) \in Nat /\ Len(stack) \in 1 .. Len(stack) /\ Top = stack[Len(stack)]
      /\ k # NULL /\ Merges(T, Top)
  BY <1>0, <1>1, TopMerges
<1>4. c.org = k /\ c.node = s /\ d.org = acc[FindNodeInOrgRoot(k, n)] /\ d.node = acc[n]
  <2>1. Top \in [org : Static \cup {NULL}, node : Static \cup {NULL}]
    BY <1>1, TopOfStack DEF TreeInv, MergesStatic, Calls
  <2> QED
    BY <1>0, <2>1
<1>5. \/ n = NO_ALT /\ s = NULL /\ d.org = NULL /\ d.node = NULL
      \/ /\ n # NO_ALT /\ IsWord(n)
         /\ Leads(Links, T, alter, d.org, ModeOf(Links, d.org), Path(d.org))
         /\ d.node \in Home /\ Meet(Links, d.node, d.org)
         /\ Pending(d.node) = Under(n) \ {n}
  BY <1>0, <1>1, <1>4, FoundBehind
<1>6. n # NO_ALT =>
        /\ (s = NO_ALT /\ IsWord(k)) \/ (s \in Home /\ Meet(Links, s, k))
        /\ Unmerged(T) => Pending(n) = Under(n) \cup Pending(s) /\ Under(n) \cap Pending(s) = {}
  BY <1>0, <1>1, <1>5, NextMerges
<1>7. /\ Len(stack') = Len(stack) + 1
      /\ stack'[Len(stack)] = c /\ stack'[Len(stack) + 1] = d
      /\ \A i \in 1 .. Len(stack) : i # Len(stack) => stack'[i] = stack[i]
  <2> DEFINE b == Below
             R == [org : Static \cup {NULL}, node : Static \cup {NULL}]
  <2>1. /\ b \in Seq(Calls) /\ Len(b) = Len(stack) - 1
        /\ \A i \in 1 .. Len(stack) - 1 : b[i] = stack[i]
    BY <1>1, BelowTop
  <2>2. stack' = b \o <<c, d>>
    BY <1>1
  <2>3. b \in Seq(Calls \cup {c, d}) /\ <<c, d>> \in Seq(Calls \cup {c, d}) /\ Len(<<c, d>>) = 2
        /\ <<c, d>>[1] = c /\ <<c, d>>[2] = d
    BY <2>1, SeqMonotonic
  <2> DEFINE e == <<c, d>>
  <2>4. e \in Seq(Calls \cup {c, d}) /\ Len(e) = 2 /\ e[1] = c /\ e[2] = d /\ stack' = b \o e
    BY <2>2, <2>3
  <2> HIDE DEF b, e
  <2>5. /\ Len(b \o e) = Len(b) + Len(e)
        /\ \A i \in 1 .. Len(b) + Len(e) : (b \o e)[i] = IF i <= Len(b) THEN b[i] ELSE e[i - Len(b)]
    BY <2>3, <2>4, ConcatProperties
  <2>6. Len(stack') = Len(stack) + 1
    BY <1>3, <2>1, <2>4, <2>5
  <2>7. stack'[Len(stack)] = c
    <3>1. Len(stack) \in 1 .. Len(b) + Len(e) /\ ~(Len(stack) <= Len(b)) /\ Len(stack) - Len(b) = 1
      BY <1>3, <2>1, <2>4
    <3> QED
      BY <2>4, <2>5, <3>1
  <2>8. stack'[Len(stack) + 1] = d
    <3>1. /\ Len(stack) + 1 \in 1 .. Len(b) + Len(e) /\ ~(Len(stack) + 1 <= Len(b))
          /\ (Len(stack) + 1) - Len(b) = 2
      BY <1>3, <2>1, <2>4
    <3> QED
      BY <2>4, <2>5, <3>1
  <2>9. \A i \in 1 .. Len(stack) : i # Len(stack) => stack'[i] = stack[i]
    BY <1>3, <2>1, <2>4, <2>5
  <2> QED
    BY <2>6, <2>7, <2>8, <2>9
<1>8. Planted(T, first)' /\ Levelled(T)' /\ Tops(first)'
  BY <1>1, <1>2 DEF Shape, Planted, Levelled, Tops, LedByExit, LedByAll
<1>9. Merging(T)'
  <2> SUFFICES ASSUME NEW i \in 1 .. Len(stack) + 1, NEW f, f = stack'[i], f.org # NULL
               PROVE  Merges(T, f)'
    BY <1>7 DEF Merging
  <2>1. CASE i = Len(stack) + 1
    <3>1. f = d
      BY <1>7, <2>1
    <3> QED
      BY <1>1, <1>2, <1>5, <3>1 DEF Merges
  <2>2. CASE i = Len(stack)
    <3>1. f = c
      BY <1>7, <2>2
    <3>2. Leads(Links, T, alter, k, ModeOf(Links, k), Path(k))
      BY <1>0, <1>3 DEF Merges
    <3>3. s = NULL \/ (s = NO_ALT /\ IsWord(k)) \/ (s \in Home /\ Meet(Links, s, k))
      BY <1>5, <1>6
    <3> QED
      BY <1>1, <1>2, <1>4, <3>1, <3>2, <3>3 DEF Merges
  <2>3. CASE i \in 1 .. Len(stack) /\ i # Len(stack)
    <3>1. f = stack[i] /\ Merges(T, f)
      BY <1>7, <2>3 DEF Shape, Merging
    <3> QED
      BY <1>1, <1>2, <3>1 DEF Merges
  <2> QED
    BY <1>3, <2>1, <2>2, <2>3
<1>10. Merged(T)' \/ Unmerged(T)'
  <2>1. CASE Merged(T)
    BY <1>2, <2>1 DEF Merged
  <2>2. CASE Unmerged(T)
    <3> DEFINE P(i) == Pending(stack[i].node)
               Q(i) == Pending(stack'[i].node)
               l    == Len(stack)
    <3>1. /\ Q(l) \subseteq P(l) /\ Q(l + 1) \subseteq P(l) /\ Q(l) \cap Q(l + 1) = {}
          /\ \A e \in P(l) : e \in Q(l) \/ e \in Q(l + 1) \/ IsWord(e)
          /\ \A i \in 1 .. l : i # l => Q(i) = P(i)
      <4>1. P(l) = Pending(n) /\ Q(l) = Pending(s) /\ Q(l + 1) = Pending(d.node)
            /\ \A i \in 1 .. l : i # l => Q(i) = P(i)
        BY <1>0, <1>3, <1>4, <1>7
      <4>2. CASE n = NO_ALT
        BY <1>5, <2>2, <4>1, <4>2, NothingPending
      <4>3. CASE n # NO_ALT
        BY <1>5, <1>6, <2>2, <4>1, <4>3
      <4> QED
        BY <4>2, <4>3
    <3>2. /\ \A i \in 1 .. l : P(i) \cap T = {}
          /\ \A i, j \in 1 .. l : i # j => P(i) \cap P(j) = {}
          /\ \A e \in Home : ~IsWord(e) => e \in T \/ \E i \in 1 .. l : e \in P(i)
      BY <2>2 DEF Unmerged
    <3>3. l \in 1 .. l /\ Len(stack') = l + 1 /\ l \in Nat
      BY <1>3, <1>7
    <3> HIDE DEF P, Q, l
    <3>4. \A i \in 1 .. l + 1 : (i \in 1 .. l /\ i # l) \/ i = l \/ i = l + 1
      BY <3>3
    <3>5. \A i \in 1 .. l + 1 : Q(i) \cap T = {}
      BY <3>1, <3>2, <3>3, <3>4
    <3>6. \A i, j \in 1 .. l + 1 : i # j => Q(i) \cap Q(j) = {}
      <4> TAKE i, j \in 1 .. l + 1
      <4>1. CASE i \in 1 .. l /\ i # l
        <5>1. Q(i) = P(i)
          BY <3>1, <4>1
        <5>2. CASE j \in 1 .. l /\ j # l
          BY <3>1, <3>2, <4>1, <5>1, <5>2
        <5>3. CASE j = l \/ j = l + 1
          <6>1. Q(j) \subseteq P(l) /\ P(i) \cap P(l) = {}
            BY <3>1, <3>2, <3>3, <4>1, <5>3
          <6> QED
            BY <5>1, <6>1
        <5> QED
          BY <3>4, <5>2, <5>3
      <4>2. CASE i = l \/ i = l + 1
        <5>1. CASE j \in 1 .. l /\ j # l
          <6>1. Q(i) \subseteq P(l) /\ P(j) \cap P(l) = {} /\ Q(j) = P(j)
            BY <3>1, <3>2, <3>3, <4>2, <5>1
          <6> QED
            BY <6>1
        <5>2. CASE j = l \/ j = l + 1
          BY <3>1, <4>2, <5>2
        <5> QED
          BY <3>4, <5>1, <5>2
      <4> QED
        BY <3>4, <4>1, <4>2
    <3>7. \A e \in Home : ~IsWord(e) => e \in T \/ \E i \in 1 .. l + 1 : e \in Q(i)
      <4> SUFFICES ASSUME NEW e \in Home, ~IsWord(e), e \notin T
                   PROVE  \E i \in 1 .. l + 1 : e \in Q(i)
        OBVIOUS
      <4>1. PICK i \in 1 .. l : e \in P(i)
        BY <3>2
      <4>2. i \in 1 .. l + 1 /\ l \in 1 .. l + 1 /\ l + 1 \in 1 .. l + 1
        BY <3>3
      <4> QED
        BY <3>1, <4>1, <4>2
    <3>8. Unmerged(T)'
      BY <1>2, <3>3, <3>5, <3>6, <3>7 DEF Unmerged, Q
    <3> QED
      BY <3>8
  <2> QED
    BY <2>1, <2>2 DEF Shape
<1> QED
  BY <1>8, <1>9, <1>10 DEF Shape

-----------------------------------------------------------------------------

(* add_buildin_nodes(): nothing of the trees is written, and none of the
   copies of the other modes.                                              *)
LEMMA BuildinWrites ==
  ASSUME TreeInv, AddBuildinNodes, NEW m, m = CliModeDefs[buildin], NEW n, n = root[m]
  PROVE  /\ m \in Mode /\ m # "exec" /\ stage = "buildin" /\ buildin' = buildin + 1
         /\ UNCHANGED <<example, stage, link, stack>>
         /\ buildin \in buildin .. Len(CliModeDefs)
         /\ \A i \in buildin' .. Len(CliModeDefs) :
              i \in buildin .. Len(CliModeDefs) /\ CliModeDefs[i] \in Mode \ {m}
         /\ \A k \in Mode : k # m => root'[k] = root[k]
         /\ \A x \in Node : (\A t \in Template : x # Clone[m][t]) =>
              acc'[x] = acc[x] /\ alter'[x] = alter[x]
         /\ LedByExit(m, n)' \/ LedByAll(m, n)'
<1>1. /\ UNCHANGED <<example, stage, link, stack>>
      /\ stage = "buildin" /\ buildin <= Len(CliModeDefs) /\ buildin' = buildin + 1
      /\ root' = [root EXCEPT ![m] = Clone[m]["node_exit"]] /\ m # "exec"
      /\ \/ n # NULL /\ IsCliModeInConfig(m) /\ WithAll(m)
         \/ WithExit(m, n)
  BY DEF AddBuildinNodes
<1>2. buildin \in 1 .. 4 /\ Len(CliModeDefs) = 4 /\ m \in Mode
      /\ \A i \in buildin + 1 .. 4 : CliModeDefs[i] \in Mode /\ CliModeDefs[i] # m
  BY <1>1 DEF TreeInv, TreeTypeOK, CliModeDefs, Mode
<1>3. alter \in [Node -> Addr] /\ acc \in [Node -> Addr] /\ root \in [Mode -> Addr]
  BY DEF TreeInv, TreeTypeOK, Addr
<1>4. \A k \in Mode : root'[k] = IF k = m THEN Clone[m]["node_exit"] ELSE root[k]
  BY <1>1, <1>2, <1>3
<1> DEFINE ex == Clone[m]["node_exit"]
           en == Clone[m]["node_end"]
           no == Clone[m]["node_no"]
           de == Clone[m]["node_default"]
<1>5. /\ ex # en /\ ex # no /\ ex # de /\ en # no /\ en # de /\ no # de
      /\ ex \in Node /\ en \in Node /\ no \in Node /\ de \in Node
  <2>1. "node_exit" \in Template /\ "node_end" \in Template
        /\ "node_no" \in Template /\ "node_default" \in Template
    BY DEF Template
  <2>2. \A t \in Template : Clone[m][t] \in Node
    BY <1>2 DEF Node, CloneName
  <2>3. \A t, u \in Template : Clone[m][t] = Clone[m][u] => t = u
    BY <1>2, NodeAssumption
  <2>4. ex \in Node /\ en \in Node /\ no \in Node /\ de \in Node
    BY <2>1, <2>2
  <2> QED
    BY <2>1, <2>3, <2>4
<1>6. \A x \in Node : (\A t \in Template : x # Clone[m][t]) => x # ex /\ x # en /\ x # no /\ x # de
  BY DEF Template
<1>7. CASE n # NULL /\ IsCliModeInConfig(m) /\ WithAll(m)
  <2>1. /\ acc' = [acc EXCEPT ![ex] = "node_exit_end", ![en] = "node_end_end", ![no] = n, ![de] = n]
        /\ alter' = [alter EXCEPT ![ex] = en, ![en] = no, ![no] = de, ![de] = n]
    BY <1>7 DEF WithAll
  <2>2. root'[m] = ex
    BY <1>2, <1>4
  <2> HIDE DEF ex, en, no, de
  <2>3. /\ acc'[ex] = "node_exit_end" /\ acc'[en] = "node_end_end" /\ acc'[no] = n /\ acc'[de] = n
        /\ alter'[ex] = en /\ alter'[en] = no /\ alter'[no] = de /\ alter'[de] = n
        /\ \A x \in Node : x # ex /\ x # en /\ x # no /\ x # de =>
             acc'[x] = acc[x] /\ alter'[x] = alter[x]
    BY <1>3, <1>5, <2>1
  <2>4. LedByAll(m, n)'
    BY <1>7, <2>2, <2>3 DEF LedByAll, ex, en, no, de
  <2> QED
    BY <1>1, <1>2, <1>4, <1>6, <2>3, <2>4
<1>8. CASE WithExit(m, n)
  <2>1. /\ acc' = [acc EXCEPT ![ex] = "node_exit_end", ![en] = "node_end_end"]
        /\ alter' = [alter EXCEPT ![ex] = en, ![en] = n]
    BY <1>8 DEF WithExit
  <2>2. root'[m] = ex
    BY <1>2, <1>4
  <2> HIDE DEF ex, en, no, de
  <2>3. /\ acc'[ex] = "node_exit_end" /\ acc'[en] = "node_end_end"
        /\ alter'[ex] = en /\ alter'[en] = n
        /\ \A x \in Node : x # ex /\ x # en => acc'[x] = acc[x] /\ alter'[x] = alter[x]
    BY <1>3, <1>5, <2>1
  <2>4. LedByExit(m, n)'
    BY <2>2, <2>3 DEF LedByExit, ex, en
  <2> QED
    BY <1>1, <1>2, <1>4, <1>6, <2>3, <2>4
<1> QED
  BY <1>1, <1>7, <1>8

(* A mode that has its built-in commands keeps them.                       *)
LEMMA BuildinsStay ==
  ASSUME TreeInv, AddBuildinNodes, NEW m, m = CliModeDefs[buildin], NEW k \in Mode \ {m}, NEW n
  PROVE  (LedByExit(k, n) => LedByExit(k, n)') /\ (LedByAll(k, n) => LedByAll(k, n)')
<1>1. PICK r : r = root[m]
  OBVIOUS
<1>2. /\ root'[k] = root[k] /\ m \in Mode
      /\ \A x \in Node : (\A t \in Template : x # Clone[m][t]) =>
           acc'[x] = acc[x] /\ alter'[x] = alter[x]
  BY <1>1, BuildinWrites
<1>3. \A u \in Template : acc'[Clone[k][u]] = acc[Clone[k][u]]
                          /\ alter'[Clone[k][u]] = alter[Clone[k][u]]
  <2> TAKE u \in Template
  <2>1. Clone[k][u] \in Node
    BY DEF Node, CloneName
  <2>2. \A t \in Template : Clone[k][u] # Clone[m][t]
    BY <1>2, NodeAssumption
  <2> QED
    BY <1>2, <2>1, <2>2
<1>4. "node_exit" \in Template /\ "node_end" \in Template
      /\ "node_no" \in Template /\ "node_default" \in Template
  BY DEF Template
<1> QED
  BY <1>2, <1>3, <1>4 DEF LedByExit, LedByAll

(* add_buildin_nodes() leaves the trees what they are.                     *)
LEMMA ShapeBuildin ==
  ASSUME TreeInv, NEW T, NEW first \in [Mode -> Addr], Shape(T, first), AddBuildinNodes
  PROVE  Shape(T, first)'
<1>0. PICK m, n : m = CliModeDefs[buildin] /\ n = root[m]
  OBVIOUS
<1>1. /\ m \in Mode /\ m # "exec" /\ stage = "buildin" /\ buildin' = buildin + 1
      /\ UNCHANGED <<example, stage, link, stack>>
      /\ buildin \in buildin .. Len(CliModeDefs)
      /\ \A i \in buildin' .. Len(CliModeDefs) :
           i \in buildin .. Len(CliModeDefs) /\ CliModeDefs[i] \in Mode \ {m}
      /\ \A k \in Mode : k # m => root'[k] = root[k]
      /\ LedByExit(m, n)' \/ LedByAll(m, n)'
  BY <1>0, BuildinWrites
<1>2. Links' = Links /\ Home' = Home
  BY <1>1 DEF Links, Home
<1>3. T \subseteq Home /\ T \subseteq Chained /\ alter[NO_ALT] = NULL /\ NO_ALT \in Static
  BY HomeTyped, DeadIsLast DEF Shape, Planted
<1>4. \A x \in Static : alter'[x] = alter[x] /\ acc'[x] = acc[x]
  <2>1. \A x \in Node : (\A t \in Template : x # Clone[m][t]) =>
           acc'[x] = acc[x] /\ alter'[x] = alter[x]
    BY <1>0, BuildinWrites
  <2>2. \A t \in Template : Clone[m][t] \in CloneName
    BY <1>1 DEF CloneName
  <2> QED
    BY <2>1, <2>2, DeclaredPointers
<1>5. stack = <<>> /\ Len(stack') = 0
  BY <1>1 DEF TreeInv, MergesStatic
<1>6. alter' \in [Node -> Addr] /\ Ranked(alter')
  <2>1. TreeInv'
    BY AddBuildinNodesStep
  <2> QED
    BY <2>1 DEF TreeInv, TreeTypeOK, Addr, Ranked, Ranks
<1>7. Planted(T, first)'
  <2>1. \A x \in T \cup {NO_ALT} : alter'[x] = alter[x]
    BY <1>3, <1>4, PathsTyped
  <2>2. /\ \A h, k, p : Leads(Links, T, alter, h, k, p) => Leads(Links, T, alter', h, k, p)
        /\ Grove(Links, T, alter')
    BY <1>3, <1>6, <2>1, HomeTyped, GroveKept DEF Shape, Planted
  <2> QED
    BY <1>2, <1>3, <2>2 DEF Shape, Planted
<1>8. Levelled(T)'
  <2>1. \A x \in Home : x \in Static
    BY HomeTyped, PathsTyped
  <2> QED
    BY <1>2, <1>4, <2>1 DEF Shape, Levelled
<1>9. Merging(T)' /\ Merged(T)'
  BY <1>2, <1>5 DEF Shape, Merging, Merged, Unmerged
<1>10. Tops(first)'
  <2>1. n = first[m]
    BY <1>0, <1>1 DEF Shape, Tops
  <2>2. ASSUME NEW k \in Mode
        PROVE  root'[k] = first[k] \/ (k # "exec" /\ (LedByExit(k, first[k])' \/ LedByAll(k, first[k])'))
    <3>1. CASE k = m
      BY <1>1, <2>1, <3>1
    <3>2. CASE k # m
      <4>1. root[k] = first[k] \/ (k # "exec" /\ (LedByExit(k, first[k]) \/ LedByAll(k, first[k])))
        BY DEF Shape, Tops
      <4>2. k \in Mode \ {m} /\ root'[k] = root[k]
        BY <1>1, <3>2
      <4>3. /\ LedByExit(k, first[k]) => LedByExit(k, first[k])'
            /\ LedByAll(k, first[k]) => LedByAll(k, first[k])'
        BY <1>0, <4>2, BuildinsStay
      <4> QED
        BY <4>1, <4>2, <4>3
    <3> QED
      BY <3>1, <3>2
  <2>3. \A i \in buildin' .. Len(CliModeDefs) : root'[CliModeDefs[i]] = first[CliModeDefs[i]]
    BY <1>1 DEF Shape, Tops
  <2>4. stage' = "buildin"
    BY <1>1
  <2> QED
    BY <2>2, <2>3, <2>4 DEF Tops
<1> QED
  BY <1>7, <1>8, <1>9, <1>10 DEF Shape

(* Whatever start-up does, the trees only grow.                            *)
LEMMA ShapeStep ==
  ASSUME TreeInv, EndsApart, NEW T, NEW first \in [Mode -> Addr], Shape(T, first),
         [TreeNext]_treeVars
  PROVE  \E U \in SUBSET Chained, g \in [Mode -> Addr] : T \subseteq U /\ Shape(U, g)'
<1>1. TreeInv'
  BY TreeInvNext
<1>2. T \in SUBSET Chained
  BY HomeTyped DEF Shape, Planted
<1>3. CASE (\E ok \in BOOLEAN : InitCliMode(ok)) \/ LinksDone
           \/ SkipBuildinNodes \/ InitCliTreeReturns \/ UNCHANGED treeVars
  BY <1>2, <1>3, ShapeStart
<1>4. CASE LinkRoot
  BY <1>4, ShapeLinkRoot
<1>5. CASE LinkMerge
  BY <1>2, <1>5, ShapeLinkMerge
<1>6. CASE MergeReturns
  BY <1>2, <1>6, ShapeReturns
<1>7. CASE MergeAdds
  <2>1. Ranked(alter')
    BY <1>1 DEF TreeInv, Ranked, Ranks
  <2> QED
    BY <1>7, <2>1, ShapeAdds
<1>8. CASE MergeDescends
  BY <1>2, <1>8, ShapeDescends
<1>9. CASE AddBuildinNodes
  BY <1>2, <1>9, ShapeBuildin
<1> QED
  BY <1>3, <1>4, <1>5, <1>6, <1>7, <1>8, <1>9 DEF TreeNext

-----------------------------------------------------------------------------
(* The commands of a tree.                                                 *)

(* What commands are made of.                                              *)
Symbols == {Def[n].keyword : n \in Node} \cup Node

(* The commands that begin with node y, and those at every list, where h has
   the ones with a word less.                                              *)
SpelledBy(h, ac, d, y) ==
  IF d = 0 \/ Type[y] = "DEAD" THEN {}
  ELSE IF Type[y] = "END" THEN {<<y>>}
  ELSE {<<Def[y].keyword>> \o c : c \in h[ac[y]]}

Spelled(h, ac, al, d) ==
  [x \in Addr |-> UNION {SpelledBy(h, ac, d, y) : y \in ToSet(LevelIn(al, x))}]

(* A list of alternatives is made of nodes.                                *)
LEMMA LevelTyped ==
  ASSUME NEW al \in [Node -> Addr], NEW x \in Addr
  PROVE  ToSet(LevelIn(al, x)) \subseteq Node
<1> DEFINE step == [y \in Node |-> GetNextNode(al, y)]
<1>1. step \in [Node -> Addr]
  BY DEF GetNextNode, Addr
<1>2. LevelIn(al, x) = ListFrom(x, step)
  BY DEF LevelIn
<1> HIDE DEF step
<1>3. CASE x = NULL
  <2>1. ListFrom(x, step) = <<>>
    BY <1>1, <1>3, ListFromIs, ListsRec, NodeFinite
  <2> QED
    BY <1>2, <2>1 DEF ToSet
<1>4. CASE x \in Node
  <2>1. ListFrom(x, step) \in Seq(Node)
    BY <1>1, <1>4, ListFromIsList
  <2> QED
    BY <1>2, <2>1 DEF ToSet
<1> QED
  BY <1>3, <1>4 DEF Addr

(* One more word makes sequences of symbols of sequences of symbols.       *)
LEMMA SpelledTyped ==
  ASSUME NEW ac \in [Node -> Addr], NEW al \in [Node -> Addr], NEW d \in Nat,
         NEW h \in [Addr -> SUBSET Seq(Symbols)]
  PROVE  Spelled(h, ac, al, d) \in [Addr -> SUBSET Seq(Symbols)]
<1>1. ASSUME NEW y \in Node
      PROVE  SpelledBy(h, ac, d, y) \subseteq Seq(Symbols)
  <2>1. y \in Symbols /\ Def[y].keyword \in Symbols
    BY DEF Symbols
  <2>2. <<y>> \in Seq(Symbols)
    BY <2>1
  <2>3. ASSUME NEW c \in h[ac[y]]
        PROVE  <<Def[y].keyword>> \o c \in Seq(Symbols)
    <3>1. c \in Seq(Symbols)
      BY DEF Addr
    <3> QED
      BY <2>1, <3>1, ConsProperties
  <2> QED
    BY <2>2, <2>3 DEF SpelledBy
<1>2. \A x \in Addr : \A y \in ToSet(LevelIn(al, x)) : y \in Node
  BY LevelTyped
<1> QED
  BY <1>1, <1>2 DEF Spelled

(* Commands() is what its recursive definition says.                       *)
LEMMA CommandsExist ==
  ASSUME NEW ac \in [Node -> Addr], NEW al \in [Node -> Addr]
  PROVE  \E f : f = [d \in Nat |-> Spelled(f[d - 1], ac, al, d)]
<1> DEFINE A == [Addr -> SUBSET Seq(Symbols)]
           a == [x \in Addr |-> {}]
           G == [h \in A |-> Spelled(h, ac, al, 1)]
<1>1. a \in A
  OBVIOUS
<1>2. G \in [A -> A]
  BY SpelledTyped
<1> HIDE DEF A, a, G
<1>3. PICK g \in [Nat -> A] : g[0] = a /\ \A n \in Nat : g[n + 1] = G[g[n]]
  BY <1>1, <1>2, IterationExists, SMTT(60)
<1>4. ASSUME NEW d \in Nat
      PROVE  g[d] = Spelled(g[d - 1], ac, al, d)
  <2>1. CASE d = 0
    <3>1. \A y : SpelledBy(g[d - 1], ac, d, y) = {}
      BY <2>1 DEF SpelledBy
    <3>2. Spelled(g[d - 1], ac, al, d) = [x \in Addr |-> {}]
      BY <3>1 DEF Spelled
    <3> QED
      BY <1>3, <2>1, <3>2 DEF a
  <2>2. CASE d # 0
    <3>1. d - 1 \in Nat /\ (d - 1) + 1 = d
      BY <2>2
    <3>2. g[d] = Spelled(g[d - 1], ac, al, 1)
      BY <1>3, <3>1 DEF G
    <3>3. \A y : SpelledBy(g[d - 1], ac, d, y) = SpelledBy(g[d - 1], ac, 1, y)
      BY <2>2 DEF SpelledBy
    <3>4. Spelled(g[d - 1], ac, al, d) = Spelled(g[d - 1], ac, al, 1)
      BY <3>3 DEF Spelled
    <3> QED
      BY <3>2, <3>4
  <2> QED
    BY <2>1, <2>2
<1>5. g = [d \in Nat |-> Spelled(g[d - 1], ac, al, d)]
  BY <1>3, <1>4
<1> QED
  BY <1>5

(* The commands at every list with up to d words, as Commands() takes them.*)
Sayings(ac, al) == CHOOSE f : f = [d \in Nat |-> Spelled(f[d - 1], ac, al, d)]

(* Commands() by that name.                                                *)
LEMMA CommandsIs ==
  ASSUME NEW ac, NEW al, NEW x
  PROVE  Commands(ac, al, x) = Sayings(ac, al)[MaxWords + 1][x]
BY DEF Commands, Sayings, Spelled, SpelledBy, Addr

(* Each number of words is spelled from the one before.                    *)
LEMMA CommandsRec ==
  ASSUME NEW ac \in [Node -> Addr], NEW al \in [Node -> Addr], NEW d \in Nat
  PROVE  Sayings(ac, al)[d] = Spelled(Sayings(ac, al)[d - 1], ac, al, d)
<1> DEFINE f == Sayings(ac, al)
<1>1. f = [e \in Nat |-> Spelled(f[e - 1], ac, al, e)]
  BY CommandsExist DEF Sayings
<1> HIDE DEF f
<1>2. f[d] = Spelled(f[d - 1], ac, al, d)
  BY <1>1
<1> QED
  BY <1>2 DEF f

(* What is typed for a command after its first k words, and its END.       *)
Behind(e, k) == Append(SubSeq(Path(e), k + 1, Len(Path(e))), e)

(* Commands are made of symbols.                                           *)
LEMMA SymbolsTyped ==
  ASSUME NEW e \in Chained
  PROVE  e \in Symbols /\ Path(e) \in Seq(Symbols) /\ Def[e].keyword \in Symbols
<1>1. Keywords \subseteq Symbols
  BY DeclaredPointers DEF Keywords, Symbols
<1>2. e \in Node /\ Path(e) \in Seq(Keywords)
  BY PathsTyped
<1> QED
  BY <1>1, <1>2, SeqMonotonic DEF Symbols

(* The length and the words of what is still to type.                      *)
LEMMA BehindIs ==
  ASSUME NEW e \in Chained, NEW k \in 0 .. Len(Path(e))
  PROVE  /\ Behind(e, k) \in Seq(Symbols) /\ Len(Behind(e, k)) = Len(Path(e)) - k + 1
         /\ \A i \in 1 .. Len(Path(e)) - k : Behind(e, k)[i] = Path(e)[k + i]
         /\ Behind(e, k)[Len(Path(e)) - k + 1] = e
<1>1. e \in Symbols /\ Path(e) \in Seq(Symbols) /\ Len(Path(e)) \in Nat
  BY SymbolsTyped, PathsTyped
<1> DEFINE l == Len(Path(e))
           s == SubSeq(Path(e), k + 1, l)
<1>2. l \in Nat /\ k \in Int /\ k >= 0 /\ k <= l /\ k + 1 \in Int
  BY <1>1
<1>3. \A i \in k + 1 .. l : Path(e)[i] \in Symbols
  <2> TAKE i \in k + 1 .. l
  <2>1. i \in 1 .. l
    BY <1>2
  <2> QED
    BY <1>1, <2>1, ElementOfSeq
<1>4. /\ s \in Seq(Symbols) /\ Len(s) = IF k + 1 <= l THEN l - (k + 1) + 1 ELSE 0
      /\ \A i \in 1 .. l - (k + 1) + 1 : s[i] = Path(e)[k + 1 + i - 1]
  BY <1>2, <1>3, SubSeqProperties
<1> HIDE DEF l, s
<1>5. Len(s) = l - k /\ \A i \in 1 .. l - k : s[i] = Path(e)[k + i]
  <2>1. Len(s) = l - k
    BY <1>2, <1>4
  <2>2. \A i \in 1 .. l - k : i \in 1 .. l - (k + 1) + 1 /\ k + 1 + i - 1 = k + i
    BY <1>2
  <2> QED
    BY <1>4, <2>1, <2>2
<1>6. /\ Append(s, e) \in Seq(Symbols) /\ Len(Append(s, e)) = Len(s) + 1
      /\ \A i \in 1 .. Len(s) : Append(s, e)[i] = s[i]
      /\ Append(s, e)[Len(s) + 1] = e
  BY <1>1, <1>4, AppendProperties
<1>7. Behind(e, k) = Append(s, e)
  BY DEF Behind, s, l
<1> QED
  BY <1>5, <1>6, <1>7 DEF l

(* After the last word only the END node is left, before the first one all.*)
LEMMA BehindEnd ==
  ASSUME NEW e \in Chained
  PROVE  Behind(e, Len(Path(e))) = <<e>> /\ Behind(e, 0) = Append(Path(e), e)
<1>1. e \in Symbols /\ Path(e) \in Seq(Symbols) /\ Len(Path(e)) \in Nat
  BY SymbolsTyped, PathsTyped
<1> DEFINE l == Len(Path(e))
           s == Behind(e, l)
           t == Behind(e, 0)
           u == Append(Path(e), e)
<1>2. l \in Nat /\ l \in 0 .. l /\ 0 \in 0 .. l /\ l - l + 1 = 1 /\ l - 0 + 1 = l + 1
      /\ \A i \in 1 .. l - 0 : 0 + i = i
  BY <1>1
<1>3. s \in Seq(Symbols) /\ Len(s) = 1 /\ s[1] = e
  <2>1. s \in Seq(Symbols) /\ Len(s) = l - l + 1 /\ s[l - l + 1] = e
    BY <1>2, BehindIs
  <2> QED
    BY <1>2, <2>1
<1>4. /\ t \in Seq(Symbols) /\ Len(t) = l + 1 /\ t[l + 1] = e
      /\ \A i \in 1 .. l : t[i] = Path(e)[i]
  <2>1. /\ t \in Seq(Symbols) /\ Len(t) = l - 0 + 1 /\ t[l - 0 + 1] = e
        /\ \A i \in 1 .. l - 0 : t[i] = Path(e)[0 + i]
    BY <1>2, BehindIs
  <2> QED
    BY <1>2, <2>1
<1>5. /\ u \in Seq(Symbols) /\ Len(u) = l + 1 /\ u[l + 1] = e
      /\ \A i \in 1 .. l : u[i] = Path(e)[i]
  BY <1>1, AppendProperties
<1> HIDE DEF l, s, t, u
<1>6. s = <<e>>
  <2> DEFINE o == <<e>>
  <2>1. o \in Seq(Symbols) /\ Len(o) = 1 /\ o[1] = e
    BY <1>1
  <2> HIDE DEF o
  <2>2. s = o
    BY <1>3, <2>1, SeqEqual
  <2> QED
    BY <2>2 DEF o
<1>7. t = u
  <2>1. \A i \in 1 .. Len(t) : t[i] = u[i]
    <3>1. \A i \in 1 .. l + 1 : i \in 1 .. l \/ i = l + 1
      BY <1>2
    <3> QED
      BY <1>4, <1>5, <3>1
  <2> QED
    BY <1>4, <1>5, <2>1, SeqEqual
<1> QED
  BY <1>6, <1>7 DEF s, t, u, l

(* A word and what is behind it are what is typed from the word on.        *)
LEMMA BehindUnfolds ==
  ASSUME NEW y \in Chained, NEW e \in Chained, Prefixed(PathBehind(y), Path(e))
  PROVE  <<Def[y].keyword>> \o Behind(e, Len(Path(y)) + 1) = Behind(e, Len(Path(y)))
<1> DEFINE w == Def[y].keyword
           k == Len(Path(y))
           l == Len(Path(e))
           b == Behind(e, k + 1)
           c == Behind(e, k)
           u == <<w>> \o b
<1>1. /\ w \in Symbols /\ w \in Keywords /\ Path(y) \in Seq(Keywords) /\ k \in Nat /\ l \in Nat
      /\ Len(PathBehind(y)) = k + 1 /\ Path(e) \in Seq(Keywords)
  BY SymbolsTyped, PathsTyped
<1>2. k + 1 <= l /\ k + 1 \in 0 .. l /\ k \in 0 .. l
  BY <1>1 DEF Prefixed
<1>3. Path(e)[k + 1] = w
  <2>1. PathBehind(y)[k + 1] = w
    BY <1>1, AppendProperties DEF PathBehind
  <2>2. k + 1 \in 1 .. Len(PathBehind(y))
    BY <1>1
  <2> QED
    BY <2>1, <2>2 DEF Prefixed
<1>4. /\ b \in Seq(Symbols) /\ Len(b) = l - (k + 1) + 1 /\ b[l - (k + 1) + 1] = e
      /\ \A i \in 1 .. l - (k + 1) : b[i] = Path(e)[k + 1 + i]
  BY <1>2, BehindIs
<1>5. /\ c \in Seq(Symbols) /\ Len(c) = l - k + 1 /\ c[l - k + 1] = e
      /\ \A i \in 1 .. l - k : c[i] = Path(e)[k + i]
  BY <1>2, BehindIs
<1>6. /\ u \in Seq(Symbols) /\ Len(u) = Len(b) + 1 /\ u[1] = w
      /\ \A i \in 1 .. Len(b) : u[i + 1] = b[i]
  BY <1>1, <1>4, ConsProperties
<1>7. k \in Nat /\ l \in Nat
  BY <1>1
<1> HIDE DEF w, k, l, b, c, u
<1>8. Len(u) = l - k + 1 /\ Len(b) = l - k
  BY <1>4, <1>6, <1>7
<1>9. ASSUME NEW i \in 1 .. Len(u)
      PROVE  u[i] = c[i]
  <2>1. CASE i = 1
    <3>1. 1 \in 1 .. l - k
      BY <1>2, <1>7
    <3> QED
      BY <1>3, <1>5, <1>6, <2>1, <3>1
  <2>2. CASE i > 1 /\ i < l - k + 1
    <3>1. i - 1 \in 1 .. Len(b) /\ (i - 1) + 1 = i /\ i - 1 \in 1 .. l - (k + 1)
          /\ k + 1 + (i - 1) = k + i /\ i \in 1 .. l - k
      BY <1>7, <1>8, <2>2
    <3>2. u[i] = b[i - 1]
      BY <1>6, <3>1
    <3>3. b[i - 1] = Path(e)[k + i]
      BY <1>4, <3>1
    <3> QED
      BY <1>5, <3>1, <3>2, <3>3
  <2>3. CASE i > 1 /\ i = l - k + 1
    <3>1. i - 1 \in 1 .. Len(b) /\ (i - 1) + 1 = i /\ i - 1 = l - (k + 1) + 1
      BY <1>2, <1>7, <1>8, <2>3
    <3>2. u[i] = b[i - 1]
      BY <1>6, <3>1
    <3>3. b[i - 1] = e
      BY <1>4, <3>1
    <3> QED
      BY <1>5, <2>3, <3>2, <3>3
  <2> QED
    BY <1>7, <1>8, <2>1, <2>2, <2>3
<1>10. u = c
  BY <1>5, <1>6, <1>8, <1>9, SeqEqual
<1> QED
  BY <1>10 DEF u, w, b, c, k

(* The parser's walk along the alternatives of a list sees all of its nodes. *)
LEMMA LevelIs ==
  ASSUME NEW al \in [Node -> Addr], \A n \in Node : Type[n] \in EndType => al[n] = NULL,
         NEW x \in Node
  PROVE  ToSet(LevelIn(al, x)) = Elements(x, al)
<1>1. [y \in Node |-> GetNextNode(al, y)] = al
  BY DEF GetNextNode
<1>2. LevelIn(al, x) = ListFrom(x, al)
  BY <1>1 DEF LevelIn
<1>3. DOMAIN ListFrom(x, al) = 1 .. Len(ListFrom(x, al))
  BY ListFromIsList
<1> QED
  BY <1>2, <1>3 DEF ToSet, Elements

(* The commands of V that go on after the words p with at most d nodes.    *)
Ends(links, V, m, p, d) ==
  {e \in V : /\ ~IsWord(e) /\ ModeOf(links, e) = m /\ Prefixed(p, Path(e))
             /\ Len(Path(e)) < Len(p) + d}

(* The pointers lead what was declared behind a word.                      *)
Sound(ac, al) ==
  /\ ac \in [Node -> Addr] /\ al \in [Node -> Addr] /\ Ranked(al)
  /\ \A n \in Static : ac[n] = StaticNode[n].acc
  /\ \A n \in Node : Type[n] \in EndType => al[n] = NULL

(* What is typed for them after p.                                         *)
TypedAfter(links, V, m, p, d) == {Behind(e, Len(p)) : e \in Ends(links, V, m, p, d)}

(* Those of them that begin with node y.                                   *)
TypedBy(links, V, y, d) ==
  {Behind(e, Len(Path(y))) :
     e \in {x \in Ends(links, V, ModeOf(links, y), Path(y), d) :
              IF IsWord(y) THEN Prefixed(PathBehind(y), Path(x)) ELSE x = y}}

(* What begins with a node of a list, once it is known what follows.       *)
LEMMA GroveSpells ==
  ASSUME NEW links, NEW V, V \subseteq Chained, NEW ac, NEW al, Sound(ac, al),
         Grove(links, V, al), NEW d \in Nat, NEW f,
         \A h, m, p : Leads(links, V, al, h, m, p) =>
           f[h] = TypedAfter(links, V, m, p, d),
         NEW y \in V
  PROVE  SpelledBy(f, ac, d + 1, y) = TypedBy(links, V, y, d + 1)
<1> DEFINE m == ModeOf(links, y)
           p == Path(y)
           q == PathBehind(y)
           B == SpelledBy(f, ac, d + 1, y)
<1>1. /\ y \in Chained /\ y \in Static /\ p \in Seq(Keywords) /\ Len(p) \in Nat
      /\ q \in Seq(Keywords) /\ Len(q) = Len(p) + 1
  BY PathsTyped
<1>2. d + 1 # 0
  OBVIOUS
<1>3. CASE ~IsWord(y)
  <2>1. Type[y] = "END"
    BY <1>1, <1>3, ChainAssumption DEF IsWord, EndType
  <2>2. B = {<<y>>}
    BY <1>2, <2>1 DEF SpelledBy
  <2>3. Behind(y, Len(p)) = <<y>>
    BY <1>1, BehindEnd
  <2>4. y \in Ends(links, V, m, p, d + 1)
    <3>1. Prefixed(p, p) /\ Len(p) < Len(p) + (d + 1)
      BY <1>1 DEF Prefixed
    <3> QED
      BY <1>3, <3>1 DEF Ends
  <2> QED
    BY <1>3, <2>2, <2>3, <2>4 DEF TypedBy
<1>4. CASE IsWord(y)
  <2>1. Type[y] \notin {"END", "DEAD"}
    BY <1>4 DEF IsWord, EndType
  <2>2. B = {<<Def[y].keyword>> \o c : c \in f[ac[y]]}
    BY <1>2, <2>1 DEF SpelledBy
  <2>3. f[ac[y]] = {Behind(e, Len(q)) : e \in Ends(links, V, m, q, d)}
    <3>1. ac[y] = StaticNode[y].acc
      BY <1>1 DEF Sound
    <3>2. Leads(links, V, al, StaticNode[y].acc, m, q)
      BY <1>4 DEF Grove
    <3> QED
      BY <3>1, <3>2 DEF TypedAfter
  <2>4. \A e \in V : e \in Ends(links, V, m, q, d)
          <=> e \in Ends(links, V, m, p, d + 1) /\ Prefixed(q, Path(e))
    <3> TAKE e \in V
    <3>1. e \in Chained /\ Path(e) \in Seq(Keywords) /\ Len(Path(e)) \in Nat
      BY PathsTyped
    <3>2. Prefixed(q, Path(e)) => Prefixed(p, Path(e))
      BY <1>1, <3>1, PathBegins
    <3>3. Len(Path(e)) < Len(q) + d <=> Len(Path(e)) < Len(p) + (d + 1)
      BY <1>1, <3>1
    <3> QED
      BY <3>2, <3>3 DEF Ends
  <2>5. \A e \in Ends(links, V, m, q, d) :
          <<Def[y].keyword>> \o Behind(e, Len(q)) = Behind(e, Len(p))
    <3> TAKE e \in Ends(links, V, m, q, d)
    <3>1. e \in Chained /\ Prefixed(q, Path(e))
      BY DEF Ends
    <3> QED
      BY <1>1, <3>1, BehindUnfolds
  <2> DEFINE E == Ends(links, V, m, q, d)
             F == {x \in Ends(links, V, m, p, d + 1) :
                     IF IsWord(y) THEN Prefixed(PathBehind(y), Path(x)) ELSE x = y}
  <2>6. E = F
    <3>1. E \subseteq V /\ F \subseteq V
      BY DEF Ends
    <3> QED
      BY <1>4, <2>4, <3>1
  <2> DEFINE g == f[ac[y]]
  <2>a. B = {<<Def[y].keyword>> \o c : c \in g} /\ g = {Behind(e, Len(q)) : e \in E}
    BY <2>2, <2>3
  <2>b. \A e \in E : <<Def[y].keyword>> \o Behind(e, Len(q)) = Behind(e, Len(p))
    BY <2>5
  <2> HIDE DEF E, F, B, g, p, q
  <2>7. B = {<<Def[y].keyword>> \o Behind(e, Len(q)) : e \in E}
    BY <2>a
  <2>8. B = {Behind(e, Len(p)) : e \in E}
    BY <2>b, <2>7
  <2>9. B = {Behind(e, Len(p)) : e \in F}
    BY <2>6, <2>8
  <2> QED
    BY <2>9 DEF B, F, p, TypedBy
<1> QED
  BY <1>3, <1>4

(* The commands at every list of the trees, by induction over the words.   *)
LEMMA GroveCommands ==
  ASSUME NEW links, NEW V, V \subseteq Chained, NEW ac, NEW al, Sound(ac, al),
         Grove(links, V, al)
  PROVE  \A d \in Nat : \A h, m, p : Leads(links, V, al, h, m, p) =>
           Sayings(ac, al)[d][h] = TypedAfter(links, V, m, p, d)
<1> DEFINE F(d, h) == Sayings(ac, al)[d][h]
           C(d, m, p) == TypedAfter(links, V, m, p, d)
           S == {d \in Nat : \A h, m, p : Leads(links, V, al, h, m, p) => F(d, h) = C(d, m, p)}
<1>1. /\ ac \in [Node -> Addr] /\ al \in [Node -> Addr] /\ Ranked(al)
      /\ \A n \in Node : Type[n] \in EndType => al[n] = NULL
  BY DEF Sound
<1>2. ASSUME NEW d \in Nat, NEW h \in Node
      PROVE  F(d, h) = UNION {SpelledBy(Sayings(ac, al)[d - 1], ac, d, y) : y \in Elements(h, al)}
  <2>1. F(d, h) = Spelled(Sayings(ac, al)[d - 1], ac, al, d)[h]
    BY <1>1, CommandsRec
  <2>2. ToSet(LevelIn(al, h)) = Elements(h, al)
    BY <1>1, LevelIs
  <2> QED
    BY <2>1, <2>2 DEF Spelled, Addr
<1>3. 0 \in S
  <2> SUFFICES ASSUME NEW h, NEW m, NEW p, Leads(links, V, al, h, m, p)
               PROVE  F(0, h) = C(0, m, p)
    OBVIOUS
  <2>1. h \in V /\ Path(h) = p /\ h \in Node /\ Len(p) \in Nat
    BY <1>1, LeaderOnList, PathsTyped
  <2>2. \A y : SpelledBy(Sayings(ac, al)[0 - 1], ac, 0, y) = {}
    BY DEF SpelledBy
  <2>3. F(0, h) = {}
    BY <1>2, <2>1, <2>2
  <2>4. \A e \in V : ~(Prefixed(p, Path(e)) /\ Len(Path(e)) < Len(p) + 0)
    <3> TAKE e \in V
    <3>1. Len(Path(e)) \in Nat
      BY PathsTyped
    <3> QED
      BY <2>1, <3>1 DEF Prefixed
  <2>5. Ends(links, V, m, p, 0) = {}
    BY <2>4 DEF Ends
  <2> QED
    BY <2>3, <2>5 DEF TypedAfter
<1>4. ASSUME NEW d \in Nat, d \in S
      PROVE  d + 1 \in S
  <2> DEFINE f == Sayings(ac, al)[d]
  <2>0. \A y \in V : SpelledBy(f, ac, d + 1, y) = TypedBy(links, V, y, d + 1)
    <3>1. \A k, n, q : Leads(links, V, al, k, n, q) => f[k] = TypedAfter(links, V, n, q, d)
      BY <1>4
    <3> HIDE DEF f, S, C, F
    <3> QED
      BY <3>1, GroveSpells
  <2> SUFFICES ASSUME NEW h, NEW m, NEW p, Leads(links, V, al, h, m, p)
               PROVE  F(d + 1, h) = C(d + 1, m, p)
    OBVIOUS
  <2>1. /\ h \in V /\ Path(h) = p /\ h \in Node /\ Len(p) \in Nat /\ h \in Chained
        /\ p \in Seq(Keywords)
    BY <1>1, LeaderOnList, PathsTyped
  <2> DEFINE B(y) == SpelledBy(f, ac, d + 1, y)
             L == {x \in V : ModeOf(links, x) = m /\ Path(x) = p}
             E == Ends(links, V, m, p, d + 1)
             via(y, e) == IF IsWord(y) THEN Prefixed(PathBehind(y), Path(e)) ELSE e = y
  <2>2. (d + 1) - 1 = d /\ d + 1 \in Nat
    OBVIOUS
  <2>3. F(d + 1, h) = UNION {B(y) : y \in Elements(h, al)}
    BY <1>2, <2>1, <2>2
  <2>4. Elements(h, al) \ {NO_ALT} = L
    BY DEF Leads
  <2>5. B(NO_ALT) = {}
    <3>1. Type[NO_ALT] = "DEAD"
      BY ChainAssumption, NodeAssumption DEF Static
    <3> QED
      BY <3>1 DEF SpelledBy
  <2>6. \A y \in L : B(y) = {Behind(e, Len(p)) : e \in {x \in E : via(y, x)}}
    <3> TAKE y \in L
    <3>1. y \in V /\ ModeOf(links, y) = m /\ Path(y) = p
      OBVIOUS
    <3> HIDE DEF f, L, E, via
    <3> QED
      BY <2>0, <3>1 DEF E, via, TypedBy
  <2>7. \A e \in E : \E y \in L : via(y, e)
    <3> TAKE e \in E
    <3>1. e \in V /\ e \in Chained /\ ~IsWord(e) /\ ModeOf(links, e) = m /\ Prefixed(p, Path(e))
      BY DEF Ends
    <3>2. Path(e) \in Seq(Keywords) /\ Len(Path(e)) \in Nat
      BY <3>1, PathsTyped
    <3>3. CASE Len(Path(e)) = Len(p)
      <4>1. Prefixed(Path(e), Path(e))
        BY <3>2 DEF Prefixed
      <4>2. Path(e) = p
        BY <2>1, <3>1, <3>2, <3>3, <4>1, PrefixesMeet
      <4>3. e \in L /\ via(e, e)
        BY <3>1, <4>2
      <4> QED
        BY <4>3
    <3>4. CASE Len(Path(e)) # Len(p)
      <4> DEFINE i == Len(p) + 1
      <4>1. i \in 1 .. Len(Path(e))
        BY <2>1, <3>1, <3>2, <3>4 DEF Prefixed
      <4>2. PICK y \in V : /\ IsWord(y) /\ ModeOf(links, y) = ModeOf(links, e)
                           /\ PathBehind(y) = SubSeq(Path(e), 1, i)
        BY <3>1, <4>1 DEF Grove
      <4>3. Prefixed(PathBehind(y), Path(e)) /\ Len(PathBehind(y)) = i
        BY <3>2, <4>1, <4>2, CutPath
      <4>4. Path(y) \in Seq(Keywords) /\ Len(PathBehind(y)) = Len(Path(y)) + 1
            /\ Len(Path(y)) \in Nat /\ y \in Chained
        BY <4>2, PathsTyped
      <4>5. Prefixed(Path(y), Path(e))
        BY <3>2, <4>3, <4>4, PathBegins
      <4>6. Path(y) = p
        BY <2>1, <3>1, <3>2, <4>3, <4>4, <4>5, PrefixesMeet
      <4>7. y \in L /\ via(y, e)
        BY <3>1, <4>2, <4>3, <4>6
      <4> QED
        BY <4>7
    <3> QED
      BY <3>3, <3>4
  <2> HIDE DEF F, B, L, E, via
  <2>8. F(d + 1, h) = UNION {B(y) : y \in L}
    <3>1. \A y \in Elements(h, al) : y \in L \/ y = NO_ALT
      BY <2>4
    <3>2. \A y \in L : y \in Elements(h, al)
      BY <2>4
    <3> QED
      BY <2>3, <2>5, <3>1, <3>2
  <2>9. UNION {B(y) : y \in L} = {Behind(e, Len(p)) : e \in E}
    <3>1. ASSUME NEW y \in L, NEW c \in B(y)
          PROVE  \E e \in E : c = Behind(e, Len(p))
      BY <2>6, <3>1
    <3>2. ASSUME NEW e \in E
          PROVE  \E y \in L : Behind(e, Len(p)) \in B(y)
      <4>1. PICK y \in L : via(y, e)
        BY <2>7
      <4>2. Behind(e, Len(p)) \in B(y)
        BY <2>6, <4>1
      <4> QED
        BY <4>2
    <3> QED
      BY <3>1, <3>2
  <2> QED
    BY <2>8, <2>9 DEF E, TypedAfter
<1> HIDE DEF S
<1>5. \A d \in Nat : d \in S
  BY <1>3, <1>4, NatSetInduction
<1> QED
  BY <1>5 DEF S

-----------------------------------------------------------------------------
(* The commands of the trees.                                              *)

(* The commands that the chains in V declare for mode m.                   *)
Said(links, V, m) ==
  {Append(Path(e), e) : e \in {x \in V : ~IsWord(x) /\ ModeOf(links, x) = m}}

(* The bound on the words of a command is large enough to recurse with.    *)
LEMMA WordsBound == MaxWords \in Nat /\ MaxWords + 1 \in Nat /\ MaxWords + 1 >= MaxWords
                    /\ (MaxWords + 1) - 1 = MaxWords /\ MaxWords + 1 # 0 /\ MaxWords # 0
BY DEF MaxWords

(* From the first word on, and up to no less words than there are.         *)
Whole(p, d) == p = <<>> /\ d \in Nat /\ d >= MaxWords

(* All the commands of a mode, at the first list of its tree.              *)
LEMMA HeadCommands ==
  ASSUME NEW links, NEW V, V \subseteq Chained, NEW ac, NEW al, Sound(ac, al),
         Grove(links, V, al), NEW h, NEW m, NEW p, Leads(links, V, al, h, m, p), NEW d \in Nat
  PROVE  Whole(p, d) => Sayings(ac, al)[d][h] = Said(links, V, m)
<1>1. Sayings(ac, al)[d][h] = TypedAfter(links, V, m, p, d)
  BY GroveCommands
<1> SUFFICES ASSUME Whole(p, d)
             PROVE  Sayings(ac, al)[d][h] = Said(links, V, m)
  OBVIOUS
<1>2. \A e \in V : /\ Prefixed(p, Path(e)) /\ Len(Path(e)) < Len(p) + d
                   /\ Behind(e, Len(p)) = Append(Path(e), e)
  <2> TAKE e \in V
  <2>1. /\ e \in Chained /\ Len(Path(e)) \in Nat /\ Len(Path(e)) < MaxWords
        /\ Len(p) = 0 /\ d \in Nat /\ d >= MaxWords
    BY PathsTyped DEF Whole
  <2>2. Len(Path(e)) < Len(p) + d
    BY <2>1, WordsBound
  <2>3. Behind(e, 0) = Append(Path(e), e)
    BY <2>1, BehindEnd
  <2> QED
    BY <2>1, <2>2, <2>3 DEF Prefixed
<1> DEFINE E == {x \in V : ~IsWord(x) /\ ModeOf(links, x) = m}
<1>3. Ends(links, V, m, p, d) = E
  BY <1>2 DEF Ends
<1>4. \A e \in E : Behind(e, Len(p)) = Append(Path(e), e)
  BY <1>2
<1> HIDE DEF E
<1>5. TypedAfter(links, V, m, p, d) = {Append(Path(e), e) : e \in E}
  BY <1>3, <1>4 DEF TypedAfter
<1> QED
  BY <1>1, <1>5 DEF Said, E

(* There are no commands where there is no list.                           *)
LEMMA NothingThere ==
  ASSUME NEW ac \in [Node -> Addr], NEW al \in [Node -> Addr], NEW d \in Nat
  PROVE  Sayings(ac, al)[d][NULL] = {}
<1> DEFINE step == [y \in Node |-> GetNextNode(al, y)]
<1>1. step \in [Node -> Addr]
  BY DEF GetNextNode, Addr
<1>2. LevelIn(al, NULL) = ListFrom(NULL, step) /\ NULL \in Addr
  BY DEF LevelIn, Addr
<1> HIDE DEF step
<1>3. ListFrom(NULL, step) = <<>>
  BY <1>1, <1>2, ListFromIs, ListsRec, NodeFinite
<1>4. ToSet(LevelIn(al, NULL)) = {}
  BY <1>2, <1>3 DEF ToSet
<1>5. Sayings(ac, al)[d][NULL] = Spelled(Sayings(ac, al)[d - 1], ac, al, d)[NULL]
  BY CommandsRec
<1> QED
  BY <1>2, <1>4, <1>5 DEF Spelled

(* The commands at a list are those of its first node and of the others.   *)
LEMMA ListSays ==
  ASSUME NEW ac, NEW al, Sound(ac, al), NEW d \in Nat, NEW x \in Node
  PROVE  Sayings(ac, al)[d][x] = SpelledBy(Sayings(ac, al)[d - 1], ac, d, x)
                                   \cup Sayings(ac, al)[d][al[x]]
<1>1. /\ ac \in [Node -> Addr] /\ al \in [Node -> Addr] /\ Ranked(al)
      /\ \A n \in Node : Type[n] \in EndType => al[n] = NULL
  BY DEF Sound
<1> DEFINE F(y) == Sayings(ac, al)[d][y]
           B(y) == SpelledBy(Sayings(ac, al)[d - 1], ac, d, y)
<1>2. ASSUME NEW h \in Node
      PROVE  F(h) = UNION {B(y) : y \in Elements(h, al)}
  <2>1. F(h) = Spelled(Sayings(ac, al)[d - 1], ac, al, d)[h]
    BY <1>1, CommandsRec
  <2>2. ToSet(LevelIn(al, h)) = Elements(h, al)
    BY <1>1, LevelIs
  <2> QED
    BY <2>1, <2>2 DEF Spelled, Addr
<1>3. F(NULL) = {}
  BY <1>1, NothingThere
<1>4. Elements(x, al) = {x} \cup (IF al[x] = NULL THEN {} ELSE Elements(al[x], al))
  BY <1>1, ListUnfoldsToSet
<1>5. al[x] \in Addr
  BY <1>1
<1> HIDE DEF F, B
<1>6. F(x) = B(x) \cup F(al[x])
  <2>1. CASE al[x] = NULL
    <3>1. Elements(x, al) = {x}
      BY <1>4, <2>1
    <3>2. F(x) = UNION {B(y) : y \in {x}}
      BY <1>2, <3>1
    <3> QED
      BY <1>3, <2>1, <3>2
  <2>2. CASE al[x] # NULL
    <3> DEFINE E == Elements(al[x], al)
    <3>1. al[x] \in Node
      BY <1>5, <2>2 DEF Addr
    <3>2. Elements(x, al) = {x} \cup E
      BY <1>4, <2>2
    <3>3. F(al[x]) = UNION {B(y) : y \in E}
      BY <1>2, <3>1
    <3>4. F(x) = UNION {B(y) : y \in {x} \cup E}
      BY <1>2, <3>2
    <3> HIDE DEF E
    <3> QED
      BY <3>3, <3>4
  <2> QED
    BY <2>1, <2>2
<1> QED
  BY <1>6 DEF F, B

(* The declared pointers lead what was declared.                           *)
LEMMA DeclaredSound == Sound(DeclaredAcc, DeclaredAlter)
<1>1. DeclaredAlter \in [Node -> Addr] /\ Ranked(DeclaredAlter)
  BY DeclaredAlterRanked
<1>2. DeclaredAcc \in [Node -> Addr] /\ \A n \in Static : DeclaredAcc[n] = StaticNode[n].acc
  BY DeclaredPointers DEF DeclaredAcc, Addr
<1>3. ASSUME NEW n \in Node, Type[n] \in EndType
      PROVE  DeclaredAlter[n] = NULL
  <2>1. PICK x \in Static : Def[n] = StaticNode[x]
    BY DeclaredAs
  <2>2. Def[x] = StaticNode[x] /\ x \in Node
    BY DeclaredPointers
  <2>3. Type[x] \in EndType
    BY <1>3, <2>1, <2>2 DEF Type
  <2>4. StaticNode[x].alter = NULL
    BY <2>3, ChainAssumption
  <2> QED
    BY <2>1, <2>4 DEF DeclaredAlter
<1> QED
  BY <1>1, <1>2, <1>3 DEF Sound

(* The commands that a chain declares are those of its nodes.              *)
LEMMA ChainCommands ==
  ASSUME NEW links, NEW r \in Linkable
  PROVE  Commands(DeclaredAcc, DeclaredAlter, r) = Said(links, ChainNodes(r), ChainMode(links, r))
<1>1. DeclaredAlter \in [Node -> Addr] /\ Ranked(DeclaredAlter)
  BY DeclaredAlterRanked
<1>2. PICK V : V = {}
  OBVIOUS
<1>3. Grove(links, V, DeclaredAlter) /\ V \subseteq Chained
      /\ \A x \in V : ModeOf(links, x) # ChainMode(links, r)
  BY <1>2 DEF Grove
<1>4. \A x \in ChainNodes(r) : DeclaredAlter[x] = StaticNode[x].alter
  BY PathsTyped, DeclaredPointers DEF ChainNodes, DeclaredAlter
<1>5. DeclaredAlter[NO_ALT] = NULL
  <2>1. NO_ALT \in Node /\ Type[NO_ALT] = "DEAD"
    BY ChainAssumption, NodeAssumption, DeclaredPointers DEF Static
  <2> QED
    BY <2>1, DeclaredSound DEF Sound, EndType
<1> DEFINE W == ChainNodes(r)
<1>6. /\ W \subseteq Chained /\ Grove(links, W, DeclaredAlter)
      /\ Leads(links, W, DeclaredAlter, r, ChainMode(links, r), <<>>)
  <2>1. /\ V \cup W \subseteq Chained /\ Grove(links, V \cup W, DeclaredAlter)
        /\ Leads(links, V \cup W, DeclaredAlter, r, ChainMode(links, r), <<>>)
    BY <1>1, <1>3, <1>4, <1>5, GroveTakesChain
  <2>2. V \cup W = W
    BY <1>2
  <2> QED
    BY <2>1, <2>2
<1> HIDE DEF W
<1>7. PICK p : p = <<>>
  OBVIOUS
<1>8. W \subseteq Chained /\ Grove(links, W, DeclaredAlter)
  BY <1>6
<1>9. Leads(links, W, DeclaredAlter, r, ChainMode(links, r), p)
  BY <1>6, <1>7
<1>10. PICK d \in Nat : d = MaxWords + 1
  BY WordsBound
<1>11. Whole(p, d)
  BY <1>7, <1>10, WordsBound DEF Whole
<1>12. Sayings(DeclaredAcc, DeclaredAlter)[d][r] = Said(links, W, ChainMode(links, r))
  BY <1>8, <1>9, <1>11, DeclaredSound, HeadCommands
<1> QED
  BY <1>10, <1>12, CommandsIs DEF W

(* What is declared is what the chains that are taken say.                 *)
LEMMA DeclaredCommands ==
  ASSUME example \in ExampleLinks, NEW upto \in 0 .. Len(Links), NEW m
  PROVE  Declared(m, upto) = Said(Links, LinkedBy(Links, upto), m)
<1>1. Len(Links) \in Nat /\ Links = LinksWith(example)
  BY LinksTyped DEF Links
<1>2. ASSUME NEW i \in 1 .. upto
      PROVE  /\ Links[i].root \in Linkable
             /\ ChainMode(Links, Links[i].root) = Links[i].mode
  <2>1. i \in 1 .. Len(LinksWith(example))
    BY <1>1
  <2> QED
    BY <1>1, <2>1, LinkedRoots
<1> DEFINE D(i) == IF Links[i].mode # m THEN {}
                   ELSE Commands(DeclaredAcc, DeclaredAlter, Links[i].root)
           S(e) == Append(Path(e), e)
           E == {x \in LinkedBy(Links, upto) : ~IsWord(x) /\ ModeOf(Links, x) = m}
<1>3. ASSUME NEW i \in 1 .. upto
      PROVE  D(i) = {S(e) : e \in {x \in E : Chain(x) = Links[i].root}}
  <2>1. \A x \in Chained : Chain(x) = Links[i].root => ModeOf(Links, x) = Links[i].mode
    BY <1>2 DEF ModeOf
  <2>2. \A x : x \in LinkedBy(Links, upto) /\ Chain(x) = Links[i].root
          <=> x \in ChainNodes(Links[i].root)
    BY DEF LinkedBy, ChainNodes
  <2>3. CASE Links[i].mode # m
    <3>1. {x \in E : Chain(x) = Links[i].root} = {}
      BY <2>1, <2>3 DEF LinkedBy
    <3> HIDE DEF E
    <3> QED
      BY <2>3, <3>1
  <2>4. CASE Links[i].mode = m
    <3> DEFINE C == {x \in ChainNodes(Links[i].root) : ~IsWord(x) /\ ModeOf(Links, x) = m}
               G == {x \in E : Chain(x) = Links[i].root}
    <3>1. D(i) = {S(e) : e \in C}
      BY <1>2, <2>4, ChainCommands DEF Said
    <3>2. C = G
      BY <2>2
    <3> HIDE DEF C, D, S
    <3>3. D(i) = {S(e) : e \in G}
      BY <3>1, <3>2
    <3> QED
      BY <3>3 DEF S
  <2> QED
    BY <2>3, <2>4
<1>4. \A e \in E : \E i \in 1 .. upto : Chain(e) = Links[i].root
  BY DEF LinkedBy
<1>5. Declared(m, upto) = UNION {D(i) : i \in 1 .. upto}
  BY DEF Declared
<1> HIDE DEF D, S, E
<1>6. UNION {D(i) : i \in 1 .. upto} = {S(e) : e \in E}
  <2>1. ASSUME NEW i \in 1 .. upto, NEW c \in D(i)
        PROVE  c \in {S(e) : e \in E}
    BY <1>3
  <2>2. ASSUME NEW e \in E
        PROVE  \E i \in 1 .. upto : S(e) \in D(i)
    BY <1>3, <1>4
  <2> QED
    BY <2>1, <2>2
<1> QED
  BY <1>5, <1>6 DEF Said, S, E

-----------------------------------------------------------------------------
(* The built-in commands.                                                  *)

(* What is known of a copy is what was declared of its template.           *)
LEMMA CloneIs ==
  ASSUME NEW m \in Mode, NEW t \in Template
  PROVE  Clone[m][t] \in Node /\ Def[Clone[m][t]] = Def[t]
<1>1. Clone[m][t] \in CloneName
  BY DEF CloneName
<1>2. Clone[m][t] \in Node /\ Clone[m][t] \notin Static
  BY <1>1, DeclaredPointers
<1>3. (CHOOSE u \in Template : \E k \in Mode : Clone[m][t] = Clone[k][u]) = t
  BY NodeAssumption
<1>4. Def[Clone[m][t]] = StaticNode[t]
  BY <1>2, <1>3 DEF Def, Static
<1>5. t \in Static
  BY NodeAssumption DEF Static
<1> QED
  BY <1>2, <1>4, <1>5, DeclaredPointers

(* The built-in nodes, as add_buildin_nodes() copies them.                 *)
LEMMA TemplatesSay ==
  /\ \A t \in Template : Type[t] = Def[t].type /\ t \in Node
  /\ Type["node_exit"] = "KEYWORD" /\ Def["node_exit"].keyword = "exit"
  /\ Type["node_end"] = "KEYWORD" /\ Def["node_end"].keyword = "end"
  /\ Type["node_no"] = "NO" /\ Def["node_no"].keyword = "no"
  /\ Type["node_default"] = "DEFAULT" /\ Def["node_default"].keyword = "default"
  /\ {"node_exit", "node_end", "node_no", "node_default"} \subseteq Template
  /\ Type["node_exit_end"] = "END" /\ Type["node_end_end"] = "END"
  /\ "node_exit_end" \in Static /\ "node_end_end" \in Static
  /\ \A n \in Chained :
       Path(n) = <<>> => Def[n].keyword \notin {"exit", "end", "no", "default"}
<1>1. \A t \in Template : t \in Node
  BY NodeAssumption, DeclaredPointers DEF Static
<1>2. \A t \in Template : Type[t] = Def[t].type
  BY <1>1 DEF Type
<1>3. "node_exit_end" \in Static /\ "node_end_end" \in Static
  BY NodeAssumption DEF Static
<1>4. {"node_exit", "node_end", "node_no", "node_default"} \subseteq Template
  BY DEF Template
<1>5. /\ Def["node_exit"].type = "KEYWORD" /\ Def["node_exit"].keyword = "exit"
      /\ Def["node_end"].type = "KEYWORD" /\ Def["node_end"].keyword = "end"
      /\ Def["node_no"].type = "NO" /\ Def["node_no"].keyword = "no"
      /\ Def["node_default"].type = "DEFAULT" /\ Def["node_default"].keyword = "default"
      /\ Type["node_exit_end"] = "END" /\ Type["node_end_end"] = "END"
      /\ \A n \in Chained : Path(n) = <<>> => Def[n].keyword \notin {Def[t].keyword : t \in Template}
  BY BuildinAssumption
<1>6. \A n \in Chained :
        Path(n) = <<>> => Def[n].keyword \notin {"exit", "end", "no", "default"}
  BY <1>4, <1>5
<1> QED
  BY <1>1, <1>2, <1>3, <1>4, <1>5, <1>6

(* What the theorems about the pointers say of the trees.                  *)
LEMMA TreesSound ==
  ASSUME TreeInv, NEW T, NEW first, Shape(T, first)
  PROVE  /\ Sound(acc, alter) /\ T \subseteq Home /\ T \subseteq Chained
         /\ \A n \in Node : Type[n] \in EndType => alter[n] = NULL
<1>1. T \subseteq Home /\ T \subseteq Chained
  BY HomeTyped DEF Shape, Planted
<1>2. /\ acc \in [Node -> Addr] /\ alter \in [Node -> Addr] /\ Ranked(alter)
      /\ \A n \in Static : acc[n] = StaticNode[n].acc
  BY HomeTyped DEF TreeInv, TreeTypeOK, Addr
<1>3. ASSUME NEW n \in Node, Type[n] \in EndType
      PROVE  alter[n] = NULL
  <2>1. n \in Static
    <3>1. ASSUME n \in CloneName
          PROVE  FALSE
      <4>1. PICK m \in Mode, t \in Template : n = Clone[m][t]
        BY <3>1 DEF CloneName
      <4>2. Type[n] = Type[t]
        BY <4>1, CloneIs, TemplatesSay DEF Type
      <4> QED
        BY <1>3, <4>2, TemplatesSay DEF Template, EndType
    <3> QED
      BY <3>1, DeclaredPointers
  <2> QED
    BY <1>3, <2>1 DEF Shape, Levelled
<1> QED
  BY <1>1, <1>2, <1>3 DEF Sound

(* The commands of a mode but for the built-in ones.                       *)
LEMMA FirstCommands ==
  ASSUME TreeInv, NEW T, NEW first \in [Mode -> Addr], Shape(T, first), NEW m \in Mode,
         NEW d \in Nat
  PROVE  d >= MaxWords => Sayings(acc, alter)[d][first[m]] = Said(Links, T, m)
<1> SUFFICES ASSUME d >= MaxWords
             PROVE  Sayings(acc, alter)[d][first[m]] = Said(Links, T, m)
  OBVIOUS
<1>1. /\ Sound(acc, alter) /\ T \subseteq Chained /\ Grove(Links, T, alter)
      /\ IF first[m] = NULL THEN \A x \in T : ModeOf(Links, x) # m
                            ELSE Leads(Links, T, alter, first[m], m, <<>>)
  BY TreesSound DEF Shape, Planted
<1>2. CASE first[m] = NULL
  <2>1. Said(Links, T, m) = {}
    BY <1>1, <1>2 DEF Said
  <2>2. Sayings(acc, alter)[d][NULL] = {}
    BY <1>1, NothingThere DEF Sound
  <2> QED
    BY <1>2, <2>1, <2>2
<1>3. CASE first[m] # NULL
  <2>1. PICK p : p = <<>>
    OBVIOUS
  <2>2. Whole(p, d)
    BY <2>1 DEF Whole
  <2>3. Leads(Links, T, alter, first[m], m, p) /\ Grove(Links, T, alter) /\ T \subseteq Chained
    BY <1>1, <1>3, <2>1
  <2>4. Sound(acc, alter)
    BY <1>1
  <2> QED
    BY <2>2, <2>3, <2>4, HeadCommands
<1> QED
  BY <1>2, <1>3

(* Commands with a word in front.                                          *)
WithFirst(w, C) == {<<w>> \o c : c \in C}

(* The built-in commands that every mode but the first one gets.           *)
ExitAndEnd == {<<"exit", "node_exit_end">>, <<"end", "node_end_end">>}

(* add_buildin_nodes(): what the built-in commands add to those of a mode. *)
LEMMA TopCommands ==
  ASSUME TreeInv, NEW T, NEW first \in [Mode -> Addr], Shape(T, first), NEW m \in Mode
  PROVE  LET S == Said(Links, T, m) IN
         /\ root[m] = first[m] => CommandsOf(m) = S
         /\ LedByExit(m, first[m]) => CommandsOf(m) = S \cup ExitAndEnd
         /\ LedByAll(m, first[m]) =>
              CommandsOf(m) = S \cup ExitAndEnd \cup WithFirst("no", S) \cup WithFirst("default", S)
<1>1. Sound(acc, alter)
  BY TreesSound
<1>2. PICK d, e \in Nat : d = MaxWords /\ e = MaxWords + 1
  BY WordsBound
<1>3. d >= MaxWords /\ e >= MaxWords /\ e - 1 = d /\ e # 0 /\ d # 0
  BY <1>2, WordsBound
<1>4. \A x : Commands(acc, alter, x) = Sayings(acc, alter)[e][x]
  BY <1>2, CommandsIs
<1> DEFINE f == Sayings(acc, alter)[d]
           g == Sayings(acc, alter)[e]
           S == Said(Links, T, m)
           ex == Clone[m]["node_exit"]
           en == Clone[m]["node_end"]
           no == Clone[m]["node_no"]
           de == Clone[m]["node_default"]
<1>5. f[first[m]] = S /\ g[first[m]] = S
  BY <1>3, FirstCommands
<1>6. \A x \in Node : g[x] = SpelledBy(f, acc, e, x) \cup g[alter[x]]
  BY <1>1, <1>3, ListSays
<1>7. \A x \in Static : Type[x] = "END" => f[x] = {<<x>>}
  <2> SUFFICES ASSUME NEW x \in Static, Type[x] = "END"
               PROVE  f[x] = {<<x>>}
    OBVIOUS
  <2>1. x \in Node /\ alter[x] = NULL
    BY TreesSound, DeclaredPointers DEF EndType
  <2>2. f[x] = SpelledBy(Sayings(acc, alter)[d - 1], acc, d, x) \cup f[alter[x]]
    BY <1>1, <2>1, ListSays
  <2>3. f[NULL] = {}
    BY <1>1, NothingThere DEF Sound
  <2>4. SpelledBy(Sayings(acc, alter)[d - 1], acc, d, x) = {<<x>>}
    BY <1>3 DEF SpelledBy
  <2> QED
    BY <2>1, <2>2, <2>3, <2>4
<1>8. \A x \in Node : Type[x] \notin {"END", "DEAD"} =>
        SpelledBy(f, acc, e, x) = WithFirst(Def[x].keyword, f[acc[x]])
  BY <1>3 DEF SpelledBy, WithFirst
<1>9. /\ ex \in Node /\ en \in Node /\ no \in Node /\ de \in Node
      /\ Def[ex].keyword = "exit" /\ Def[en].keyword = "end"
      /\ Def[no].keyword = "no" /\ Def[de].keyword = "default"
      /\ {Type[ex], Type[en], Type[no], Type[de]} \cap {"END", "DEAD"} = {}
  BY CloneIs, TemplatesSay DEF Type
<1>10. CommandsOf(m) = g[root[m]]
  BY <1>4 DEF CommandsOf
<1> HIDE DEF f, g, S, ex, en, no, de
<1>11. \A w, x : WithFirst(w, {<<x>>}) = {<<w, x>>}
  <2> TAKE w, x
  <2> DEFINE Z == {w, x}
             o == <<x>>
             u == <<w>> \o o
             v == <<w, x>>
  <2>1. /\ w \in Z /\ o \in Seq(Z) /\ Len(o) = 1 /\ o[1] = x
        /\ v \in Seq(Z) /\ Len(v) = 2 /\ v[1] = w /\ v[2] = x
    OBVIOUS
  <2> HIDE DEF Z, o, v
  <2>a. w \in Z /\ o \in Seq(Z)
    BY <2>1
  <2>2. /\ u \in Seq(Z) /\ Len(u) = Len(o) + 1 /\ u[1] = w
        /\ \A i \in 1 .. Len(o) : u[i + 1] = o[i]
    BY <2>a, ConsProperties
  <2> HIDE DEF u
  <2>3. Len(u) = 2 /\ u[1] = w /\ u[2] = x
    BY <2>1, <2>2
  <2>4. u = v
    BY <2>1, <2>2, <2>3, SeqEqual
  <2>5. <<w>> \o <<x>> = <<w, x>>
    BY <2>4 DEF o, u, v
  <2> QED
    BY <2>5 DEF WithFirst
<1>12. ASSUME acc[ex] = "node_exit_end", acc[en] = "node_end_end"
       PROVE  SpelledBy(f, acc, e, ex) \cup SpelledBy(f, acc, e, en) = ExitAndEnd
  <2>1. f["node_exit_end"] = {<<"node_exit_end">>} /\ f["node_end_end"] = {<<"node_end_end">>}
    BY <1>7, TemplatesSay
  <2>2. SpelledBy(f, acc, e, ex) = WithFirst("exit", {<<"node_exit_end">>})
    BY <1>8, <1>9, <1>12, <2>1
  <2>3. SpelledBy(f, acc, e, en) = WithFirst("end", {<<"node_end_end">>})
    BY <1>8, <1>9, <1>12, <2>1
  <2>4. SpelledBy(f, acc, e, ex) = {<<"exit", "node_exit_end">>}
    BY <1>11, <2>2
  <2>5. SpelledBy(f, acc, e, en) = {<<"end", "node_end_end">>}
    BY <1>11, <2>3
  <2> QED
    BY <2>4, <2>5 DEF ExitAndEnd
<1>13. root[m] = first[m] => CommandsOf(m) = S
  BY <1>5, <1>10
<1>14. ASSUME LedByExit(m, first[m])
       PROVE  CommandsOf(m) = S \cup ExitAndEnd
  <2>1. /\ root[m] = ex /\ acc[ex] = "node_exit_end" /\ acc[en] = "node_end_end"
        /\ alter[ex] = en /\ alter[en] = first[m]
    BY <1>14 DEF LedByExit, ex, en
  <2>2. g[ex] = SpelledBy(f, acc, e, ex) \cup (SpelledBy(f, acc, e, en) \cup S)
    BY <1>5, <1>6, <1>9, <2>1
  <2> QED
    BY <1>10, <1>12, <2>1, <2>2
<1>15. ASSUME LedByAll(m, first[m])
       PROVE  CommandsOf(m) = S \cup ExitAndEnd \cup WithFirst("no", S) \cup WithFirst("default", S)
  <2>1. /\ root[m] = ex /\ acc[ex] = "node_exit_end" /\ acc[en] = "node_end_end"
        /\ alter[ex] = en /\ alter[en] = no /\ alter[no] = de /\ alter[de] = first[m]
        /\ acc[no] = first[m] /\ acc[de] = first[m]
    BY <1>15 DEF LedByAll, ex, en, no, de
  <2>2. SpelledBy(f, acc, e, no) = WithFirst("no", S)
    BY <1>5, <1>8, <1>9, <2>1
  <2>3. SpelledBy(f, acc, e, de) = WithFirst("default", S)
    BY <1>5, <1>8, <1>9, <2>1
  <2>4. g[ex] = SpelledBy(f, acc, e, ex) \cup (SpelledBy(f, acc, e, en)
                  \cup (SpelledBy(f, acc, e, no) \cup (SpelledBy(f, acc, e, de) \cup S)))
    BY <1>5, <1>6, <1>9, <2>1
  <2> QED
    BY <1>10, <1>12, <2>1, <2>2, <2>3, <2>4
<1> QED
  BY <1>13, <1>14, <1>15 DEF S

-----------------------------------------------------------------------------
(* Every step of start-up.                                                 *)

(* The commands of each mode, where T and first are what was merged.       *)
Says(T, first) ==
  \A m \in Mode :
    LET S == Said(Links, T, m) IN
    /\ root[m] = first[m] => CommandsOf(m) = S
    /\ LedByExit(m, first[m]) => CommandsOf(m) = S \cup ExitAndEnd
    /\ LedByAll(m, first[m]) =>
         CommandsOf(m) = S \cup ExitAndEnd \cup WithFirst("no", S) \cup WithFirst("default", S)

(* At every step of start-up this is so,                                   *)
LEMMA ShapeSays ==
  \A T \in SUBSET Chained, first \in [Mode -> Addr] :
    TreeInv /\ Shape(T, first) => Says(T, first)
BY TopCommands DEF Says

(* and after every step.                                                   *)
LEMMA ShapeSaysNext ==
  (\A T \in SUBSET Chained, first \in [Mode -> Addr] :
     TreeInv /\ Shape(T, first) => Says(T, first))'
BY ShapeSays, PTL

(* Every link is taken before the built-in commands are added.             *)
AllLinked == stage \in {"buildin", "ready"} => link - 1 = Len(Links)

(* The trees are made of chains that were taken.                           *)
Grown == \E T \in SUBSET Chained, first \in [Mode -> Addr] : Shape(T, first)

(* The inductive invariant of start-up.                                    *)
MergeInv == TreeInv /\ (EndsApart => Grown) /\ AllLinked

(* It holds before main() runs,                                            *)
LEMMA MergeInvInit == TreeInit => MergeInv
<1> SUFFICES ASSUME TreeInit
             PROVE  MergeInv
  OBVIOUS
<1>1. TreeInv
  BY TreeInvInit
<1>2. Shape({}, [m \in Mode |-> NULL])
  BY ShapeInit
<1>3. {} \in SUBSET Chained /\ [m \in Mode |-> NULL] \in [Mode -> Addr]
  BY DEF Addr
<1>4. Grown
  BY <1>2, <1>3 DEF Grown
<1>5. AllLinked
  BY DEF AllLinked, TreeInit
<1> QED
  BY <1>1, <1>4, <1>5 DEF MergeInv

(* and every step of start-up keeps it.                                    *)
LEMMA MergeInvNext == MergeInv /\ [TreeNext]_treeVars => MergeInv'
<1> SUFFICES ASSUME MergeInv, [TreeNext]_treeVars
             PROVE  MergeInv'
  OBVIOUS
<1>1. TreeInv /\ TreeInv'
  BY TreeInvNext DEF MergeInv
<1>2. example' = example /\ Links' = Links
  BY DEF TreeNext, InitCliMode, LinkRoot, LinkMerge, MergeReturns, MergeAdds, MergeDescends,
         LinksDone, AddBuildinNodes, SkipBuildinNodes, InitCliTreeReturns, treeVars, Links
<1>3. ASSUME EndsApart
      PROVE  Grown'
  <2>1. PICK T \in SUBSET Chained, first \in [Mode -> Addr] : Shape(T, first)
    BY <1>3 DEF MergeInv, Grown
  <2>2. PICK U \in SUBSET Chained, g \in [Mode -> Addr] : Shape(U, g)'
    BY <1>1, <1>3, <2>1, ShapeStep
  <2> QED
    BY <2>2 DEF Grown
<1>4. (EndsApart => Grown)'
  BY <1>2, <1>3 DEF EndsApart
<1>5. AllLinked'
  <2>1. /\ link \in Nat /\ Len(Links) \in Nat /\ link <= Len(Links) + 1 /\ AllLinked
        /\ stack # <<>> => stage = "links"
    BY <1>1, HomeTyped DEF MergeInv, TreeInv, TreeTypeOK, MergesStatic
  <2>3. CASE (\E ok \in BOOLEAN : InitCliMode(ok)) \/ LinkRoot \/ LinkMerge
    BY <2>3 DEF InitCliMode, LinkRoot, LinkMerge, AllLinked
  <2>4. CASE MergeReturns \/ MergeAdds \/ MergeDescends
    BY <2>1, <2>4 DEF MergeReturns, MergeAdds, MergeDescends, AllLinked
  <2>5. CASE LinksDone
    BY <1>2, <2>1, <2>5 DEF LinksDone, AllLinked
  <2>6. CASE AddBuildinNodes \/ SkipBuildinNodes \/ InitCliTreeReturns \/ UNCHANGED treeVars
    <3>1. link' = link /\ (stage' \in {"buildin", "ready"} => stage \in {"buildin", "ready"})
      BY <2>6 DEF AddBuildinNodes, SkipBuildinNodes, InitCliTreeReturns, treeVars
    <3> QED
      BY <1>2, <2>1, <3>1 DEF AllLinked
  <2> QED
    BY <2>3, <2>4, <2>5, <2>6 DEF TreeNext
<1> QED
  BY <1>1, <1>4, <1>5 DEF MergeInv

(* What is declared for a mode is what its tree says, between two merges.  *)
LEMMA DeclaredIsSaid ==
  ASSUME TreeInv, NEW T \in SUBSET Chained, NEW first, Shape(T, first), stack = <<>>, NEW m
  PROVE  Declared(m, link - 1) = Said(Links, T, m)
<1>1. T \subseteq Home /\ example \in ExampleLinks /\ link - 1 \in 0 .. Len(Links)
  BY HomeTyped, TreesSound
<1>2. Merged(T)
  BY DEF Shape, Unmerged, Merged
<1>3. {x \in Home : ~IsWord(x) /\ ModeOf(Links, x) = m} = {x \in T : ~IsWord(x) /\ ModeOf(Links, x) = m}
  BY <1>1, <1>2 DEF Merged
<1>4. Declared(m, link - 1) = Said(Links, Home, m)
  BY <1>1, DeclaredCommands DEF Home
<1> QED
  BY <1>3, <1>4 DEF Said

(* MergesWhole: where no command is declared twice or is the beginning of another
   one, and whichever words the chains of a program share, in whichever order
   they are linked and how often, each mode has exactly the commands of its
   chains between two merges, and never less once it has built-in ones; no
   node is left where the parser does not look.                            *)
THEOREM MergesWholeAlways == TreeSpec => []MergesWhole
<1>1. MergeInv => MergesWhole
  <2> SUFFICES ASSUME MergeInv, EndsApart
               PROVE  MergedIsUnion /\ NothingBehindEnd
    BY DEF MergesWhole
  <2>1. PICK T \in SUBSET Chained, first \in [Mode -> Addr] : Shape(T, first)
    BY DEF MergeInv, Grown
  <2>2. TreeInv /\ Says(T, first)
    BY <2>1, ShapeSays DEF MergeInv
  <2>3. NothingBehindEnd
    BY <2>1, <2>2, TreesSound DEF NothingBehindEnd
  <2>4. ASSUME stage # "failed", stack = <<>>, NEW m \in Mode
        PROVE  /\ Declared(m, link - 1) \subseteq CommandsOf(m)
               /\ stage = "links" => CommandsOf(m) \subseteq Declared(m, link - 1)
    <3>1. Declared(m, link - 1) = Said(Links, T, m)
      BY <2>1, <2>2, <2>4, DeclaredIsSaid
    <3>2. /\ root[m] = first[m] \/ LedByExit(m, first[m]) \/ LedByAll(m, first[m])
          /\ stage = "links" => root[m] = first[m]
      BY <2>1 DEF Shape, Tops
    <3> QED
      BY <2>2, <3>1, <3>2 DEF Says
  <2> QED
    BY <2>3, <2>4 DEF MergedIsUnion
<1> QED
  BY <1>1, MergeInvInit, MergeInvNext, PTL DEF TreeSpec

(* KeepsCommands: where no command is declared twice or is the beginning of
   another one, no write of a pointer takes a command away from any mode.  *)
THEOREM CommandsAreKept == TreeSpec => KeepsCommands
<1>1. ASSUME MergeInv, EndsApart, [TreeNext]_treeVars
      PROVE  \A m \in Mode : CommandsOf(m) \subseteq CommandsOf(m)'
  <2>1. PICK T \in SUBSET Chained, first \in [Mode -> Addr] : Shape(T, first)
    BY <1>1 DEF MergeInv, Grown
  <2>2. TreeInv /\ TreeInv' /\ Says(T, first)
    BY <1>1, <2>1, TreeInvNext, ShapeSays DEF MergeInv
  <2>3. PICK U \in SUBSET Chained, g \in [Mode -> Addr] : T \subseteq U /\ Shape(U, g)'
    BY <1>1, <2>1, <2>2, ShapeStep
  <2>4. Says(U, g)'
    BY <2>2, <2>3, ShapeSaysNext
  <2>5. Links' = Links
    BY <1>1 DEF TreeNext, InitCliMode, LinkRoot, LinkMerge, MergeReturns, MergeAdds, MergeDescends,
           LinksDone, AddBuildinNodes, SkipBuildinNodes, InitCliTreeReturns, treeVars, Links
  <2> TAKE m \in Mode
  <2>6. CASE root[m] = first[m]
    <3>1. CommandsOf(m) = Said(Links, T, m)
      BY <2>2, <2>6 DEF Says
    <3>2. Said(Links, T, m) \subseteq Said(Links, U, m)
      BY <2>3 DEF Said
    <3>3. (root[m] = g[m] \/ LedByExit(m, g[m]) \/ LedByAll(m, g[m]))'
      BY <2>3 DEF Shape, Tops
    <3>4. Said(Links, U, m) \subseteq CommandsOf(m)'
      BY <2>4, <2>5, <3>3 DEF Says
    <3> QED
      BY <3>1, <3>2, <3>4
  <2>7. CASE root[m] # first[m]
    <3>1. /\ LedByExit(m, first[m]) \/ LedByAll(m, first[m])
          /\ stage \notin {"start", "links", "failed"}
          /\ \A i \in buildin .. Len(CliModeDefs) : root[CliModeDefs[i]] = first[CliModeDefs[i]]
      BY <2>1, <2>7 DEF Shape, Tops
    <3>2. stack = <<>>
      BY <2>2, <3>1 DEF TreeInv, MergesStatic
    <3>3. AddBuildinNodes \/ UNCHANGED <<acc, alter, root>>
      BY <1>1, <3>1, <3>2
         DEF TreeNext, InitCliMode, LinkRoot, LinkMerge, MergeReturns, MergeAdds, MergeDescends,
             LinksDone, SkipBuildinNodes, InitCliTreeReturns, treeVars
    <3>4. CASE UNCHANGED <<acc, alter, root>>
      BY <3>4 DEF CommandsOf
    <3>5. CASE AddBuildinNodes
      <4>1. PICK k, n : k = CliModeDefs[buildin] /\ n = root[k]
        OBVIOUS
      <4>2. buildin \in buildin .. Len(CliModeDefs)
        BY <2>2, <3>5, <4>1, BuildinWrites
      <4>3. m \in Mode \ {k}
        BY <2>7, <3>1, <4>1, <4>2
      <4>4. /\ LedByExit(m, first[m]) => LedByExit(m, first[m])'
            /\ LedByAll(m, first[m]) => LedByAll(m, first[m])'
        BY <2>2, <3>5, <4>1, <4>3, BuildinsStay
      <4>5. Shape(T, first)'
        BY <2>1, <2>2, <3>5, ShapeBuildin
      <4>6. Says(T, first)'
        BY <2>2, <4>5, ShapeSaysNext
      <4>7. CommandsOf(m)' = CommandsOf(m)
        <5>1. CASE LedByExit(m, first[m])
          BY <2>2, <2>5, <4>4, <4>6, <5>1 DEF Says
        <5>2. CASE LedByAll(m, first[m])
          BY <2>2, <2>5, <4>4, <4>6, <5>2 DEF Says
        <5> QED
          BY <3>1, <5>1, <5>2
      <4> QED
        BY <4>7
    <3> QED
      BY <3>3, <3>4, <3>5
  <2> QED
    BY <2>6, <2>7
<1>2. MergeInv /\ [TreeNext]_treeVars =>
        [EndsApart => \A m \in Mode : CommandsOf(m) \subseteq CommandsOf(m)']_treeVars
  BY <1>1
<1> QED
  BY <1>2, MergeInvInit, MergeInvNext, PTL DEF TreeSpec, KeepsCommands

-----------------------------------------------------------------------------
(* The commands that module CliModes is about.                             *)

(* A command of a chain begins with a word that is no built-in one.        *)
LEMMA CommandIs ==
  ASSUME NEW e \in Chained, ~IsWord(e)
  PROVE  LET c == Append(Path(e), e) IN
         /\ c \in Seq(Symbols) /\ Len(c) \in Nat /\ Len(c) > 1
         /\ c[1] \notin {"exit", "end", "no", "default"} /\ Front(c) = Path(e)
<1> DEFINE p == Path(e)
           c == Append(p, e)
<1>1. p \in Seq(Symbols) /\ e \in Symbols /\ Len(p) \in Nat /\ DOMAIN p = 1 .. Len(p)
      /\ p \in Seq(Keywords)
  BY SymbolsTyped, PathsTyped
<1>2. Len(p) > 0
  <2>1. p # <<>>
    BY ChainAssumption
  <2> QED
    BY <1>1, <2>1
<1>3. p[1] \notin {"exit", "end", "no", "default"}
  <2>a. 1 \in DOMAIN Path(e)
    BY <1>1, <1>2
  <2>b. \A i \in DOMAIN Path(e) : \E k \in Chained :
          IsWord(k) /\ Chain(k) = Chain(e) /\ PathBehind(k) = SubSeq(Path(e), 1, i)
    BY ChainAssumption
  <2>1. PICK k \in Chained : IsWord(k) /\ PathBehind(k) = SubSeq(p, 1, 1)
    BY <2>a, <2>b
  <2>2. /\ SubSeq(p, 1, 1) \in Seq(Keywords) /\ Len(SubSeq(p, 1, 1)) = 1
        /\ SubSeq(p, 1, 1)[1] = p[1]
    <3>1. 1 \in 1 .. Len(p)
      BY <1>1, <1>2
    <3> QED
      BY <1>1, <3>1, CutPath DEF Prefixed
  <2>3. Path(k) \in Seq(Keywords) /\ Def[k].keyword \in Keywords /\ Len(PathBehind(k)) = Len(Path(k)) + 1
        /\ Len(Path(k)) \in Nat
    BY PathsTyped
  <2>4. Len(Path(k)) = 0
    BY <2>1, <2>2, <2>3
  <2>5. Path(k) = <<>>
    BY <2>3, <2>4
  <2>6. PathBehind(k)[1] = Def[k].keyword
    BY <2>3, <2>4, AppendProperties DEF PathBehind
  <2>7. Def[k].keyword = p[1]
    BY <2>1, <2>2, <2>6
  <2> QED
    BY <2>5, <2>7, TemplatesSay
<1> HIDE DEF p, c
<1>4. /\ c \in Seq(Symbols) /\ Len(c) = Len(p) + 1 /\ \A i \in 1 .. Len(p) : c[i] = p[i]
  BY <1>1, AppendProperties DEF c
<1>5. Front(c) = p
  <2>1. Len(c) - 1 = Len(p)
    BY <1>1, <1>4
  <2>2. /\ SubSeq(c, 1, Len(p)) \in Seq(Symbols) /\ Len(SubSeq(c, 1, Len(p))) = Len(p)
        /\ \A i \in 1 .. Len(p) : SubSeq(c, 1, Len(p))[i] = c[i]
    <3>1. \A i \in 1 .. Len(p) : c[i] \in Symbols
      BY <1>1, <1>4, ElementOfSeq
    <3>2. 1 \in Int /\ Len(p) \in Int /\ 1 <= Len(p) /\ Len(p) - 1 + 1 = Len(p)
          /\ \A i \in 1 .. Len(p) : 1 + i - 1 = i
      BY <1>1, <1>2
    <3>3. /\ SubSeq(c, 1, Len(p)) \in Seq(Symbols)
          /\ Len(SubSeq(c, 1, Len(p))) = IF 1 <= Len(p) THEN Len(p) - 1 + 1 ELSE 0
          /\ \A i \in 1 .. Len(p) - 1 + 1 : SubSeq(c, 1, Len(p))[i] = c[1 + i - 1]
      BY <3>1, <3>2, SubSeqProperties
    <3> QED
      BY <3>2, <3>3
  <2>3. SubSeq(c, 1, Len(p)) = p
    BY <1>1, <1>4, <2>2, SeqEqual
  <2> QED
    BY <2>1, <2>3 DEF Front
<1>6. c[1] = p[1]
  BY <1>1, <1>2, <1>4
<1> QED
  BY <1>1, <1>2, <1>3, <1>4, <1>5, <1>6 DEF p, c

(* A command behind a prefix.                                              *)
LEMMA BeforeIs ==
  ASSUME NEW A, NEW c \in Seq(A), Len(c) > 1, NEW w
  PROVE  LET b == <<w>> \o c IN b[1] = w /\ Tail(b) = c /\ Front(b)[1] = w
<1> DEFINE Z == A \cup {w}
           b == <<w>> \o c
<1>1. w \in Z /\ c \in Seq(Z) /\ Len(c) \in Nat
  BY SeqMonotonic
<1> HIDE DEF Z
<1>2. /\ b \in Seq(Z) /\ Len(b) = Len(c) + 1 /\ b[1] = w
      /\ \A i \in 1 .. Len(c) : b[i + 1] = c[i]
  BY <1>1, ConsProperties
<1> HIDE DEF b
<1>3. b # <<>>
  BY <1>1, <1>2
<1>4. Tail(b) = c
  <2>1. /\ Tail(b) \in Seq(Z) /\ Len(Tail(b)) = Len(b) - 1
        /\ \A i \in 1 .. Len(Tail(b)) : Tail(b)[i] = b[i + 1]
    BY <1>2, <1>3, HeadTailProperties
  <2>2. Len(Tail(b)) = Len(c)
    BY <1>1, <1>2, <2>1
  <2> QED
    BY <1>1, <1>2, <2>1, <2>2, SeqEqual
<1>5. Front(b)[1] = w
  <2>1. Len(b) - 1 = Len(c) /\ 1 \in 1 .. Len(c) - 1 + 1 /\ 1 + 1 - 1 = 1 /\ Len(c) \in Int
    BY <1>1, <1>2
  <2>2. \A i \in 1 .. Len(c) : b[i] \in Z
    <3>1. \A i \in 1 .. Len(c) : i \in 1 .. Len(b)
      BY <1>1, <1>2
    <3> QED
      BY <1>2, <3>1, ElementOfSeq
  <2>3. \A i \in 1 .. Len(c) - 1 + 1 : SubSeq(b, 1, Len(c))[i] = b[1 + i - 1]
    BY <2>1, <2>2, SubSeqProperties
  <2> QED
    BY <1>2, <2>1, <2>3 DEF Front
<1> QED
  BY <1>2, <1>4, <1>5 DEF b

(* The commands of module CliModes that are among C, and what the commands
   among C that begin with a prefix take.                                  *)
Named(C) == {w \in DOMAIN WordsOf : \E c \in C : Front(c) = WordsOf[w]}
Taken(C, prefix) == {Tail(c) : c \in {d \in C : d[1] = prefix}}

(* What module CliModes promises, word for word.                           *)
LEMMA NamesOf ==
  /\ DOMAIN WordsOf = {"quit", "config", "shell", "flush", "exec_cmd", "exit", "end", "gvd"}
  /\ \A w \in DOMAIN WordsOf : WordsOf[w][1] \notin {"no", "default"}
  /\ \A w \in DOMAIN WordsOf : (WordsOf[w] = <<"exit">> => w = "exit")
                               /\ (WordsOf[w] = <<"end">> => w = "end")
  /\ WordsOf["exit"] = <<"exit">> /\ WordsOf["end"] = <<"end">>
  /\ \A m \in Mode : Tree[m] \subseteq DOMAIN WordsOf
  /\ \A m \in Mode \ {"exec"} : Tree[m] \cap {"exit", "end"} = {"exit", "end"}
<1>1. DOMAIN WordsOf = {"quit", "config", "shell", "flush", "exec_cmd", "exit", "end", "gvd"}
  BY DEF WordsOf
<1>2. /\ WordsOf["quit"] = <<"quit">> /\ WordsOf["config"] = <<"configure", "terminal">>
      /\ WordsOf["shell"] = <<"shell">> /\ WordsOf["flush"] = <<"logfile", "flush">>
      /\ WordsOf["exec_cmd"] = <<"exec", "WORD">> /\ WordsOf["exit"] = <<"exit">>
      /\ WordsOf["end"] = <<"end">> /\ WordsOf["gvd"] = <<"gvd-config">>
  BY DEF WordsOf
<1>3. \A w \in DOMAIN WordsOf : WordsOf[w][1] \notin {"no", "default"}
  BY <1>1, <1>2
<1>4. /\ \A w \in DOMAIN WordsOf : WordsOf[w] = <<"exit">> => WordsOf[w][1] = "exit"
      /\ \A w \in DOMAIN WordsOf : WordsOf[w] = <<"end">> => WordsOf[w][1] = "end"
  OBVIOUS
<1>5. \A w \in DOMAIN WordsOf : (WordsOf[w][1] = "exit" => w = "exit")
                                /\ (WordsOf[w][1] = "end" => w = "end")
  BY <1>1, <1>2
<1>6. \A m \in Mode : Tree[m] \subseteq DOMAIN WordsOf
  BY <1>1 DEF Mode, Tree
<1>7. \A m \in Mode \ {"exec"} : Tree[m] \cap {"exit", "end"} = {"exit", "end"}
  BY DEF Mode, Tree
<1> QED
  BY <1>1, <1>2, <1>3, <1>4, <1>5, <1>6, <1>7

(* `exit' and `end' name themselves and take nothing.                      *)
LEMMA ExitAndEndSay ==
  /\ Named(ExitAndEnd) = {"exit", "end"}
  /\ Taken(ExitAndEnd, "no") = {} /\ Taken(ExitAndEnd, "default") = {}
<1>1. \A a, b : Front(<<a, b>>) = <<a>> /\ <<a, b>>[1] = a
  <2> TAKE a, b
  <2> DEFINE s == <<a, b>>
             Z == {a, b}
  <2>1. s \in Seq(Z) /\ Len(s) = 2 /\ s[1] = a /\ <<a>> \in Seq(Z) /\ Len(<<a>>) = 1 /\ <<a>>[1] = a
    OBVIOUS
  <2>2. \A i \in 1 .. 1 : s[i] \in Z
    BY <2>1
  <2>3. 1 \in Int /\ 2 - 1 = 1 /\ 1 <= 1 /\ 1 - 1 + 1 = 1
    OBVIOUS
  <2> HIDE DEF Z, s
  <2>4. /\ SubSeq(s, 1, 1) \in Seq(Z) /\ Len(SubSeq(s, 1, 1)) = 1
        /\ SubSeq(s, 1, 1)[1] = s[1]
    <3>1. /\ SubSeq(s, 1, 1) \in Seq(Z)
          /\ Len(SubSeq(s, 1, 1)) = IF 1 <= 1 THEN 1 - 1 + 1 ELSE 0
          /\ \A i \in 1 .. 1 - 1 + 1 : SubSeq(s, 1, 1)[i] = s[1 + i - 1]
      BY <2>2, <2>3, SubSeqProperties
    <3>2. 1 \in 1 .. 1 - 1 + 1 /\ 1 + 1 - 1 = 1
      OBVIOUS
    <3> QED
      BY <2>3, <3>1, <3>2
  <2>5. \A i \in 1 .. 1 : SubSeq(s, 1, 1)[i] = <<a>>[i]
    BY <2>1, <2>4
  <2>6. SubSeq(s, 1, 1) = <<a>>
    BY <2>1, <2>4, <2>5, SeqEqual
  <2>7. Len(s) - 1 = 1
    BY <2>1, <2>3
  <2>8. Front(s) = <<a>>
    BY <2>6, <2>7 DEF Front
  <2> QED
    BY <2>1, <2>8 DEF s
<1>2. \A c \in ExitAndEnd : c = <<"exit", "node_exit_end">> \/ c = <<"end", "node_end_end">>
  BY DEF ExitAndEnd
<1>3. <<"exit", "node_exit_end">> \in ExitAndEnd /\ <<"end", "node_end_end">> \in ExitAndEnd
  BY DEF ExitAndEnd
<1>4. /\ Front(<<"exit", "node_exit_end">>) = <<"exit">> /\ Front(<<"end", "node_end_end">>) = <<"end">>
      /\ <<"exit", "node_exit_end">>[1] = "exit" /\ <<"end", "node_end_end">>[1] = "end"
  BY <1>1
<1>5. \A c \in ExitAndEnd : c[1] \in {"exit", "end"} /\ Front(c) \in {<<"exit">>, <<"end">>}
  BY <1>2, <1>4
<1>6. Named(ExitAndEnd) \subseteq {"exit", "end"}
  BY <1>5, NamesOf DEF Named
<1>7. "exit" \in Named(ExitAndEnd) /\ "end" \in Named(ExitAndEnd)
  <2>1. "exit" \in DOMAIN WordsOf /\ "end" \in DOMAIN WordsOf
    BY NamesOf
  <2>2. \E c \in ExitAndEnd : Front(c) = WordsOf["exit"]
    BY <1>3, <1>4, NamesOf
  <2>3. \E c \in ExitAndEnd : Front(c) = WordsOf["end"]
    BY <1>3, <1>4, NamesOf
  <2> QED
    BY <2>1, <2>2, <2>3 DEF Named
<1>8. Taken(ExitAndEnd, "no") = {} /\ Taken(ExitAndEnd, "default") = {}
  BY <1>5 DEF Taken
<1> QED
  BY <1>6, <1>7, <1>8

(* The commands of the chains are named after their paths; none takes a
   prefix.                                                                 *)
LEMMA SaidSays ==
  ASSUME NEW links, NEW T, T \subseteq Chained, NEW m
  PROVE  LET S == Said(links, T, m) IN
         /\ \A c \in S : c \in Seq(Symbols) /\ Len(c) > 1 /\ c[1] \notin {"exit", "end", "no", "default"}
         /\ \A c \in S : \E e \in T : /\ ~IsWord(e) /\ ModeOf(links, e) = m
                                      /\ c = Append(Path(e), e) /\ Front(c) = Path(e)
         /\ Taken(S, "no") = {} /\ Taken(S, "default") = {}
<1> DEFINE S == Said(links, T, m)
<1>1. ASSUME NEW c \in S
      PROVE  \E e \in T : ~IsWord(e) /\ ModeOf(links, e) = m /\ c = Append(Path(e), e)
  BY DEF Said
<1> HIDE DEF S
<1>2. ASSUME NEW c \in S
      PROVE  /\ c \in Seq(Symbols) /\ Len(c) > 1 /\ c[1] \notin {"exit", "end", "no", "default"}
             /\ \E e \in T : /\ ~IsWord(e) /\ ModeOf(links, e) = m
                             /\ c = Append(Path(e), e) /\ Front(c) = Path(e)
  <2>1. PICK e \in T : ~IsWord(e) /\ ModeOf(links, e) = m /\ c = Append(Path(e), e)
    BY <1>1
  <2> QED
    BY <2>1, CommandIs
<1>3. Taken(S, "no") = {} /\ Taken(S, "default") = {}
  BY <1>2 DEF Taken
<1> QED
  BY <1>2, <1>3 DEF S

(* Behind a prefix is exactly what was linked, and no command by itself.   *)
LEMMA PrefixesSay ==
  ASSUME NEW links, NEW T, T \subseteq Chained, NEW m, NEW w \in {"no", "default"}
  PROVE  LET S == Said(links, T, m) IN
         /\ Named(WithFirst(w, S)) = {}
         /\ \A v : Taken(WithFirst(w, S), v) = IF v = w THEN S ELSE {}
<1> DEFINE S == Said(links, T, m)
           B == WithFirst(w, S)
<1>1. \A c \in S : /\ (<<w>> \o c)[1] = w /\ Tail(<<w>> \o c) = c
                   /\ Front(<<w>> \o c)[1] = w
  <2> TAKE c \in S
  <2>1. c \in Seq(Symbols) /\ Len(c) > 1
    BY SaidSays
  <2> QED
    BY <2>1, BeforeIs
<1>2. \A b \in B : \E c \in S : b = <<w>> \o c
  BY DEF WithFirst
<1>3. \A c \in S : <<w>> \o c \in B
  BY DEF WithFirst
<1> HIDE DEF S, B
<1>4. \A b \in B : b[1] = w /\ Tail(b) \in S /\ Front(b)[1] = w
  BY <1>1, <1>2
<1>5. \A c \in S : \E b \in B : b[1] = w /\ Tail(b) = c
  BY <1>1, <1>3
<1>6. Named(B) = {}
  BY <1>4, NamesOf DEF Named
<1>7. Taken(B, w) = S
  BY <1>4, <1>5 DEF Taken
<1>8. \A v : v # w => Taken(B, v) = {}
  BY <1>4 DEF Taken
<1> QED
  BY <1>6, <1>7, <1>8 DEF S, B

(* Both distribute over the union of commands.                             *)
LEMMA UnionsSay ==
  ASSUME NEW C, NEW D
  PROVE  /\ Named(C \cup D) = Named(C) \cup Named(D)
         /\ \A v : Taken(C \cup D, v) = Taken(C, v) \cup Taken(D, v)
BY DEF Named, Taken

(* BuildinsAsPromised: where no command is declared twice or is the beginning
   of another one, once start-up is over the commands of each mode that
   change the mode or reach the log file are those module CliModes gives it,
   as far as they are declared, with `exit' and `end' together or not at all;
   `no' and `default' take what was linked.                                *)
THEOREM BuildinsAreAsPromised == TreeSpec => []BuildinsAsPromised
<1>1. MergeInv => BuildinsAsPromised
  <2> SUFFICES ASSUME MergeInv, EndsApart, stage = "ready", NEW m \in Mode
               PROVE  /\ LET words == {w \in DOMAIN WordsOf :
                                         \E c \in CommandsOf(m) : Front(c) = WordsOf[w]}
                             declared == {w \in Tree[m] :
                                            \E c \in Declared(m, Len(Links)) : Front(c) = WordsOf[w]}
                         IN  words \in {declared, declared \cup (Tree[m] \cap {"exit", "end"})}
                      /\ \A prefix \in {"no", "default"} :
                           {Tail(c) : c \in {d \in CommandsOf(m) : d[1] = prefix}}
                             \in {{}, IF IsCliModeInConfig(m) THEN Declared(m, Len(Links)) ELSE {}}
    BY DEF BuildinsAsPromised, TreeAsPromised, PrefixTakesLinked
  <2>1. PICK T \in SUBSET Chained, first \in [Mode -> Addr] : Shape(T, first)
    BY DEF MergeInv, Grown
  <2>2. TreeInv /\ Says(T, first) /\ stack = <<>> /\ link - 1 = Len(Links)
    BY <2>1, ShapeSays DEF MergeInv, TreeInv, MergesStatic, AllLinked
  <2>3. PICK S, C : S = Said(Links, T, m) /\ C = CommandsOf(m)
    OBVIOUS
  <2>4. Declared(m, Len(Links)) = S
    BY <2>1, <2>2, <2>3, DeclaredIsSaid
  <2>5. \/ C = S
        \/ m # "exec" /\ C = S \cup ExitAndEnd
        \/ /\ m # "exec" /\ IsCliModeInConfig(m)
           /\ C = S \cup ExitAndEnd \cup WithFirst("no", S) \cup WithFirst("default", S)
    <3>1. \/ root[m] = first[m]
          \/ m # "exec" /\ LedByExit(m, first[m])
          \/ m # "exec" /\ LedByAll(m, first[m])
      BY <2>1 DEF Shape, Tops
    <3>2. LedByAll(m, first[m]) => IsCliModeInConfig(m)
      BY DEF LedByAll
    <3> QED
      BY <2>2, <2>3, <3>1, <3>2 DEF Says
  <2>6. Named(S) = {w \in Tree[m] : \E c \in S : Front(c) = WordsOf[w]}
    <3>1. ASSUME NEW w \in DOMAIN WordsOf, NEW c \in S, Front(c) = WordsOf[w]
          PROVE  w \in Tree[m]
      <4>1. PICK e \in T : ~IsWord(e) /\ ModeOf(Links, e) = m /\ Front(c) = Path(e)
        BY <2>3, SaidSays
      <4>2. e \in Home /\ e \in Chained
        BY <2>1, <2>2, TreesSound
      <4>3. Type[e] = "END"
        BY <4>1, <4>2, ChainAssumption DEF IsWord, EndType
      <4>4. /\ e \in LinkedBy(LinksWith(example), Len(LinksWith(example)))
            /\ example \in ExampleLinks /\ Links = LinksWith(example)
        BY <2>2, <4>2, HomeTyped DEF Home
      <4>5. Path(e) = WordsOf[w]
        BY <3>1, <4>1
      <4> QED
        BY <4>1, <4>3, <4>4, <4>5, WordsAssumption
    <3>2. Tree[m] \subseteq DOMAIN WordsOf
      BY NamesOf
    <3> QED
      BY <3>1, <3>2 DEF Named
  <2>7. /\ Taken(S, "no") = {} /\ Taken(S, "default") = {}
    BY <2>3, SaidSays
  <2>8. /\ Named(WithFirst("no", S)) = {} /\ Named(WithFirst("default", S)) = {}
        /\ Taken(WithFirst("no", S), "no") = S /\ Taken(WithFirst("no", S), "default") = {}
        /\ Taken(WithFirst("default", S), "default") = S /\ Taken(WithFirst("default", S), "no") = {}
    BY <2>3, PrefixesSay
  <2>9. /\ Named(C) \in {Named(S), Named(S) \cup {"exit", "end"}}
        /\ m = "exec" => Named(C) = Named(S)
        /\ Taken(C, "no") \in {{}, IF IsCliModeInConfig(m) THEN S ELSE {}}
        /\ Taken(C, "default") \in {{}, IF IsCliModeInConfig(m) THEN S ELSE {}}
    <3>1. CASE C = S
      BY <2>7, <3>1
    <3>2. PICK D : D = S \cup ExitAndEnd
      OBVIOUS
    <3>3. /\ Named(D) = Named(S) \cup {"exit", "end"}
          /\ Taken(D, "no") = {} /\ Taken(D, "default") = {}
      <4>1. Named(D) = Named(S) \cup Named(ExitAndEnd)
        BY <3>2, UnionsSay
      <4>2. \A v : Taken(D, v) = Taken(S, v) \cup Taken(ExitAndEnd, v)
        BY <3>2, UnionsSay
      <4> QED
        BY <4>1, <4>2, <2>7, ExitAndEndSay
    <3>4. CASE m # "exec" /\ C = D
      BY <3>3, <3>4
    <3>5. CASE /\ m # "exec" /\ IsCliModeInConfig(m)
               /\ C = D \cup WithFirst("no", S) \cup WithFirst("default", S)
      <4>1. PICK N, F : N = WithFirst("no", S) /\ F = WithFirst("default", S)
        OBVIOUS
      <4>2. PICK E : E = D \cup N
        OBVIOUS
      <4>3. C = E \cup F
        BY <3>5, <4>1, <4>2
      <4>4. /\ Named(N) = {} /\ Named(F) = {}
            /\ Taken(N, "no") = S /\ Taken(N, "default") = {}
            /\ Taken(F, "default") = S /\ Taken(F, "no") = {}
        BY <4>1, <2>8
      <4>5. /\ Named(E) = Named(D) \cup Named(N)
            /\ \A v : Taken(E, v) = Taken(D, v) \cup Taken(N, v)
        BY <4>2, UnionsSay
      <4>6. /\ Named(C) = Named(E) \cup Named(F)
            /\ \A v : Taken(C, v) = Taken(E, v) \cup Taken(F, v)
        BY <4>3, UnionsSay
      <4>7. /\ Taken(C, "no") = (Taken(D, "no") \cup Taken(N, "no")) \cup Taken(F, "no")
            /\ Taken(C, "default")
                 = (Taken(D, "default") \cup Taken(N, "default")) \cup Taken(F, "default")
        BY <4>5, <4>6
      <4>8. /\ Named(C) = Named(S) \cup {"exit", "end"}
            /\ Taken(C, "no") = S /\ Taken(C, "default") = S
        BY <3>3, <4>4, <4>5, <4>6, <4>7
      <4> QED
        BY <3>5, <4>8
    <3> QED
      BY <2>5, <3>1, <3>2, <3>4, <3>5
  <2>10. m # "exec" => Tree[m] \cap {"exit", "end"} = {"exit", "end"}
    BY NamesOf
  <2> QED
    BY <2>3, <2>4, <2>6, <2>9, <2>10 DEF Named, Taken
<1> QED
  BY <1>1, MergeInvInit, MergeInvNext, PTL DEF TreeSpec
=============================================================================
