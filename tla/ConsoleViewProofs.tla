-------------------------- MODULE ConsoleViewProofs --------------------------
(***************************************************************************)
(* Theorems about the window on the console, for every size of the pool,   *)
(* text, set of window sizes and sequence of prints, edits, pages and      *)
(* resizes.                                                                *)
(*                                                                         *)
(* Every walk of the code goes down one of the two lists, which number the *)
(* lines in opposite directions: `rank' is the line number or its          *)
(* negative.  The rows ahead of a place in the direction of the walk are a *)
(* finite set, and each turn of the loop takes one row out of it, so a     *)
(* walk is what remains of that set (WalkCounts).  Places then are         *)
(* compared by the number of rows before them, and the screens that follow *)
(* one another by arithmetic on those numbers.                             *)
(***************************************************************************)
EXTENDS ConsoleView, LineBufferProofs, Iteration

-----------------------------------------------------------------------------
(* Facts about numbers and finite sets.                                    *)

LEMMA TimesLess ==
  ASSUME NEW i \in Nat, NEW j \in Nat, NEW x \in Nat, i < j
  PROVE  i * x + x <= j * x
<1>1. (j - i) * x >= x
  <2>1. j - i >= 1 /\ j - i \in Nat
    OBVIOUS
  <2>2. (j - i - 1) * x >= 0
    BY <2>1
  <2> QED
    BY <2>1, <2>2
<1> QED
  BY <1>1

(* The last row that begins before a place.                                *)
LEMMA LastRow ==
  ASSUME NEW x \in Nat \ {0}, NEW c \in Nat, c > 0
  PROVE  \E k \in Nat : k * x < c /\ c <= k * x + x /\ k < c
<1> DEFINE k == (c - 1) \div x
<1>1. c - 1 = x * k + ((c - 1) % x) /\ (c - 1) % x \in 0 .. x - 1 /\ k \in Int
  <2>1. c - 1 \in Int
    OBVIOUS
  <2> QED
    BY <2>1, DivMod
<1>2. k >= 0
  <2> SUFFICES ASSUME k <= -1
               PROVE  FALSE
    BY <1>1
  <2> HIDE DEF k
  <2>1. x * k <= -x
    BY <1>1
  <2> QED
    BY <1>1, <2>1
<1> HIDE DEF k
<1>3. k \in Nat /\ k * x = x * k
  BY <1>1, <1>2
<1>4. k * x < c /\ c <= k * x + x
  BY <1>1, <1>3
<1>5. k * x >= k
  BY <1>3
<1> QED
  BY <1>3, <1>4, <1>5

LEMMA SubsetSize ==
  ASSUME NEW T, IsFiniteSet(T), NEW S, S \subseteq T
  PROVE  /\ IsFiniteSet(S) /\ Cardinality(S) \in Nat /\ Cardinality(T) \in Nat
         /\ Cardinality(S) <= Cardinality(T)
         /\ S # T => Cardinality(S) < Cardinality(T)
         /\ Cardinality(T \ S) = Cardinality(T) - Cardinality(S)
<1>1. IsFiniteSet(S) /\ Cardinality(S) <= Cardinality(T)
  BY FS_Subset
<1>2. Cardinality(S) \in Nat /\ Cardinality(T) \in Nat
  BY <1>1, FS_CardinalityType
<1>3. S # T => Cardinality(S) < Cardinality(T)
  <2>1. Cardinality(T) = Cardinality(S) => T = S
    BY FS_Subset
  <2> QED
    BY <1>1, <1>2, <2>1
<1>4. Cardinality(T \ S) = Cardinality(T) - Cardinality(S)
  <2>1. Cardinality(T \ S) = Cardinality(T) - Cardinality(T \cap S)
    BY FS_Difference
  <2>2. T \cap S = S
    OBVIOUS
  <2> QED
    BY <2>1, <2>2
<1> QED
  BY <1>1, <1>2, <1>3, <1>4

-----------------------------------------------------------------------------
(* Rows and walks.                                                         *)

ScrOK == scr_y \in Nat /\ scr_y >= 2 /\ scr_x \in Nat \ {0}

LEMMA ScrSizes == ViewTypeOK => ScrOK
BY ScreenAssumption DEF ViewTypeOK, ScrOK

LEMMA HalfScr == ScrOK => /\ scr_y \div 2 \in Nat
                          /\ scr_y \div 2 >= 1
                          /\ scr_y \div 2 <= scr_y
                          /\ scr_y >= 4 => scr_y \div 2 >= 2
BY DEF ScrOK

LEMMA OwnedBuffers ==
  ASSUME StoreInv
  PROVE  /\ Live \subseteq Owned /\ Owned \subseteq Node /\ NULL \notin Owned
         /\ head \in Live /\ tail \in Live
         /\ \A p \in Node : len[p] \in Nat /\ line[p] \in Nat
         /\ \A p \in Node \ Live : len[p] = 0 /\ next[p] = NULL
BY BlockAssumption
   DEF StoreInv, StoreTypeOK, HoldsLines, FreeIsZero, Owned, Live, Node

LEMMA NodeFinite == IsFiniteSet(Node) /\ Cardinality(Node) \in Nat
<1>1. IsFiniteSet(Slot)
  BY PoolAssumption, FS_Interval DEF Slot
<1>2. IsFiniteSet(Node)
  BY <1>1, HeapAssumption, FS_Union DEF Node
<1> QED
  BY <1>2, FS_CardinalityType

LEMMA RowsFinite ==
  ASSUME StoreInv
  PROVE  /\ IsFiniteSet(Rows)
         /\ \A r : r \in Rows <=> /\ r = <<r[1], r[2]>> /\ r[1] \in Live
                                  /\ r[2] \in RowsOf(r[1])
<1>1. \A r : r \in Rows <=> /\ r = <<r[1], r[2]>> /\ r[1] \in Live
                            /\ r[2] \in RowsOf(r[1])
  BY DEF Rows
<1> DEFINE M == 0 .. BIG_LINE_BUFFER_CONTENT_MAX_LEN
<1>2. \A p \in Live : RowsOf(p) \subseteq M
  <2> TAKE p \in Live
  <2>1. len[p] \in Nat /\ len[p] <= BIG_LINE_BUFFER_CONTENT_MAX_LEN
    BY OwnedBuffers, TextAssumption DEF StoreInv, FitsBuffer, Capacity
  <2> QED
    BY <2>1, TextAssumption DEF RowsOf
<1>3. Rows \subseteq Node \X M
  BY <1>1, <1>2, OwnedBuffers
<1>4. IsFiniteSet(Node \X M)
  <2>1. IsFiniteSet(M)
    BY FS_Interval, TextAssumption
  <2> QED
    BY <2>1, NodeFinite, FS_Product
<1> QED
  BY <1>1, <1>3, <1>4, FS_Subset

(* A place of a walk.                                                      *)
Places == [p : Node \cup {NULL}, chars : Nat]

LEMMA NextRowPlace ==
  ASSUME StoreInv, ScrOK, NEW link \in [Node -> Node \cup {NULL}], NEW w \in Places
  PROVE  NextRow(link, w) \in Places
<1>1. CASE w.p \notin Owned
  BY <1>1 DEF NextRow
<1>2. CASE w.p \in Owned /\ w.chars > scr_x
  <2>1. NextRow(link, w) = [w EXCEPT !.chars = w.chars - scr_x]
    BY <1>2 DEF NextRow
  <2>2. w.chars - scr_x \in Nat
    BY <1>2 DEF ScrOK, Places
  <2> QED
    BY <2>1, <2>2 DEF Places
<1>3. CASE w.p \in Owned /\ ~(w.chars > scr_x)
  <2>1. NextRow(link, w) = [p |-> link[w.p],
                            chars |-> IF link[w.p] \in Owned THEN len[link[w.p]] ELSE 0]
    BY <1>3 DEF NextRow
  <2>2. link[w.p] \in Node \cup {NULL}
    BY <1>3, OwnedBuffers
  <2>3. link[w.p] \in Owned => len[link[w.p]] \in Nat
    BY OwnedBuffers
  <2> QED
    BY <2>1, <2>2, <2>3 DEF Places
<1> QED
  BY <1>1, <1>2, <1>3

(* The walk is the loop of the code: no row, or one more turn.             *)
LEMMA WalkTurns ==
  ASSUME StoreInv, ScrOK, NEW link \in [Node -> Node \cup {NULL}],
         NEW p \in Node \cup {NULL}, NEW c \in Nat
  PROVE  /\ Walk(link, p, c, 0) = [p |-> p, chars |-> c]
         /\ \A n \in Nat : /\ Walk(link, p, c, n) \in Places
                           /\ Walk(link, p, c, n + 1) = NextRow(link, Walk(link, p, c, n))
<1> DEFINE w0 == [p |-> p, chars |-> c]
           g == [w \in Places |-> NextRow(link, w)]
<1>1. w0 \in Places
  BY DEF Places
<1>2. g \in [Places -> Places]
  BY NextRowPlace
<1> HIDE DEF w0, g
<1>3. PICK f \in [Nat -> Places] : f[0] = w0 /\ \A n \in Nat : f[n + 1] = g[f[n]]
  <2>1. Iterated(Places, w0, g)
    BY <1>1, <1>2, Iterates
  <2> QED
    BY <2>1, Zenon DEF Iterated
<1>4. \A n \in Nat : f[n] \in Places /\ f[n + 1] = NextRow(link, f[n])
  BY <1>3 DEF g
<1>5. ASSUME NEW n \in Nat
      PROVE  Walk(link, p, c, n) = f[n]
  <2> DEFINE row == CHOOSE h : h = [k \in 0 .. n |-> IF k = 0 THEN w0
                                                     ELSE NextRow(link, h[k - 1])]
             e == [k \in 0 .. n |-> f[k]]
  <2>1. Walk(link, p, c, n) = row[n]
    BY DEF Walk, w0
  <2>2. e = [k \in 0 .. n |-> IF k = 0 THEN w0 ELSE NextRow(link, e[k - 1])]
    <3> SUFFICES ASSUME NEW k \in 0 .. n
                 PROVE  f[k] = IF k = 0 THEN w0 ELSE NextRow(link, e[k - 1])
      OBVIOUS
    <3>1. CASE k = 0
      BY <1>3, <3>1
    <3>2. CASE k # 0
      <4>1. k - 1 \in Nat /\ k - 1 \in 0 .. n /\ (k - 1) + 1 = k
        BY <3>2
      <4>2. f[k] = NextRow(link, f[k - 1])
        BY <1>4, <4>1
      <4> QED
        BY <3>2, <4>1, <4>2
    <3> QED
      BY <3>1, <3>2
  <2> HIDE DEF e
  <2>3. row = [k \in 0 .. n |-> IF k = 0 THEN w0 ELSE NextRow(link, row[k - 1])]
    BY <2>2
  <2> HIDE DEF row
  <2> DEFINE S == {k \in Nat : k <= n => row[k] = f[k]}
  <2>4. 0 \in S
    BY <1>3, <2>3
  <2>5. ASSUME NEW k \in Nat, k \in S
        PROVE  k + 1 \in S
    <3> SUFFICES ASSUME k + 1 <= n
                 PROVE  row[k + 1] = f[k + 1]
      OBVIOUS
    <3>1. k + 1 \in 0 .. n /\ k + 1 # 0 /\ (k + 1) - 1 = k
      OBVIOUS
    <3>2. row[k + 1] = NextRow(link, row[k])
      BY <2>3, <3>1
    <3>3. row[k] = f[k]
      BY <2>5
    <3> QED
      BY <1>4, <3>2, <3>3
  <2> HIDE DEF S
  <2>6. \A k \in Nat : k \in S
    BY <2>4, <2>5, NatSetInduction
  <2>7. n \in S
    BY <2>6
  <2> QED
    BY <2>1, <2>7 DEF S
<1>6. \A n \in Nat : n + 1 \in Nat
  OBVIOUS
<1> QED
  BY <1>3, <1>4, <1>5, <1>6 DEF w0

(* After a turn the walk stands at the end of a line, or inside it with a
   row's worth of characters already behind it.                            *)
Stepped(w) ==
  w.p \in Owned => \/ w.chars = len[w.p]
                   \/ w.chars >= 1 /\ w.chars + scr_x <= len[w.p]

LEMMA TurnStepped ==
  ASSUME StoreInv, ScrOK, NEW link \in [Node -> Node \cup {NULL}], NEW w \in Places,
         w.p \in Owned => w.chars <= len[w.p]
  PROVE  Stepped(NextRow(link, w))
<1>1. CASE w.p \notin Owned
  BY <1>1 DEF NextRow, Stepped
<1>2. CASE w.p \in Owned /\ w.chars > scr_x
  <2>1. NextRow(link, w) = [w EXCEPT !.chars = w.chars - scr_x]
    BY <1>2 DEF NextRow
  <2>2. w.chars \in Nat /\ len[w.p] \in Nat
    BY <1>2, OwnedBuffers DEF Places
  <2>3. NextRow(link, w).p = w.p /\ NextRow(link, w).chars = w.chars - scr_x
    BY <2>1 DEF Places
  <2> QED
    BY <1>2, <2>2, <2>3 DEF Stepped, ScrOK
<1>3. CASE w.p \in Owned /\ ~(w.chars > scr_x)
  BY <1>3 DEF NextRow, Stepped
<1> QED
  BY <1>1, <1>2, <1>3

LEMMA WalkStepped ==
  ASSUME StoreInv, ScrOK, NEW link \in [Node -> Node \cup {NULL}],
         NEW p \in Node \cup {NULL}, NEW c \in Nat, p \in Owned => c <= len[p],
         NEW n \in Nat \ {0}
  PROVE  Walk(link, p, c, n) \in Places /\ Stepped(Walk(link, p, c, n))
<1> DEFINE w(k) == Walk(link, p, c, k)
           S == {k \in Nat : Stepped(w(k + 1))}
<1>1. /\ w(0) = [p |-> p, chars |-> c]
      /\ \A k \in Nat : w(k) \in Places /\ w(k + 1) = NextRow(link, w(k))
  BY WalkTurns
<1> HIDE DEF w
<1>2. 0 \in S
  <2>1. w(0) \in Places /\ (w(0).p \in Owned => w(0).chars <= len[w(0).p])
    BY <1>1
  <2>2. Stepped(NextRow(link, w(0)))
    BY <2>1, TurnStepped
  <2>3. w(0 + 1) = NextRow(link, w(0))
    BY <1>1
  <2> QED
    BY <2>2, <2>3
<1>3. ASSUME NEW k \in Nat, k \in S
      PROVE  k + 1 \in S
  <2>1. k + 1 \in Nat /\ Stepped(w(k + 1))
    BY <1>3
  <2>2. w(k + 1) \in Places /\ w(k + 1 + 1) = NextRow(link, w(k + 1))
    BY <1>1, <2>1
  <2>3. w(k + 1).p \in Owned => w(k + 1).chars <= len[w(k + 1).p]
    <3> SUFFICES ASSUME w(k + 1).p \in Owned
                 PROVE  w(k + 1).chars <= len[w(k + 1).p]
      OBVIOUS
    <3>1. w(k + 1).chars \in Nat /\ len[w(k + 1).p] \in Nat
      BY <2>2, OwnedBuffers DEF Places
    <3> QED
      BY <2>1, <3>1 DEF Stepped, ScrOK
  <2>4. Stepped(NextRow(link, w(k + 1)))
    BY <2>2, <2>3, TurnStepped
  <2> QED
    BY <2>1, <2>2, <2>4
<1> HIDE DEF S
<1>4. \A k \in Nat : k \in S
  BY <1>2, <1>3, NatSetInduction
<1>5. n - 1 \in Nat /\ (n - 1) + 1 = n
  OBVIOUS
<1>6. n - 1 \in S
  BY <1>4, <1>5
<1> QED
  BY <1>1, <1>5, <1>6 DEF S, w

-----------------------------------------------------------------------------
(* Walks along the list.                                                   *)

(* The links number the lines in use, without a gap, up to a bound.        *)
Leads(link, rank, bound) ==
  /\ link \in [Node -> Node \cup {NULL}]
  /\ rank \in [Node -> Int]
  /\ \A q, r \in Live : rank[q] = rank[r] => q = r
  /\ \A q \in Live : rank[q] < bound =>
       \/ link[q] \in Live /\ rank[link[q]] = rank[q] + 1
       \/ link[q] = NULL /\ \A r \in Live : rank[r] <= rank[q]

(* The lines numbered from the last to the first.                          *)
Falls == [q \in Node |-> -line[q]]

LEMMA NextLeads ==
  ASSUME StoreInv, NEW bound \in Int
  PROVE  Leads(next, line, bound)
<1>1. /\ next \in [Node -> Node \cup {NULL}] /\ line \in [Node -> Int]
      /\ \A q, r \in Live : line[q] = line[r] => q = r
  BY DEF StoreInv, StoreTypeOK, HoldsLines
<1>2. ASSUME NEW q \in Live
      PROVE  \/ next[q] \in Live /\ line[next[q]] = line[q] + 1
             \/ next[q] = NULL /\ \A r \in Live : line[r] <= line[q]
  BY <1>2, OwnedBuffers DEF StoreInv, Linked, HoldsLines
<1> QED
  BY <1>1, <1>2 DEF Leads

LEMMA PrevLeads ==
  ASSUME StoreInv, NEW bound \in Int, line[head] = 1 \/ bound <= -line[head]
  PROVE  Leads(prev, Falls, bound)
<1>1. /\ prev \in [Node -> Node \cup {NULL}]
      /\ \A q \in Node : line[q] \in Int /\ Falls[q] = -line[q]
      /\ Falls \in [Node -> Int]
  BY DEF StoreInv, StoreTypeOK, Falls
<1>2. \A q, r \in Live : Falls[q] = Falls[r] => q = r
  BY <1>1, OwnedBuffers DEF StoreInv, HoldsLines
<1>3. ASSUME NEW q \in Live, Falls[q] < bound
      PROVE  \/ prev[q] \in Live /\ Falls[prev[q]] = Falls[q] + 1
             \/ prev[q] = NULL /\ \A r \in Live : Falls[r] <= Falls[q]
  <2>0. head \in Node /\ q \in Node /\ Live \subseteq Node
    BY OwnedBuffers
  <2>1. CASE q # head
    <3>1. prev[q] \in Live /\ line[prev[q]] = line[q] - 1
      BY <2>1 DEF StoreInv, Linked
    <3> QED
      BY <1>1, <2>0, <3>1
  <2>2. CASE q = head
    <3>1. line[head] = 1
      BY <1>1, <1>3, <2>0, <2>2
    <3>2. prev[head] = NULL
      BY <3>1 DEF StoreInv, Linked
    <3>3. \A r \in Live : line[r] >= line[head]
      BY OwnedBuffers DEF StoreInv, HoldsLines
    <3> QED
      BY <1>1, <2>0, <2>2, <3>2, <3>3
  <2> QED
    BY <2>1, <2>2
<1> QED
  BY <1>1, <1>2, <1>3 DEF Leads

(* The rows a walk has before it that stands at a place.                   *)
Ahead(rank, p, chars) ==
  {r \in Rows : \/ rank[r[1]] > rank[p]
                \/ r[1] = p /\ (r[2] = 0 \/ r[2] * scr_x < chars)}

AheadAt(rank, w) == Ahead(rank, w.p, w.chars)

LEMMA FirstRow ==
  ASSUME StoreInv, NEW p \in Live
  PROVE  <<p, 0>> \in Rows
BY RowsFinite, OwnedBuffers DEF RowsOf

(* A row inside the line is walked over.                                   *)
LEMMA TurnInside ==
  ASSUME StoreInv, ScrOK, NEW rank \in [Node -> Int], NEW p \in Live, NEW c \in Nat,
         c <= len[p], c > scr_x
  PROVE  \E r \in Ahead(rank, p, c) : Ahead(rank, p, c - scr_x) = Ahead(rank, p, c) \ {r}
<1>1. scr_x \in Nat \ {0} /\ c > 0 /\ len[p] \in Nat
  BY OwnedBuffers DEF ScrOK
<1>2. PICK k \in Nat : k * scr_x < c /\ c <= k * scr_x + scr_x /\ k < c
  BY <1>1, LastRow
<1>3. k # 0
  BY <1>1, <1>2
<1>4. k \in RowsOf(p)
  <2>1. k \in 0 .. len[p] /\ k * scr_x < len[p]
    <3>1. k * scr_x \in Nat
      BY <1>1
    <3> QED
      BY <1>1, <1>2, <3>1
  <2> QED
    BY <2>1 DEF RowsOf
<1>5. <<p, k>> \in Rows
  BY <1>4, RowsFinite
<1>6. <<p, k>> \in Ahead(rank, p, c)
  BY <1>2, <1>5 DEF Ahead
<1>7. ASSUME NEW r \in Rows, r[1] = p
      PROVE  (r[2] = 0 \/ r[2] * scr_x < c - scr_x) <=> /\ r[2] = 0 \/ r[2] * scr_x < c
                                                        /\ r[2] # k
  <2>1. r[2] \in Nat
    BY RowsFinite, <1>1, <1>7 DEF RowsOf
  <2>2. CASE r[2] < k
    <3>1. r[2] * scr_x + scr_x <= k * scr_x
      BY <1>1, <2>1, <2>2, TimesLess
    <3>2. r[2] * scr_x \in Nat /\ k * scr_x \in Nat
      BY <1>1, <2>1
    <3> QED
      BY <1>1, <1>2, <2>2, <3>1, <3>2
  <2>3. CASE r[2] = k
    <3>1. k * scr_x \in Nat
      BY <1>1
    <3> QED
      BY <1>1, <1>2, <1>3, <2>3, <3>1
  <2>4. CASE r[2] > k
    <3>1. k * scr_x + scr_x <= r[2] * scr_x
      BY <1>1, <2>1, <2>4, TimesLess
    <3>2. r[2] * scr_x \in Nat /\ k * scr_x \in Nat
      BY <1>1, <2>1
    <3> QED
      BY <1>1, <1>2, <2>4, <3>1, <3>2
  <2> QED
    BY <2>1, <2>2, <2>3, <2>4
<1>8. \A r \in Rows : r = <<p, k>> <=> r[1] = p /\ r[2] = k
  BY RowsFinite
<1>9. ASSUME NEW r \in Rows
      PROVE  r \in Ahead(rank, p, c - scr_x) <=> r \in Ahead(rank, p, c) /\ r # <<p, k>>
  <2>1. CASE r[1] = p
    <3>1. r # <<p, k>> <=> r[2] # k
      BY <1>8, <2>1
    <3>2. rank[p] \in Int
      BY OwnedBuffers
    <3>3. r \in Ahead(rank, p, c - scr_x) <=> r[2] = 0 \/ r[2] * scr_x < c - scr_x
      BY <2>1, <3>2 DEF Ahead
    <3>4. r \in Ahead(rank, p, c) <=> r[2] = 0 \/ r[2] * scr_x < c
      BY <2>1, <3>2 DEF Ahead
    <3> QED
      BY <1>7, <2>1, <3>1, <3>3, <3>4
  <2>2. CASE r[1] # p
    BY <1>8, <2>2 DEF Ahead
  <2> QED
    BY <2>1, <2>2
<1>10. Ahead(rank, p, c - scr_x) \subseteq Rows /\ Ahead(rank, p, c) \subseteq Rows
  BY DEF Ahead
<1>11. Ahead(rank, p, c - scr_x) = Ahead(rank, p, c) \ {<<p, k>>}
  BY <1>9, <1>10
<1> QED
  BY <1>6, <1>11

(* The first row of a line is walked over, and the walk enters the next.   *)
LEMMA TurnOver ==
  ASSUME StoreInv, ScrOK, NEW rank \in [Node -> Int],
         \A q, r \in Live : rank[q] = rank[r] => q = r,
         NEW p \in Live, NEW c \in Nat, c <= scr_x
  PROVE  /\ <<p, 0>> \in Ahead(rank, p, c)
         /\ \A q \in Live : rank[q] = rank[p] + 1 =>
              Ahead(rank, q, len[q]) = Ahead(rank, p, c) \ {<<p, 0>>}
         /\ (\A q \in Live : rank[q] <= rank[p]) => Ahead(rank, p, c) = {<<p, 0>>}
<1>0. /\ \A q \in Live : rank[q] \in Int
      /\ scr_x \in Nat \ {0}
  BY OwnedBuffers DEF ScrOK
<1>1. \A r \in Rows : /\ r[1] \in Live /\ r[2] \in Nat
                      /\ r[2] = 0 \/ r[2] * scr_x < len[r[1]]
                      /\ r = <<p, 0>> <=> r[1] = p /\ r[2] = 0
  BY RowsFinite, OwnedBuffers DEF RowsOf
<1>2. ASSUME NEW r \in Rows, r[2] # 0
      PROVE  ~(r[2] * scr_x < c)
  <2>1. 0 * scr_x + scr_x <= r[2] * scr_x
    <3>1. r[2] \in Nat /\ 0 < r[2]
      BY <1>1, <1>2
    <3> QED
      BY <1>0, <3>1, TimesLess
  <2>2. r[2] * scr_x \in Nat
    BY <1>0, <1>1
  <2> QED
    BY <1>0, <2>1, <2>2
<1>3. \A r \in Rows : r \in Ahead(rank, p, c) <=> rank[r[1]] > rank[p] \/ r = <<p, 0>>
  BY <1>1, <1>2 DEF Ahead
<1>4. Ahead(rank, p, c) \subseteq Rows
  BY DEF Ahead
<1>5. <<p, 0>> \in Ahead(rank, p, c)
  BY <1>3, FirstRow
<1>6. ASSUME NEW q \in Live, rank[q] = rank[p] + 1
      PROVE  Ahead(rank, q, len[q]) = Ahead(rank, p, c) \ {<<p, 0>>}
  <2>1. ASSUME NEW r \in Rows
        PROVE  rank[r[1]] > rank[p] <=> rank[r[1]] > rank[q] \/ r[1] = q
    BY <1>0, <1>1, <1>6
  <2>2. \A r \in Rows : r \in Ahead(rank, q, len[q]) <=> rank[r[1]] > rank[q] \/ r[1] = q
    BY <1>1 DEF Ahead
  <2>3. Ahead(rank, q, len[q]) \subseteq Rows
    BY DEF Ahead
  <2>4. \A r \in Rows : rank[r[1]] > rank[p] => r # <<p, 0>>
    BY <1>0, <1>1
  <2>5. \A r \in Rows : r \in Ahead(rank, q, len[q])
                          <=> r \in Ahead(rank, p, c) /\ r # <<p, 0>>
    BY <1>3, <2>1, <2>2, <2>4
  <2> QED
    BY <1>4, <2>3, <2>5
<1>7. ASSUME \A q \in Live : rank[q] <= rank[p]
      PROVE  Ahead(rank, p, c) = {<<p, 0>>}
  <2>1. \A r \in Rows : ~(rank[r[1]] > rank[p])
    BY <1>0, <1>1, <1>7
  <2> QED
    BY <1>3, <1>4, <1>5, <2>1
<1> QED
  BY <1>5, <1>6, <1>7

(* The turn from w to v takes one row out of the rows ahead.               *)
Turned(rank, w, v) ==
  \/ /\ v.p \in Live /\ v.chars <= len[v.p]
     /\ \/ v.p = w.p /\ v.chars < w.chars
        \/ rank[v.p] = rank[w.p] + 1
     /\ \E r \in AheadAt(rank, w) : AheadAt(rank, v) = AheadAt(rank, w) \ {r}
  \/ v.p = NULL /\ \E r : AheadAt(rank, w) = {r}

LEMMA Turn ==
  ASSUME StoreInv, ScrOK, NEW link, NEW rank, NEW bound \in Int, Leads(link, rank, bound),
         NEW w \in Places, w.p \in Live, w.chars <= len[w.p], rank[w.p] < bound,
         NEW v, v = NextRow(link, w)
  PROVE  Turned(rank, w, v)
<1>0. /\ w.p \in Owned /\ w.chars \in Nat /\ len[w.p] \in Nat /\ scr_x \in Nat \ {0}
      /\ rank \in [Node -> Int] /\ \A q, r \in Live : rank[q] = rank[r] => q = r
  BY OwnedBuffers DEF Places, Leads, ScrOK
<1>1. CASE w.chars > scr_x
  <2>1. v = [w EXCEPT !.chars = w.chars - scr_x]
    BY <1>0, <1>1 DEF NextRow
  <2>2. v.p = w.p /\ v.chars = w.chars - scr_x
    BY <2>1 DEF Places
  <2>3. \E r \in Ahead(rank, w.p, w.chars) :
           Ahead(rank, w.p, w.chars - scr_x) = Ahead(rank, w.p, w.chars) \ {r}
    BY <1>0, <1>1, TurnInside
  <2> QED
    BY <1>0, <2>2, <2>3 DEF AheadAt, Turned
<1>2. CASE ~(w.chars > scr_x)
  <2> DEFINE q == link[w.p]
  <2>1. v = [p |-> q, chars |-> IF q \in Owned THEN len[q] ELSE 0]
    BY <1>0, <1>2 DEF NextRow
  <2>2. w.chars <= scr_x
    BY <1>0, <1>2
  <2>3. CASE q \in Live /\ rank[q] = rank[w.p] + 1
    <3>1. v.p = q /\ v.chars = len[q] /\ len[q] \in Nat
      BY <2>1, <2>3, OwnedBuffers
    <3>2. /\ <<w.p, 0>> \in Ahead(rank, w.p, w.chars)
          /\ Ahead(rank, q, len[q]) = Ahead(rank, w.p, w.chars) \ {<<w.p, 0>>}
      BY <1>0, <2>2, <2>3, TurnOver
    <3> QED
      BY <2>3, <3>1, <3>2 DEF AheadAt, Turned
  <2>4. CASE q = NULL /\ \A r \in Live : rank[r] <= rank[w.p]
    <3>1. v.p = NULL
      BY <2>1, <2>4
    <3>2. Ahead(rank, w.p, w.chars) = {<<w.p, 0>>}
      BY <1>0, <2>2, <2>4, TurnOver
    <3> QED
      BY <3>1, <3>2 DEF AheadAt, Turned
  <2> QED
    BY <2>3, <2>4 DEF Leads
<1> QED
  BY <1>1, <1>2

(* Where n turns lead from the first c characters of p.                    *)
WalkedTo(rank, p, c, n, w) ==
  \/ /\ w.p \in Live /\ w.chars <= len[w.p]
     /\ \/ w.p = p /\ (n = 0 \/ w.chars < c)
        \/ rank[w.p] > rank[p]
     /\ rank[w.p] <= rank[p] + n
     /\ Cardinality(AheadAt(rank, w)) = Cardinality(Ahead(rank, p, c)) - n
     /\ Cardinality(AheadAt(rank, w)) > 0
  \/ w.p = NULL /\ Cardinality(Ahead(rank, p, c)) <= n

LEMMA AheadSize ==
  ASSUME StoreInv, NEW rank, NEW p, NEW c
  PROVE  /\ IsFiniteSet(Ahead(rank, p, c))
         /\ Cardinality(Ahead(rank, p, c)) \in Nat
         /\ p \in Live => Cardinality(Ahead(rank, p, c)) > 0
<1>1. Ahead(rank, p, c) \subseteq Rows
  BY DEF Ahead
<1>2. IsFiniteSet(Ahead(rank, p, c)) /\ Cardinality(Ahead(rank, p, c)) \in Nat
  BY <1>1, RowsFinite, SubsetSize
<1>3. ASSUME p \in Live
      PROVE  Cardinality(Ahead(rank, p, c)) > 0
  <2>1. <<p, 0>> \in Ahead(rank, p, c)
    BY <1>3, FirstRow DEF Ahead
  <2>2. Cardinality(Ahead(rank, p, c)) # 0
    BY <1>2, <2>1, FS_EmptySet
  <2> QED
    BY <1>2, <2>2
<1> QED
  BY <1>2, <1>3

(* A walk of n turns leaves n rows behind it, or has left the list.        *)
LEMMA WalkCounts ==
  ASSUME StoreInv, ScrOK, NEW link, NEW rank, NEW p \in Live, NEW c \in Nat, c <= len[p],
         NEW n \in Nat, Leads(link, rank, rank[p] + n)
  PROVE  WalkedTo(rank, p, c, n, Walk(link, p, c, n))
<1> DEFINE w(k) == Walk(link, p, c, k)
           S == {k \in Nat : k <= n => WalkedTo(rank, p, c, k, w(k))}
           all == Cardinality(Ahead(rank, p, c))
<1>0. /\ link \in [Node -> Node \cup {NULL}] /\ rank \in [Node -> Int]
      /\ p \in Node /\ Live \subseteq Node
  BY OwnedBuffers DEF Leads
<1>1. /\ w(0) = [p |-> p, chars |-> c]
      /\ \A k \in Nat : w(k) \in Places /\ w(k + 1) = NextRow(link, w(k))
  BY <1>0, WalkTurns
<1>2. all \in Nat /\ all > 0
  BY AheadSize
<1>3. 0 \in S
  <2>1. w(0).p = p /\ w(0).chars = c
    BY <1>1
  <2>2. rank[p] \in Int
    BY <1>0
  <2>3. WalkedTo(rank, p, c, 0, w(0))
    BY <1>2, <2>1, <2>2 DEF WalkedTo, AheadAt
  <2> QED
    BY <2>3
<1> HIDE DEF w, all
<1>4. ASSUME NEW k \in Nat, k \in S
      PROVE  k + 1 \in S
  <2> SUFFICES ASSUME k + 1 <= n
               PROVE  WalkedTo(rank, p, c, k + 1, w(k + 1))
    OBVIOUS
  <2>1. WalkedTo(rank, p, c, k, w(k))
    BY <1>4
  <2>2. w(k) \in Places /\ w(k + 1) = NextRow(link, w(k))
    BY <1>1
  <2>3. CASE w(k).p = NULL
    <3>1. w(k + 1) = w(k)
      BY <2>2, <2>3, OwnedBuffers DEF NextRow
    <3>2. Cardinality(Ahead(rank, p, c)) <= k
      BY <2>1, <2>3, OwnedBuffers DEF WalkedTo
    <3> QED
      BY <1>2, <2>3, <3>1, <3>2 DEF WalkedTo, all
  <2>4. CASE w(k).p \in Live
    <3>1. /\ w(k).chars <= len[w(k).p]
          /\ \/ w(k).p = p /\ (k = 0 \/ w(k).chars < c)
             \/ rank[w(k).p] > rank[p]
          /\ rank[w(k).p] <= rank[p] + k
          /\ Cardinality(AheadAt(rank, w(k))) = all - k
      BY <2>1, <2>4, OwnedBuffers DEF WalkedTo, all
    <3>2. rank[w(k).p] \in Int /\ rank[p] \in Int
      BY <1>0, <2>4
    <3>3. rank[w(k).p] < rank[p] + n /\ rank[p] + n \in Int
      BY <3>1, <3>2
    <3>4. \/ /\ w(k + 1).p \in Live /\ w(k + 1).chars <= len[w(k + 1).p]
             /\ \/ w(k + 1).p = w(k).p /\ w(k + 1).chars < w(k).chars
                \/ rank[w(k + 1).p] = rank[w(k).p] + 1
             /\ \E r \in AheadAt(rank, w(k)) :
                   AheadAt(rank, w(k + 1)) = AheadAt(rank, w(k)) \ {r}
          \/ w(k + 1).p = NULL /\ \E r : AheadAt(rank, w(k)) = {r}
      <4> DEFINE u == w(k)
                 v == w(k + 1)
                 b == rank[p] + n
      <4>1. /\ u \in Places /\ u.p \in Live /\ u.chars <= len[u.p] /\ rank[u.p] < b
            /\ b \in Int /\ Leads(link, rank, b) /\ v = NextRow(link, u)
        BY <2>2, <2>4, <3>1, <3>3
      <4> HIDE DEF u, v, b
      <4>2. Turned(rank, u, v)
        BY <4>1, Turn
      <4> QED
        BY <4>2 DEF u, v, Turned
    <3>5. CASE w(k + 1).p = NULL /\ \E r : AheadAt(rank, w(k)) = {r}
      <4>1. Cardinality(AheadAt(rank, w(k))) = 1
        BY <3>5, FS_Singleton
      <4> QED
        BY <1>2, <3>1, <3>5, <4>1 DEF WalkedTo, all
    <3>6. CASE /\ w(k + 1).p \in Live /\ w(k + 1).chars <= len[w(k + 1).p]
               /\ \/ w(k + 1).p = w(k).p /\ w(k + 1).chars < w(k).chars
                  \/ rank[w(k + 1).p] = rank[w(k).p] + 1
               /\ \E r \in AheadAt(rank, w(k)) :
                     AheadAt(rank, w(k + 1)) = AheadAt(rank, w(k)) \ {r}
      <4>1. PICK r \in AheadAt(rank, w(k)) :
               AheadAt(rank, w(k + 1)) = AheadAt(rank, w(k)) \ {r}
        BY <3>6
      <4>2. Cardinality(AheadAt(rank, w(k + 1))) = Cardinality(AheadAt(rank, w(k))) - 1
        <5>1. IsFiniteSet(AheadAt(rank, w(k)))
          BY AheadSize DEF AheadAt
        <5> QED
          BY <4>1, <5>1, FS_RemoveElement
      <4>3. Cardinality(AheadAt(rank, w(k + 1))) > 0
        BY <3>6, AheadSize DEF AheadAt
      <4>4. w(k).chars \in Nat /\ w(k + 1).chars \in Nat
        <5>1. k + 1 \in Nat
          OBVIOUS
        <5> QED
          BY <1>1, <5>1 DEF Places
      <4>5. \/ w(k + 1).p = p /\ w(k + 1).chars < c
            \/ rank[w(k + 1).p] > rank[p]
        <5>1. rank[w(k + 1).p] \in Int
          BY <1>0, <3>6
        <5>2. k = 0 => w(k).chars = c
          BY <1>1
        <5> QED
          BY <3>1, <3>2, <3>6, <4>4, <5>1, <5>2
      <4>6. rank[w(k + 1).p] <= rank[p] + (k + 1)
        <5>1. rank[w(k + 1).p] \in Int
          BY <1>0, <3>6
        <5> QED
          BY <3>1, <3>2, <3>6, <5>1
      <4>7. Cardinality(AheadAt(rank, w(k + 1))) = all - (k + 1)
        BY <1>2, <3>1, <4>2
      <4> QED
        BY <3>6, <4>3, <4>5, <4>6, <4>7 DEF WalkedTo, all
    <3> QED
      BY <3>4, <3>5, <3>6
  <2> QED
    BY <2>1, <2>3, <2>4 DEF WalkedTo
<1> HIDE DEF S
<1>5. \A k \in Nat : k \in S
  BY <1>3, <1>4, NatSetInduction
<1>6. n \in S
  BY <1>5
<1> QED
  BY <1>6 DEF S, w

-----------------------------------------------------------------------------
(* Where a walk back ends.                                                 *)

(* The rows down to the c-th character of p, and those above a place.      *)
Upto(p, c) == Ahead(Falls, p, c)
Above(p, o) ==
  {r \in Rows : \/ line[r[1]] < line[p]
                \/ r[1] = p /\ r[2] * scr_x < o}

(* A place where a row begins.                                             *)
Aligned(p, o) ==
  /\ p \in Live /\ o \in Nat
  /\ o = 0 \/ o < len[p]
  /\ \E m \in Nat : o = m * scr_x

LEMMA RowFacts ==
  ASSUME StoreInv, ScrOK
  PROVE  /\ \A r \in Rows : /\ r = <<r[1], r[2]>> /\ r[1] \in Live /\ r[2] \in Nat
                            /\ r[2] = 0 \/ r[2] * scr_x < len[r[1]]
                            /\ r[2] * scr_x \in Nat
         /\ \A p \in Live : line[p] \in Nat /\ len[p] \in Nat /\ p \in Node
         /\ \A p, q \in Live : line[p] = line[q] => p = q
         /\ \A p \in Live : line[head] <= line[p] /\ line[p] <= line[tail]
         /\ scr_x \in Nat \ {0}
<1>1. \A p \in Live : line[p] \in Nat /\ len[p] \in Nat /\ p \in Node
  BY OwnedBuffers
<1>2. ASSUME NEW r \in Rows
      PROVE  /\ r = <<r[1], r[2]>> /\ r[1] \in Live /\ r[2] \in Nat
             /\ r[2] = 0 \/ r[2] * scr_x < len[r[1]]
             /\ r[2] * scr_x \in Nat
  <2>1. r = <<r[1], r[2]>> /\ r[1] \in Live /\ r[2] \in RowsOf(r[1])
    BY RowsFinite
  <2>2. r[2] \in Nat /\ (r[2] = 0 \/ r[2] * scr_x < len[r[1]])
    BY <1>1, <2>1 DEF RowsOf
  <2> QED
    BY <2>1, <2>2 DEF ScrOK
<1>3. /\ \A p, q \in Live : line[p] = line[q] => p = q
      /\ \A p \in Live : line[head] <= line[p] /\ line[p] <= line[tail]
  BY <1>1, OwnedBuffers DEF StoreInv, HoldsLines
<1> QED
  BY <1>1, <1>2, <1>3 DEF ScrOK

LEMMA UptoRows ==
  ASSUME StoreInv, ScrOK, NEW p \in Live, NEW c
  PROVE  Upto(p, c) = {r \in Rows : \/ line[r[1]] < line[p]
                                    \/ r[1] = p /\ (r[2] = 0 \/ r[2] * scr_x < c)}
<1>1. \A q \in Live : Falls[q] = -line[q] /\ line[q] \in Nat
  BY OwnedBuffers DEF Falls
<1>2. \A r \in Rows : Falls[r[1]] > Falls[p] <=> line[r[1]] < line[p]
  BY <1>1, RowFacts
<1> QED
  BY <1>2 DEF Upto, Ahead

LEMMA AboveSize ==
  ASSUME StoreInv, NEW p, NEW o
  PROVE  IsFiniteSet(Above(p, o)) /\ Cardinality(Above(p, o)) \in Nat
<1>1. Above(p, o) \subseteq Rows
  BY DEF Above
<1> QED
  BY <1>1, RowsFinite, SubsetSize

(* Rounding up keeps the rows that begin before.                           *)
LEMMA Rounding ==
  ASSUME ScrOK, NEW c \in Nat
  PROVE  /\ WholeRows(c) \in Nat /\ c <= WholeRows(c) /\ WholeRows(c) < c + scr_x
         /\ \E m \in Nat : WholeRows(c) = m * scr_x
         /\ \A i \in Nat : i * scr_x < WholeRows(c) <=> i * scr_x < c
<1> DEFINE x == scr_x
           m == (c + x - 1) \div x
<1>0. x \in Nat \ {0}
  BY DEF ScrOK
<1>1. c + x - 1 \in Nat
  BY <1>0
<1>2. /\ c + x - 1 = x * m + ((c + x - 1) % x)
      /\ (c + x - 1) % x \in 0 .. x - 1 /\ m \in Int
  <2>1. c + x - 1 \in Int
    BY <1>1
  <2> QED
    BY <1>0, <2>1, DivMod
<1>3. m >= 0
  <2> SUFFICES ASSUME m <= -1
               PROVE  FALSE
    BY <1>2
  <2> HIDE DEF m
  <2>1. x * m <= -x
    BY <1>0, <1>2
  <2> QED
    BY <1>0, <1>1, <1>2, <2>1
<1>4. WholeRows(c) = m * x
  BY DEF WholeRows
<1> HIDE DEF m, x
<1>5. m \in Nat /\ m * x \in Nat /\ m * x = x * m
  BY <1>0, <1>2, <1>3
<1>6. c <= m * x /\ m * x < c + x
  BY <1>0, <1>1, <1>2, <1>5
<1>7. ASSUME NEW i \in Nat
      PROVE  i * x < m * x <=> i * x < c
  <2>1. i * x \in Nat
    BY <1>0
  <2>2. CASE i < m
    <3>1. i * x + x <= m * x
      BY <1>0, <1>5, <2>2, TimesLess
    <3> QED
      BY <1>0, <1>5, <1>6, <2>1, <3>1
  <2>3. CASE ~(i < m)
    <3>1. (i - m) * x >= 0
      BY <1>0, <1>5, <2>3
    <3>2. i * x >= m * x
      BY <1>0, <1>5, <3>1
    <3> QED
      BY <1>5, <1>6, <2>1, <3>2
  <2> QED
    BY <2>2, <2>3
<1> QED
  BY <1>4, <1>5, <1>6, <1>7 DEF x

(* The place n rows before the c-th character of p, or the first of all.   *)
BackedTo(p, c, n, t) ==
  /\ Aligned(t.p, t.offset) /\ line[t.p] <= line[p]
  /\ \/ /\ Cardinality(Upto(p, c)) <= n
        /\ t = [p |-> head, offset |-> 0]
     \/ /\ Cardinality(Upto(p, c)) > n
        /\ Cardinality(Above(t.p, t.offset)) = Cardinality(Upto(p, c)) - n

LEMMA AlignedFirst == ScrOK /\ StoreInv => Aligned(head, 0)
<1>1. ScrOK => 0 = 0 * scr_x
  BY DEF ScrOK
<1> QED
  BY <1>1, OwnedBuffers DEF Aligned

LEMMA WalkBack ==
  ASSUME StoreInv, ScrOK, NEW p \in Live, NEW c \in Nat, c <= len[p],
         NEW n \in Nat \ {0}, line[head] = 1 \/ n <= line[p] - line[head]
  PROVE  /\ Walk(prev, p, c, n).p \in Live \cup {NULL}
         /\ BackedTo(p, c, n, EndOfWalkBack(Walk(prev, p, c, n)))
<1> DEFINE w == Walk(prev, p, c, n)
           all == Cardinality(Upto(p, c))
<1>0. /\ n \in Nat /\ n # 0 /\ c \in Nat
      /\ \A q \in Live : Falls[q] = -line[q] /\ Falls[q] \in Int
      /\ Falls[p] + n \in Int /\ line[p] \in Nat /\ line[head] \in Nat
      /\ prev \in [Node -> Node \cup {NULL}]
      /\ p \in Node
  BY OwnedBuffers DEF Falls, StoreInv, StoreTypeOK
<1>1. Leads(prev, Falls, Falls[p] + n)
  <2>1. line[head] = 1 \/ Falls[p] + n <= -line[head]
    BY <1>0
  <2> QED
    BY <1>0, <2>1, PrevLeads
<1>2. WalkedTo(Falls, p, c, n, w)
  BY <1>0, <1>1, WalkCounts
<1>3. w \in Places /\ Stepped(w)
  BY <1>0, WalkStepped
<1> HIDE DEF w
<1>4. all \in Nat
  BY AheadSize DEF Upto
<1>5. CASE w.p = NULL
  <2>1. w.p \notin Owned /\ w.p \notin Live
    BY <1>5, OwnedBuffers
  <2>2. EndOfWalkBack(w) = [p |-> head, offset |-> 0]
    BY <2>1 DEF EndOfWalkBack
  <2>3. all <= n
    BY <1>2, <2>1 DEF WalkedTo, Upto
  <2>4. line[head] <= line[p]
    BY RowFacts
  <2> QED
    BY <1>5, <2>2, <2>3, <2>4, AlignedFirst DEF BackedTo, w
<1>6. CASE w.p \in Live
  <2>1. /\ w.chars <= len[w.p]
        /\ (w.p = p /\ w.chars < c) \/ Falls[w.p] > Falls[p]
        /\ Cardinality(AheadAt(Falls, w)) = all - n
        /\ Cardinality(AheadAt(Falls, w)) > 0
    BY <1>0, <1>2, <1>6, OwnedBuffers DEF WalkedTo, Upto
  <2>2. /\ w.p \in Owned /\ w.chars \in Nat /\ len[w.p] \in Nat /\ len[p] \in Nat
        /\ line[w.p] \in Nat /\ w.p \in Node
    BY <1>3, <1>6, OwnedBuffers DEF Places
  <2>3. all > n
    BY <1>0, <1>4, <2>1
  <2>4. AheadAt(Falls, w) =
          {r \in Rows : \/ line[r[1]] < line[w.p]
                        \/ r[1] = w.p /\ (r[2] = 0 \/ r[2] * scr_x < w.chars)}
    <3>1. AheadAt(Falls, w) = Upto(w.p, w.chars)
      BY DEF AheadAt, Upto
    <3>2. Upto(w.p, w.chars) =
            {r \in Rows : \/ line[r[1]] < line[w.p]
                          \/ r[1] = w.p /\ (r[2] = 0 \/ r[2] * scr_x < w.chars)}
      BY <1>6, UptoRows
    <3> QED
      BY <3>1, <3>2
  <2>5. CASE w.chars = len[w.p]
    <3> DEFINE q == next[w.p]
    <3>1. EndOfWalkBack(w) = [p |-> q, offset |-> 0]
      BY <2>2, <2>5 DEF EndOfWalkBack
    <3>2. line[w.p] < line[p]
      <4>1. w.p # p
        BY <1>0, <2>1, <2>2, <2>5
      <4>2. Falls[w.p] > Falls[p]
        BY <2>1, <4>1
      <4>3. Falls[w.p] = -line[w.p] /\ Falls[p] = -line[p]
        BY <1>0, <1>6
      <4> QED
        BY <1>0, <2>2, <4>2, <4>3
    <3>3. w.p # tail
      BY <1>0, <2>2, <3>2, RowFacts
    <3>4. q \in Live /\ line[q] = line[w.p] + 1
      BY <1>6, <3>3 DEF StoreInv, Linked
    <3>5. ASSUME NEW r \in Rows
          PROVE  r \in Above(q, 0) <=> r \in AheadAt(Falls, w)
      <4>1. r \in Above(q, 0) <=> line[r[1]] < line[w.p] + 1
        <5>1. r \in Above(q, 0) <=> line[r[1]] < line[q] \/ (r[1] = q /\ r[2] * scr_x < 0)
          BY DEF Above
        <5>2. ~(r[2] * scr_x < 0)
          BY RowFacts
        <5> QED
          BY <3>4, <5>1, <5>2
      <4>2. r \in AheadAt(Falls, w) <=> line[r[1]] < line[w.p] \/ r[1] = w.p
        <5>1. r \in AheadAt(Falls, w) <=>
                \/ line[r[1]] < line[w.p]
                \/ r[1] = w.p /\ (r[2] = 0 \/ r[2] * scr_x < w.chars)
          BY <2>4
        <5>2. r[1] = w.p => (r[2] = 0 \/ r[2] * scr_x < w.chars)
          BY <2>5, RowFacts
        <5> QED
          BY <5>1, <5>2
      <4>3. line[r[1]] < line[w.p] + 1 <=> line[r[1]] < line[w.p] \/ r[1] = w.p
        <5>1. r[1] \in Live /\ line[r[1]] \in Nat /\ (line[r[1]] = line[w.p] <=> r[1] = w.p)
          BY <1>6, RowFacts
        <5> QED
          BY <2>2, <5>1
      <4> QED
        BY <4>1, <4>2, <4>3
    <3>6. Above(q, 0) = AheadAt(Falls, w)
      <4>1. Above(q, 0) \subseteq Rows /\ AheadAt(Falls, w) \subseteq Rows
        BY DEF Above, AheadAt, Ahead
      <4> QED
        BY <3>5, <4>1
    <3>7. Aligned(q, 0)
      <4>1. 0 = 0 * scr_x
        BY DEF ScrOK
      <4> QED
        BY <3>4, <4>1 DEF Aligned
    <3>8. line[q] <= line[p]
      BY <1>0, <2>2, <3>2, <3>4
    <3> HIDE DEF q
    <3>9. BackedTo(p, c, n, EndOfWalkBack(w))
      BY <2>1, <2>3, <3>1, <3>6, <3>7, <3>8 DEF BackedTo
    <3> QED
      BY <1>6, <3>9 DEF w
  <2>6. CASE w.chars # len[w.p]
    <3>1. w.chars >= 1 /\ w.chars + scr_x <= len[w.p]
      BY <1>3, <2>2, <2>6 DEF Stepped
    <3> DEFINE o == WholeRows(w.chars)
    <3>2. EndOfWalkBack(w) = [p |-> w.p, offset |-> o]
      BY <2>2, <2>6 DEF EndOfWalkBack
    <3>3. /\ o \in Nat /\ w.chars <= o /\ o < w.chars + scr_x
          /\ \E m \in Nat : o = m * scr_x
          /\ \A i \in Nat : i * scr_x < o <=> i * scr_x < w.chars
      BY <2>2, Rounding
    <3> HIDE DEF o
    <3>4. Aligned(w.p, o)
      <4>1. o < len[w.p]
        BY <2>2, <3>1, <3>3, RowFacts
      <4> QED
        BY <1>6, <3>3, <4>1 DEF Aligned
    <3>5. ASSUME NEW r \in Rows
          PROVE  r[2] * scr_x < o <=> r[2] = 0 \/ r[2] * scr_x < w.chars
      <4>1. r[2] \in Nat
        BY RowFacts
      <4>2. 0 * scr_x = 0
        BY DEF ScrOK
      <4>3. CASE r[2] = 0
        <5>1. o > 0
          BY <2>2, <3>1, <3>3
        <5> QED
          BY <4>2, <4>3, <5>1
      <4>4. CASE r[2] # 0
        BY <3>3, <4>1, <4>4
      <4> QED
        BY <4>3, <4>4
    <3>6. Above(w.p, o) = AheadAt(Falls, w)
      <4>1. Above(w.p, o) \subseteq Rows /\ AheadAt(Falls, w) \subseteq Rows
        BY DEF Above, AheadAt, Ahead
      <4>2. ASSUME NEW r \in Rows
            PROVE  r \in Above(w.p, o) <=> r \in AheadAt(Falls, w)
        <5>1. r \in Above(w.p, o) <=> \/ line[r[1]] < line[w.p]
                                      \/ r[1] = w.p /\ r[2] * scr_x < o
          BY DEF Above
        <5>2. r \in AheadAt(Falls, w) <=>
                \/ line[r[1]] < line[w.p]
                \/ r[1] = w.p /\ (r[2] = 0 \/ r[2] * scr_x < w.chars)
          BY <2>4
        <5> QED
          BY <3>5, <5>1, <5>2
      <4> QED
        BY <4>1, <4>2
    <3>7. line[w.p] <= line[p]
      BY <1>0, <1>6, <2>1, <2>2
    <3>8. BackedTo(p, c, n, EndOfWalkBack(w))
      BY <2>1, <2>3, <3>2, <3>4, <3>6, <3>7 DEF BackedTo
    <3> QED
      BY <1>6, <3>8 DEF w
  <2> QED
    BY <2>5, <2>6
<1> QED
  BY <1>2, <1>5, <1>6 DEF WalkedTo

-----------------------------------------------------------------------------
(* Comparing places.                                                       *)

LEMMA UptoGrows ==
  ASSUME StoreInv, ScrOK, NEW p \in Live, NEW q \in Live, NEW c \in Nat, NEW d \in Nat,
         line[q] < line[p] \/ (q = p /\ d <= c)
  PROVE  Cardinality(Upto(q, d)) <= Cardinality(Upto(p, c))
<1>1. ASSUME NEW r \in Upto(q, d)
      PROVE  r \in Upto(p, c)
  <2>1. r \in Rows /\ (line[r[1]] < line[q] \/ (r[1] = q /\ (r[2] = 0 \/ r[2] * scr_x < d)))
    BY UptoRows
  <2>2. line[r[1]] \in Nat /\ line[p] \in Nat /\ line[q] \in Nat /\ r[2] * scr_x \in Nat
    BY <2>1, RowFacts
  <2>3. line[r[1]] < line[p] \/ (r[1] = p /\ (r[2] = 0 \/ r[2] * scr_x < c))
    BY <2>1, <2>2
  <2> QED
    BY <2>1, <2>3, UptoRows
<1>2. IsFiniteSet(Upto(p, c))
  BY AheadSize DEF Upto
<1> QED
  BY <1>1, <1>2, SubsetSize

LEMMA AboveGrows ==
  ASSUME StoreInv, ScrOK, NEW p \in Live, NEW q \in Live, NEW o \in Nat, NEW u \in Nat,
         NotAfter(p, o, q, u)
  PROVE  /\ Above(p, o) \subseteq Above(q, u)
         /\ Cardinality(Above(p, o)) <= Cardinality(Above(q, u))
<1>1. ASSUME NEW r \in Above(p, o)
      PROVE  r \in Above(q, u)
  <2>1. r \in Rows /\ (line[r[1]] < line[p] \/ (r[1] = p /\ r[2] * scr_x < o))
    BY DEF Above
  <2>2. line[r[1]] \in Nat /\ line[p] \in Nat /\ line[q] \in Nat /\ r[2] * scr_x \in Nat
    BY <2>1, RowFacts
  <2>3. line[r[1]] < line[q] \/ (r[1] = q /\ r[2] * scr_x < u)
    BY <2>1, <2>2 DEF NotAfter
  <2> QED
    BY <2>1, <2>3 DEF Above
<1> QED
  BY <1>1, AboveSize, SubsetSize

(* A place where a row begins is the further down the more rows are above. *)
LEMMA PlaceOrder ==
  ASSUME StoreInv, ScrOK, NEW p, NEW q, NEW o, NEW u, Aligned(p, o), Aligned(q, u),
         Cardinality(Above(p, o)) <= Cardinality(Above(q, u))
  PROVE  NotAfter(p, o, q, u)
<1>0. /\ p \in Live /\ q \in Live /\ o \in Nat /\ u \in Nat
      /\ line[p] \in Nat /\ line[q] \in Nat /\ (line[p] = line[q] => p = q)
      /\ len[q] \in Nat /\ scr_x \in Nat \ {0}
  BY RowFacts DEF Aligned
<1> SUFFICES ASSUME ~NotAfter(p, o, q, u)
             PROVE  FALSE
  OBVIOUS
<1>1. line[q] < line[p] \/ (q = p /\ u < o)
  BY <1>0 DEF NotAfter
<1>2. NotAfter(q, u, p, o)
  BY <1>0, <1>1 DEF NotAfter
<1>3. PICK m \in Nat : u = m * scr_x
  BY DEF Aligned
<1>4. <<q, m>> \in Rows
  <2>1. m <= u
    <3>1. m * scr_x >= m
      BY <1>0
    <3> QED
      BY <1>3, <3>1
  <2>2. m = 0 \/ m * scr_x < len[q]
    <3>1. CASE u = 0
      BY <1>0, <2>1, <3>1
    <3>2. CASE u < len[q]
      BY <1>3, <3>2
    <3> QED
      BY <3>1, <3>2 DEF Aligned
  <2>3. m <= len[q]
    <3>1. CASE u = 0
      BY <1>0, <2>1, <3>1
    <3>2. CASE u < len[q]
      BY <1>0, <2>1, <3>2
    <3> QED
      BY <3>1, <3>2 DEF Aligned
  <2>4. m \in RowsOf(q)
    BY <1>0, <2>2, <2>3 DEF RowsOf
  <2> QED
    BY <1>0, <2>4, RowsFinite
<1>5. <<q, m>> \in Above(p, o)
  BY <1>1, <1>3, <1>4 DEF Above
<1>6. <<q, m>> \notin Above(q, u)
  BY <1>0, <1>3 DEF Above
<1>7. Above(q, u) \subseteq Above(p, o) /\ Above(q, u) # Above(p, o)
  BY <1>0, <1>2, <1>5, <1>6, AboveGrows
<1>8. Cardinality(Above(q, u)) < Cardinality(Above(p, o))
  BY <1>7, AboveSize, SubsetSize
<1> QED
  BY <1>8, AboveSize

(* What a line of at most n rows adds to the rows above it.                *)
LEMMA LineRows ==
  ASSUME StoreInv, ScrOK, NEW p \in Live, NEW c \in Nat, NEW n \in Nat \ {0},
         len[p] <= n * scr_x
  PROVE  /\ Cardinality(Upto(p, c)) <= Cardinality(Above(p, 0)) + n
         /\ Cardinality(Upto(p, c)) > Cardinality(Above(p, 0))
         /\ <<p, 0>> \in Upto(p, c)
         /\ Above(p, 0) = {r \in Rows : line[r[1]] < line[p]}
<1> DEFINE S == Upto(p, c)
           T == Above(p, 0)
           B == {p} \X (0 .. n - 1)
<1>0. /\ line[p] \in Nat /\ len[p] \in Nat /\ scr_x \in Nat \ {0} /\ n \in Nat /\ n # 0
      /\ n * scr_x \in Nat
  BY RowFacts
<1>1. IsFiniteSet(S) /\ Cardinality(S) \in Nat /\ Cardinality(T) \in Nat
  BY AheadSize, AboveSize DEF Upto
<1>2. T = {r \in Rows : line[r[1]] < line[p]}
  <2>1. \A r \in Rows : ~(r[2] * scr_x < 0)
    BY RowFacts
  <2> QED
    BY <2>1 DEF Above
<1>3. S = {r \in Rows : line[r[1]] < line[p] \/ (r[1] = p /\ (r[2] = 0 \/ r[2] * scr_x < c))}
  BY UptoRows
<1>4. <<p, 0>> \in S
  BY <1>3, FirstRow
<1>5. <<p, 0>> \notin T
  BY <1>0, <1>2
<1>6. T \subseteq S /\ T # S
  BY <1>2, <1>3, <1>4, <1>5
<1> HIDE DEF S, T
<1>7. Cardinality(T) < Cardinality(S) /\ Cardinality(S \ T) = Cardinality(S) - Cardinality(T)
  BY <1>1, <1>6, SubsetSize
<1>8. ASSUME NEW r \in S \ T
      PROVE  r \in B
  <2>1. r \in Rows /\ r[1] = p
    BY <1>2, <1>3
  <2>2. r = <<p, r[2]>> /\ r[2] \in Nat /\ (r[2] = 0 \/ r[2] * scr_x < len[p])
    BY <2>1, RowFacts
  <2>3. r[2] < n
    <3>1. CASE r[2] = 0
      BY <1>0, <3>1
    <3>2. CASE r[2] * scr_x < len[p] /\ r[2] > n
      <4>1. n * scr_x + scr_x <= r[2] * scr_x
        BY <1>0, <2>2, <3>2, TimesLess
      <4>2. r[2] * scr_x \in Nat
        BY <1>0, <2>2
      <4> QED
        BY <1>0, <3>2, <4>1, <4>2
    <3>3. CASE r[2] * scr_x < len[p] /\ r[2] = n
      BY <1>0, <3>3
    <3> QED
      BY <1>0, <2>2, <3>1, <3>2, <3>3
  <2> QED
    BY <1>0, <2>2, <2>3
<1>9. IsFiniteSet(B) /\ Cardinality(B) = n
  <2>1. IsFiniteSet({p}) /\ Cardinality({p}) = 1
    BY FS_Singleton
  <2>2. IsFiniteSet(0 .. n - 1) /\ Cardinality(0 .. n - 1) = n
    <3>1. n - 1 \in Int /\ (n - 1) - 0 + 1 = n /\ ~(0 > n - 1)
      BY <1>0
    <3> QED
      BY <3>1, FS_Interval
  <2>3. IsFiniteSet(B) /\ Cardinality(B) = Cardinality({p}) * Cardinality(0 .. n - 1)
    BY <2>1, <2>2, FS_Product
  <2> QED
    BY <1>0, <2>1, <2>2, <2>3
<1> HIDE DEF B
<1>10. S \ T \subseteq B
  BY <1>8
<1>11. Cardinality(S \ T) <= n
  BY <1>9, <1>10, SubsetSize
<1>12. Cardinality(S) <= Cardinality(T) + n
  BY <1>0, <1>1, <1>7, <1>11
<1> QED
  BY <1>1, <1>2, <1>4, <1>7, <1>12 DEF S, T

LEMMA UptoFirst ==
  ASSUME StoreInv, ScrOK, NEW p \in Live
  PROVE  Cardinality(Upto(p, 0)) = Cardinality(Above(p, 0)) + 1
<1>1. \A r \in Rows : ~(r[2] * scr_x < 0) /\ (r = <<p, 0>> <=> r[1] = p /\ r[2] = 0)
  BY RowFacts
<1>2. Upto(p, 0) = {r \in Rows : line[r[1]] < line[p] \/ (r[1] = p /\ (r[2] = 0 \/ r[2] * scr_x < 0))}
  BY UptoRows
<1>3. \A r \in Rows : r \in Upto(p, 0) <=> line[r[1]] < line[p] \/ r = <<p, 0>>
  BY <1>1, <1>2
<1>4. \A r \in Rows : r \in Above(p, 0) <=> line[r[1]] < line[p]
  BY <1>1 DEF Above
<1>5. Upto(p, 0) \subseteq Rows /\ Above(p, 0) \subseteq Rows /\ <<p, 0>> \in Rows
  BY <1>2, FirstRow DEF Above
<1>6. Upto(p, 0) = Above(p, 0) \cup {<<p, 0>>}
  BY <1>3, <1>4, <1>5
<1>7. <<p, 0>> \notin Above(p, 0)
  BY <1>4, <1>5, RowFacts
<1> QED
  BY <1>6, <1>7, AboveSize, FS_AddElement

(* decide_scr_dump_top() for a screen that ends in the list.               *)
LEMMA TopOf ==
  ASSUME StoreInv, ScrOK, NEW p \in Live, NEW o \in Nat, o <= len[p],
         line[head] = 1 \/ scr_y <= line[p] - line[head]
  PROVE  /\ BackedTo(p, o, scr_y, DecideScrDumpTop(p, o))
         /\ ~WalkFaults(prev, p, o, scr_y)
<1>1. scr_y \in Nat \ {0}
  BY DEF ScrOK
<1>2. /\ Walk(prev, p, o, scr_y).p \in Live \cup {NULL}
      /\ BackedTo(p, o, scr_y, EndOfWalkBack(Walk(prev, p, o, scr_y)))
  BY <1>1, WalkBack
<1> QED
  BY <1>2, OwnedBuffers DEF DecideScrDumpTop, WalkFaults

(* A walk back ends in the list or at its end even if head->prev is stale. *)
LEMMA BackSane ==
  ASSUME StoreInv, ScrOK, NEW p \in Live, NEW c \in Nat, c <= len[p], NEW n \in Nat \ {0},
         NEW t, t = EndOfWalkBack(Walk(prev, p, c, n))
  PROVE  /\ t \in [p : Live \cup {NULL}, offset : Nat]
         /\ t.p \in Live => t.offset <= len[t.p]
         /\ t.p = NULL => t.offset = 0
<1> DEFINE w == Walk(prev, p, c, n)
<1>1. w \in Places /\ Stepped(w)
  BY OwnedBuffers, WalkStepped DEF StoreInv, StoreTypeOK
<1>2. t = EndOfWalkBack(w)
  OBVIOUS
<1> HIDE DEF w
<1>3. CASE w.p \notin Owned
  <2>1. t = [p |-> head, offset |-> 0]
    BY <1>2, <1>3 DEF EndOfWalkBack
  <2> QED
    BY <2>1, OwnedBuffers
<1>4. CASE w.p \in Owned /\ w.chars = len[w.p]
  <2>1. t = [p |-> next[w.p], offset |-> 0]
    BY <1>2, <1>4 DEF EndOfWalkBack
  <2>2. next[w.p] \in Live \cup {NULL}
    <3>1. CASE w.p \in Live
      BY <3>1 DEF StoreInv, Linked
    <3>2. CASE w.p \notin Live
      BY <1>4, <3>2, OwnedBuffers
    <3> QED
      BY <3>1, <3>2
  <2> QED
    BY <2>1, <2>2, OwnedBuffers
<1>5. CASE w.p \in Owned /\ w.chars # len[w.p]
  <2>1. t = [p |-> w.p, offset |-> WholeRows(w.chars)]
    BY <1>2, <1>5 DEF EndOfWalkBack
  <2>2. w.chars >= 1 /\ w.chars + scr_x <= len[w.p]
    BY <1>1, <1>5 DEF Stepped
  <2>3. w.chars \in Nat /\ len[w.p] \in Nat /\ w.p \in Node /\ scr_x \in Nat \ {0}
    BY <1>1, <1>5, OwnedBuffers DEF Places, ScrOK
  <2>4. w.p \in Live
    BY <2>2, <2>3, OwnedBuffers
  <2>5. WholeRows(w.chars) \in Nat /\ WholeRows(w.chars) < w.chars + scr_x
    BY <2>3, Rounding
  <2>6. WholeRows(w.chars) <= len[w.p]
    BY <2>2, <2>3, <2>5
  <2> QED
    BY <2>1, <2>4, <2>5, <2>6, OwnedBuffers
<1> QED
  BY <1>3, <1>4, <1>5

LEMMA TopOfNothing ==
  ASSUME StoreInv, ScrOK, NEW o \in Nat
  PROVE  DecideScrDumpTop(NULL, o) = [p |-> head, offset |-> 0]
<1> DEFINE w(k) == Walk(prev, NULL, o, k)
           S == {k \in Nat : w(k).p = NULL}
<1>1. /\ w(0) = [p |-> NULL, chars |-> o]
      /\ \A k \in Nat : w(k) \in Places /\ w(k + 1) = NextRow(prev, w(k))
  BY WalkTurns DEF StoreInv, StoreTypeOK
<1> HIDE DEF w
<1>2. 0 \in S
  BY <1>1
<1>3. ASSUME NEW k \in Nat, k \in S
      PROVE  k + 1 \in S
  <2>1. w(k).p = NULL /\ w(k + 1) = NextRow(prev, w(k))
    BY <1>1, <1>3
  <2>2. NextRow(prev, w(k)) = w(k)
    BY <2>1, OwnedBuffers DEF NextRow
  <2> QED
    BY <2>1, <2>2
<1> HIDE DEF S
<1>4. \A k \in Nat : k \in S
  BY <1>2, <1>3, NatSetInduction
<1>5. w(scr_y).p = NULL
  BY <1>4 DEF S, ScrOK
<1> QED
  BY <1>5, OwnedBuffers DEF DecideScrDumpTop, EndOfWalkBack, w

-----------------------------------------------------------------------------
(* Where the walks forward end.                                            *)

(* decide_scroll_down_bottom() does not end a screen further up the list
   than it was.                                                            *)
LEMMA DownEnds ==
  ASSUME StoreInv, ScrOK, bottom_p \in Live, bottom_offset \in Nat, bottom_offset <= len[bottom_p],
         NEW b, b = DecideScrollDownBottom
  PROVE  /\ b \in [p : Live, offset : Nat] /\ b.offset <= len[b.p]
         /\ line[bottom_p] <= line[b.p]
<1> DEFINE n == scr_y \div 2
           w == Walk(next, bottom_p, bottom_offset, n)
<1>0. /\ n \in Nat \ {0} /\ next \in [Node -> Node \cup {NULL}]
      /\ \A q \in Live : line[q] \in Nat /\ len[q] \in Nat /\ line[q] <= line[tail]
      /\ bottom_p \in Node /\ line[bottom_p] + n \in Int /\ n # 0
  BY HalfScr, OwnedBuffers, RowFacts DEF StoreInv, StoreTypeOK
<1>1. w \in Places
  BY <1>0, WalkStepped
<1>2. Leads(next, line, line[bottom_p] + n)
  BY <1>0, NextLeads
<1>3. WalkedTo(line, bottom_p, bottom_offset, n, w)
  BY <1>0, <1>2, WalkCounts
<1>4. b = CASE w.p \notin Owned -> [p |-> tail, offset |-> 0]
            [] w.p \in Owned /\ w.chars = len[w.p] -> [p |-> prev[w.p], offset |-> 0]
            [] OTHER -> [p |-> w.p, offset |-> len[w.p] - w.chars]
  BY DEF DecideScrollDownBottom
<1> HIDE DEF w, n
<1>5. CASE w.p = NULL
  <2>1. b = [p |-> tail, offset |-> 0]
    BY <1>4, <1>5, OwnedBuffers
  <2> QED
    BY <1>0, <2>1, OwnedBuffers
<1>6. CASE w.p \in Live /\ w.chars = len[w.p]
  <2>1. b = [p |-> prev[w.p], offset |-> 0]
    BY <1>4, <1>6, OwnedBuffers
  <2>2. line[w.p] > line[bottom_p]
    <3>1. \/ w.p = bottom_p /\ w.chars < bottom_offset
          \/ line[w.p] > line[bottom_p]
      BY <1>0, <1>3, <1>6, OwnedBuffers DEF WalkedTo
    <3>2. len[bottom_p] \in Nat
      BY <1>0
    <3> QED
      BY <1>6, <3>1, <3>2
  <2>3. w.p # head
    <3>1. line[head] <= line[bottom_p] /\ line[head] \in Nat
      BY RowFacts, OwnedBuffers
    <3> QED
      BY <1>0, <2>2, <3>1
  <2>4. prev[w.p] \in Live /\ line[prev[w.p]] = line[w.p] - 1
    BY <1>6, <2>3 DEF StoreInv, Linked
  <2> QED
    BY <1>0, <1>6, <2>1, <2>2, <2>4
<1>7. CASE w.p \in Live /\ w.chars # len[w.p]
  <2>1. b = [p |-> w.p, offset |-> len[w.p] - w.chars]
    BY <1>4, <1>7, OwnedBuffers
  <2>2. w.chars \in Nat /\ w.chars <= len[w.p] /\ line[w.p] >= line[bottom_p]
    BY <1>0, <1>1, <1>3, <1>7, OwnedBuffers DEF WalkedTo, Places
  <2> QED
    BY <1>0, <1>7, <2>1, <2>2
<1> QED
  BY <1>3, <1>5, <1>6, <1>7 DEF WalkedTo

(* re_calc_bottom_from_top() ends the screen that begins with the console. *)
LEMMA FirstScreen ==
  ASSUME StoreInv, ScrOK, NEW b, b = ReCalcBottomFromTop(head)
  PROVE  /\ b \in [p : Live, offset : Nat] /\ b.offset <= len[b.p]
         /\ Cardinality(Upto(b.p, 0)) <= scr_y
         /\ b.p = tail /\ b.offset \in {0, len[tail]} => Cardinality(Rows) <= scr_y
         /\ LinesFit => b.p # head \/ head = tail
<1> DEFINE w == Walk(next, head, len[head], scr_y)
           rest == AheadAt(line, w)
<1>0. /\ scr_y \in Nat /\ scr_y >= 2 /\ next \in [Node -> Node \cup {NULL}]
      /\ \A q \in Live : /\ line[q] \in Nat /\ len[q] \in Nat
                         /\ line[q] <= line[tail] /\ line[head] <= line[q]
      /\ head \in Live /\ tail \in Live /\ head \in Node /\ scr_x \in Nat \ {0}
      /\ line[head] + scr_y \in Int /\ len[head] \in Nat
  BY OwnedBuffers, RowFacts DEF StoreInv, StoreTypeOK, ScrOK
<1>1. w \in Places /\ Stepped(w)
  BY <1>0, WalkStepped
<1>2. Leads(next, line, line[head] + scr_y)
  BY <1>0, NextLeads
<1>3. WalkedTo(line, head, len[head], scr_y, w)
  BY <1>0, <1>2, WalkCounts
<1>4. b = CASE w.p \notin Owned -> [p |-> tail, offset |-> 0]
            [] w.p \in Owned /\ w.chars = len[w.p] -> [p |-> prev[w.p], offset |-> 0]
            [] OTHER -> [p |-> w.p, offset |-> w.chars]
  BY DEF ReCalcBottomFromTop
<1>5. Ahead(line, head, len[head]) = Rows
  <2>1. ASSUME NEW r \in Rows
        PROVE  line[r[1]] > line[head] \/ (r[1] = head /\ (r[2] = 0 \/ r[2] * scr_x < len[head]))
    <3>1. r[1] \in Live /\ (r[2] = 0 \/ r[2] * scr_x < len[r[1]])
      BY RowFacts
    <3>2. line[r[1]] = line[head] => r[1] = head
      BY <1>0, <3>1, RowFacts
    <3> QED
      BY <1>0, <3>1, <3>2
  <2> QED
    BY <2>1 DEF Ahead
<1> HIDE DEF w
<1>6. IsFiniteSet(Rows) /\ Cardinality(Rows) \in Nat /\ rest \subseteq Rows
  BY RowsFinite, SubsetSize DEF AheadAt, Ahead
<1>7. CASE w.p = NULL
  <2>1. b = [p |-> tail, offset |-> 0]
    BY <1>4, <1>7, OwnedBuffers
  <2>2. Cardinality(Rows) <= scr_y
    BY <1>3, <1>5, <1>7, OwnedBuffers DEF WalkedTo
  <2>3. Cardinality(Upto(tail, 0)) <= Cardinality(Rows)
    <3>1. Upto(tail, 0) \subseteq Rows
      BY DEF Upto, Ahead
    <3> QED
      BY <1>6, <3>1, SubsetSize
  <2>4. Cardinality(Upto(tail, 0)) \in Nat
    BY AheadSize DEF Upto
  <2>5. b.p = tail /\ b.offset = 0 /\ b \in [p : Live, offset : Nat]
    BY <1>0, <2>1
  <2> QED
    BY <1>0, <1>6, <2>2, <2>3, <2>4, <2>5
<1>8. ASSUME w.p \in Live
      PROVE  /\ w.chars \in Nat /\ w.chars <= len[w.p] /\ w.p \in Owned
             /\ w.chars = len[w.p] => line[w.p] > line[head]
             /\ Cardinality(Rows \ rest) = scr_y
             /\ \A r \in Rows : r \in rest <=> \/ line[r[1]] > line[w.p]
                                               \/ r[1] = w.p /\ (r[2] = 0 \/ r[2] * scr_x < w.chars)
  <2>1. /\ w.chars <= len[w.p]
        /\ (w.p = head /\ w.chars < len[head]) \/ line[w.p] > line[head]
        /\ Cardinality(rest) = Cardinality(Rows) - scr_y
    BY <1>0, <1>3, <1>5, <1>8, OwnedBuffers DEF WalkedTo
  <2>2. w.chars \in Nat
    BY <1>1 DEF Places
  <2>3. Cardinality(Rows \ rest) = scr_y
    <3>1. Cardinality(Rows \ rest) = Cardinality(Rows) - Cardinality(rest)
      BY <1>6, SubsetSize
    <3> QED
      BY <1>0, <1>6, <2>1, <3>1
  <2>4. w.chars = len[w.p] => line[w.p] > line[head]
    BY <1>0, <2>1, <2>2
  <2>5. \A r \in Rows : r \in rest <=> \/ line[r[1]] > line[w.p]
                                       \/ r[1] = w.p /\ (r[2] = 0 \/ r[2] * scr_x < w.chars)
    BY DEF AheadAt, Ahead
  <2>6. w.p \in Owned
    BY <1>8, OwnedBuffers
  <2> QED
    BY <2>1, <2>2, <2>3, <2>4, <2>5, <2>6
<1>9. ASSUME w.p \in Live, LinesFit,
             \A r \in Rows \ rest : line[r[1]] <= line[head]
      PROVE  FALSE
  <2>1. Rows \ rest \subseteq Upto(head, len[head])
    <3>1. ASSUME NEW r \in Rows \ rest
          PROVE  r[1] = head /\ (r[2] = 0 \/ r[2] * scr_x < len[head])
      <4>1. r[1] \in Live /\ (r[2] = 0 \/ r[2] * scr_x < len[r[1]])
        BY RowFacts
      <4>2. line[r[1]] = line[head]
        BY <1>0, <1>9, <4>1
      <4> QED
        BY <1>0, <4>1, <4>2, RowFacts
    <3>2. Upto(head, len[head]) =
            {r \in Rows : \/ line[r[1]] < line[head]
                          \/ r[1] = head /\ (r[2] = 0 \/ r[2] * scr_x < len[head])}
      BY <1>0, UptoRows
    <3> QED
      BY <3>1, <3>2
  <2>2. Cardinality(Rows \ rest) <= Cardinality(Upto(head, len[head]))
    BY <2>1, AheadSize, SubsetSize DEF Upto
  <2>3. Cardinality(Upto(head, len[head])) <= Cardinality(Above(head, 0)) + (scr_y - 1)
    <3>1. scr_y - 1 \in Nat \ {0} /\ len[head] <= (scr_y - 1) * scr_x
      BY <1>0, <1>9 DEF LinesFit
    <3> QED
      BY <1>0, <3>1, LineRows
  <2>4. Cardinality(Above(head, 0)) = 0
    <3>1. \A r \in Rows : ~(line[r[1]] < line[head]) /\ ~(r[2] * scr_x < 0)
      BY <1>0, RowFacts
    <3>2. Above(head, 0) = {}
      BY <3>1 DEF Above
    <3> QED
      BY <3>2, FS_EmptySet
  <2>5. Cardinality(Upto(head, len[head])) \in Nat /\ Cardinality(Rows \ rest) = scr_y
    BY <1>8, <1>9, AheadSize DEF Upto
  <2> QED
    BY <1>0, <2>2, <2>3, <2>4, <2>5
<1> HIDE DEF rest
<1>10. CASE w.p \in Live /\ w.chars = len[w.p]
  <2> DEFINE p == prev[w.p]
  <2>1. b = [p |-> p, offset |-> 0]
    BY <1>4, <1>8, <1>10
  <2>2. line[w.p] > line[head] /\ w.p # head
    BY <1>0, <1>8, <1>10
  <2>3. p \in Live /\ line[p] = line[w.p] - 1
    BY <1>10, <2>2 DEF StoreInv, Linked
  <2> HIDE DEF p
  <2>4. Cardinality(Upto(p, 0)) <= scr_y
    <3>1. Upto(p, 0) \subseteq Rows \ rest
      <4>1. Upto(p, 0) = {r \in Rows : line[r[1]] < line[p] \/ (r[1] = p /\ (r[2] = 0 \/ r[2] * scr_x < 0))}
        BY <2>3, UptoRows
      <4>2. ASSUME NEW r \in Upto(p, 0)
            PROVE  r \in Rows /\ r \notin rest
        <5>1. r \in Rows /\ r[1] \in Live /\ line[r[1]] \in Nat
          BY <4>1, RowFacts
        <5>2. line[r[1]] < line[p] \/ r[1] = p
          BY <4>1
        <5>3. line[r[1]] < line[w.p]
          BY <1>0, <1>10, <2>3, <5>1, <5>2
        <5> QED
          BY <1>0, <1>8, <1>10, <5>1, <5>3
      <4> QED
        BY <4>2
    <3>2. IsFiniteSet(Rows \ rest)
      BY <1>6, SubsetSize
    <3> QED
      BY <1>8, <1>10, <3>1, <3>2, SubsetSize
  <2>5. p # tail
    BY <1>0, <1>10, <2>3
  <2>6. ASSUME LinesFit, p = head
        PROVE  FALSE
    <3>1. ASSUME NEW r \in Rows \ rest
          PROVE  line[r[1]] <= line[head]
      <4>1. r[1] \in Live /\ line[r[1]] \in Nat /\ (r[2] = 0 \/ r[2] * scr_x < len[r[1]])
        BY RowFacts
      <4>2. ~(line[r[1]] > line[w.p]) /\ r[1] # w.p
        <5>1. r \in Rows /\ r \notin rest
          OBVIOUS
        <5>2. ~(line[r[1]] > line[w.p])
              /\ ~(r[1] = w.p /\ (r[2] = 0 \/ r[2] * scr_x < w.chars))
          BY <1>8, <1>10, <5>1
        <5> QED
          BY <1>10, <4>1, <5>2
      <4>3. line[r[1]] # line[w.p]
        BY <1>10, <4>1, <4>2, RowFacts
      <4> QED
        BY <1>0, <1>10, <2>3, <2>6, <4>1, <4>2, <4>3
    <3> QED
      BY <1>9, <1>10, <2>6, <3>1
  <2>7. b.p = p /\ b.offset = 0 /\ b \in [p : Live, offset : Nat]
    BY <2>1, <2>3
  <2> QED
    BY <1>0, <2>3, <2>4, <2>5, <2>6, <2>7
<1>11. CASE w.p \in Live /\ w.chars # len[w.p]
  <2>1. b = [p |-> w.p, offset |-> w.chars]
    BY <1>4, <1>8, <1>11
  <2>2. w.chars >= 1 /\ w.chars + scr_x <= len[w.p]
    BY <1>1, <1>8, <1>11 DEF Stepped
  <2>3. PICK m \in Nat : /\ WholeRows(w.chars) = m * scr_x
                         /\ w.chars <= m * scr_x /\ m * scr_x < w.chars + scr_x
    BY <1>8, <1>11, Rounding
  <2>4. m * scr_x < len[w.p] /\ m * scr_x >= m /\ m # 0 /\ m * scr_x \in Nat
    BY <1>0, <1>8, <1>11, <2>2, <2>3
  <2>5. <<w.p, m>> \in Rows \ rest
    <3>1. m \in RowsOf(w.p)
      BY <1>0, <1>11, <2>4 DEF RowsOf
    <3>2. <<w.p, m>> \in Rows
      BY <1>11, <3>1, RowsFinite
    <3>3. ~(m * scr_x < w.chars)
      BY <1>8, <1>11, <2>3, <2>4
    <3>4. ~(line[w.p] > line[w.p])
      BY <1>0, <1>11
    <3> QED
      BY <1>8, <1>11, <2>4, <3>2, <3>3, <3>4
  <2>6. Above(w.p, 0) = {r \in Rows : line[r[1]] < line[w.p]}
    <3>1. \A r \in Rows : ~(r[2] * scr_x < 0)
      BY RowFacts
    <3> QED
      BY <3>1 DEF Above
  <2>7. Above(w.p, 0) \subseteq Rows \ rest /\ Above(w.p, 0) # Rows \ rest
    <3>1. ASSUME NEW r \in Above(w.p, 0)
          PROVE  r \in Rows \ rest
      <4>1. r \in Rows /\ line[r[1]] < line[w.p] /\ line[r[1]] \in Nat
        BY <2>6, RowFacts
      <4>2. ~(line[r[1]] > line[w.p]) /\ r[1] # w.p
        BY <1>0, <1>11, <4>1
      <4> QED
        BY <1>8, <1>11, <4>1, <4>2
    <3>2. <<w.p, m>> \notin Above(w.p, 0)
      BY <1>0, <1>11, <2>6
    <3> QED
      BY <2>5, <3>1, <3>2
  <2>8. Cardinality(Above(w.p, 0)) < scr_y
    <3>1. IsFiniteSet(Rows \ rest)
      BY <1>6, SubsetSize
    <3> QED
      BY <1>8, <1>11, <2>7, <3>1, SubsetSize
  <2>9. Cardinality(Upto(w.p, 0)) <= scr_y
    <3>1. Cardinality(Upto(w.p, 0)) = Cardinality(Above(w.p, 0)) + 1
      BY <1>11, UptoFirst
    <3> QED
      BY <1>0, <2>8, <3>1, AboveSize
  <2>10. ASSUME LinesFit, w.p = head
         PROVE  FALSE
    <3>1. ASSUME NEW r \in Rows \ rest
          PROVE  line[r[1]] <= line[head]
      <4>1. line[r[1]] \in Nat /\ ~(line[r[1]] > line[w.p])
        <5>1. r \in Rows /\ r \notin rest
          OBVIOUS
        <5> QED
          BY <1>8, <1>11, <5>1, RowFacts
      <4> QED
        BY <1>0, <2>10, <4>1
    <3> QED
      BY <1>9, <1>11, <2>10, <3>1
  <2>11. b.p = w.p /\ b.offset = w.chars /\ b \in [p : Live, offset : Nat]
    BY <1>8, <1>11, <2>1
  <2>12. ~(b.p = tail /\ b.offset \in {0, len[tail]})
    BY <1>8, <1>11, <2>2, <2>11
  <2> QED
    BY <1>0, <1>8, <1>11, <2>9, <2>10, <2>11, <2>12
<1> QED
  BY <1>3, <1>7, <1>10, <1>11 DEF WalkedTo

-----------------------------------------------------------------------------
(* Printing from one place of the list to another.                         *)

(* The buffers of later lines come after; there are no more of them than
   the loop of After looks at, since no line is in two buffers.            *)
LEMMA AfterHolds ==
  ASSUME StoreInv, NEW p \in Live, NEW q \in Live, line[p] < line[q]
  PROVE  q \in After(p)
<1> DEFINE n == Cardinality(Node)
           at == CHOOSE h : h = [k \in 0 .. n |-> IF k = 0 THEN next[p]
                                                 ELSE IF h[k - 1] \in Owned THEN next[h[k - 1]]
                                                 ELSE NULL]
           g == [u \in Node \cup {NULL} |-> IF u \in Owned THEN next[u] ELSE NULL]
           d == line[q] - line[p] - 1
<1>0. /\ n \in Nat /\ IsFiniteSet(Node)
      /\ next \in [Node -> Node \cup {NULL}] /\ Owned \subseteq Node /\ Live \subseteq Owned
      /\ \A u \in Live : line[u] \in Nat /\ line[u] <= line[tail]
      /\ \A u, v \in Live : line[u] = line[v] => u = v
      /\ d \in Nat /\ p \in Node
  BY NodeFinite, OwnedBuffers DEF StoreInv, StoreTypeOK, HoldsLines
<1>1. \A u \in Live : line[u] < line[tail] => next[u] \in Live /\ line[next[u]] = line[u] + 1
  BY <1>0 DEF StoreInv, Linked
<1>2. After(p) = {at[k] : k \in 0 .. n}
  BY DEF After
<1>3. \E h : h = [k \in 0 .. n |-> IF k = 0 THEN next[p]
                                  ELSE IF h[k - 1] \in Owned THEN next[h[k - 1]]
                                  ELSE NULL]
  <2>1. g \in [Node \cup {NULL} -> Node \cup {NULL}]
    BY <1>0
  <2>2. next[p] \in Node \cup {NULL}
    BY <1>0
  <2> HIDE DEF g
  <2>3. PICK f \in [Nat -> Node \cup {NULL}] : f[0] = next[p] /\ \A k \in Nat : f[k + 1] = g[f[k]]
    <3>1. Iterated(Node \cup {NULL}, next[p], g)
      BY <2>1, <2>2, Iterates
    <3> QED
      BY <3>1, Zenon DEF Iterated
  <2> DEFINE e == [k \in 0 .. n |-> f[k]]
  <2>4. e = [k \in 0 .. n |-> IF k = 0 THEN next[p]
                              ELSE IF e[k - 1] \in Owned THEN next[e[k - 1]]
                              ELSE NULL]
    <3> SUFFICES ASSUME NEW k \in 0 .. n
                 PROVE  f[k] = IF k = 0 THEN next[p]
                               ELSE IF e[k - 1] \in Owned THEN next[e[k - 1]]
                               ELSE NULL
      OBVIOUS
    <3>1. CASE k = 0
      BY <2>3, <3>1
    <3>2. CASE k # 0
      <4>1. k - 1 \in Nat /\ k - 1 \in 0 .. n /\ (k - 1) + 1 = k
        BY <1>0, <3>2
      <4>2. f[k] = g[f[k - 1]] /\ f[k - 1] \in Node \cup {NULL}
        BY <2>3, <4>1
      <4>3. f[k] = IF f[k - 1] \in Owned THEN next[f[k - 1]] ELSE NULL
        BY <4>2 DEF g
      <4> QED
        BY <3>2, <4>1, <4>3
    <3> QED
      BY <3>1, <3>2
  <2> HIDE DEF e
  <2> QED
    BY <2>4
<1>4. at = [k \in 0 .. n |-> IF k = 0 THEN next[p]
                             ELSE IF at[k - 1] \in Owned THEN next[at[k - 1]]
                             ELSE NULL]
  BY <1>3
<1> HIDE DEF at, n, d, g
<1> DEFINE S == {k \in Nat : k <= n /\ k <= d => at[k] \in Live /\ line[at[k]] = line[p] + 1 + k}
<1>5. 0 \in S
  <2>1. at[0] = next[p]
    <3>1. 0 \in 0 .. n
      BY <1>0
    <3> QED
      BY <1>4, <3>1
  <2>2. line[p] < line[tail]
    <3>1. line[q] \in Nat /\ line[q] <= line[tail] /\ line[p] \in Nat /\ line[tail] \in Nat
      BY <1>0, OwnedBuffers
    <3> QED
      BY <3>1
  <2> QED
    BY <1>0, <1>1, <2>1, <2>2
<1>6. ASSUME NEW k \in Nat, k \in S
      PROVE  k + 1 \in S
  <2> SUFFICES ASSUME k + 1 <= n, k + 1 <= d
               PROVE  at[k + 1] \in Live /\ line[at[k + 1]] = line[p] + 1 + (k + 1)
    OBVIOUS
  <2>1. at[k] \in Live /\ line[at[k]] = line[p] + 1 + k
    BY <1>0, <1>6
  <2>2. at[k + 1] = next[at[k]]
    <3>1. k + 1 \in 0 .. n /\ k + 1 # 0 /\ (k + 1) - 1 = k
      BY <1>0
    <3> QED
      BY <1>0, <1>4, <2>1, <3>1
  <2>3. line[at[k]] < line[tail]
    <3>1. line[q] \in Nat /\ line[q] <= line[tail] /\ line[p] \in Nat /\ line[tail] \in Nat
      BY <1>0, OwnedBuffers
    <3>2. d = line[q] - line[p] - 1
      BY DEF d
    <3> QED
      BY <2>1, <3>1, <3>2
  <2>4. line[p] \in Nat
    BY <1>0
  <2> QED
    BY <1>1, <2>1, <2>2, <2>3, <2>4
<1> HIDE DEF S
<1>7. \A k \in Nat : k \in S
  BY <1>5, <1>6, NatSetInduction
<1>8. \A k \in Nat : k <= n /\ k <= d => at[k] \in Live /\ line[at[k]] = line[p] + 1 + k
  BY <1>7 DEF S
<1>9. CASE d <= n
  <2>1. at[d] \in Live /\ line[at[d]] = line[p] + 1 + d /\ d \in 0 .. n
    BY <1>0, <1>8, <1>9
  <2>2. line[at[d]] = line[q]
    BY <1>0, <2>1 DEF d
  <2>3. at[d] = q
    BY <1>0, <2>1, <2>2
  <2> QED
    BY <1>2, <2>1, <2>3
<1>10. CASE d > n
  <2> DEFINE f == [k \in 0 .. n |-> at[k]]
  <2>1. \A k \in 0 .. n : at[k] \in Node /\ line[at[k]] = line[p] + 1 + k
    BY <1>0, <1>8, <1>10
  <2>2. f \in Injection(0 .. n, Node)
    <3>1. f \in [0 .. n -> Node]
      BY <2>1
    <3>2. line[p] \in Nat
      BY <1>0
    <3>3. \A j, k \in 0 .. n : f[j] = f[k] => j = k
      BY <2>1, <3>2
    <3> HIDE DEF f
    <3> QED
      BY <3>1, <3>3 DEF Injection, IsInjective
  <2>3. IsFiniteSet(0 .. n) /\ Cardinality(0 .. n) = n + 1
    <3>1. 0 \in Int /\ n \in Int /\ n - 0 + 1 = n + 1 /\ ~(0 > n)
      BY <1>0
    <3> QED
      BY <3>1, FS_Interval
  <2> HIDE DEF f
  <2>4. Cardinality(0 .. n) <= Cardinality(Node)
    BY <1>0, <2>2, <2>3, FS_Injection
  <2> QED
    BY <1>0, <2>3, <2>4 DEF n
<1> QED
  BY <1>0, <1>9, <1>10

LEMMA PrintsDown ==
  ASSUME StoreInv, NEW p \in Live, NEW q \in Live, line[p] < line[q] \/ p = tail
  PROVE  ~DumpFaults(p, q)
<1>1. p \in Owned /\ q \in Owned
  BY OwnedBuffers
<1>2. p = tail => next[p] = NULL
  BY DEF StoreInv, Linked
<1> QED
  BY <1>1, <1>2, AfterHolds DEF DumpFaults

(* A screen begins on an earlier line than it ends on, or with the console. *)
LEMMA TopBefore ==
  ASSUME StoreInv, ScrOK, LinesFit, line[head] = 1,
         NEW p \in Live, NEW o \in Nat, o <= len[p], NEW t, t = DecideScrDumpTop(p, o)
  PROVE  t = [p |-> head, offset |-> 0] \/ line[t.p] < line[p]
<1>1. BackedTo(p, o, scr_y, t)
  BY TopOf
<1>2. Cardinality(Upto(p, o)) <= Cardinality(Above(p, 0)) + (scr_y - 1)
  <2>1. scr_y - 1 \in Nat \ {0} /\ len[p] <= (scr_y - 1) * scr_x
    BY DEF ScrOK, LinesFit
  <2> QED
    BY <2>1, LineRows
<1>3. ASSUME Cardinality(Above(t.p, t.offset)) = Cardinality(Upto(p, o)) - scr_y,
             ~(line[t.p] < line[p])
      PROVE  FALSE
  <2>1. /\ t.p \in Live /\ t.offset \in Nat /\ line[t.p] \in Nat /\ line[p] \in Nat
        /\ line[t.p] = line[p] => t.p = p
    BY <1>1, RowFacts DEF BackedTo, Aligned
  <2>2. NotAfter(p, 0, t.p, t.offset)
    BY <1>3, <2>1 DEF NotAfter
  <2>3. Cardinality(Above(p, 0)) <= Cardinality(Above(t.p, t.offset))
    BY <2>1, <2>2, AboveGrows
  <2>4. /\ Cardinality(Above(p, 0)) \in Nat /\ Cardinality(Upto(p, o)) \in Nat
        /\ scr_y \in Nat
    BY AboveSize, AheadSize DEF Upto, ScrOK
  <2> QED
    BY <1>2, <1>3, <2>3, <2>4
<1> QED
  BY <1>1, <1>3 DEF BackedTo

-----------------------------------------------------------------------------
(* The inductive invariant.                                                *)

(* The rows of a screen that ends at b begin at t.  Either it shows as many
   rows before b as the window has, or it begins with the console: then b
   is no further down, or was found by filling the window from the top.    *)
Screen(b, t) ==
  /\ Aligned(t.p, t.offset)
  /\ line[t.p] <= line[b.p]
  /\ \/ /\ Cardinality(Upto(b.p, b.offset)) > scr_y
        /\ Cardinality(Above(t.p, t.offset)) = Cardinality(Upto(b.p, b.offset)) - scr_y
     \/ /\ t = [p |-> head, offset |-> 0]
        /\ \/ Cardinality(Upto(b.p, b.offset)) <= scr_y
           \/ Cardinality(Upto(b.p, 0)) <= scr_y

Bottom == [p |-> bottom_p, offset |-> bottom_offset]
Top    == [p |-> top_p, offset |-> top_offset]

(* scr_dump_ctx names a place in the list even after lines were recycled.  *)
BottomInList == bottom_p \in Live /\ bottom_offset <= len[bottom_p]

TopFollows == Screen(Bottom, Top)

(* Only a console of one line ends the screen on its first line.           *)
BottomLater == bottom_p # head \/ head = tail

(* The screen follows scr_dump_ctx while the program waits for a key: a
   print that is due follows any call that changes the text or the size.   *)
ViewInv ==
  /\ IInv
  /\ ViewTypeOK
  /\ after = "return" /\ pc # "dump"
  /\ due = "refresh" => pc = "idle"
  /\ AtRest => BottomInList
  /\ AtRest /\ line[head] = 1 => TopFollows
  /\ AtRest /\ Calm => BottomLater
  /\ FaultNeeds

LEMMA BackedScreen ==
  ASSUME NEW p, NEW o, NEW b, b = [p |-> p, offset |-> o], NEW t, BackedTo(p, o, scr_y, t)
  PROVE  Screen(b, t)
BY DEF BackedTo, Screen

LEMMA ViewInitInv == ViewInit => ViewInv
<1> SUFFICES ASSUME ViewInit
             PROVE  ViewInv
  OBVIOUS
<1>1. IInv
  BY InitInv DEF ViewInit
<1>2. ViewTypeOK
  <2>1. head \in Node
    BY <1>1 DEF IInv, StoreInv, StoreTypeOK
  <2>2. PICK s \in ScreenSize : scr_y = s[1] /\ scr_x = s[2]
    BY DEF ViewInit
  <2>3. s = <<s[1], s[2]>>
    BY ScreenAssumption
  <2> QED
    BY <2>1, <2>2, <2>3 DEF ViewInit, ViewTypeOK
<1> QED
  BY <1>1, <1>2 DEF ViewInit, Init, ViewInv, AtRest, FaultNeeds

(* No call returns without a print being due.                              *)
LEMMA StoreBusy ==
  ASSUME ViewInv, Store
  PROVE  /\ IInv'
         /\ after' = "return" /\ pc' # "dump"
         /\ due' = "refresh" => pc' = "idle"
         /\ ~AtRest'
<1>0. after = "return" /\ pc # "dump" /\ due = "none" /\ IInv
  BY DEF ViewInv, Store
<1>1. IInv'
  <2>1. Next
    BY DEF Store, Next, Call
  <2> QED
    BY <1>0, <2>1, NextInv
<1>2. CASE Step /\ due' = IF Returns THEN "refresh" ELSE "none"
  <2>1. \/ Return /\ pc \in {"save", "retry"}
        \/ pc' \in {"save", "switch", "recycle", "retry"} /\ after' = after
    BY <1>0, <1>2
       DEF Step, SaveOneLine, TakeSlot, SwitchToNewLineBuffer, StartRecycle, RecycleHeadLine,
           EndRecycle, DropOutput, DumpLine, DumpEnd
  <2>2. CASE Return /\ pc \in {"save", "retry"}
    <3>1. pc' = "idle" /\ after' = "return"
      BY <1>0, <2>2 DEF Return
    <3>2. Returns
      BY <2>2, <3>1 DEF Returns
    <3> QED
      BY <1>1, <1>2, <3>1, <3>2 DEF AtRest
  <2>3. CASE pc' \in {"save", "switch", "recycle", "retry"} /\ after' = after
    BY <1>0, <1>1, <1>2, <2>3 DEF AtRest, Returns
  <2> QED
    BY <2>1, <2>2, <2>3
<1>3. CASE (\E o \in Output : Printv(o)) /\ UNCHANGED due
  BY <1>0, <1>1, <1>3 DEF Printv, AtRest
<1>4. CASE (\E n \in PromptLen : ReplaceLastLine(n)) /\ due' = "refresh"
  BY <1>0, <1>1, <1>4 DEF ReplaceLastLine, AtRest, ctl
<1> QED
  BY <1>2, <1>3, <1>4 DEF Store

(* Printing changes neither the text nor the size of the window.           *)
LEMMA Framed ==
  ASSUME UNCHANGED <<vars, scr_y, scr_x>>
  PROVE  /\ Live' = Live /\ Rows' = Rows /\ Falls' = Falls
         /\ LinesFit' <=> LinesFit
         /\ Calm' <=> Calm
<1>1. Live' = Live
  BY DEF vars, Live, IsFree
<1>2. \A p : RowsOf(p)' = RowsOf(p)
  BY DEF vars, RowsOf
<1>3. Rows' = Rows
  BY <1>1, <1>2 DEF Rows
<1>4. Falls' = Falls
  BY DEF vars, Falls
<1>5. LinesFit' <=> LinesFit
  BY <1>1 DEF vars, LinesFit
<1>6. Calm' <=> Calm
  BY <1>5 DEF vars, Calm
<1> QED
  BY <1>1, <1>3, <1>4, <1>5, <1>6

(* The screen that is printed is the one scr_dump_ctx stands for.          *)
LEMMA PrintedScreen ==
  ASSUME UNCHANGED <<vars, scr_y, scr_x>>, NEW b, NEW t, Bottom' = b, Top' = t, Screen(b, t)
  PROVE  TopFollows'
<1>1. Live' = Live /\ Rows' = Rows /\ Falls' = Falls
  BY Framed
<1>2. line' = line /\ head' = head /\ len' = len /\ scr_y' = scr_y /\ scr_x' = scr_x
  BY DEF vars
<1>3. /\ b.p = bottom_p' /\ b.offset = bottom_offset'
      /\ t.p = top_p' /\ t.offset = top_offset'
  BY DEF Bottom, Top
<1>4. \A c : Upto(bottom_p, c)' = Upto(b.p, c)
  BY <1>1, <1>2, <1>3 DEF Upto, Ahead
<1>5. Upto(bottom_p, bottom_offset)' = Upto(b.p, b.offset)
  BY <1>1, <1>2, <1>3 DEF Upto, Ahead
<1>6. Above(top_p, top_offset)' = Above(t.p, t.offset)
  BY <1>1, <1>2, <1>3 DEF Above
<1>7. Aligned(top_p, top_offset)' <=> Aligned(t.p, t.offset)
  BY <1>1, <1>2, <1>3 DEF Aligned
<1> QED
  BY <1>2, <1>3, <1>4, <1>5, <1>6, <1>7 DEF TopFollows, Screen, Bottom, Top

LEMMA Printed ==
  ASSUME ViewInv, UNCHANGED <<vars, scr_y, scr_x>>, pc = "idle", due' = "none",
         NEW b \in [p : Live, offset : Nat], b.offset <= len[b.p],
         NEW t \in [p : Live \cup {NULL}, offset : Nat], NEW f \in BOOLEAN,
         DumpScr(b, t, f),
         line[head] = 1 => Screen(b, t),
         Calm => ~f /\ ~DumpFaults(t.p, b.p) /\ (b.p # head \/ head = tail)
  PROVE  ViewInv' /\ Bottom' = b /\ Top' = t
<1>0. IInv /\ ViewTypeOK /\ after = "return" /\ Live \subseteq Node
  BY OwnedBuffers DEF ViewInv, IInv
<1>1. IInv'
  <2>1. UNCHANGED vars
    OBVIOUS
  <2> QED
    BY <1>0, <2>1, NextInv
<1>2. /\ bottom_p' = b.p /\ bottom_offset' = b.offset /\ top_p' = t.p /\ top_offset' = t.offset
      /\ fault' = (f \/ DumpFaults(t.p, b.p))
  BY DEF DumpScr
<1>3. Bottom' = b /\ Top' = t
  BY <1>2 DEF Bottom, Top
<1>4. ViewTypeOK'
  <2>1. fault' \in BOOLEAN
    BY <1>2
  <2> QED
    BY <1>0, <1>2, <2>1 DEF ViewTypeOK
<1>5. BottomInList'
  <2>1. Live' = Live /\ len' = len
    BY Framed DEF vars
  <2> QED
    BY <1>2, <2>1 DEF BottomInList
<1>6. line' = line /\ head' = head /\ tail' = tail /\ (Calm' <=> Calm) /\ (LinesFit' <=> LinesFit)
  BY Framed DEF vars
<1>7. line[head]' = 1 => TopFollows'
  BY <1>3, <1>6, PrintedScreen
<1>8. Calm' => BottomLater'
  BY <1>2, <1>6 DEF BottomLater
<1>9. FaultNeeds'
  <2> SUFFICES ASSUME fault', ~(line[head] > 1)
               PROVE  ~LinesFit
    BY <1>6 DEF FaultNeeds
  <2>1. line[head] = 1
    BY <1>0, OwnedBuffers DEF IInv, StoreInv, HoldsLines
  <2>2. f \/ DumpFaults(t.p, b.p)
    BY <1>2
  <2> QED
    BY <2>1, <2>2 DEF Calm
<1>10. pc' = "idle" /\ after' = "return"
  BY <1>0 DEF vars
<1> QED
  BY <1>1, <1>3, <1>4, <1>5, <1>7, <1>8, <1>9, <1>10 DEF ViewInv

-----------------------------------------------------------------------------
(* The steps of the window.                                                *)

LEMMA TopSane ==
  ASSUME StoreInv, ScrOK, NEW b \in [p : Live, offset : Nat], b.offset <= len[b.p]
  PROVE  DecideScrDumpTop(b.p, b.offset) \in [p : Live \cup {NULL}, offset : Nat]
<1>1. scr_y \in Nat \ {0}
  BY DEF ScrOK
<1> QED
  BY <1>1, BackSane DEF DecideScrDumpTop

LEMMA FaultType == \A link, p, c, n : WalkFaults(link, p, c, n) \in BOOLEAN
BY DEF WalkFaults

(* A screen that ends at b is printed.                                     *)
LEMMA PrintsTo ==
  ASSUME ViewInv, UNCHANGED <<vars, scr_y, scr_x>>, pc = "idle", due' = "none",
         NEW b \in [p : Live, offset : Nat], b.offset <= len[b.p],
         NEW t, t = DecideScrDumpTop(b.p, b.offset),
         NEW f \in BOOLEAN, Calm => ~f,
         DumpScr(b, t, WalkFaults(prev, b.p, b.offset, scr_y) \/ f),
         Calm /\ t = [p |-> head, offset |-> 0] => b.p # head \/ head = tail
  PROVE  ViewInv' /\ Bottom' = b /\ Top' = t
<1>0. StoreInv /\ ScrOK
  BY ScrSizes DEF ViewInv, IInv
<1>1. t \in [p : Live \cup {NULL}, offset : Nat]
  BY <1>0, TopSane
<1>2. ASSUME line[head] = 1
      PROVE  Screen(b, t) /\ ~WalkFaults(prev, b.p, b.offset, scr_y)
  <2>1. /\ BackedTo(b.p, b.offset, scr_y, t)
        /\ ~WalkFaults(prev, b.p, b.offset, scr_y)
    BY <1>0, <1>2, TopOf
  <2>2. b = [p |-> b.p, offset |-> b.offset]
    OBVIOUS
  <2> QED
    BY <2>1, <2>2, BackedScreen
<1>3. ASSUME Calm
      PROVE  ~DumpFaults(t.p, b.p) /\ (b.p # head \/ head = tail)
  <2>0. line[head] = 1 /\ LinesFit /\ head \in Live /\ tail \in Live
    BY <1>0, <1>3, OwnedBuffers DEF Calm
  <2>1. t = [p |-> head, offset |-> 0] \/ line[t.p] < line[b.p]
    BY <1>0, <2>0, TopBefore
  <2>2. t.p \in Live
    BY <1>0, <1>2, <2>0 DEF Screen, Aligned
  <2>3. line[head] <= line[b.p] /\ line[head] \in Nat /\ line[b.p] \in Nat
        /\ (line[head] = line[b.p] => head = b.p)
    BY <1>0, <2>0, RowFacts
  <2>4. b.p # head \/ head = tail
    <3> SUFFICES ASSUME b.p = head, t # [p |-> head, offset |-> 0]
                 PROVE  FALSE
      BY <1>3
    <3>1. line[t.p] < line[head] /\ line[head] <= line[t.p] /\ line[t.p] \in Nat
      BY <1>0, <2>1, <2>2, RowFacts
    <3> QED
      BY <2>3, <3>1
  <2>5. line[t.p] < line[b.p] \/ t.p = tail
    <3>1. CASE line[t.p] < line[b.p]
      BY <3>1
    <3>2. CASE t = [p |-> head, offset |-> 0]
      BY <2>3, <2>4, <3>2
    <3> QED
      BY <2>1, <3>1, <3>2
  <2> QED
    BY <1>0, <2>2, <2>4, <2>5, PrintsDown
<1> DEFINE g == WalkFaults(prev, b.p, b.offset, scr_y) \/ f
<1>4. g \in BOOLEAN /\ (Calm => ~g) /\ DumpScr(b, t, g)
  BY <1>2 DEF Calm
<1> HIDE DEF g
<1> QED
  BY <1>1, <1>2, <1>3, <1>4, Printed

LEMMA RefreshStep ==
  ASSUME ViewInv, RefreshScr
  PROVE  /\ ViewInv'
         /\ Bottom' = [p |-> tail, offset |-> len[tail]]
         /\ Top' = DecideScrDumpTop(tail, len[tail])
<1>0. StoreInv /\ ScrOK
  BY ScrSizes DEF ViewInv, IInv
<1> DEFINE b == [p |-> tail, offset |-> len[tail]]
           t == DecideScrDumpTop(tail, len[tail])
<1>1. b \in [p : Live, offset : Nat] /\ b.offset <= len[b.p]
      /\ b.p = tail /\ b.offset = len[tail]
  BY <1>0, OwnedBuffers
<1>2. t = DecideScrDumpTop(b.p, b.offset)
  BY <1>1
<1>3. pc = "idle" /\ due' = "none" /\ UNCHANGED <<vars, scr_y, scr_x>>
  BY DEF ViewInv, RefreshScr
<1>4. DumpScr(b, t, WalkFaults(prev, b.p, b.offset, scr_y) \/ FALSE)
  BY <1>1 DEF RefreshScr, DumpScr
<1>5. b.p # head \/ head = tail
  BY <1>1
<1> HIDE DEF b, t
<1>6. ViewInv' /\ Bottom' = b /\ Top' = t
  BY <1>1, <1>2, <1>3, <1>4, <1>5, PrintsTo
<1> QED
  BY <1>6 DEF b, t

LEMMA DownStep ==
  ASSUME ViewInv, ScrollDownRefresh
  PROVE  /\ ViewInv'
         /\ Bottom' = DecideScrollDownBottom
         /\ Top' = DecideScrDumpTop(DecideScrollDownBottom.p, DecideScrollDownBottom.offset)
<1>0. /\ StoreInv /\ ScrOK /\ ViewTypeOK
      /\ AtRest => BottomInList
      /\ AtRest /\ Calm => BottomLater
  BY ScrSizes DEF ViewInv, IInv
<1> DEFINE b == DecideScrollDownBottom
           t == DecideScrDumpTop(b.p, b.offset)
<1>1. /\ pc = "idle" /\ due = "none" /\ due' = "none" /\ UNCHANGED <<vars, scr_y, scr_x>>
      /\ DumpScr(b, t, WalkFaults(prev, b.p, b.offset, scr_y))
  BY DEF ScrollDownRefresh
<1>2. AtRest /\ bottom_p \in Live /\ bottom_offset \in Nat /\ bottom_offset <= len[bottom_p]
  BY <1>0, <1>1 DEF AtRest, BottomInList, ViewTypeOK
<1>3. b \in [p : Live, offset : Nat] /\ b.offset <= len[b.p] /\ line[bottom_p] <= line[b.p]
  BY <1>0, <1>2, DownEnds
<1>4. ASSUME Calm, b.p = head
      PROVE  head = tail
  <2>1. bottom_p # head \/ head = tail
    BY <1>0, <1>2, <1>4 DEF BottomLater
  <2>2. /\ line[head] <= line[bottom_p] /\ (line[head] = line[bottom_p] => head = bottom_p)
        /\ line[head] \in Nat /\ line[bottom_p] \in Nat
    BY <1>0, <1>2, RowFacts, OwnedBuffers
  <2> QED
    BY <1>3, <1>4, <2>1, <2>2
<1>5. t = DecideScrDumpTop(b.p, b.offset)
  OBVIOUS
<1>6. DumpScr(b, t, WalkFaults(prev, b.p, b.offset, scr_y) \/ FALSE)
  BY <1>1 DEF DumpScr
<1> HIDE DEF b, t
<1>7. ViewInv' /\ Bottom' = b /\ Top' = t
  BY <1>1, <1>3, <1>4, <1>5, <1>6, PrintsTo
<1> QED
  BY <1>7 DEF b, t

LEMMA UpStep ==
  ASSUME ViewInv, ScrollUpRefresh,
         NEW up, up = DecideScrollUpBottom, NEW t, t = DecideScrDumpTop(up.p, up.offset)
  PROVE  /\ ViewInv'
         /\ Bottom' = IF t = [p |-> head, offset |-> 0] THEN ReCalcBottomFromTop(head) ELSE up
         /\ Top' = t
<1> DEFINE n == scr_y \div 2
           c == len[bottom_p] - bottom_offset
           f == WalkFaults(prev, bottom_p, c, n)
           g == WalkFaults(prev, up.p, up.offset, scr_y)
           first == ReCalcBottomFromTop(head)
<1>0. /\ StoreInv /\ ScrOK /\ ViewTypeOK /\ n \in Nat \ {0} /\ scr_y \in Nat \ {0}
      /\ AtRest => BottomInList
  BY ScrSizes, HalfScr DEF ViewInv, IInv, ScrOK
<1>1. /\ pc = "idle" /\ due = "none" /\ due' = "none" /\ UNCHANGED <<vars, scr_y, scr_x>>
      /\ DumpScr(IF t = [p |-> head, offset |-> 0] THEN first ELSE up, t, f \/ g)
  BY DEF ScrollUpRefresh
<1>2. /\ bottom_p \in Live /\ bottom_offset \in Nat /\ c \in Nat /\ c <= len[bottom_p]
      /\ head \in Live /\ tail \in Live
  <2>1. bottom_p \in Live /\ bottom_offset \in Nat /\ bottom_offset <= len[bottom_p]
    BY <1>0, <1>1 DEF AtRest, BottomInList, ViewTypeOK
  <2>2. len[bottom_p] \in Nat
    BY <1>0, <2>1, OwnedBuffers
  <2> QED
    BY <1>0, <2>1, <2>2, OwnedBuffers
<1>3. up = EndOfWalkBack(Walk(prev, bottom_p, c, n))
  BY DEF DecideScrollUpBottom
<1> HIDE DEF n, c
<1>4. /\ up \in [p : Live \cup {NULL}, offset : Nat]
      /\ up.p \in Live => up.offset <= len[up.p]
  BY <1>0, <1>2, <1>3, BackSane
<1>5. ASSUME Calm
      PROVE  ~f /\ ~g
  <2>1. line[head] = 1
    BY <1>5 DEF Calm
  <2>2. /\ Walk(prev, bottom_p, c, n).p \in Live \cup {NULL}
        /\ BackedTo(bottom_p, c, n, up)
    BY <1>0, <1>2, <1>3, <2>1, WalkBack
  <2>3. ~f
    BY <1>0, <2>2, OwnedBuffers DEF WalkFaults
  <2>4. up.p \in Live
    BY <2>2 DEF BackedTo, Aligned
  <2>5. ~g
    BY <1>0, <1>4, <2>1, <2>4, TopOf
  <2> QED
    BY <2>3, <2>5
<1>6. f \in BOOLEAN /\ g \in BOOLEAN
  BY FaultType
<1> HIDE DEF f
<1>7. CASE t = [p |-> head, offset |-> 0]
  <2>1. /\ first \in [p : Live, offset : Nat] /\ first.offset <= len[first.p]
        /\ Cardinality(Upto(first.p, 0)) <= scr_y
        /\ LinesFit => first.p # head \/ head = tail
    BY <1>0, FirstScreen
  <2> HIDE DEF first, g
  <2>2. t \in [p : Live \cup {NULL}, offset : Nat] /\ t.p = head /\ t.offset = 0
    BY <1>2, <1>7
  <2>3. /\ line[head] <= line[first.p] /\ line[head] \in Nat /\ line[first.p] \in Nat
        /\ (line[head] = line[first.p] => head = first.p)
    BY <1>0, <1>2, <2>1, RowFacts
  <2>4. Screen(first, t)
    BY <1>0, <1>7, <2>1, <2>2, <2>3, AlignedFirst DEF Screen
  <2>5. ASSUME Calm
        PROVE  ~DumpFaults(t.p, first.p) /\ (first.p # head \/ head = tail)
    <3>1. first.p # head \/ head = tail
      BY <2>1, <2>5 DEF Calm
    <3>2. line[head] < line[first.p] \/ head = tail
      BY <2>3, <3>1
    <3> QED
      BY <1>0, <1>2, <2>1, <2>2, <3>1, <3>2, PrintsDown
  <2> DEFINE h == f \/ g
  <2>6. h \in BOOLEAN /\ (Calm => ~h) /\ DumpScr(first, t, h)
    BY <1>1, <1>5, <1>6, <1>7
  <2> HIDE DEF h
  <2>7. ViewInv' /\ Bottom' = first /\ Top' = t
    BY <1>1, <2>1, <2>2, <2>4, <2>5, <2>6, Printed
  <2> QED
    BY <1>7, <2>7 DEF first
<1>8. CASE t # [p |-> head, offset |-> 0]
  <2>1. up.p # NULL
    BY <1>0, <1>4, <1>8, TopOfNothing
  <2>2. up \in [p : Live, offset : Nat] /\ up.offset <= len[up.p]
    BY <1>4, <2>1
  <2>3. DumpScr(up, t, WalkFaults(prev, up.p, up.offset, scr_y) \/ f)
    BY <1>1, <1>8 DEF DumpScr
  <2>4. ViewInv' /\ Bottom' = up /\ Top' = t
    BY <1>1, <1>5, <1>6, <1>8, <2>2, <2>3, PrintsTo
  <2> QED
    BY <1>8, <2>4
<1> QED
  BY <1>7, <1>8

LEMMA ResizeStep ==
  ASSUME ViewInv, ~fault, NEW size \in ScreenSize, ResizeRefresh(size)
  PROVE  ViewInv' /\ ~AtRest'
<1>1. UNCHANGED vars /\ due' = "refresh" /\ pc = "idle" /\ ~fault'
      /\ UNCHANGED <<bottom_p, bottom_offset, top_p, top_offset>>
  BY DEF ResizeRefresh
<1>2. IInv'
  BY <1>1, NextInv DEF ViewInv
<1>3. ViewTypeOK'
  <2>1. size = <<size[1], size[2]>>
    BY ScreenAssumption
  <2>2. <<scr_y', scr_x'>> \in ScreenSize /\ fault' = fault
    BY <2>1 DEF ResizeRefresh
  <2> QED
    BY <1>1, <2>2 DEF ViewTypeOK, ViewInv
<1>4. pc' = "idle" /\ after' = "return"
  BY <1>1 DEF vars, ViewInv
<1> QED
  BY <1>1, <1>2, <1>3, <1>4 DEF ViewInv, AtRest, FaultNeeds

LEMMA StoreStep ==
  ASSUME ViewInv, ~fault, Store
  PROVE  ViewInv' /\ ~AtRest'
<1>1. UNCHANGED <<view, fault>>
  BY DEF Store
<1>2. due' \in {"none", "refresh"}
  BY DEF Store, ViewInv, ViewTypeOK
<1>3. ViewTypeOK'
  BY <1>1, <1>2 DEF ViewTypeOK, ViewInv, view
<1> QED
  BY <1>1, <1>3, StoreBusy DEF ViewInv, FaultNeeds

LEMMA ViewStutter ==
  ASSUME ViewInv, UNCHANGED vvars
  PROVE  ViewInv'
<1>1. UNCHANGED <<vars, scr_y, scr_x>> /\ UNCHANGED <<view, due, fault>>
  BY DEF vvars, view
<1>2. IInv'
  BY <1>1, NextInv DEF ViewInv
<1>3. /\ Live' = Live /\ (LinesFit' <=> LinesFit) /\ (Calm' <=> Calm)
      /\ line' = line /\ head' = head /\ tail' = tail /\ len' = len
      /\ pc' = pc /\ after' = after
  BY <1>1, Framed DEF vars
<1>4. ViewTypeOK'
  BY <1>1 DEF ViewTypeOK, ViewInv, view
<1>5. Bottom' = Bottom /\ Top' = Top
  BY <1>1 DEF Bottom, Top, view
<1>6. TopFollows => TopFollows'
  BY <1>1, <1>5, PrintedScreen DEF TopFollows
<1>7. BottomInList => BottomInList'
  BY <1>1, <1>3 DEF BottomInList, view
<1>8. BottomLater => BottomLater'
  BY <1>1, <1>3 DEF BottomLater, view
<1>9. (AtRest' <=> AtRest) /\ (FaultNeeds => FaultNeeds')
  BY <1>1, <1>3 DEF AtRest, FaultNeeds
<1> QED
  BY <1>1, <1>2, <1>3, <1>4, <1>6, <1>7, <1>8, <1>9 DEF ViewInv

LEMMA ViewStep == ViewInv /\ [ViewNext]_vvars => ViewInv'
<1> SUFFICES ASSUME ViewInv, [ViewNext]_vvars
             PROVE  ViewInv'
  OBVIOUS
<1>1. CASE ~fault /\ Store
  BY <1>1, StoreStep
<1>2. CASE RefreshScr
  BY <1>2, RefreshStep
<1>3. ASSUME ~fault, NEW size \in ScreenSize, ResizeRefresh(size)
      PROVE  ViewInv'
  BY <1>3, ResizeStep
<1>4. CASE ScrollUpRefresh
  BY <1>4, UpStep
<1>5. CASE ScrollDownRefresh
  BY <1>5, DownStep
<1>6. CASE UNCHANGED vvars
  BY <1>6, ViewStutter
<1> QED
  BY <1>1, <1>2, <1>3, <1>4, <1>5, <1>6 DEF ViewNext

(* The screen follows scr_dump_ctx whatever is printed, typed, paged and
   resized.                                                                *)
THEOREM ViewInvariance == ViewSpec => []ViewInv
<1> QED
  BY ViewInitInv, ViewStep, PTL DEF ViewSpec

(* Paging uses a NULL pointer or a freed block only after lines were
   recycled or with a line as big as the window.                           *)
THEOREM FaultsNeed == ViewSpec => []FaultNeeds
<1>1. ViewInv => FaultNeeds
  BY DEF ViewInv
<1> QED
  BY <1>1, ViewInvariance, PTL

(* scr_dump_ctx always holds addresses and offsets, and until lines are
   recycled it is inside the list, the screen beginning no further down
   than it ends.                                                           *)
THEOREM ViewSound == ViewSpec => []ViewConsistent
<1>1. ViewInv => ViewConsistent
  <2> SUFFICES ASSUME ViewInv, AtRest, line[head] = 1
               PROVE  /\ bottom_p \in Live /\ bottom_offset <= len[bottom_p]
                      /\ top_p \in Live /\ top_offset <= len[top_p]
                      /\ line[top_p] <= line[bottom_p]
    BY DEF ViewInv, ViewConsistent, ViewInList
  <2>1. BottomInList /\ TopFollows /\ StoreInv
    BY DEF ViewInv, IInv
  <2>2. Aligned(top_p, top_offset) /\ line[top_p] <= line[bottom_p]
    BY <2>1 DEF TopFollows, Screen, Bottom, Top
  <2>3. top_p \in Live /\ top_offset \in Nat /\ (top_offset = 0 \/ top_offset < len[top_p])
    BY <2>2 DEF Aligned
  <2>4. len[top_p] \in Nat
    BY <2>1, <2>3, OwnedBuffers
  <2> QED
    BY <2>1, <2>2, <2>3, <2>4 DEF BottomInList
<1> QED
  BY <1>1, ViewInvariance, PTL

-----------------------------------------------------------------------------
(* Paging.                                                                 *)

(* What page up does to a screen that stands for its end.                  *)
LEMMA UpLeads ==
  ASSUME ViewInv, AtRest, line[head] = 1, NEW up, up = DecideScrollUpBottom
  PROVE  /\ StoreInv /\ ScrOK /\ TopFollows
         /\ bottom_p \in Live /\ bottom_offset \in Nat /\ bottom_offset <= len[bottom_p]
         /\ up.p \in Live /\ up.offset \in Nat /\ up.offset <= len[up.p]
         /\ BackedTo(bottom_p, len[bottom_p] - bottom_offset, scr_y \div 2, up)
         /\ len[bottom_p] - bottom_offset \in Nat
         /\ BackedTo(up.p, up.offset, scr_y, DecideScrDumpTop(up.p, up.offset))
<1> DEFINE n == scr_y \div 2
           c == len[bottom_p] - bottom_offset
<1>1. StoreInv /\ ScrOK /\ TopFollows /\ n \in Nat \ {0}
  BY ScrSizes, HalfScr DEF ViewInv, IInv
<1>2. bottom_p \in Live /\ bottom_offset \in Nat /\ bottom_offset <= len[bottom_p]
  BY DEF ViewInv, BottomInList, ViewTypeOK
<1>3. c \in Nat /\ c <= len[bottom_p]
  <2>1. len[bottom_p] \in Nat
    BY <1>1, <1>2, OwnedBuffers
  <2> QED
    BY <1>2, <2>1
<1>4. up = EndOfWalkBack(Walk(prev, bottom_p, c, n))
  BY DEF DecideScrollUpBottom
<1> HIDE DEF n, c
<1>5. BackedTo(bottom_p, c, n, up)
  BY <1>1, <1>2, <1>3, <1>4, WalkBack
<1>6. up.p \in Live /\ up.offset \in Nat
  BY <1>5 DEF BackedTo, Aligned
<1>7. up.offset <= len[up.p]
  BY <1>1, <1>2, <1>3, <1>4, <1>6, BackSane
<1>8. BackedTo(up.p, up.offset, scr_y, DecideScrDumpTop(up.p, up.offset))
  BY <1>1, <1>6, <1>7, TopOf
<1> QED
  BY <1>1, <1>2, <1>3, <1>5, <1>6, <1>7, <1>8 DEF n, c

(* The first line has no row above it.                                     *)
LEMMA NoneAboveFirst ==
  ASSUME StoreInv, ScrOK
  PROVE  Above(head, 0) = {} /\ Cardinality(Above(head, 0)) = 0
<1>1. \A r \in Rows : ~(line[r[1]] < line[head]) /\ ~(r[2] * scr_x < 0)
  <2>1. line[head] \in Nat
    BY OwnedBuffers, RowFacts
  <2> QED
    BY <2>1, RowFacts
<1>2. Above(head, 0) = {}
  BY <1>1 DEF Above
<1> QED
  BY <1>2, FS_EmptySet

(* Page up never moves the screen down while no line is longer than half a
   window: it ends the screen no further down than the line that ended it
   begins, and the fewer rows before its end, the fewer above its start.   *)
THEOREM PageUpSound == ViewSpec => PageUpRises
<1>1. ASSUME ViewInv, ScrollUpRefresh, Calm, HalfFits
      PROVE  NotAfter(top_p', top_offset', top_p, top_offset)
  <2> DEFINE up == DecideScrollUpBottom
             t == DecideScrDumpTop(up.p, up.offset)
             c == len[bottom_p] - bottom_offset
             n == scr_y \div 2
  <2>0. AtRest /\ line[head] = 1
    BY <1>1 DEF ScrollUpRefresh, AtRest, Calm
  <2>1. /\ StoreInv /\ ScrOK /\ TopFollows
        /\ bottom_p \in Live /\ bottom_offset \in Nat /\ bottom_offset <= len[bottom_p]
        /\ up.p \in Live /\ up.offset \in Nat /\ up.offset <= len[up.p]
        /\ BackedTo(bottom_p, c, n, up) /\ c \in Nat
        /\ BackedTo(up.p, up.offset, scr_y, t)
    BY <1>1, <2>0, UpLeads
  <2>2. top_p' = t.p /\ top_offset' = t.offset
    BY <1>1 DEF ScrollUpRefresh, DumpScr
  <2> HIDE DEF up, t, c, n
  <2>3. n \in Nat \ {0} /\ len[bottom_p] <= n * scr_x /\ scr_y \in Nat
    BY <1>1, <2>1, HalfScr DEF HalfFits, n, ScrOK
  <2>4. Cardinality(Upto(bottom_p, c)) <= Cardinality(Above(bottom_p, 0)) + n
    BY <2>1, <2>3, LineRows
  <2>5. NotAfter(up.p, up.offset, bottom_p, 0)
    <3>1. /\ Cardinality(Upto(bottom_p, c)) \in Nat /\ Cardinality(Above(bottom_p, 0)) \in Nat
          /\ Cardinality(Above(up.p, up.offset)) \in Nat
      BY <2>1, AheadSize, AboveSize DEF Upto
    <3>2. Cardinality(Above(up.p, up.offset)) <= Cardinality(Above(bottom_p, 0))
      <4>1. CASE up = [p |-> head, offset |-> 0]
        <5>1. up.p = head /\ up.offset = 0
          BY <4>1
        <5> QED
          BY <2>1, <3>1, <5>1, NoneAboveFirst
      <4>2. CASE Cardinality(Above(up.p, up.offset)) = Cardinality(Upto(bottom_p, c)) - n
        BY <2>3, <2>4, <3>1, <4>2
      <4> QED
        BY <2>1, <4>1, <4>2 DEF BackedTo
    <3>3. Aligned(up.p, up.offset) /\ Aligned(bottom_p, 0)
      <4>1. 0 = 0 * scr_x
        BY <2>1 DEF ScrOK
      <4> QED
        BY <2>1, <4>1 DEF BackedTo, Aligned
    <3> QED
      BY <2>1, <3>2, <3>3, PlaceOrder
  <2>6. /\ Cardinality(Upto(up.p, up.offset)) <= Cardinality(Upto(bottom_p, bottom_offset))
        /\ Cardinality(Upto(up.p, up.offset)) <= Cardinality(Upto(bottom_p, 0))
    <3>1. /\ line[up.p] < line[bottom_p] \/ (up.p = bottom_p /\ up.offset <= bottom_offset)
          /\ line[up.p] < line[bottom_p] \/ (up.p = bottom_p /\ up.offset <= 0)
      BY <2>1, <2>5 DEF NotAfter
    <3> QED
      BY <2>1, <3>1, UptoGrows
  <2>7. /\ Cardinality(Upto(up.p, up.offset)) \in Nat
        /\ Cardinality(Upto(bottom_p, bottom_offset)) \in Nat
        /\ Cardinality(Upto(bottom_p, 0)) \in Nat
        /\ Cardinality(Above(top_p, top_offset)) \in Nat
        /\ Cardinality(Above(t.p, t.offset)) \in Nat
    BY <2>1, AheadSize, AboveSize DEF Upto
  <2>8. /\ Aligned(top_p, top_offset)
        /\ \/ /\ Cardinality(Upto(bottom_p, bottom_offset)) > scr_y
              /\ Cardinality(Above(top_p, top_offset))
                   = Cardinality(Upto(bottom_p, bottom_offset)) - scr_y
           \/ /\ top_p = head /\ top_offset = 0
              /\ \/ Cardinality(Upto(bottom_p, bottom_offset)) <= scr_y
                 \/ Cardinality(Upto(bottom_p, 0)) <= scr_y
    BY <2>1 DEF TopFollows, Screen, Bottom, Top
  <2>9. /\ Aligned(t.p, t.offset)
        /\ \/ t.p = head /\ t.offset = 0
           \/ /\ Cardinality(Upto(up.p, up.offset)) > scr_y
              /\ Cardinality(Above(t.p, t.offset)) = Cardinality(Upto(up.p, up.offset)) - scr_y
    BY <2>1 DEF BackedTo
  <2>10. Cardinality(Above(t.p, t.offset)) <= Cardinality(Above(top_p, top_offset))
    <3>1. CASE t.p = head /\ t.offset = 0
      BY <2>1, <2>7, <3>1, NoneAboveFirst
    <3>2. CASE /\ Cardinality(Upto(up.p, up.offset)) > scr_y
               /\ Cardinality(Above(t.p, t.offset)) = Cardinality(Upto(up.p, up.offset)) - scr_y
      BY <2>3, <2>6, <2>7, <2>8, <3>2
    <3> QED
      BY <2>9, <3>1, <3>2
  <2> QED
    BY <2>1, <2>2, <2>8, <2>9, <2>10, PlaceOrder
<1>2. ViewInv /\ [ViewNext]_vvars =>
        [ScrollUpRefresh /\ Calm /\ HalfFits /\ ~fault' =>
           NotAfter(top_p', top_offset', top_p, top_offset)]_vvars
  BY <1>1
<1> QED
  BY <1>2, ViewInvariance, PTL DEF ViewSpec, PageUpRises

(* Lines of one row each: every page moves the screen, or ends with the
   console or begins with it.                                              *)
LEMMA UpMoves ==
  ASSUME ViewInv, AtRest, Plain
  PROVE  LET up == DecideScrollUpBottom
             t  == DecideScrDumpTop(up.p, up.offset)
         IN  t = [p |-> head, offset |-> 0] \/ ~NotAfter(top_p, top_offset, t.p, t.offset)
<1> DEFINE up == DecideScrollUpBottom
           t == DecideScrDumpTop(up.p, up.offset)
           c == len[bottom_p] - bottom_offset
           n == scr_y \div 2
<1> SUFFICES ASSUME t # [p |-> head, offset |-> 0],
                    NotAfter(top_p, top_offset, t.p, t.offset)
             PROVE  FALSE
  OBVIOUS
<1>1. /\ StoreInv /\ ScrOK /\ TopFollows
      /\ bottom_p \in Live /\ bottom_offset \in Nat /\ bottom_offset <= len[bottom_p]
      /\ up.p \in Live /\ up.offset \in Nat /\ up.offset <= len[up.p]
      /\ BackedTo(bottom_p, c, n, up) /\ c \in Nat
      /\ BackedTo(up.p, up.offset, scr_y, t)
  BY UpLeads DEF Plain, Calm
<1>2. /\ n \in Nat /\ n >= 2 /\ n <= scr_y /\ scr_y \in Nat /\ scr_y >= 4
      /\ 1 \in Nat \ {0} /\ scr_x \in Nat \ {0}
  BY <1>1, HalfScr DEF Plain, ScrOK
<1> HIDE DEF up, t, c, n
<1>3. ASSUME NEW p \in Live, NEW k \in Nat
      PROVE  /\ Cardinality(Upto(p, k)) = Cardinality(Above(p, 0)) + 1
             /\ Cardinality(Above(p, 0)) \in Nat
  <2>1. len[p] <= 1 * scr_x
    BY <1>2 DEF Plain
  <2>2. /\ Cardinality(Upto(p, k)) <= Cardinality(Above(p, 0)) + 1
        /\ Cardinality(Upto(p, k)) > Cardinality(Above(p, 0))
    BY <1>1, <1>2, <2>1, LineRows
  <2>3. Cardinality(Upto(p, k)) \in Nat /\ Cardinality(Above(p, 0)) \in Nat
    BY <1>1, AheadSize, AboveSize DEF Upto
  <2> QED
    BY <2>2, <2>3
<1>4. /\ Cardinality(Upto(bottom_p, c)) = Cardinality(Above(bottom_p, 0)) + 1
      /\ Cardinality(Upto(bottom_p, bottom_offset)) = Cardinality(Above(bottom_p, 0)) + 1
      /\ Cardinality(Upto(bottom_p, 0)) = Cardinality(Above(bottom_p, 0)) + 1
      /\ Cardinality(Upto(up.p, up.offset)) = Cardinality(Above(up.p, 0)) + 1
      /\ Cardinality(Above(bottom_p, 0)) \in Nat /\ Cardinality(Above(up.p, 0)) \in Nat
  BY <1>1, <1>3
<1>5. Cardinality(Upto(up.p, up.offset)) > scr_y
  <2>1. \/ Cardinality(Upto(up.p, up.offset)) <= scr_y /\ t = [p |-> head, offset |-> 0]
        \/ Cardinality(Upto(up.p, up.offset)) > scr_y
    BY <1>1 DEF BackedTo
  <2> QED
    BY <2>1
<1>6. Cardinality(Above(up.p, 0)) <= Cardinality(Above(up.p, up.offset))
  <2>1. NotAfter(up.p, 0, up.p, up.offset)
    BY <1>1 DEF NotAfter
  <2> QED
    BY <1>1, <2>1, AboveGrows
<1>7. /\ Cardinality(Above(up.p, up.offset)) \in Nat
      /\ Cardinality(Above(top_p, top_offset)) \in Nat
      /\ Cardinality(Above(t.p, t.offset)) \in Nat
  BY <1>1, AboveSize
<1>8. Cardinality(Above(up.p, up.offset)) = Cardinality(Upto(bottom_p, c)) - n
  <2>1. up # [p |-> head, offset |-> 0]
    <3> SUFFICES ASSUME up = [p |-> head, offset |-> 0]
                 PROVE  FALSE
      OBVIOUS
    <3>1. up.p = head
      OBVIOUS
    <3>2. Cardinality(Above(up.p, 0)) = 0
      BY <1>1, <3>1, NoneAboveFirst
    <3> QED
      BY <1>2, <1>4, <1>5, <3>2
  <2> QED
    BY <1>1, <2>1 DEF BackedTo
<1>9. Cardinality(Upto(up.p, up.offset)) < Cardinality(Upto(bottom_p, bottom_offset))
  BY <1>2, <1>4, <1>6, <1>7, <1>8
<1>10. Cardinality(Above(top_p, top_offset)) = Cardinality(Upto(bottom_p, bottom_offset)) - scr_y
  <2>1. \/ Cardinality(Above(top_p, top_offset))
             = Cardinality(Upto(bottom_p, bottom_offset)) - scr_y
        \/ Cardinality(Upto(bottom_p, bottom_offset)) <= scr_y
        \/ Cardinality(Upto(bottom_p, 0)) <= scr_y
    BY <1>1 DEF TopFollows, Screen, Bottom, Top
  <2> QED
    BY <1>2, <1>4, <1>5, <1>9, <2>1
<1>11. Cardinality(Above(t.p, t.offset)) = Cardinality(Upto(up.p, up.offset)) - scr_y
  BY <1>1 DEF BackedTo
<1>12. Cardinality(Above(top_p, top_offset)) <= Cardinality(Above(t.p, t.offset))
  <2>1. Aligned(top_p, top_offset) /\ Aligned(t.p, t.offset)
    BY <1>1 DEF BackedTo, TopFollows, Screen, Top
  <2> QED
    BY <1>1, <2>1, AboveGrows DEF Aligned
<1> QED
  BY <1>2, <1>4, <1>7, <1>9, <1>10, <1>11, <1>12

LEMMA DownMoves ==
  ASSUME ViewInv, AtRest, Plain, NEW b, b = DecideScrollDownBottom
  PROVE  b.p = tail \/ ~NotAfter(b.p, b.offset, bottom_p, bottom_offset)
<1> DEFINE n == scr_y \div 2
           w == Walk(next, bottom_p, bottom_offset, n)
<1>1. /\ StoreInv /\ ScrOK /\ line[head] = 1
      /\ bottom_p \in Live /\ bottom_offset \in Nat /\ bottom_offset <= len[bottom_p]
  BY ScrSizes DEF ViewInv, IInv, BottomInList, ViewTypeOK, Plain, Calm
<1>2. /\ n \in Nat \ {0} /\ n >= 2 /\ n # 0 /\ n \in Nat
      /\ next \in [Node -> Node \cup {NULL}]
      /\ \A q \in Live : /\ line[q] \in Nat /\ len[q] \in Nat /\ q \in Owned
                         /\ len[q] <= scr_x
      /\ \A q, r \in Live : line[q] = line[r] => q = r
      /\ bottom_p \in Node /\ line[bottom_p] + n \in Int /\ scr_x \in Nat \ {0}
      /\ line \in [Node -> Int]
  BY <1>1, HalfScr, OwnedBuffers, RowFacts DEF Plain, StoreInv, StoreTypeOK
<1>3. w \in Places /\ Stepped(w)
  BY <1>1, <1>2, WalkStepped
<1>4. Leads(next, line, line[bottom_p] + n)
  BY <1>1, <1>2, NextLeads
<1>5. WalkedTo(line, bottom_p, bottom_offset, n, w)
  BY <1>1, <1>2, <1>4, WalkCounts
<1>6. b = CASE w.p \notin Owned -> [p |-> tail, offset |-> 0]
            [] w.p \in Owned /\ w.chars = len[w.p] -> [p |-> prev[w.p], offset |-> 0]
            [] OTHER -> [p |-> w.p, offset |-> len[w.p] - w.chars]
  BY DEF DecideScrollDownBottom
<1> HIDE DEF w, n
<1>7. CASE w.p = NULL
  <2>1. b = [p |-> tail, offset |-> 0]
    BY <1>1, <1>6, <1>7, OwnedBuffers
  <2> QED
    BY <2>1
<1>8. CASE w.p \in Live
  <2>1. w.chars = len[w.p]
    <3>1. w.chars \in Nat /\ len[w.p] \in Nat /\ len[w.p] <= scr_x /\ w.p \in Owned
      BY <1>2, <1>3, <1>8 DEF Places
    <3> QED
      BY <1>2, <1>3, <3>1 DEF Stepped
  <2>2. /\ \/ w.p = bottom_p /\ w.chars < bottom_offset
           \/ line[w.p] > line[bottom_p]
        /\ Cardinality(AheadAt(line, w)) = Cardinality(Ahead(line, bottom_p, bottom_offset)) - n
    BY <1>1, <1>2, <1>5, <1>8, OwnedBuffers DEF WalkedTo
  <2>3. line[w.p] > line[bottom_p]
    BY <1>1, <1>2, <2>1, <2>2
  <2>4. line[w.p] # line[bottom_p] + 1
    <3> SUFFICES ASSUME line[w.p] = line[bottom_p] + 1
                 PROVE  FALSE
      OBVIOUS
    <3>1. bottom_offset <= scr_x
      <4>1. len[bottom_p] \in Nat /\ len[bottom_p] <= scr_x
        BY <1>1, <1>2
      <4> QED
        BY <1>1, <1>2, <4>1
    <3> DEFINE first == <<bottom_p, 0>>
               all == Ahead(line, bottom_p, bottom_offset)
    <3>2. first \in all /\ Ahead(line, w.p, len[w.p]) = all \ {first}
      BY <1>1, <1>2, <1>8, <3>1, TurnOver
    <3>3. IsFiniteSet(all) /\ Cardinality(all) \in Nat
      BY <1>1, AheadSize
    <3>4. AheadAt(line, w) = all \ {first}
      BY <2>1, <3>2 DEF AheadAt
    <3>5. Cardinality(AheadAt(line, w)) = Cardinality(all) - n
      BY <2>2
    <3> HIDE DEF first, all
    <3>6. Cardinality(all \ {first}) = Cardinality(all) - 1
      BY <3>2, <3>3, FS_RemoveElement
    <3> QED
      BY <1>2, <3>3, <3>4, <3>5, <3>6
  <2>5. w.p # head
    <3>1. line[head] <= line[bottom_p] /\ line[head] \in Nat
      BY <1>1, RowFacts, OwnedBuffers
    <3> QED
      BY <1>1, <1>2, <2>3, <3>1
  <2>6. prev[w.p] \in Live /\ line[prev[w.p]] = line[w.p] - 1
    BY <1>1, <1>8, <2>5 DEF StoreInv, Linked
  <2>7. b.p = prev[w.p]
    BY <1>2, <1>6, <1>8, <2>1
  <2>8. line[b.p] > line[bottom_p] /\ line[b.p] \in Nat /\ line[bottom_p] \in Nat
    BY <1>1, <1>2, <1>8, <2>3, <2>4, <2>6, <2>7
  <2> QED
    BY <2>8 DEF NotAfter
<1> QED
  BY <1>5, <1>7, <1>8 DEF WalkedTo

(* Holding page up leads to the first line of the console and holding page
   down to the last: neither key gets stuck before.                        *)
THEOREM PagingSound == ViewSpec => []PagingMoves
<1>1. ViewInv => PagingMoves
  <2> SUFFICES ASSUME ViewInv, AtRest, Plain
               PROVE  PageUpMoves /\ PageDownMoves
    BY DEF PagingMoves, PageUpMoves, PageDownMoves
  <2>1. PageUpMoves
    BY UpMoves DEF PageUpMoves
  <2>2. PageDownMoves
    BY DownMoves DEF PageDownMoves
  <2> QED
    BY <2>1, <2>2
<1> QED
  BY <1>1, ViewInvariance, PTL

-----------------------------------------------------------------------------
(* Screens that end with the console.                                      *)

(* No window is as high as the scrollback that recycling leaves: 768 lines
   of the 1024 the program has slots for.                                  *)
BelowScrollback ==
  \A s \in ScreenSize : s[1] < LINE_BUFFER_NUM - LINE_BUFFER_NUM \div 4

(* Where a screen begins that ends with the console, at o of its last line. *)
EndTop(o, t) ==
  /\ Aligned(t.p, t.offset)
  /\ \/ Cardinality(Rows) <= scr_y + Beyond(o) /\ t = [p |-> head, offset |-> 0]
     \/ /\ Cardinality(Rows) > scr_y + Beyond(o)
        /\ Cardinality(Above(t.p, t.offset)) = Cardinality(Rows) - (scr_y + Beyond(o))

(* The end of the console, at the end of its last line or its beginning.   *)
IsEnd(b) == b.p = tail /\ b.offset \in {0, len[tail]}

EndInv == AtRest /\ IsEnd(Bottom) => EndTop(bottom_offset, Top)

(* What is not above such a bottom is the rest of the last line.           *)
LEMMA BeyondRows ==
  ASSUME StoreInv, ScrOK, NEW o \in {0, len[tail]}
  PROVE  /\ Beyond(o) \in Nat /\ Cardinality(Rows) \in Nat
         /\ Cardinality(Rows) = Cardinality(Upto(tail, o)) + Beyond(o)
<1>0. tail \in Live /\ len[tail] \in Nat /\ line[tail] \in Nat
  BY OwnedBuffers, RowFacts
<1>1. Upto(tail, o) =
        {r \in Rows : \/ line[r[1]] < line[tail]
                      \/ r[1] = tail /\ (r[2] = 0 \/ r[2] * scr_x < o)}
  BY <1>0, UptoRows
<1>2. \A r \in Rows : line[r[1]] < line[tail] \/ r[1] = tail
  BY <1>0, RowFacts
<1>3. IsFiniteSet(Rows) /\ Cardinality(Rows) \in Nat
  BY RowsFinite, SubsetSize
<1>4. CASE o = len[tail]
  <2>0. ASSUME NEW r \in Rows
        PROVE  line[r[1]] < line[tail] \/ (r[1] = tail /\ (r[2] = 0 \/ r[2] * scr_x < o))
    BY <1>2, <1>4, RowFacts
  <2>1. Upto(tail, o) = Rows
    BY <1>1, <2>0
  <2> QED
    BY <1>3, <1>4, <2>1 DEF Beyond
<1>5. CASE o # len[tail]
  <2> DEFINE one == {<<tail, 0>>}
             all == {tail} \X RowsOf(tail)
  <2>0. o = 0 /\ Beyond(o) = Cardinality(RowsOf(tail)) - 1
    BY <1>5 DEF Beyond
  <2>1. IsFiniteSet(RowsOf(tail)) /\ 0 \in RowsOf(tail)
    <3>1. IsFiniteSet(0 .. len[tail])
      BY <1>0, FS_Interval
    <3>2. RowsOf(tail) \subseteq 0 .. len[tail] /\ 0 \in RowsOf(tail)
      BY <1>0 DEF RowsOf
    <3> QED
      BY <3>1, <3>2, FS_Subset
  <2>2. Cardinality(all) = Cardinality(RowsOf(tail)) /\ IsFiniteSet(all)
        /\ Cardinality(RowsOf(tail)) \in Nat
    <3>1. IsFiniteSet({tail}) /\ Cardinality({tail}) = 1
      BY FS_Singleton
    <3>2. IsFiniteSet(all) /\ Cardinality(all) = 1 * Cardinality(RowsOf(tail))
      BY <2>1, <3>1, FS_Product
    <3>3. Cardinality(RowsOf(tail)) \in Nat
      BY <2>1, FS_CardinalityType
    <3> QED
      BY <3>2, <3>3
  <2>3. Cardinality(all \ one) = Cardinality(RowsOf(tail)) - 1
        /\ Cardinality(all \ one) \in Nat
    <3>1. Cardinality(one) = 1
      BY FS_Singleton
    <3>2. one \subseteq all
      BY <2>1
    <3>3. IsFiniteSet(all \ one)
      BY <2>2, FS_Subset
    <3> QED
      BY <2>2, <3>1, <3>2, <3>3, SubsetSize, FS_CardinalityType
  <2>4. Rows \ Upto(tail, o) = all \ one
    <3>1. ASSUME NEW r \in Rows, r \notin Upto(tail, o)
          PROVE  r \in all \ one
      <4>1. r[1] = tail /\ r[2] # 0
        BY <1>1, <1>2, <3>1
      <4>2. r = <<r[1], r[2]>> /\ r[2] \in RowsOf(r[1])
        BY RowsFinite
      <4> QED
        BY <4>1, <4>2
    <3>2. ASSUME NEW i \in RowsOf(tail), i # 0
          PROVE  <<tail, i>> \in Rows /\ <<tail, i>> \notin Upto(tail, o)
      <4>1. <<tail, i>> \in Rows
        BY <1>0, RowsFinite
      <4>2. i * scr_x \in Nat
        BY <4>1, RowFacts
      <4> QED
        BY <1>0, <1>1, <2>0, <3>2, <4>1, <4>2
    <3>3. \A r \in all \ one : \E i \in RowsOf(tail) : i # 0 /\ r = <<tail, i>>
      OBVIOUS
    <3> QED
      BY <3>1, <3>2, <3>3
  <2>5. Upto(tail, o) \subseteq Rows
    BY <1>1
  <2> HIDE DEF one, all
  <2>6. Cardinality(Rows \ Upto(tail, o)) = Cardinality(Rows) - Cardinality(Upto(tail, o))
        /\ Cardinality(Upto(tail, o)) \in Nat
    BY <1>3, <2>5, SubsetSize
  <2> QED
    BY <1>3, <2>0, <2>3, <2>4, <2>6
<1> QED
  BY <1>4, <1>5

LEMMA EndDecided ==
  ASSUME ViewInv, BelowScrollback, NEW o \in {0, len[tail]}
  PROVE  EndTop(o, DecideScrDumpTop(tail, o))
<1>1. StoreInv /\ ScrOK /\ head \in Live /\ tail \in Live
  BY ScrSizes, OwnedBuffers DEF ViewInv, IInv
<1>2. /\ line[head] \in Nat /\ line[tail] \in Nat /\ len[tail] \in Nat /\ scr_y \in Nat
      /\ line[head] >= 1
  BY <1>1, RowFacts DEF ScrOK, StoreInv, HoldsLines
<1>3. line[head] = 1 \/ scr_y <= line[tail] - line[head]
  <2>1. scr_y < LINE_BUFFER_NUM - LINE_BUFFER_NUM \div 4
    <3>1. <<scr_y, scr_x>> \in ScreenSize
      BY DEF ViewInv, ViewTypeOK
    <3> QED
      BY <3>1 DEF BelowScrollback
  <2>2. LINE_BUFFER_NUM \in Nat /\ LINE_BUFFER_NUM \div 4 \in Nat
    BY Sizes
  <2>3. line[head] > 1 =>
           line[tail] - line[head] + 1 >= LINE_BUFFER_NUM - LINE_BUFFER_NUM \div 4
    BY <1>1 DEF StoreInv, RetainsScrollback
  <2> QED
    BY <1>2, <2>1, <2>2, <2>3
<1> DEFINE t == DecideScrDumpTop(tail, o)
<1>4. BackedTo(tail, o, scr_y, t)
  BY <1>1, <1>2, <1>3, TopOf
<1>5. /\ Beyond(o) \in Nat /\ Cardinality(Rows) \in Nat
      /\ Cardinality(Rows) = Cardinality(Upto(tail, o)) + Beyond(o)
  BY <1>1, BeyondRows
<1>6. Cardinality(Upto(tail, o)) \in Nat
  BY <1>1, <1>2, AheadSize DEF Upto
<1> HIDE DEF t
<1>7. EndTop(o, t)
  BY <1>2, <1>4, <1>5, <1>6 DEF BackedTo, EndTop
<1> QED
  BY <1>7 DEF t

LEMMA EndFilled ==
  ASSUME StoreInv, ScrOK, IsEnd(ReCalcBottomFromTop(head))
  PROVE  EndTop(ReCalcBottomFromTop(head).offset, [p |-> head, offset |-> 0])
<1> DEFINE o == ReCalcBottomFromTop(head).offset
<1>1. Cardinality(Rows) <= scr_y
  BY FirstScreen DEF IsEnd
<1>2. Beyond(o) \in Nat /\ Cardinality(Rows) \in Nat /\ scr_y \in Nat
  BY BeyondRows DEF IsEnd, ScrOK
<1> HIDE DEF o
<1>3. EndTop(o, [p |-> head, offset |-> 0])
  BY <1>1, <1>2, AlignedFirst DEF EndTop
<1> QED
  BY <1>3 DEF o

(* The end of the console is where it was.                                 *)
LEMMA EndPrinted ==
  ASSUME UNCHANGED <<vars, scr_y, scr_x>>, NEW t, Top' = t,
         NEW o, bottom_offset' = o, EndTop(o, t)
  PROVE  EndTop(bottom_offset, Top)'
<1>1. Live' = Live /\ Rows' = Rows
  BY Framed
<1>2. /\ line' = line /\ head' = head /\ tail' = tail /\ len' = len
      /\ scr_y' = scr_y /\ scr_x' = scr_x
  BY DEF vars
<1>3. t.p = top_p' /\ t.offset = top_offset'
  BY DEF Top
<1>4. Above(top_p, top_offset)' = Above(t.p, t.offset)
  BY <1>1, <1>2, <1>3 DEF Above
<1>5. Aligned(top_p, top_offset)' <=> Aligned(t.p, t.offset)
  BY <1>1, <1>2, <1>3 DEF Aligned
<1>6. Beyond(bottom_offset)' = Beyond(o)
  BY <1>2 DEF Beyond, RowsOf
<1> QED
  BY <1>1, <1>2, <1>3, <1>4, <1>5, <1>6 DEF EndTop, Top

LEMMA EndStep ==
  ASSUME BelowScrollback, ViewInv, EndInv, [ViewNext]_vvars
  PROVE  EndInv'
<1> SUFFICES ASSUME AtRest', IsEnd(Bottom)'
             PROVE  EndTop(bottom_offset, Top)'
  BY DEF EndInv
<1>0. StoreInv /\ ScrOK
  BY ScrSizes DEF ViewInv, IInv
<1>1. CASE ~fault /\ Store
  BY <1>1, StoreStep
<1>2. CASE RefreshScr
  <2>1. Top' = DecideScrDumpTop(tail, len[tail]) /\ bottom_offset' = len[tail]
    BY <1>2, RefreshStep DEF RefreshScr, DumpScr
  <2>2. UNCHANGED <<vars, scr_y, scr_x>>
    BY <1>2 DEF RefreshScr
  <2>3. EndTop(len[tail], DecideScrDumpTop(tail, len[tail]))
    BY EndDecided
  <2> QED
    BY <2>1, <2>2, <2>3, EndPrinted
<1>3. ASSUME ~fault, NEW size \in ScreenSize, ResizeRefresh(size)
      PROVE  EndTop(bottom_offset, Top)'
  BY <1>3, ResizeStep
<1>4. CASE ScrollUpRefresh
  <2> DEFINE up == DecideScrollUpBottom
             t == DecideScrDumpTop(up.p, up.offset)
             b == IF t = [p |-> head, offset |-> 0] THEN ReCalcBottomFromTop(head) ELSE up
  <2>1. Bottom' = b /\ Top' = t
    BY <1>4, UpStep
  <2>2. UNCHANGED <<vars, scr_y, scr_x>>
    BY <1>4 DEF ScrollUpRefresh
  <2>3. IsEnd(b) /\ bottom_offset' = b.offset
    BY <2>1, <2>2 DEF IsEnd, Bottom, vars
  <2>4. EndTop(b.offset, t)
    <3>1. CASE t = [p |-> head, offset |-> 0]
      BY <1>0, <2>3, <3>1, EndFilled
    <3>2. CASE t # [p |-> head, offset |-> 0]
      <4>1. IsEnd(up) /\ b.offset = up.offset
        BY <2>3, <3>2
      <4>2. t = DecideScrDumpTop(tail, up.offset)
        BY <4>1 DEF IsEnd
      <4> QED
        BY <4>1, <4>2, EndDecided DEF IsEnd
    <3> QED
      BY <3>1, <3>2
  <2> DEFINE o == b.offset
  <2>5. EndTop(o, t) /\ bottom_offset' = o
    BY <2>3, <2>4
  <2> HIDE DEF t, b, o
  <2> QED
    BY <2>1, <2>2, <2>5, EndPrinted
<1>5. CASE ScrollDownRefresh
  <2> DEFINE b == DecideScrollDownBottom
             t == DecideScrDumpTop(b.p, b.offset)
             o == b.offset
  <2>1. Bottom' = b /\ Top' = t
    BY <1>5, DownStep
  <2>2. UNCHANGED <<vars, scr_y, scr_x>>
    BY <1>5 DEF ScrollDownRefresh
  <2>3. b.p = tail /\ o \in {0, len[tail]} /\ bottom_offset' = o
    BY <2>1, <2>2 DEF IsEnd, Bottom, vars
  <2>4. t = DecideScrDumpTop(tail, o)
    BY <2>3
  <2>5. EndTop(o, t)
    BY <2>3, <2>4, EndDecided
  <2> HIDE DEF t, o
  <2> QED
    BY <2>1, <2>2, <2>3, <2>5, EndPrinted
<1>6. CASE UNCHANGED vvars
  <2>1. UNCHANGED <<vars, scr_y, scr_x>> /\ UNCHANGED <<view, due, fault>>
    BY <1>6 DEF vvars, view
  <2>2. /\ Top' = Top /\ bottom_offset' = bottom_offset
        /\ AtRest' <=> AtRest
        /\ IsEnd(Bottom)' <=> IsEnd(Bottom)
    BY <2>1 DEF Bottom, Top, IsEnd, AtRest, vars, view
  <2>3. EndTop(bottom_offset, Top)
    BY <2>2 DEF EndInv
  <2> DEFINE t == Top
             o == bottom_offset
  <2>4. Top' = t /\ bottom_offset' = o /\ EndTop(o, t)
    BY <2>2, <2>3
  <2> HIDE DEF t, o
  <2> QED
    BY <2>1, <2>4, EndPrinted
<1> QED
  BY <1>1, <1>2, <1>3, <1>4, <1>5, <1>6 DEF ViewNext

(* The rows from a place on are those that are not above it.               *)
LEMMA RowsBelow ==
  ASSUME StoreInv, ScrOK, NEW p \in Live, NEW o \in Nat
  PROVE  RowsFrom(p, o) = Cardinality(Rows) - Cardinality(Above(p, o))
<1> DEFINE from == {r \in Rows : line[r[1]] > line[p] \/ (r[1] = p /\ r[2] * scr_x >= o)}
<1>1. ASSUME NEW r \in Rows
      PROVE  r \in from <=> r \notin Above(p, o)
  <2>1. /\ line[r[1]] \in Nat /\ line[p] \in Nat /\ r[2] * scr_x \in Nat
        /\ line[r[1]] = line[p] => r[1] = p
    BY RowFacts
  <2>2. r \in Above(p, o) <=> line[r[1]] < line[p] \/ (r[1] = p /\ r[2] * scr_x < o)
    BY DEF Above
  <2>3. r \in from <=> line[r[1]] > line[p] \/ (r[1] = p /\ r[2] * scr_x >= o)
    OBVIOUS
  <2> QED
    BY <2>1, <2>2, <2>3
<1>2. from \subseteq Rows /\ Above(p, o) \subseteq Rows
  BY DEF Above
<1>3. RowsFrom(p, o) = Cardinality(from)
  BY DEF RowsFrom
<1> HIDE DEF from
<1>4. from = Rows \ Above(p, o)
  BY <1>1, <1>2
<1> QED
  BY <1>2, <1>3, <1>4, RowsFinite, SubsetSize

(* A screen with its bottom at the end of the console shows exactly its last
   rows, and beyond the window no more than the rest of a last line that wraps
   where page down stopped at its first row; also after recycling, when the window is
   smaller than what it leaves.                                            *)
THEOREM EndShown == ASSUME BelowScrollback PROVE ViewSpec => []EndOnScreen
<1>1. ViewInit => EndInv
  BY DEF ViewInit, EndInv, AtRest
<1>2. ViewInv /\ EndInv /\ [ViewNext]_vvars => EndInv'
  BY EndStep
<1>3. ViewInv /\ EndInv => EndOnScreen
  <2> DEFINE rows == scr_y + Beyond(bottom_offset)
  <2> SUFFICES ASSUME ViewInv, EndInv, AtRest, bottom_p = tail, bottom_offset \in {0, len[tail]}
               PROVE  /\ top_p \in Live
                      /\ RowsFrom(top_p, top_offset) <= rows
                      /\ \/ RowsFrom(top_p, top_offset) = rows
                         \/ top_p = head /\ top_offset = 0
    BY DEF EndOnScreen
  <2>1. StoreInv /\ ScrOK /\ scr_y \in Nat
    BY ScrSizes DEF ViewInv, IInv, ScrOK
  <2>2. EndTop(bottom_offset, Top)
    BY DEF EndInv, Bottom, IsEnd
  <2>3. /\ Aligned(top_p, top_offset)
        /\ \/ Cardinality(Rows) <= rows /\ top_p = head /\ top_offset = 0
           \/ /\ Cardinality(Rows) > rows
              /\ Cardinality(Above(top_p, top_offset)) = Cardinality(Rows) - rows
    BY <2>2 DEF EndTop, Top
  <2>4. top_p \in Live /\ top_offset \in Nat
    BY <2>3 DEF Aligned
  <2>5. RowsFrom(top_p, top_offset) = Cardinality(Rows) - Cardinality(Above(top_p, top_offset))
    BY <2>1, <2>4, RowsBelow
  <2>6. /\ Cardinality(Rows) \in Nat /\ Cardinality(Above(top_p, top_offset)) \in Nat
        /\ rows \in Nat
    BY <2>1, AboveSize, BeyondRows
  <2> HIDE DEF rows
  <2> QED
    BY <2>3, <2>4, <2>5, <2>6
<1> QED
  BY <1>1, <1>2, <1>3, ViewInvariance, PTL DEF ViewSpec

=============================================================================
