---------------------------- MODULE SessionProofs ----------------------------
(***************************************************************************)
(* Proofs about the parser and the main loop, on the trees of module       *)
(* CliTreeProofs.                                                          *)
(***************************************************************************)
EXTENDS Session, CliTreeProofs

-----------------------------------------------------------------------------
(* Text.                                                                   *)

(* The greatest of a set of numbers that has a bound.                      *)
LEMMA GreatestNat ==
  ASSUME NEW S, S \subseteq Nat, S # {}, NEW b \in Nat, \A i \in S : i <= b
  PROVE  Max(S) \in S /\ \A i \in S : i <= Max(S)
<1> DEFINE T == {b - i : i \in S}
<1>1. T \subseteq Nat /\ T # {}
  <2>1. \A i \in S : b - i \in Nat
    OBVIOUS
  <2>2. PICK i \in S : TRUE
    OBVIOUS
  <2> QED
    BY <2>1, <2>2
<1> HIDE DEF T
<1>2. PICK m \in T : \A n \in T : m <= n
  BY <1>1, LeastNat
<1>3. PICK j \in S : m = b - j
  BY DEF T
<1>4. \A i \in S : i <= j
  <2> TAKE i \in S
  <2>1. m <= b - i
    BY <1>2 DEF T
  <2> QED
    BY <1>3, <2>1
<1> QED
  BY <1>4 DEF Max

LEMMA SkipSpacesShape ==
  ASSUME NEW text \in Seq(Char)
  PROVE  /\ \E k \in 1 .. Len(text) + 1 :
              /\ SkipSpaces(text) = SubSeq(text, k, Len(text))
              /\ \A i \in 1 .. k - 1 : text[i] = Blank
         /\ SkipSpaces(text) \in Seq(Char)
         /\ SkipSpaces(text) # <<>> => Last(SkipSpaces(text)) = Last(text)
<1> DEFINE wide == text \o <<NULL>>
           I == {i \in 1 .. Len(wide) : wide[i] # Blank}
           k == SelectInSeq(wide, LAMBDA c : c # Blank)
<1>1. Len(wide) = Len(text) + 1 /\ wide[Len(text) + 1] = NULL /\ Len(text) \in Nat
  OBVIOUS
<1>2. Len(text) + 1 \in I
  <2>1. NULL # Blank /\ Len(text) + 1 \in 1 .. Len(text) + 1
    BY <1>1 DEF Blank, NULL
  <2> HIDE DEF wide
  <2> QED
    BY <1>1, <2>1
<1>3. k = Min(I)
  BY <1>2 DEF SelectInSeq
<1> HIDE DEF wide
<1>4. I \subseteq Nat /\ I \subseteq 1 .. Len(text) + 1
  BY <1>1
<1> HIDE DEF I
<1>5. \E x \in I : \A y \in I : x <= y
  BY <1>2, <1>4, LeastNat
<1>6. k \in 1 .. Len(text) + 1 /\ \A i \in I : k <= i
  BY <1>3, <1>4, <1>5 DEF Min
<1> HIDE DEF k
<1>b. \A i \in 1 .. k - 1 : text[i] = Blank
  <2> TAKE i \in 1 .. k - 1
  <2>1. i \in 1 .. Len(text) /\ ~(k <= i) /\ i \in Nat
    BY <1>1, <1>6
  <2>2. i \notin I /\ i \in 1 .. Len(wide)
    BY <1>1, <1>6, <2>1
  <2>3. wide[i] = text[i]
    BY <2>1 DEF wide
  <2> QED
    BY <2>2, <2>3 DEF I
<1>7. SkipSpaces(text) = SubSeq(text, k, Len(text))
  BY DEF SkipSpaces, k, wide
<1>8. /\ SubSeq(text, k, Len(text)) \in Seq(Char)
      /\ Len(SubSeq(text, k, Len(text))) = IF k <= Len(text) THEN Len(text) - k + 1 ELSE 0
      /\ \A i \in 1 .. Len(text) - k + 1 : SubSeq(text, k, Len(text))[i] = text[k + i - 1]
  BY <1>1, <1>6, SubSeqProperties
<1> DEFINE s == SubSeq(text, k, Len(text))
<1> HIDE DEF s
<1>9. ASSUME s # <<>>
      PROVE  s[Len(s)] = text[Len(text)]
  <2>1. k <= Len(text) /\ Len(s) = Len(text) - k + 1
    BY <1>1, <1>6, <1>8, <1>9 DEF s
  <2>2. Len(s) \in 1 .. Len(text) - k + 1 /\ k + Len(s) - 1 = Len(text)
    BY <1>1, <1>6, <2>1
  <2> QED
    BY <1>8, <2>2 DEF s
<1> QED
  BY <1>6, <1>7, <1>8, <1>9, <1>b DEF s, Last

LEMMA RemoveTrailingSpacesShape ==
  ASSUME NEW text \in Seq(Char)
  PROVE  /\ RemoveTrailingSpaces(text) \in Seq(Char)
         /\ RemoveTrailingSpaces(text) # <<>> => Last(RemoveTrailingSpaces(text)) # Blank
<1> DEFINE I == {i \in 1 .. Len(text) : text[i] # Blank}
           k == SelectLastInSeq(text, LAMBDA c : c # Blank)
           s == SubSeq(text, 1, k)
<1>1. k = IF I # {} THEN Max(I) ELSE 0
  BY DEF SelectLastInSeq
<1>2. Len(text) \in Nat /\ I \subseteq 1 .. Len(text) /\ I \subseteq Nat
  OBVIOUS
<1>3. \A i \in I : text[i] # Blank
  OBVIOUS
<1> HIDE DEF I
<1>4. k = 0 \/ (k \in 1 .. Len(text) /\ text[k] # Blank)
  <2>1. CASE I = {}
    BY <1>1, <2>1
  <2>2. CASE I # {}
    <3>1. \A i \in I : i <= Len(text)
      BY <1>2
    <3>2. Max(I) \in I
      BY <1>2, <2>2, <3>1, GreatestNat
    <3> QED
      BY <1>1, <1>2, <1>3, <2>2, <3>2
  <2> QED
    BY <2>1, <2>2
<1> HIDE DEF k
<1>5. s \in Seq(Char) /\ Len(s) = k /\ \A i \in 1 .. k : s[i] = text[i]
  BY <1>2, <1>4, SubSeqProperties
<1>6. RemoveTrailingSpaces(text) = s
  BY DEF RemoveTrailingSpaces, k
<1> HIDE DEF s
<1>7. s # <<>> => Last(s) # Blank
  <2> SUFFICES ASSUME s # <<>>
               PROVE  Last(s) # Blank
    OBVIOUS
  <2>1. Len(s) # 0
    BY <1>5
  <2> QED
    BY <1>4, <1>5, <2>1 DEF Last
<1> QED
  BY <1>5, <1>6, <1>7

(* A command line without `do' and the blanks around it does not end in one. *)
LEMMA BareShape ==
  ASSUME NEW text \in Seq(Char)
  PROVE  /\ Bare(text) \in Seq(Char)
         /\ Bare(text) # <<>> => Last(Bare(text)) # Blank
<1>1. SkipDo(text) \in Seq(Char)
  <2>1. \A i : [text EXCEPT ![i] = Blank] \in Seq(Char)
    <3> TAKE i
    <3> DEFINE e == [text EXCEPT ![i] = Blank]
    <3>0. Blank \in Char
      BY CharAssumption
    <3>1. text \in [1 .. Len(text) -> Char] /\ Len(text) \in Nat /\ Blank \in Char
      BY <3>0, LenProperties
    <3>2. e \in [1 .. Len(text) -> Char]
      BY <3>1
    <3> HIDE DEF e
    <3>3. e \in Seq(Char)
      BY <3>1, <3>2
    <3> QED
      BY <3>3 DEF e
  <2> QED
    BY <2>1 DEF SkipDo
<1> DEFINE t == SkipDo(text)
           u == RemoveTrailingSpaces(t)
<1>2. u \in Seq(Char) /\ (u # <<>> => Last(u) # Blank)
  BY <1>1, RemoveTrailingSpacesShape
<1>3. Bare(text) = SkipSpaces(u)
  BY DEF Bare, PreprocessCli
<1> HIDE DEF u
<1>4. SkipSpaces(u) \in Seq(Char) /\ (SkipSpaces(u) # <<>> => Last(SkipSpaces(u)) = Last(u))
  BY <1>2, SkipSpacesShape
<1>5. u = <<>> => SkipSpaces(u) = <<>>
  <2> SUFFICES ASSUME u = <<>>
               PROVE  SkipSpaces(u) = <<>>
    OBVIOUS
  <2>1. \A i : SubSeq(u, i, Len(u)) = <<>> \/ i < 1
    OBVIOUS
  <2> QED
    BY <2>1 DEF SkipSpaces
<1> QED
  BY <1>2, <1>3, <1>4, <1>5

-----------------------------------------------------------------------------
(* split_cli().                                                            *)

(* l is what the first n characters end in from their last blank on.       *)
TokenEnds(text, n, l) ==
  /\ Len(l) <= n
  /\ \A i \in 1 .. Len(l) : l[i] = text[n - Len(l) + i]
  /\ Len(l) = n \/ text[n - Len(l)] = Blank

(* The state of the loop after n characters: no token but the last is empty,
   and that one only right behind a blank; no more tokens than one above
   the size of the array.  What is read of the last token is what the text
   ends in so far.                                                         *)
SplitSound(text, n, s) ==
  /\ s \in SplitState
  /\ Len(s.tokens) <= CLI_TOKEN_MAX_CNT + 1
  /\ \A i \in 1 .. Len(s.tokens) - 1 : s.tokens[i] # <<>>
  /\ Last(s.tokens) = <<>> =>
       s.err = NULL /\ ~s.quoted /\ ~s.escaped /\ (n = 0 \/ text[n] = Blank)
  /\ s.err = NULL => TokenEnds(text, n, Last(s.tokens))

LEMMA TokenGrows ==
  ASSUME NEW text \in Seq(Char), NEW n \in 1 .. Len(text), NEW l \in Seq(Char),
         TokenEnds(text, n - 1, l)
  PROVE  TokenEnds(text, n, Append(l, text[n]))
<1> DEFINE c == text[n]
           m == Append(l, c)
<1>1. c \in Char /\ Len(l) \in Nat /\ n \in Nat
  BY ElementOfSeq
<1>2. Len(m) = Len(l) + 1 /\ m[Len(l) + 1] = c /\ \A i \in 1 .. Len(l) : m[i] = l[i]
  BY <1>1, AppendProperties
<1> HIDE DEF m
<1>3. n - Len(m) = (n - 1) - Len(l)
  BY <1>1, <1>2
<1>4. ASSUME NEW i \in 1 .. Len(m)
      PROVE  m[i] = text[n - Len(m) + i]
  <2>1. CASE i = Len(l) + 1
    <3>1. n - Len(m) + i = n
      BY <1>1, <1>2, <2>1
    <3> QED
      BY <1>2, <2>1, <3>1
  <2>2. CASE i # Len(l) + 1
    <3>1. i \in 1 .. Len(l)
      BY <1>1, <1>2, <2>2
    <3> QED
      BY <1>2, <1>3, <3>1 DEF TokenEnds
  <2> QED
    BY <2>1, <2>2
<1>5. Len(m) <= n /\ (Len(m) = n \/ text[n - Len(m)] = Blank)
  BY <1>1, <1>2, <1>3 DEF TokenEnds
<1> QED
  BY <1>4, <1>5 DEF TokenEnds, m

LEMMA EmptyTokenEnds ==
  ASSUME NEW text, NEW n \in Nat, n = 0 \/ text[n] = Blank
  PROVE  TokenEnds(text, n, <<>>)
<1>1. Len(<<>>) = 0 /\ n - 0 = n
  OBVIOUS
<1> QED
  BY <1>1 DEF TokenEnds

(* What is done to the last token.                                         *)
LEMMA GrownToken ==
  ASSUME NEW tokens \in Seq(Seq(Char)) \ {<<>>}, NEW c \in Char
  PROVE  LET t == Append(Front(tokens), Append(Last(tokens), c)) IN
         /\ t \in Seq(Seq(Char)) \ {<<>>} /\ Len(t) = Len(tokens)
         /\ \A i \in 1 .. Len(tokens) - 1 : t[i] = tokens[i]
         /\ Last(t) # <<>> /\ Last(t) = t[Len(t)]
         /\ Last(tokens) \in Seq(Char) /\ Last(t) = Append(Last(tokens), c)
<1> DEFINE f == Front(tokens)
           l == Append(Last(tokens), c)
           t == Append(f, l)
<1>1. Len(tokens) \in Nat /\ Len(tokens) >= 1 /\ Len(tokens) \in 1 .. Len(tokens)
  <2>1. Len(tokens) \in Nat /\ Len(tokens) # 0
    BY LenProperties, EmptySeq
  <2> QED
    BY <2>1
<1>2. Last(tokens) \in Seq(Char)
  BY <1>1, ElementOfSeq DEF Last
<1>3. l \in Seq(Char) /\ l # <<>>
  BY <1>2, AppendProperties
<1>4. f \in Seq(Seq(Char)) /\ Len(f) = Len(tokens) - 1
      /\ \A i \in 1 .. Len(tokens) - 1 : f[i] = tokens[i]
  <2>1. Len(tokens) - 1 \in 1 - 1 .. Len(tokens)
    BY <1>1
  <2>2. f = SubSeq(tokens, 1, Len(tokens) - 1)
    BY DEF Front
  <2>3. /\ SubSeq(tokens, 1, Len(tokens) - 1) \in Seq(Seq(Char))
        /\ Len(SubSeq(tokens, 1, Len(tokens) - 1)) = IF 1 <= Len(tokens) - 1 THEN Len(tokens) - 1 - 1 + 1 ELSE 0
        /\ \A i \in 1 .. Len(tokens) - 1 - 1 + 1 : SubSeq(tokens, 1, Len(tokens) - 1)[i] = tokens[1 + i - 1]
    BY <1>1, <2>1, SubSeqProperties
  <2> HIDE DEF f
  <2>4. Len(f) = Len(tokens) - 1
    <3> DEFINE k == Len(tokens)
    <3> HIDE DEF k
    <3>1. Len(f) = IF 1 <= k - 1 THEN k - 1 - 1 + 1 ELSE 0
      BY <2>2, <2>3 DEF k
    <3>2. k \in Nat /\ k >= 1
      BY <1>1 DEF k
    <3>3. Len(f) = k - 1
      BY <3>1, <3>2
    <3> QED
      BY <3>3 DEF k
  <2>5. \A i \in 1 .. Len(tokens) - 1 : f[i] = tokens[i]
    <3> TAKE i \in 1 .. Len(tokens) - 1
    <3>1. i \in 1 .. Len(tokens) - 1 - 1 + 1 /\ 1 + i - 1 = i
      BY <1>1
    <3> QED
      BY <2>2, <2>3, <3>1
  <2> QED
    BY <2>2, <2>3, <2>4, <2>5
<1> HIDE DEF f, l
<1>5. /\ t \in Seq(Seq(Char)) /\ t # <<>> /\ Len(t) = Len(f) + 1
      /\ \A i \in 1 .. Len(f) : t[i] = f[i]
      /\ t[Len(f) + 1] = l
  BY <1>3, <1>4, AppendProperties
<1> HIDE DEF t
<1>6. Len(t) = Len(tokens) /\ Last(t) = l
  BY <1>1, <1>4, <1>5 DEF Last
<1>7. \A i \in 1 .. Len(tokens) - 1 : t[i] = tokens[i]
  BY <1>4, <1>5
<1> QED
  BY <1>2, <1>3, <1>5, <1>6, <1>7 DEF Last, t, f, l

LEMMA SplitStepSound ==
  ASSUME NEW text \in Seq(Char), NEW n \in 1 .. Len(text), NEW s, SplitSound(text, n - 1, s)
  PROVE  SplitSound(text, n, SplitStep(text, n)[s])
<1> DEFINE c == text[n]
           t == Append(Front(s.tokens), Append(Last(s.tokens), c))
           grown == [s EXCEPT !.tokens = t]
           r == SplitStep(text, n)[s]
<1> SUFFICES SplitSound(text, n, r)
  OBVIOUS
<1>1. /\ s \in SplitState
      /\ s.tokens \in Seq(Seq(Char)) \ {<<>>} /\ Len(s.tokens) \in Nat
      /\ s.quoted \in BOOLEAN /\ s.escaped \in BOOLEAN /\ s.err \in {NULL, "many", "quote"}
  BY LenProperties DEF SplitSound, SplitState
<1>2. c \in Char
  BY ElementOfSeq
<1>3. r = IF s.err # NULL THEN s
          ELSE IF s.escaped THEN [grown EXCEPT !.escaped = FALSE]
          ELSE IF c = Blank /\ ~s.quoted
               THEN IF Last(s.tokens) = <<>> THEN s
                    ELSE IF TooMany(Len(s.tokens)) THEN [s EXCEPT !.err = "many"]
                    ELSE [s EXCEPT !.tokens = Append(@, <<>>)]
          ELSE IF c = Escape THEN [grown EXCEPT !.escaped = TRUE]
          ELSE IF c # Quote THEN grown
          ELSE IF s.quoted /\ n < Len(text) /\ text[n + 1] # Blank
               THEN [s EXCEPT !.err = "quote"]
          ELSE [grown EXCEPT !.quoted = ~@]
  BY <1>1 DEF SplitStep
<1> HIDE DEF r
<1>4. /\ t \in Seq(Seq(Char)) \ {<<>>} /\ Len(t) = Len(s.tokens)
      /\ \A i \in 1 .. Len(s.tokens) - 1 : t[i] = s.tokens[i]
      /\ Last(t) # <<>>
      /\ Last(s.tokens) \in Seq(Char) /\ Last(t) = Append(Last(s.tokens), c)
  BY <1>1, <1>2, GrownToken
<1> HIDE DEF t, c
<1>e. s.err = NULL => TokenEnds(text, n, Last(t))
  BY <1>4, TokenGrows DEF SplitSound, c
<1>5. ASSUME s.err = NULL, NEW q \in BOOLEAN, NEW e \in BOOLEAN
      PROVE  SplitSound(text, n, [tokens |-> t, quoted |-> q, escaped |-> e, err |-> s.err])
  BY <1>1, <1>4, <1>5, <1>e DEF SplitSound, SplitState
<1>6. s = [tokens |-> s.tokens, quoted |-> s.quoted, escaped |-> s.escaped, err |-> s.err]
  BY <1>1 DEF SplitState
<1>7. CASE s.err # NULL
  <2>1. r = s
    BY <1>3, <1>7
  <2> QED
    BY <1>7, <2>1 DEF SplitSound
<1>8. CASE s.err = NULL /\ s.escaped
  <2>1. r = [tokens |-> t, quoted |-> s.quoted, escaped |-> FALSE, err |-> s.err]
    BY <1>3, <1>6, <1>8
  <2> QED
    BY <1>1, <1>5, <1>8, <2>1
<1>9. CASE s.err = NULL /\ ~s.escaped /\ c = Blank /\ ~s.quoted
  <2>1. CASE Last(s.tokens) = <<>>
    <3>1. r = s
      BY <1>3, <1>9, <2>1
    <3>2. TokenEnds(text, n, <<>>)
      BY <1>9, EmptyTokenEnds DEF c
    <3> QED
      BY <1>9, <2>1, <3>1, <3>2 DEF SplitSound, c
  <2>2. CASE Last(s.tokens) # <<>> /\ TooMany(Len(s.tokens))
    <3>1. r = [tokens |-> s.tokens, quoted |-> s.quoted, escaped |-> s.escaped, err |-> "many"]
      BY <1>3, <1>6, <1>9, <2>2
    <3>2. "many" # NULL
      BY DEF NULL
    <3> QED
      BY <1>1, <2>2, <3>1, <3>2 DEF SplitSound, SplitState
  <2>3. CASE Last(s.tokens) # <<>> /\ ~TooMany(Len(s.tokens))
    <3> DEFINE u == Append(s.tokens, <<>>)
    <3>1. r = [tokens |-> u, quoted |-> s.quoted, escaped |-> s.escaped, err |-> s.err]
      BY <1>3, <1>6, <1>9, <2>3
    <3>2. /\ u \in Seq(Seq(Char)) /\ u # <<>> /\ Len(u) = Len(s.tokens) + 1
          /\ \A i \in 1 .. Len(s.tokens) : u[i] = s.tokens[i]
          /\ u[Len(s.tokens) + 1] = <<>>
      <4> DEFINE none == <<>>
      <4>1. none \in Seq(Char)
        OBVIOUS
      <4> HIDE DEF none
      <4>2. LET v == Append(s.tokens, none) IN
            /\ v \in Seq(Seq(Char)) /\ v # <<>> /\ Len(v) = Len(s.tokens) + 1
            /\ \A i \in 1 .. Len(s.tokens) : v[i] = s.tokens[i]
            /\ v[Len(s.tokens) + 1] = none
        <5> DEFINE S == Seq(Char)
                   q == s.tokens
        <5>1. q \in Seq(S) /\ none \in S
          BY <1>1, <4>1
        <5> HIDE DEF S, q
        <5>2. LET v == Append(q, none) IN
              /\ v \in Seq(S) /\ v # <<>> /\ Len(v) = Len(q) + 1
              /\ \A i \in 1 .. Len(q) : v[i] = q[i]
              /\ v[Len(q) + 1] = none
          BY <5>1, AppendProperties
        <5> QED
          BY <5>2 DEF S, q
      <4> QED
        BY <4>2 DEF none
    <3> HIDE DEF u
    <3>3. Len(u) <= CLI_TOKEN_MAX_CNT + 1
      BY <1>1, <2>3, <3>2, TokenAssumption DEF TooMany
    <3>4. \A i \in 1 .. Len(u) - 1 : u[i] # <<>>
      <4> TAKE i \in 1 .. Len(u) - 1
      <4>1. i \in 1 .. Len(s.tokens) /\ u[i] = s.tokens[i]
        BY <1>1, <3>2
      <4>2. CASE i = Len(s.tokens)
        BY <2>3, <4>1, <4>2 DEF Last
      <4>3. CASE i # Len(s.tokens)
        <5>1. i \in 1 .. Len(s.tokens) - 1
          BY <1>1, <4>1, <4>3
        <5> QED
          BY <4>1, <5>1 DEF SplitSound
      <4> QED
        BY <4>2, <4>3
    <3>5. Last(u) = <<>>
      BY <3>2 DEF Last
    <3>6. TokenEnds(text, n, <<>>)
      BY <1>9, EmptyTokenEnds DEF c
    <3> QED
      BY <1>1, <1>9, <3>1, <3>2, <3>3, <3>4, <3>5, <3>6 DEF SplitSound, SplitState, c
  <2> QED
    BY <2>1, <2>2, <2>3
<1>10. CASE s.err = NULL /\ ~s.escaped /\ ~(c = Blank /\ ~s.quoted) /\ c = Escape
  <2>1. r = [tokens |-> t, quoted |-> s.quoted, escaped |-> TRUE, err |-> s.err]
    BY <1>3, <1>6, <1>10
  <2> QED
    BY <1>1, <1>5, <1>10, <2>1
<1>11. CASE /\ s.err = NULL /\ ~s.escaped /\ ~(c = Blank /\ ~s.quoted) /\ c # Escape
            /\ c = Quote /\ s.quoted /\ n < Len(text) /\ text[n + 1] # Blank
  <2>1. r = [tokens |-> s.tokens, quoted |-> s.quoted, escaped |-> s.escaped, err |-> "quote"]
    BY <1>3, <1>6, <1>11
  <2>2. Last(s.tokens) # <<>>
    BY <1>11 DEF SplitSound
  <2>3. "quote" # NULL
    BY DEF NULL
  <2> QED
    BY <1>1, <2>1, <2>2, <2>3 DEF SplitSound, SplitState
<1>12. CASE /\ s.err = NULL /\ ~s.escaped /\ ~(c = Blank /\ ~s.quoted) /\ c # Escape
            /\ ~(c = Quote /\ s.quoted /\ n < Len(text) /\ text[n + 1] # Blank)
  <2>1. \E q \in BOOLEAN :
          r = [tokens |-> t, quoted |-> q, escaped |-> s.escaped, err |-> s.err]
    <3>1. CASE c = Quote
      <4>1. r = [tokens |-> t, quoted |-> ~s.quoted, escaped |-> s.escaped, err |-> s.err]
        BY <1>3, <1>6, <1>12, <3>1
      <4> QED
        BY <1>1, <4>1
    <3>2. CASE c # Quote
      <4>1. r = [tokens |-> t, quoted |-> s.quoted, escaped |-> s.escaped, err |-> s.err]
        BY <1>3, <1>6, <1>12, <3>2
      <4> QED
        BY <1>1, <4>1
    <3> QED
      BY <3>1, <3>2
  <2> QED
    BY <1>1, <1>5, <1>12, <2>1
<1> QED
  BY <1>1, <1>7, <1>8, <1>9, <1>10, <1>11, <1>12

(* The loop, as it is defined, has a state after each character.           *)
LEMMA SplitAfterSound ==
  ASSUME NEW text \in Seq(Char)
  PROVE  /\ \A n \in 0 .. Len(text) : SplitSound(text, n, SplitAfter(text)[n])
         /\ SplitAfter(text)[0] = SplitStart
         /\ \A n \in 1 .. Len(text) :
              SplitAfter(text)[n] = SplitStep(text, n)[SplitAfter(text)[n - 1]]
<1> DEFINE L == Len(text)
           States == {x \in Nat \X SplitState : SplitSound(text, x[1], x[2])}
           round == [x \in States |-> IF x[1] < L THEN <<x[1] + 1, SplitStep(text, x[1] + 1)[x[2]]>>
                                         ELSE x]
           first == <<0, SplitStart>>
<1>0. L \in Nat
  OBVIOUS
<1>1. first \in States
  <2>1. SplitSound(text, 0, SplitStart)
    <3>1. <<<<>>>> \in Seq(Seq(Char)) \ {<<>>} /\ Len(<<<<>>>>) = 1
      OBVIOUS
    <3>2. Last(<<<<>>>>) = <<>>
      BY DEF Last
    <3> DEFINE t == <<<<>>>>
    <3> HIDE DEF t
    <3>3. SplitStart = [tokens |-> t, quoted |-> FALSE, escaped |-> FALSE, err |-> NULL]
      BY DEF SplitStart, t
    <3>4. t \in Seq(Seq(Char)) \ {<<>>} /\ Len(t) = 1 /\ Last(t) = <<>>
      BY <3>1, <3>2 DEF t
    <3> QED
      <4>1. SplitStart \in SplitState
        BY <3>3, <3>4 DEF SplitState
      <4>2. SplitStart.tokens = t /\ SplitStart.err = NULL /\ ~SplitStart.quoted
            /\ ~SplitStart.escaped
        BY <3>3
      <4>3. Len(t) <= CLI_TOKEN_MAX_CNT + 1 /\ 1 .. Len(t) - 1 = {}
        BY <3>4, TokenAssumption
      <4>4. TokenEnds(text, 0, <<>>)
        BY EmptyTokenEnds
      <4> QED
        BY <3>4, <4>1, <4>2, <4>3, <4>4 DEF SplitSound
  <2>2. SplitStart \in SplitState
    BY <2>1 DEF SplitSound
  <2> QED
    BY <2>1, <2>2
<1>2. ASSUME NEW x \in States
      PROVE  round[x] \in States
  <2>1. x[1] \in Nat /\ x[2] \in SplitState /\ SplitSound(text, x[1], x[2])
    OBVIOUS
  <2>2. CASE x[1] < L
    <3> DEFINE n == x[1] + 1
               r == SplitStep(text, n)[x[2]]
    <3>1. n \in 1 .. Len(text) /\ n - 1 = x[1] /\ n \in Nat
      BY <1>0, <2>1, <2>2
    <3>2. SplitSound(text, n, r)
      <4> HIDE DEF n
      <4>1. SplitSound(text, n - 1, x[2])
        BY <2>1, <3>1
      <4> QED
        BY <3>1, <4>1, SplitStepSound
    <3>3. r \in SplitState
      BY <3>2 DEF SplitSound
    <3>4. round[x] = <<n, r>>
      BY <2>2
    <3> HIDE DEF n, r
    <3>5. <<n, r>> \in States
      BY <3>1, <3>2, <3>3
    <3> HIDE DEF States, round
    <3> QED
      BY <3>4, <3>5
  <2>3. CASE ~(x[1] < L)
    BY <2>3
  <2> QED
    BY <2>2, <2>3
<1>3. round \in [States -> States]
  BY <1>2
<1>4. \A x \in States : x[1] < L => round[x][1] = x[1] + 1 /\ round[x][2] = SplitStep(text, x[1] + 1)[x[2]]
  OBVIOUS
<1>5. \A x \in States : x[1] \in Nat /\ SplitSound(text, x[1], x[2])
  OBVIOUS
<1>r. first[1] = 0 /\ first[2] = SplitStart
  OBVIOUS
<1>p. PICK A, a, g : A = States /\ a = first /\ g = round
  OBVIOUS
<1>q. /\ a \in A /\ g \in [A -> A]
      /\ \A x \in A : x[1] < L => g[x][1] = x[1] + 1 /\ g[x][2] = SplitStep(text, x[1] + 1)[x[2]]
      /\ \A x \in A : x[1] \in Nat /\ SplitSound(text, x[1], x[2])
      /\ a[1] = 0 /\ a[2] = SplitStart
  <2> HIDE DEF States, round, first, L
  <2> QED
    BY <1>1, <1>3, <1>4, <1>5, <1>r, <1>p
<1> HIDE DEF States, round, first
<1>6. PICK f \in [Nat -> A] : f[0] = a /\ \A n \in Nat : f[n + 1] = g[f[n]]
  <2>1. a \in A /\ g \in [A -> A]
    BY <1>q
  <2>2. Iterated(A, a, g)
    BY <2>1, Iterates
  <2> QED
    BY <2>2, Zenon DEF Iterated
<1>7. \A n \in Nat : n \in 0 .. L => f[n][1] = n
  <2> DEFINE S == {n \in Nat : n \in 0 .. L => f[n][1] = n}
  <2>1. 0 \in S
    BY <1>6, <1>q
  <2>2. ASSUME NEW n \in Nat, n \in S
        PROVE  n + 1 \in S
    <3> SUFFICES ASSUME n + 1 \in 0 .. L
                 PROVE  f[n + 1][1] = n + 1
      OBVIOUS
    <3>1. f[n][1] = n /\ n < L
      BY <1>0, <2>2
    <3> QED
      BY <1>q, <1>6, <3>1
  <2> HIDE DEF S
  <2>3. \A n \in Nat : n \in S
    BY <2>1, <2>2, NatSetInduction
  <2> QED
    BY <2>3 DEF S
<1> DEFINE h == [n \in 0 .. L |-> f[n][2]]
<1>8. h = [n \in 0 .. L |-> IF n = 0 THEN SplitStart ELSE SplitStep(text, n)[h[n - 1]]]
  <2> SUFFICES ASSUME NEW n \in 0 .. L
               PROVE  f[n][2] = IF n = 0 THEN SplitStart ELSE SplitStep(text, n)[h[n - 1]]
    OBVIOUS
  <2>1. CASE n = 0
    BY <1>6, <1>q, <2>1
  <2>2. CASE n # 0
    <3>1. n - 1 \in Nat /\ n - 1 \in 0 .. L /\ n - 1 < L /\ (n - 1) + 1 = n
      BY <1>0, <2>2
    <3>2. f[n - 1] \in A /\ f[n - 1][1] = n - 1 /\ f[n] = g[f[n - 1]]
      BY <1>6, <1>7, <3>1
    <3>3. f[n][2] = SplitStep(text, n)[f[n - 1][2]]
      BY <1>q, <3>1, <3>2
    <3> QED
      BY <2>2, <3>1, <3>3
  <2> QED
    BY <2>1, <2>2
<1> HIDE DEF h
<1> DEFINE e == CHOOSE k : k = [n \in 0 .. L |-> IF n = 0 THEN SplitStart ELSE SplitStep(text, n)[k[n - 1]]]
<1>9. SplitAfter(text) = e
  BY DEF SplitAfter
<1>10. e = [n \in 0 .. L |-> IF n = 0 THEN SplitStart ELSE SplitStep(text, n)[e[n - 1]]]
  BY <1>8
<1> HIDE DEF e
<1>11. e[0] = SplitStart /\ \A n \in 1 .. L : e[n] = SplitStep(text, n)[e[n - 1]]
  <2>1. \A n \in 0 .. L : e[n] = IF n = 0 THEN SplitStart ELSE SplitStep(text, n)[e[n - 1]]
    BY <1>10
  <2> QED
    BY <1>0, <2>1
<1> DEFINE T == {n \in Nat : n \in 0 .. L => SplitSound(text, n, e[n])}
<1>12. 0 \in T
  <2>1. SplitSound(text, 0, SplitStart)
    BY <1>q
  <2> QED
    BY <1>11, <2>1
<1>13. ASSUME NEW n \in Nat, n \in T
       PROVE  n + 1 \in T
  <2> SUFFICES ASSUME n + 1 \in 0 .. L
               PROVE  SplitSound(text, n + 1, e[n + 1])
    OBVIOUS
  <2>1. n + 1 \in 1 .. Len(text) /\ (n + 1) - 1 = n /\ n \in 0 .. L
    BY <1>0
  <2>2. SplitSound(text, (n + 1) - 1, e[n])
    BY <1>13, <2>1
  <2>3. SplitSound(text, n + 1, SplitStep(text, n + 1)[e[n]])
    BY <2>1, <2>2, SplitStepSound
  <2> QED
    BY <1>11, <2>1, <2>3
<1> HIDE DEF T
<1>14. \A n \in Nat : n \in T
  BY <1>12, <1>13, NatSetInduction
<1>15. \A n \in 0 .. Len(text) : SplitSound(text, n, SplitAfter(text)[n])
  BY <1>9, <1>14 DEF T
<1> QED
  BY <1>9, <1>11, <1>15

(* The tokens of a command line: none is empty, and there is room for all but
   one of them.                                                            *)
LEMMA SplitShape ==
  ASSUME NEW text \in Seq(Char)
  PROVE  LET t == Split(text).tokens IN
         /\ t \in Seq(Seq(Char)) /\ Len(t) \in Nat /\ Len(t) <= CLI_TOKEN_MAX_CNT + 1
         /\ \A i \in 1 .. Len(t) : t[i] # <<>>
<1> DEFINE b == Bare(text)
           s == SplitAfter(b)[Len(b)]
<1>1. b \in Seq(Char) /\ (b # <<>> => Last(b) # Blank)
  BY BareShape
<1>2. CASE b = <<>>
  <2>1. Split(text).tokens = <<>>
    BY <1>1, <1>2 DEF Split, SplitBare
  <2>2. <<>> \in Seq(Seq(Char)) /\ Len(<<>>) = 0
    OBVIOUS
  <2> QED
    BY <2>1, <2>2, TokenAssumption
<1>3. CASE b # <<>>
  <2>1. Split(text).tokens = s.tokens
    BY <1>1, <1>3 DEF Split, SplitBare, SplitCli
  <2> HIDE DEF b
  <2>2. Len(b) \in Nat /\ Len(b) # 0
    BY <1>1, <1>3, LenProperties, EmptySeq
  <2>3. SplitSound(b, Len(b), s)
    <3>1. Len(b) \in 0 .. Len(b)
      BY <2>2
    <3> QED
      BY <1>1, <3>1, SplitAfterSound
  <2> HIDE DEF s
  <2>4. s.tokens \in Seq(Seq(Char)) /\ s.tokens # <<>>
    BY <2>3 DEF SplitSound, SplitState
  <2>5. Last(s.tokens) # <<>>
    BY <1>1, <1>3, <2>2, <2>3 DEF SplitSound, Last
  <2>6. ASSUME NEW i \in 1 .. Len(s.tokens)
        PROVE  s.tokens[i] # <<>>
    <3>1. Len(s.tokens) \in Nat
      BY <2>4, LenProperties
    <3>2. i = Len(s.tokens) \/ i \in 1 .. Len(s.tokens) - 1
      BY <3>1
    <3> QED
      BY <2>3, <2>5, <3>2 DEF SplitSound, Last
  <2>7. Len(s.tokens) \in Nat /\ Len(s.tokens) <= CLI_TOKEN_MAX_CNT + 1
    BY <2>3, <2>4, LenProperties DEF SplitSound
  <2> QED
    BY <2>1, <2>4, <2>6, <2>7
<1> QED
  BY <1>2, <1>3

(* The error messages that Tab may leave as the command are text.          *)
LEMMA AnswersAreText ==
  /\ <<"Invalid command.">> \in Seq(Char) /\ MarkFailToken \in Seq(Char)
  /\ <<Blank>> \in Seq(Char) /\ <<>> \in Seq(Char) /\ Blank \in Char
<1>1. Blank \in Char /\ "^" \in Char /\ "Invalid command." \in Char
  BY CharAssumption
<1>2. \A a, b \in Char : <<a>> \in Seq(Char) /\ <<a, b>> \in Seq(Char)
  OBVIOUS
<1>3. MarkFailToken = <<Blank, "^">>
  BY DEF MarkFailToken
<1>4. <<>> \in Seq(Char)
  OBVIOUS
<1>5. <<"Invalid command.">> \in Seq(Char) /\ <<Blank>> \in Seq(Char)
  BY <1>1, <1>2, Zenon
<1>6. MarkFailToken \in Seq(Char)
  BY <1>1, <1>2, <1>3, Zenon
<1> QED
  BY <1>1, <1>4, <1>5, <1>6

(* What is taken from the array of tokens.                                 *)
LEMMA TakenTokens ==
  ASSUME NEW text \in Seq(Char), Split(text).tokens # <<>>
  PROVE  LET t == Split(text).tokens IN
         /\ Front(t) \in Seq(Seq(Char)) /\ Last(t) \in Seq(Char) /\ Last(t) # <<>>
         /\ \A i \in 1 .. Len(Front(t)) : Front(t)[i] # <<>>
<1> DEFINE S == Seq(Char)
           t == Split(text).tokens
           f == Front(t)
<1>1. /\ t \in Seq(S) /\ Len(t) \in Nat /\ t # <<>>
      /\ \A i \in 1 .. Len(t) : t[i] # <<>>
  BY SplitShape
<1> HIDE DEF S, t
<1>2. Len(t) >= 1 /\ Len(t) \in 1 .. Len(t)
  BY <1>1, EmptySeq
<1>3. Last(t) \in S /\ Last(t) # <<>>
  BY <1>1, <1>2, ElementOfSeq DEF Last
<1>4. /\ f \in Seq(S) /\ Len(f) = IF 1 <= Len(t) - 1 THEN Len(t) - 1 - 1 + 1 ELSE 0
      /\ \A i \in 1 .. Len(t) - 1 - 1 + 1 : f[i] = t[1 + i - 1]
  <2>1. \A i \in 1 .. Len(t) - 1 : t[i] \in S
    BY <1>1, ElementOfSeq
  <2>2. Len(t) - 1 \in Int
    BY <1>1
  <2> QED
    BY <2>1, <2>2, SubSeqProperties DEF Front
<1> HIDE DEF f
<1>5. ASSUME NEW i \in 1 .. Len(f)
      PROVE  f[i] # <<>>
  <2>1. i \in 1 .. Len(t) - 1 - 1 + 1 /\ i \in 1 .. Len(t) /\ 1 + i - 1 = i
    BY <1>1, <1>2, <1>4
  <2> QED
    BY <1>1, <1>4, <2>1
<1> QED
  BY <1>3, <1>4, <1>5 DEF S, t, f

-----------------------------------------------------------------------------
(* The last token is where the command line ends.                          *)

LEMMA NothingTrails ==
  ASSUME NEW text \in Seq(Char), ~EndsInBlank(text)
  PROVE  RemoveTrailingSpaces(text) = text
<1> DEFINE I == {i \in 1 .. Len(text) : text[i] # Blank}
           k == SelectLastInSeq(text, LAMBDA c : c # Blank)
           n == Len(text)
<1>1. k = IF I # {} THEN Max(I) ELSE 0
  BY DEF SelectLastInSeq
<1>2. n \in Nat /\ I \subseteq 1 .. n
  OBVIOUS
<1>3. n # 0 => n \in I
  <2>1. n # 0 => text # <<>> /\ n \in 1 .. n
    BY <1>2, EmptySeq
  <2> QED
    BY <2>1 DEF EndsInBlank, Last
<1>4. RemoveTrailingSpaces(text) = SubSeq(text, 1, k)
  BY DEF RemoveTrailingSpaces
<1> HIDE DEF I, k
<1>5. k = n
  <2>1. CASE n = 0
    <3>1. I = {}
      BY <1>2, <2>1
    <3> QED
      BY <1>1, <2>1, <3>1
  <2>2. CASE n # 0
    <3>1. I \subseteq Nat /\ I # {} /\ \A i \in I : i <= n
      BY <1>2, <1>3, <2>2
    <3>2. Max(I) \in I /\ \A i \in I : i <= Max(I)
      BY <1>2, <3>1, GreatestNat
    <3>3. Max(I) = n
      <4>1. Max(I) <= n /\ n <= Max(I) /\ Max(I) \in Nat
        BY <1>3, <2>2, <3>1, <3>2
      <4> HIDE DEF n
      <4> QED
        BY <1>2, <4>1
    <3> QED
      BY <1>1, <3>1, <3>3
  <2> QED
    BY <2>1, <2>2
<1>6. SubSeq(text, 1, n) = text
  OBVIOUS
<1> QED
  BY <1>4, <1>5, <1>6

(* skip_first_token() changes at most a `do' that a blank follows.         *)
LEMMA SkipDoShape ==
  ASSUME NEW text \in Seq(Char)
  PROVE  /\ SkipDo(text) \in Seq(Char) /\ Len(SkipDo(text)) = Len(text)
         /\ \A i \in 1 .. Len(text) :
              SkipDo(text)[i] # text[i] =>
                /\ SkipDo(text)[i] = Blank
                /\ i < Len(text) => text[i + 1] = Blank
<1> DEFINE n == Len(text)
           I == {i \in 1 .. n : text[i] # Blank}
           d == SelectInSeq(text, LAMBDA c : c # Blank)
           e == [text EXCEPT ![d] = Blank]
<1>1. n \in Nat /\ text \in [1 .. n -> Char] /\ Blank \in Char
  BY LenProperties, AnswersAreText
<1>2. CASE ~StartWithDo(text)
  BY <1>2 DEF SkipDo
<1>3. CASE StartWithDo(text)
  <2> DEFINE cli == SkipSpaces(text)
  <2>1. SkipDo(text) = e
    BY <1>3 DEF SkipDo
  <2>2. cli # <<>> /\ cli[1] = "do" /\ (Len(cli) > 1 => cli[2] = Blank)
    BY <1>3 DEF StartWithDo
  <2>3. PICK k \in 1 .. n + 1 : /\ cli = SubSeq(text, k, n)
                                /\ \A i \in 1 .. k - 1 : text[i] = Blank
    BY SkipSpacesShape
  <2> HIDE DEF cli
  <2>4. /\ Len(SubSeq(text, k, n)) = IF k <= n THEN n - k + 1 ELSE 0
        /\ \A i \in 1 .. n - k + 1 : SubSeq(text, k, n)[i] = text[k + i - 1]
        /\ SubSeq(text, k, n) \in Seq(Char)
    BY <1>1, <2>3, SubSeqProperties
  <2>5. k <= n
    <3>1. Len(cli) # 0
      BY <2>2, <2>3, <2>4, EmptySeq
    <3> QED
      BY <2>3, <2>4, <3>1
  <2>6. text[k] = "do" /\ (k < n => text[k + 1] = Blank)
    <3>1. 1 \in 1 .. n - k + 1 /\ k + 1 - 1 = k
      BY <1>1, <2>3, <2>5
    <3>2. k < n => 2 \in 1 .. n - k + 1 /\ k + 2 - 1 = k + 1 /\ Len(cli) > 1
      BY <1>1, <2>3, <2>4, <2>5
    <3> QED
      BY <2>2, <2>3, <2>4, <3>1, <3>2
  <2>7. k \in I /\ \A i \in I : k <= i
    <3>1. "do" # Blank
      BY DEF Blank
    <3>2. k \in I
      BY <2>3, <2>5, <2>6, <3>1
    <3>3. ASSUME NEW i \in I
          PROVE  k <= i
      <4>1. i \in 1 .. k - 1 => text[i] = Blank
        BY <2>3
      <4>2. i \notin 1 .. k - 1
        BY <4>1
      <4> QED
        BY <1>1, <2>3, <4>2
    <3> QED
      BY <3>2, <3>3
  <2>8. d = k
    <3>1. d = IF I # {} THEN Min(I) ELSE 0
      BY DEF SelectInSeq
    <3>2. \A i \in I : i \in Nat
      BY <1>1
    <3> HIDE DEF I, d
    <3>3. Min(I) \in I /\ \A i \in I : Min(I) <= i
      BY <2>7 DEF Min
    <3>4. Min(I) = k
      <4>1. Min(I) <= k /\ k <= Min(I) /\ Min(I) \in Nat
        BY <2>7, <3>2, <3>3
      <4> QED
        BY <4>1
    <3> QED
      BY <2>7, <3>1, <3>4
  <2> HIDE DEF d
  <2>9. e \in [1 .. n -> Char] /\ \A i \in 1 .. n : e[i] = IF i = k THEN Blank ELSE text[i]
    BY <1>1, <2>8
  <2>10. e \in Seq(Char) /\ Len(e) = n
    <3> HIDE DEF e
    <3> QED
      BY <1>1, <2>9, LenProperties
  <2> HIDE DEF e
  <2> QED
    BY <2>1, <2>6, <2>9, <2>10
<1> QED
  BY <1>2, <1>3

(* A last token without a blank in it is what the command line ends in, from
   its last blank on.                                                      *)
LEMMA LastTokenEnds ==
  ASSUME NEW text \in Seq(Char), ~EndsInBlank(SkipDo(text)),
         Split(text).tokens # <<>>, Split(text).err = NULL,
         NEW l, l = Last(Split(text).tokens), \A i \in 1 .. Len(l) : l[i] # Blank
  PROVE  TokenEnds(text, Len(text), l)
<1> DEFINE s == SkipDo(text)
           b == Bare(text)
           n == Len(text)
           a == SplitAfter(b)[Len(b)]
<1>1. /\ s \in Seq(Char) /\ Len(s) = n /\ n \in Nat
      /\ \A i \in 1 .. n : s[i] # text[i] =>
           s[i] = Blank /\ (i < n => text[i + 1] = Blank)
  BY SkipDoShape, LenProperties
<1>2. b = SkipSpaces(s)
  BY <1>1, NothingTrails DEF Bare, PreprocessCli
<1>3. l \in Seq(Char) /\ l # <<>> /\ Len(l) \in Nat /\ Len(l) # 0
  BY TakenTokens, LenProperties, EmptySeq
<1>4. TokenEnds(b, Len(b), l)
  <2>1. b \in Seq(Char) /\ Len(b) \in 0 .. Len(b)
    BY BareShape, LenProperties
  <2>2. b # <<>>
    BY <2>1 DEF Split, SplitBare
  <2>3. Split(text).tokens = a.tokens /\ a.err = NULL
    <3>1. Split(text) = [tokens |-> a.tokens,
                         err |-> IF a.err = NULL /\ a.quoted THEN "quote" ELSE a.err]
      BY <2>1, <2>2 DEF Split, SplitBare, SplitCli
    <3>2. "quote" # NULL
      BY DEF NULL
    <3> HIDE DEF a
    <3> QED
      BY <3>1, <3>2
  <2>4. SplitSound(b, Len(b), a)
    BY <2>1, SplitAfterSound
  <2> HIDE DEF a, b
  <2> QED
    BY <2>3, <2>4 DEF SplitSound
<1> HIDE DEF s, b
<1>5. PICK k \in 1 .. n + 1 : b = SubSeq(s, k, n) /\ \A i \in 1 .. k - 1 : s[i] = Blank
  BY <1>1, <1>2, SkipSpacesShape
<1>6. /\ Len(SubSeq(s, k, n)) = IF k <= n THEN n - k + 1 ELSE 0
      /\ \A i \in 1 .. n - k + 1 : SubSeq(s, k, n)[i] = s[k + i - 1]
  BY <1>1, <1>5, SubSeqProperties
<1> DEFINE m == Len(l)
<1>7. /\ k <= n /\ Len(b) = n - k + 1 /\ m <= Len(b)
      /\ \A i \in 1 .. m : l[i] = b[Len(b) - m + i]
      /\ m = Len(b) \/ b[Len(b) - m] = Blank
  <2>1. /\ m <= Len(b) /\ (m = Len(b) \/ b[Len(b) - m] = Blank)
        /\ \A i \in 1 .. m : l[i] = b[Len(b) - m + i]
    BY <1>4 DEF TokenEnds
  <2>2. Len(b) # 0
    <3>1. Len(b) \in Nat
      BY <1>1, <1>5, <1>6
    <3> QED
      BY <1>3, <2>1, <3>1
  <2>3. k <= n /\ Len(b) = n - k + 1
    BY <1>5, <1>6, <2>2
  <2> QED
    BY <2>1, <2>3
<1>8. ASSUME NEW i \in 1 .. m
      PROVE  l[i] = s[n - m + i]
  <2> DEFINE j == Len(b) - m + i
  <2>1. j \in 1 .. n - k + 1 /\ k + j - 1 = n - m + i
    BY <1>1, <1>3, <1>5, <1>7
  <2> HIDE DEF j
  <2>2. b[j] = s[n - m + i]
    BY <1>5, <1>6, <2>1
  <2> QED
    BY <1>7, <2>2 DEF j
<1>9. m = n \/ s[n - m] = Blank
  <2>1. CASE m = Len(b)
    <3>1. n - m = k - 1
      BY <1>1, <1>3, <1>5, <1>7, <2>1
    <3> QED
      BY <1>1, <1>3, <1>5, <3>1
  <2>2. CASE m # Len(b)
    <3> DEFINE j == Len(b) - m
    <3>1. j \in 1 .. n - k + 1 /\ k + j - 1 = n - m
      BY <1>1, <1>3, <1>5, <1>7, <2>2
    <3> HIDE DEF j
    <3>2. b[j] = s[n - m]
      BY <1>5, <1>6, <3>1
    <3> QED
      BY <1>7, <2>2, <3>2 DEF j
  <2> QED
    BY <2>1, <2>2
<1>10. m <= n /\ m \in Nat /\ m # 0
  BY <1>1, <1>3, <1>5, <1>7
<1>11. ASSUME NEW i \in 1 .. m
       PROVE  l[i] = text[n - m + i]
  <2>1. n - m + i \in 1 .. n
    BY <1>1, <1>10
  <2>2. s[n - m + i] # Blank
    BY <1>8
  <2> QED
    BY <1>1, <1>8, <2>1, <2>2
<1>12. m = n \/ text[n - m] = Blank
  <2> SUFFICES ASSUME m # n, text[n - m] # Blank
               PROVE  FALSE
    OBVIOUS
  <2>1. n - m \in 1 .. n /\ n - m < n /\ n - m + 1 \in 1 .. n /\ 1 \in 1 .. m
    BY <1>1, <1>10
  <2>2. text[n - m + 1] = Blank
    BY <1>1, <1>9, <2>1
  <2>3. l[1] = text[n - m + 1]
    BY <1>11, <2>1
  <2> QED
    BY <2>1, <2>2, <2>3
<1> QED
  BY <1>10, <1>11, <1>12 DEF TokenEnds

-----------------------------------------------------------------------------
(* Lists of nodes.                                                         *)

LEMMA ListOfNone ==
  ASSUME NEW step \in [Node -> Addr]
  PROVE  ListFrom(NULL, step) = <<>>
<1>1. Cardinality(Node) \in Nat /\ NULL \in Addr
  BY NodeFinite DEF Addr
<1>2. Lists(step)[Cardinality(Node)][NULL] = <<>>
  BY <1>1, ListsAreLists DEF IsList
<1> QED
  BY <1>2, ListFromIs

(* A list that ends is its first node and the list behind it.              *)
LEMMA ListUnfolds ==
  ASSUME NEW step \in [Node -> Addr], NEW r, Ranks(r, step), NEW n \in Node
  PROVE  /\ ListFrom(n, step) = <<n>> \o ListFrom(step[n], step)
         /\ ListFrom(step[n], step) \in Seq(Node)
         /\ Len(ListFrom(n, step)) = Len(ListFrom(step[n], step)) + 1
<1> DEFINE c == Cardinality(Node)
           t == Lists(step)[c - 1][step[n]]
           s == ListFrom(n, step)
<1>1. c \in Nat /\ c # 0 /\ c - 1 \in Nat /\ (c - 1) + 1 = c
  BY NodeFinite, FS_EmptySet
<1>2. n \in Addr /\ n # NULL /\ step[n] \in Addr
  BY NodeAssumption DEF Addr
<1>3. s = <<n>> \o t
  BY <1>1, <1>2, ListsRec, ListFromIs
<1>4. t \in Seq(Node) /\ IsList(t, c - 1, step[n], step)
  BY <1>1, <1>2, ListsAreLists DEF IsList
<1>5. /\ s # <<>> /\ s \in Seq(Node) /\ Len(s) \in Nat /\ Last(s) = s[Len(s)]
      /\ step[s[Len(s)]] = NULL
  BY ListFromIsList, RankedListEnds DEF ListEnds
<1>6. ListFrom(step[n], step) = Lists(step)[(c - 1) + 1][step[n]]
  BY <1>1, ListFromIs
<1> HIDE DEF t, s
<1>7. Len(s) = Len(t) + 1 /\ Len(t) \in Nat /\ s[1] = n /\ \A i \in 1 .. Len(t) : s[i + 1] = t[i]
  BY <1>3, <1>4, ConsProperties
<1>8. CASE t = <<>>
  <2>1. Len(s) = 1
    BY <1>7, <1>8
  <2>2. step[n] = NULL
    BY <1>5, <1>7, <2>1
  <2> QED
    BY <1>3, <1>4, <1>7, <1>8, <2>2, ListOfNone DEF s
<1>9. CASE t # <<>>
  <2>1. Len(t) \in 1 .. Len(t)
    BY <1>4, <1>7, <1>9, EmptySeq
  <2>2. step[t[Len(t)]] = NULL
    BY <1>5, <1>7, <2>1
  <2>3. Lists(step)[(c - 1) + 1][step[n]] = t
    BY <1>1, <1>2, <1>9, <2>2, EndedListStays DEF t
  <2> QED
    BY <1>3, <1>4, <1>6, <1>7, <2>3 DEF s
<1> QED
  BY <1>8, <1>9

(* The nodes of a list that ends are different ones, and how many are left
   tells which one it is.                                                  *)
LEMMA ListPlaces ==
  ASSUME NEW step \in [Node -> Addr], NEW r, Ranks(r, step), NEW n \in Node
  PROVE  LET s == ListFrom(n, step) IN
         /\ \A i, j \in 1 .. Len(s) : i # j => s[i] # s[j]
         /\ \A i \in 1 .. Len(s) : /\ Len(ListFrom(s[i], step)) = Len(s) - i + 1
                                   /\ step[s[i]] = IF i < Len(s) THEN s[i + 1] ELSE NULL
<1> DEFINE s == ListFrom(n, step)
           S == {i \in Nat : i \in 1 .. Len(s) => Len(ListFrom(s[i], step)) = Len(s) - i + 1}
<1>1. /\ s \in Seq(Node) /\ Len(s) \in Nat /\ Len(s) >= 1 /\ s[1] = n /\ Last(s) = s[Len(s)]
      /\ \A i \in 1 .. Len(s) - 1 : s[i + 1] = step[s[i]]
  BY ListFromIsList DEF IsList
<1>2. step[Last(s)] = NULL
  BY RankedListEnds DEF ListEnds
<1>3. \A j \in 1 .. Len(s) : \A i \in 1 .. j - 1 : r[s[j]] < r[s[i]]
  BY RanksFall
<1> HIDE DEF s
<1>4. \A i \in 1 .. Len(s) : s[i] \in Node /\ r[s[i]] \in Nat
  BY <1>1 DEF Ranks
<1>5. ASSUME NEW i \in 1 .. Len(s), NEW j \in 1 .. Len(s), i # j
      PROVE  s[i] # s[j]
  <2>1. CASE i < j
    <3>1. i \in 1 .. j - 1
      BY <2>1
    <3> QED
      BY <1>3, <1>4, <3>1
  <2>2. CASE j < i
    <3>1. j \in 1 .. i - 1
      BY <2>2
    <3> QED
      BY <1>3, <1>4, <3>1
  <2> QED
    BY <1>5, <2>1, <2>2
<1>6. ASSUME NEW i \in 1 .. Len(s)
      PROVE  step[s[i]] = IF i < Len(s) THEN s[i + 1] ELSE NULL
  <2>1. CASE i < Len(s)
    <3>1. i \in 1 .. Len(s) - 1
      BY <1>1, <2>1
    <3> QED
      BY <1>1, <2>1, <3>1
  <2>2. CASE i = Len(s)
    BY <1>1, <1>2, <2>2
  <2> QED
    BY <1>1, <2>1, <2>2
<1>7. 0 \in S
  OBVIOUS
<1>8. ASSUME NEW i \in Nat, i \in S
      PROVE  i + 1 \in S
  <2> SUFFICES ASSUME i + 1 \in 1 .. Len(s)
               PROVE  Len(ListFrom(s[i + 1], step)) = Len(s) - (i + 1) + 1
    OBVIOUS
  <2>1. CASE i = 0
    BY <1>1, <2>1 DEF s
  <2>2. CASE i # 0
    <3>1. i \in 1 .. Len(s) /\ i < Len(s)
      BY <1>1, <2>2
    <3>2. s[i] \in Node /\ step[s[i]] = s[i + 1] /\ s[i + 1] \in Node
      BY <1>4, <1>6, <3>1
    <3> DEFINE a == ListFrom(s[i], step)
               b == ListFrom(s[i + 1], step)
    <3>3. Len(a) = Len(b) + 1
      BY <3>2, ListUnfolds
    <3>4. Len(b) \in Nat
      BY <3>2, ListFromIsList
    <3>5. Len(a) = Len(s) - i + 1
      BY <1>8, <3>1
    <3> HIDE DEF a, b
    <3>6. Len(b) = Len(s) - (i + 1) + 1
      BY <1>1, <3>3, <3>4, <3>5
    <3> QED
      BY <3>6 DEF b
  <2> QED
    BY <2>1, <2>2
<1> HIDE DEF S
<1>9. \A i \in Nat : i \in S
  BY <1>7, <1>8, NatSetInduction
<1>10. \A i \in 1 .. Len(s) : Len(ListFrom(s[i], step)) = Len(s) - i + 1
  BY <1>9 DEF S
<1> QED
  BY <1>5, <1>6, <1>10 DEF s

(* Different nodes, each linked to the next one.                           *)
IsChain(L, step) ==
  /\ L \in Seq(Node)
  /\ \A i, j \in 1 .. Len(L) : i # j => L[i] # L[j]
  /\ \A i \in 1 .. Len(L) : step[L[i]] = IF i < Len(L) THEN L[i + 1] ELSE NULL

FirstOf(L) == IF L = <<>> THEN NULL ELSE L[1]

(* They are the list from the first one on: no cut comes too early.        *)
LEMMA ChainIsList ==
  ASSUME NEW step \in [Node -> Addr], NEW L, IsChain(L, step)
  PROVE  ListFrom(FirstOf(L), step) = L
<1>1. CASE L = <<>>
  BY <1>1, ListOfNone DEF FirstOf
<1>2. CASE L # <<>>
  <2> DEFINE s == ListFrom(L[1], step)
             c == Cardinality(Node)
             S == {i \in Nat : i \in 1 .. Len(s) => i <= Len(L) /\ s[i] = L[i]}
  <2>1. L \in Seq(Node) /\ Len(L) \in Nat /\ Len(L) >= 1 /\ 1 \in 1 .. Len(L) /\ L[1] \in Node
        /\ \A i \in 1 .. Len(L) : L[i] \in Node /\ L[i] # NULL
    <3>1. L \in Seq(Node) /\ Len(L) \in Nat \ {0}
      BY <1>2, EmptySeq DEF IsChain
    <3>2. \A i \in 1 .. Len(L) : L[i] \in Node /\ L[i] # NULL
      BY <3>1, ElementOfSeq, NodeAssumption
    <3> QED
      BY <3>1, <3>2
  <2>2. /\ s \in Seq(Node) /\ Len(s) \in Nat /\ Len(s) >= 1 /\ Len(s) <= c /\ s[1] = L[1]
        /\ \A i \in 1 .. Len(s) - 1 : s[i + 1] = step[s[i]]
        /\ Len(s) < c => step[s[Len(s)]] = NULL
    BY <2>1, ListFromIsList DEF IsList
  <2>3. Len(L) <= c
    <3>1. IsFiniteSet(Node) /\ c \in Nat
      BY NodeFinite
    <3>2. IsFiniteSet(1 .. Len(L)) /\ Cardinality(1 .. Len(L)) = Len(L)
      BY <2>1, FS_Interval
    <3>3. L \in [1 .. Len(L) -> Node]
      BY <2>1, LenProperties
    <3>4. \A i, j \in 1 .. Len(L) : L[i] = L[j] => i = j
      BY DEF IsChain
    <3>5. L \in Injection(1 .. Len(L), Node)
      BY <3>3, <3>4 DEF Injection, IsInjective
    <3> QED
      BY <3>1, <3>2, <3>5, FS_Injection
  <2>c. c \in Nat
    BY NodeFinite
  <2> HIDE DEF s, c
  <2>4. \A i \in 1 .. Len(s) : s[i] \in Node /\ s[i] # NULL
    BY <2>2, NodeAssumption
  <2>5. 0 \in S
    OBVIOUS
  <2>6. ASSUME NEW i \in Nat, i \in S
        PROVE  i + 1 \in S
    <3> SUFFICES ASSUME i + 1 \in 1 .. Len(s)
                 PROVE  i + 1 <= Len(L) /\ s[i + 1] = L[i + 1]
      OBVIOUS
    <3>1. CASE i = 0
      BY <2>1, <2>2, <3>1
    <3>2. CASE i # 0
      <4>1. i \in 1 .. Len(s) - 1 /\ i \in 1 .. Len(s)
        BY <2>2, <3>2
      <4>2. s[i + 1] = step[s[i]] /\ i <= Len(L) /\ s[i] = L[i] /\ s[i + 1] # NULL
        BY <2>2, <2>4, <2>6, <4>1
      <4>3. i \in 1 .. Len(L)
        BY <2>1, <4>1, <4>2
      <4>4. step[L[i]] = IF i < Len(L) THEN L[i + 1] ELSE NULL
        BY <4>3 DEF IsChain
      <4> QED
        BY <2>1, <4>2, <4>3, <4>4
    <3> QED
      BY <3>1, <3>2
  <2> HIDE DEF S
  <2>7. \A i \in Nat : i \in S
    BY <2>5, <2>6, NatSetInduction
  <2>8. \A i \in 1 .. Len(s) : i <= Len(L) /\ s[i] = L[i]
    BY <2>7 DEF S
  <2>9. Len(s) \in 1 .. Len(s) /\ Len(s) <= Len(L) /\ s[Len(s)] = L[Len(s)]
    BY <2>2, <2>8
  <2>10. Len(s) = Len(L)
    <3> SUFFICES ASSUME Len(s) < Len(L)
                 PROVE  FALSE
      BY <2>1, <2>2, <2>9
    <3>1. step[s[Len(s)]] = NULL
      BY <2>1, <2>2, <2>3, <2>c
    <3>2. Len(s) \in 1 .. Len(L) /\ Len(s) + 1 \in 1 .. Len(L)
      BY <2>1, <2>2
    <3>3. step[L[Len(s)]] = L[Len(s) + 1]
      BY <3>2 DEF IsChain
    <3> QED
      BY <2>1, <2>9, <3>1, <3>2, <3>3
  <2>11. s = L
    BY <2>1, <2>2, <2>8, <2>10, SeqEqual
  <2> QED
    BY <1>2, <2>11 DEF s, FirstOf
<1> QED
  BY <1>1, <1>2

-----------------------------------------------------------------------------
(* What the parser sees of a tree that is built.                           *)

(* get_next_node(), as pointers.                                           *)
Onward == [x \in Node |-> GetNextNode(alter, x)]

LEMMA LevelSound ==
  ASSUME TreeInv
  PROVE  /\ Onward \in [Node -> Addr] /\ \E r : Ranks(r, Onward)
         /\ \A n : Level(n) = ListFrom(n, Onward)
         /\ Level(NULL) = <<>>
         /\ \A n \in Node : GetNextNode(alter, n) = Onward[n]
<1>1. alter \in [Node -> Addr] /\ NULL \in Addr
  BY DEF TreeInv, TreeTypeOK, Addr
<1>2. Onward \in [Node -> Addr] /\ \A n \in Node : Onward[n] \in {alter[n], NULL}
  BY <1>1 DEF Onward, GetNextNode
<1>3. PICK r : Ranks(r, alter)
  BY DEF TreeInv, Ranked
<1>4. Ranks(r, Onward)
  BY <1>2, <1>3 DEF Ranks
<1>5. \A n : Level(n) = ListFrom(n, Onward)
  BY DEF Level, LevelIn, Onward
<1>6. Level(NULL) = <<>>
  BY <1>2, <1>5, ListOfNone
<1> QED
  BY <1>2, <1>4, <1>5, <1>6 DEF Onward

LEMMA LevelPlaces ==
  ASSUME TreeInv, NEW n \in Node
  PROVE  /\ Level(n) \in Seq(Node) /\ Len(Level(n)) \in Nat /\ Len(Level(n)) >= 1
         /\ Level(n)[1] = n
         /\ \A i, j \in 1 .. Len(Level(n)) : i # j => Level(n)[i] # Level(n)[j]
         /\ \A i \in 1 .. Len(Level(n)) :
              /\ Level(n)[i] \in Node
              /\ Len(Level(Level(n)[i])) = Len(Level(n)) - i + 1
              /\ GetNextNode(alter, Level(n)[i]) =
                   IF i < Len(Level(n)) THEN Level(n)[i + 1] ELSE NULL
              /\ i < Len(Level(n)) => Type[Level(n)[i]] \notin EndType
<1> DEFINE s == Level(n)
<1>1. Onward \in [Node -> Addr] /\ \A x : Level(x) = ListFrom(x, Onward)
  BY LevelSound
<1>2. PICK r : Ranks(r, Onward)
  BY LevelSound
<1>3. s \in Seq(Node) /\ Len(s) \in Nat /\ Len(s) >= 1 /\ s[1] = n
  BY <1>1, ListFromIsList
<1>4. /\ \A i, j \in 1 .. Len(s) : i # j => s[i] # s[j]
      /\ \A i \in 1 .. Len(s) : /\ Len(Level(s[i])) = Len(s) - i + 1
                                /\ Onward[s[i]] = IF i < Len(s) THEN s[i + 1] ELSE NULL
  <2>1. LET t == ListFrom(n, Onward) IN
        /\ \A i, j \in 1 .. Len(t) : i # j => t[i] # t[j]
        /\ \A i \in 1 .. Len(t) : /\ Len(ListFrom(t[i], Onward)) = Len(t) - i + 1
                                  /\ Onward[t[i]] = IF i < Len(t) THEN t[i + 1] ELSE NULL
    BY <1>1, <1>2, ListPlaces
  <2> QED
    BY <1>1, <2>1
<1> HIDE DEF s
<1>5. \A i \in 1 .. Len(s) : s[i] \in Node
  BY <1>3, ElementOfSeq
<1>6. ASSUME NEW i \in 1 .. Len(s)
      PROVE  /\ GetNextNode(alter, s[i]) = IF i < Len(s) THEN s[i + 1] ELSE NULL
             /\ i < Len(s) => Type[s[i]] \notin EndType
  <2>1. GetNextNode(alter, s[i]) = IF i < Len(s) THEN s[i + 1] ELSE NULL
    BY <1>4, <1>5, LevelSound
  <2>2. ASSUME i < Len(s), Type[s[i]] \in EndType
        PROVE  FALSE
    <3>1. GetNextNode(alter, s[i]) = NULL
      BY <2>2 DEF GetNextNode
    <3>2. i + 1 \in 1 .. Len(s)
      BY <1>3, <2>2
    <3> QED
      BY <1>5, <2>1, <2>2, <3>1, <3>2, NodeAssumption
  <2> QED
    BY <2>1, <2>2
<1> QED
  BY <1>3, <1>4, <1>5, <1>6 DEF s

(* The parser stays on nodes in use.                                       *)
LEMMA LevelInUse ==
  ASSUME TreeInv, NEW n \in InUse
  PROVE  n \in Node /\ \A i \in 1 .. Len(Level(n)) : Level(n)[i] \in InUse
<1>1. n \in Node /\ Onward \in [Node -> Addr] /\ Level(n) = ListFrom(n, Onward)
  BY LevelSound DEF InUse
<1>2. \A x \in InUse : Onward[x] \in InUse \cup {NULL}
  BY DEF TreeInv, Wired, Onward, GetNextNode, InUse
<1>3. Elements(n, Onward) \subseteq InUse
  BY <1>1, <1>2, ListInClosedSet
<1> QED
  BY <1>1, <1>3 DEF Elements

(* Something follows every word of a node in use.                          *)
LEMMA WordsLeadOn ==
  ASSUME TreeInv, NEW n \in InUse, Type[n] \notin EndType
  PROVE  acc[n] \in InUse
<1>1. acc[n] # NULL
  <2>1. CASE n \in Static
    <3>1. acc[n] = StaticNode[n].acc /\ Type[n] = StaticNode[n].type
      BY <2>1, DeclaredPointers DEF TreeInv, StaticKept, Type
    <3> QED
      BY <2>1, <3>1, NodeAssumption DEF Static
  <2>2. CASE n \notin Static
    BY <2>2 DEF InUse
  <2> QED
    BY <2>1, <2>2
<1> QED
  BY <1>1 DEF TreeInv, Wired

LEMMA LeastOf ==
  ASSUME NEW S, S \subseteq Nat, S # {}
  PROVE  Min(S) \in S
<1>1. \E m \in S : \A n \in S : m <= n
  BY LeastNat
<1> QED
  BY <1>1 DEF Min

LEMMA GreatestOf ==
  ASSUME NEW b \in Nat, NEW S, S \subseteq 1 .. b, S # {}
  PROVE  Max(S) \in S
<1>1. S \subseteq Nat /\ \A i \in S : i <= b
  OBVIOUS
<1> QED
  BY <1>1, GreatestNat

(* What a token matches is a word or a parameter among the alternatives.   *)
LEMMA MatchFound ==
  ASSUME TreeInv, NEW n \in InUse, NEW token,
         GetMatchNode(n, token).node # NULL
  PROVE  LET m == GetMatchNode(n, token).node IN
         m \in InUse /\ Type[m] \notin EndType /\ acc[m] \in InUse
<1> DEFINE level == Level(n)
           words == {i \in DOMAIN level : Matches(token, level[i])}
           params == {i \in DOMAIN level : Type[level[i]] \in ParamType}
           m == GetMatchNode(n, token).node
<1>1. n \in Node /\ \A i \in 1 .. Len(level) : level[i] \in InUse
  BY LevelInUse
<1>2. level \in Seq(Node) /\ Len(level) \in Nat /\ DOMAIN level = 1 .. Len(level)
  BY <1>1, LevelPlaces
<1>3. words \subseteq 1 .. Len(level) /\ params \subseteq 1 .. Len(level)
      /\ words \subseteq Nat /\ params \subseteq Nat
  BY <1>2
<1>4. \A i \in words : i \in 1 .. Len(level) /\ Type[level[i]] \in KeywordType
  BY <1>2 DEF Matches
<1>5. \A i \in params : i \in 1 .. Len(level) /\ Type[level[i]] \in ParamType
  BY <1>2
<1>6. m = IF token[1] = Quote THEN (IF params = {} THEN NULL ELSE level[Min(params)])
          ELSE IF words # {} THEN level[Max(words)]
          ELSE IF params # {} THEN level[Max(params)] ELSE NULL
  BY <1>2 DEF GetMatchNode, MatchIn
<1> HIDE DEF words, params
<1>7. \E i \in words \cup params : m = level[i]
  <2>1. params # {} => Min(params) \in params /\ Max(params) \in params
    BY <1>2, <1>3, LeastOf, GreatestOf
  <2>2. words # {} => Max(words) \in words
    BY <1>2, <1>3, GreatestOf
  <2> HIDE DEF m, level
  <2>3. m # NULL
    BY DEF m
  <2> QED
    BY <1>6, <2>1, <2>2, <2>3
<1>8. m \in InUse /\ Type[m] \notin EndType
  BY <1>1, <1>4, <1>5, <1>7 DEF KeywordType, ParamType, EndType
<1> QED
  BY <1>8, WordsLeadOn

LEMMA EndNodeTyped ==
  ASSUME TreeInv, NEW n \in Node
  PROVE  EndNode(n) \in Addr
<1> DEFINE s == Level(n)
           I == {i \in 1 .. Len(s) : Type[s[i]] = "END"}
<1>1. Len(s) \in Nat /\ \A i \in 1 .. Len(s) : s[i] \in Node
  BY LevelPlaces
<1>2. EndNode(n) = IF I = {} THEN NULL ELSE IF Min(I) = 0 THEN NULL ELSE s[Min(I)]
  BY DEF EndNode, SelectInSeq
<1>3. I \subseteq 1 .. Len(s) /\ I \subseteq Nat
  OBVIOUS
<1> HIDE DEF I, s
<1>4. I # {} => Min(I) \in I
  BY <1>3, LeastOf
<1> QED
  BY <1>1, <1>2, <1>3, <1>4 DEF Addr

(* What can be typed has a place in the order of words, and is text without
   blanks.                                                                 *)
LEMMA WordsRanked ==
  ASSUME NEW n \in Node, Type[n] \notin EndType
  PROVE  /\ Def[n].keyword \in DOMAIN Rank /\ Rank[Def[n].keyword] \in Nat
         /\ Keyword(n) \in Seq(Char) /\ \A i \in 1 .. Len(Keyword(n)) : Keyword(n)[i] # Blank
<1> DEFINE w == Def[n].keyword
<1>1. PICK x \in Static : Def[n] = StaticNode[x]
  BY DeclaredAs
<1>2. w \in DOMAIN Rank
  BY <1>1, WordAssumption DEF Type, Static
<1> HIDE DEF w
<1>3. PICK i \in DOMAIN Spelling : Spelling[i][1] = w
  BY <1>2 DEF Rank
<1>4. Rank[w] = CHOOSE j \in DOMAIN Spelling : Spelling[j][1] = w
  BY <1>2 DEF Rank
<1>5. Rank[w] \in DOMAIN Spelling
  BY <1>3, <1>4
<1>6. Spell[w] \in Seq(Char \ {Blank})
  <2>1. \A S, U : S \subseteq U => Seq(S) \subseteq Seq(U)
    BY SeqMonotonic
  <2>2. Seq(Char \ {Blank, Quote, Escape}) \subseteq Seq(Char \ {Blank})
    BY <2>1
  <2> QED
    BY <1>2, <1>5, <2>2, CharAssumption DEF Spell
<1>7. \A t \in Seq(Char \ {Blank}) :
        t \in Seq(Char) /\ \A k \in 1 .. Len(t) : t[k] # Blank
  <2> TAKE t \in Seq(Char \ {Blank})
  <2>1. Len(t) \in Nat /\ t \in [1 .. Len(t) -> Char \ {Blank}]
    BY LenProperties
  <2>2. t \in [1 .. Len(t) -> Char]
    BY <2>1
  <2> QED
    BY <2>1, <2>2
<1> QED
  BY <1>2, <1>5, <1>6, <1>7, WordAssumption DEF Keyword, w

-----------------------------------------------------------------------------
(* The list of candidates.                                                 *)

(* Candidate a may come before candidate b.                                *)
Before(a, b) ==
  /\ Type[a] # "END"
  /\ Type[b] # "END" => Rank[Def[a].keyword] <= Rank[Def[b].keyword]

InOrder(L) == \A i, j \in 1 .. Len(L) : i < j => Before(L[i], L[j])

(* insert_help_node_list() finds a place between those that may come before
   the node and those that may come behind it.                             *)
LEMMA PlaceSound ==
  ASSUME NEW L \in Seq(Node), HelpList = L, InOrder(L), NEW n \in Node,
         Type[n] # "DEAD", \A i \in 1 .. Len(L) : Type[L[i]] # "DEAD",
         Type[n] = "END" => \A i \in 1 .. Len(L) : Type[L[i]] # "END"
  PROVE  /\ PlaceOf(n) \in 0 .. Len(L)
         /\ \A i \in 1 .. PlaceOf(n) : Before(L[i], n)
         /\ \A i \in PlaceOf(n) + 1 .. Len(L) : Before(n, L[i])
<1> DEFINE later(x) == Type[x] = "END" \/ Rank[Def[n].keyword] < Rank[Def[x].keyword]
           I == {i \in 1 .. Len(L) : later(L[i])}
           p == PlaceOf(n)
<1>1. Len(L) \in Nat /\ DOMAIN L = 1 .. Len(L) /\ \A i \in 1 .. Len(L) : L[i] \in Node
  BY LenProperties, ElementOfSeq
<1>2. p = IF Type[n] = "END" \/ I = {} THEN Len(L)
          ELSE (IF I # {} THEN Min(I) ELSE 0) - 1
  BY <1>1 DEF PlaceOf, SelectInSeq
<1>3. ASSUME NEW x \in Node, Type[x] # "END", Type[x] # "DEAD"
      PROVE  Rank[Def[x].keyword] \in Nat
  BY <1>3, WordsRanked DEF EndType
<1> HIDE DEF p
<1>4. CASE Type[n] = "END"
  <2>1. p = Len(L)
    BY <1>2, <1>4
  <2>2. \A i \in 1 .. Len(L) : Before(L[i], n)
    BY <1>4 DEF Before
  <2> QED
    BY <1>1, <2>1, <2>2 DEF p
<1>5. CASE Type[n] # "END"
  <2>1. Rank[Def[n].keyword] \in Nat
    BY <1>3, <1>5
  <2>2. ASSUME NEW i \in 1 .. Len(L), ~later(L[i])
        PROVE  Before(L[i], n)
    <3>1. Type[L[i]] # "END" /\ ~(Rank[Def[n].keyword] < Rank[Def[L[i]].keyword])
      BY <2>2
    <3>2. Rank[Def[L[i]].keyword] \in Nat
      BY <1>1, <1>3, <3>1
    <3> QED
      BY <2>1, <3>1, <3>2 DEF Before
  <2>3. CASE I = {}
    <3>1. p = Len(L)
      BY <1>2, <1>5, <2>3
    <3>2. \A i \in 1 .. Len(L) : ~later(L[i])
      BY <2>3
    <3> HIDE DEF later
    <3> QED
      BY <1>1, <2>2, <3>1, <3>2 DEF p
  <2>4. CASE I # {}
    <3> DEFINE k == Min(I)
    <3>1. k \in I /\ \A j \in I : k <= j
      <4>1. I \subseteq Nat
        OBVIOUS
      <4> HIDE DEF I
      <4>2. \E m \in I : \A j \in I : m <= j
        BY <2>4, <4>1, LeastNat
      <4> QED
        BY <4>2 DEF Min
    <3>2. k \in 1 .. Len(L) /\ later(L[k])
      BY <3>1
    <3>3. p = k - 1
      BY <1>2, <1>5, <2>4
    <3> HIDE DEF k
    <3>4. ASSUME NEW i \in 1 .. k - 1
          PROVE  Before(L[i], n)
      <4>1. i \in 1 .. Len(L) /\ ~(k <= i)
        BY <1>1, <3>2
      <4>2. i \notin I
        BY <3>1, <4>1 DEF k
      <4>3. ~later(L[i])
        BY <4>1, <4>2
      <4> QED
        BY <2>2, <4>1, <4>3
    <3>5. ASSUME NEW i \in k .. Len(L)
          PROVE  Before(n, L[i])
      <4>1. CASE i = k
        <5>1. Type[L[k]] = "END" \/ Rank[Def[n].keyword] < Rank[Def[L[k]].keyword]
          BY <3>2
        <5>2. Type[L[k]] # "END" => Rank[Def[L[k]].keyword] \in Nat
          BY <1>1, <1>3, <3>2
        <5> QED
          BY <1>5, <2>1, <4>1, <5>1, <5>2 DEF Before
      <4>2. CASE i # k
        <5>1. i \in 1 .. Len(L) /\ k < i
          BY <1>1, <3>2, <4>2
        <5>2. Before(L[k], L[i])
          BY <3>2, <5>1 DEF InOrder
        <5>3. Type[L[k]] # "END" /\ Rank[Def[n].keyword] < Rank[Def[L[k]].keyword]
          BY <3>2, <5>2 DEF Before
        <5>4. Rank[Def[L[k]].keyword] \in Nat
          BY <1>1, <1>3, <3>2, <5>3
        <5>5. ASSUME Type[L[i]] # "END"
              PROVE  Rank[Def[n].keyword] <= Rank[Def[L[i]].keyword]
          <6>1. Rank[Def[L[i]].keyword] \in Nat
            BY <1>1, <1>3, <5>1, <5>5
          <6>2. Rank[Def[L[k]].keyword] <= Rank[Def[L[i]].keyword]
            BY <5>2, <5>5 DEF Before
          <6> QED
            BY <2>1, <5>3, <5>4, <6>1, <6>2
        <5> QED
          BY <1>5, <5>5 DEF Before
      <4> QED
        BY <4>1, <4>2
    <3>6. p \in 0 .. Len(L) /\ p + 1 = k
      BY <1>1, <3>2, <3>3
    <3> QED
      BY <3>3, <3>4, <3>5, <3>6 DEF p
  <2> QED
    BY <2>3, <2>4
<1> QED
  BY <1>4, <1>5

(* L is what the links of the candidates, from h on, thread both ways.     *)
Threaded(L, h, nx, pv) ==
  /\ IsChain(L, nx) /\ h = FirstOf(L)
  /\ \A i \in 1 .. Len(L) : pv[L[i]] = IF i = 1 THEN NULL ELSE L[i - 1]

(* No other node is linked.                                                *)
OthersClear(L, nx, pv) ==
  \A x \in Node : (\A i \in 1 .. Len(L) : L[i] # x) => nx[x] = NULL /\ pv[x] = NULL

InsertedAt(L, p, n) ==
  [i \in 1 .. Len(L) + 1 |-> IF i <= p THEN L[i] ELSE IF i = p + 1 THEN n ELSE L[i - 1]]

LEMMA InsertedElements ==
  ASSUME NEW L \in Seq(Node), NEW n \in Node, NEW p \in 0 .. Len(L)
  PROVE  LET M == InsertedAt(L, p, n) IN
         /\ M \in Seq(Node) /\ Len(M) = Len(L) + 1 /\ Len(L) \in Nat /\ M # <<>>
         /\ \A i \in 1 .. p : M[i] = L[i]
         /\ M[p + 1] = n
         /\ \A i \in p + 2 .. Len(L) + 1 : M[i] = L[i - 1]
         /\ \A x : (\E i \in 1 .. Len(M) : M[i] = x) <=>
                     (x = n \/ \E i \in 1 .. Len(L) : L[i] = x)
<1> DEFINE M == InsertedAt(L, p, n)
           k == Len(L)
<1>1. k \in Nat /\ p \in Nat /\ p <= k /\ \A i \in 1 .. k : L[i] \in Node
  BY LenProperties, ElementOfSeq
<1> HIDE DEF k
<1>2. M = [i \in 1 .. k + 1 |-> IF i <= p THEN L[i] ELSE IF i = p + 1 THEN n ELSE L[i - 1]]
  BY DEF InsertedAt, k
<1> HIDE DEF M
<1>3. /\ \A i \in 1 .. p : M[i] = L[i]
      /\ M[p + 1] = n
      /\ \A i \in p + 2 .. k + 1 : M[i] = L[i - 1]
  BY <1>1, <1>2
<1>4. \A i \in 1 .. k + 1 : i \in 1 .. p \/ i = p + 1 \/ (i \in p + 2 .. k + 1 /\ i - 1 \in 1 .. k)
  BY <1>1
<1>5. \A i \in 1 .. k + 1 : M[i] \in Node
  BY <1>1, <1>3, <1>4
<1>6. M \in [1 .. k + 1 -> Node]
  BY <1>2, <1>5
<1>7. M \in Seq(Node) /\ Len(M) = k + 1
  <2>1. k + 1 \in Nat
    BY <1>1
  <2>2. M \in Seq(Node)
    BY <1>6, <2>1, SeqDef
  <2> QED
    BY <1>6, <2>1, <2>2
<1>8. M # <<>>
  BY <1>1, <1>7, EmptySeq
<1>9. ASSUME NEW x
      PROVE  (\E i \in 1 .. Len(M) : M[i] = x) <=> (x = n \/ \E i \in 1 .. k : L[i] = x)
  <2>1. ASSUME NEW i \in 1 .. k + 1, M[i] = x
        PROVE  x = n \/ \E j \in 1 .. k : L[j] = x
    BY <1>1, <1>3, <1>4, <2>1
  <2>2. ASSUME x = n
        PROVE  \E i \in 1 .. k + 1 : M[i] = x
    BY <1>1, <1>3, <2>2
  <2>3. ASSUME NEW j \in 1 .. k, L[j] = x
        PROVE  \E i \in 1 .. k + 1 : M[i] = x
    <3>1. CASE j <= p
      BY <1>1, <1>3, <2>3, <3>1
    <3>2. CASE j > p
      <4>1. j + 1 \in p + 2 .. k + 1 /\ (j + 1) - 1 = j /\ j + 1 \in 1 .. k + 1
        BY <1>1, <3>2
      <4>2. M[j + 1] = L[(j + 1) - 1]
        BY <1>3, <4>1
      <4> QED
        BY <2>3, <4>1, <4>2
    <3> QED
      BY <1>1, <3>1, <3>2
  <2> QED
    BY <1>7, <2>1, <2>2, <2>3
<1> QED
  BY <1>1, <1>3, <1>7, <1>8, <1>9 DEF M, k

LEMMA InsertionOrdered ==
  ASSUME NEW L \in Seq(Node), InOrder(L), NEW n \in Node, NEW p \in 0 .. Len(L),
         \A i \in 1 .. p : Before(L[i], n),
         \A i \in p + 1 .. Len(L) : Before(n, L[i])
  PROVE  InOrder(InsertedAt(L, p, n))
<1> DEFINE M == InsertedAt(L, p, n)
           k == Len(L)
<1>1. /\ Len(M) = k + 1 /\ k \in Nat
      /\ \A i \in 1 .. p : M[i] = L[i]
      /\ M[p + 1] = n
      /\ \A i \in p + 2 .. k + 1 : M[i] = L[i - 1]
  BY InsertedElements
<1>2. p \in Nat /\ p <= k
  BY <1>1
<1> HIDE DEF M, k
<1>3. ASSUME NEW i \in 1 .. k + 1, NEW j \in 1 .. k + 1, i < j
      PROVE  Before(M[i], M[j])
  <2>1. CASE i <= p /\ j <= p
    <3>1. i \in 1 .. Len(L) /\ j \in 1 .. Len(L) /\ M[i] = L[i] /\ M[j] = L[j]
      BY <1>1, <1>2, <2>1 DEF k
    <3> QED
      BY <1>3, <3>1 DEF InOrder
  <2>2. CASE i <= p /\ j = p + 1
    <3>1. i \in 1 .. p /\ M[i] = L[i] /\ M[j] = n
      BY <1>1, <1>2, <2>2
    <3> QED
      BY <3>1
  <2>3. CASE i <= p /\ j > p + 1
    <3>1. i \in 1 .. k /\ j - 1 \in 1 .. k /\ i < j - 1
          /\ M[i] = L[i] /\ M[j] = L[j - 1]
      BY <1>1, <1>2, <2>3
    <3> QED
      BY <3>1 DEF InOrder, k
  <2>4. CASE i = p + 1
    <3>1. j - 1 \in p + 1 .. k /\ M[i] = n /\ M[j] = L[j - 1]
      BY <1>1, <1>2, <1>3, <2>4
    <3> QED
      BY <3>1 DEF k
  <2>5. CASE i > p + 1
    <3>1. i - 1 \in 1 .. k /\ j - 1 \in 1 .. k /\ i - 1 < j - 1
          /\ M[i] = L[i - 1] /\ M[j] = L[j - 1]
      BY <1>1, <1>2, <1>3, <2>5
    <3> QED
      BY <3>1 DEF InOrder, k
  <2> QED
    BY <1>2, <2>1, <2>2, <2>3, <2>4, <2>5
<1> QED
  BY <1>1, <1>3 DEF InOrder, M

(* insert_help_node() puts a node that is not there yet at place p, whatever
   links it has.                                                           *)
LEMMA InsertionThreads ==
  ASSUME NEW nx \in [Node -> Addr], NEW pv \in [Node -> Addr], NEW h,
         NEW L \in Seq(Node), Threaded(L, h, nx, pv),
         NEW n \in Node, \A i \in 1 .. Len(L) : L[i] # n,
         NEW p \in 0 .. Len(L),
         NEW before, before = IF p = 0 THEN NULL ELSE L[p],
         NEW behind, behind = IF p = Len(L) THEN NULL ELSE L[p + 1],
         NEW nx2, nx2 = [x \in Node |-> IF x = n THEN behind
                                        ELSE IF x = before THEN n ELSE nx[x]],
         NEW pv2, pv2 = [x \in Node |-> IF x = n THEN before
                                        ELSE IF x = behind THEN n ELSE pv[x]],
         NEW h2, h2 = IF before = NULL THEN n ELSE h
  PROVE  /\ nx2 \in [Node -> Addr] /\ pv2 \in [Node -> Addr]
         /\ Threaded(InsertedAt(L, p, n), h2, nx2, pv2)
         /\ OthersClear(L, nx, pv) => OthersClear(InsertedAt(L, p, n), nx2, pv2)
<1> DEFINE M == InsertedAt(L, p, n)
           k == Len(L)
<1>1. /\ M \in Seq(Node) /\ Len(M) = k + 1 /\ k \in Nat /\ M # <<>>
      /\ \A i \in 1 .. p : M[i] = L[i]
      /\ M[p + 1] = n
      /\ \A i \in p + 2 .. k + 1 : M[i] = L[i - 1]
  BY InsertedElements
<1>2. p \in Nat /\ p <= k
  BY <1>1
<1>3. \A x : (\E i \in 1 .. Len(M) : M[i] = x) <=>
               (x = n \/ \E i \in 1 .. Len(L) : L[i] = x)
  BY InsertedElements
<1>4. \A i \in 1 .. k : L[i] \in Node /\ L[i] # NULL /\ L[i] # n
  BY ElementOfSeq, NodeAssumption
<1>5. n # NULL /\ NULL \in Addr /\ \A x \in Node : x \in Addr
  BY NodeAssumption DEF Addr
<1>6. /\ \A i, j \in 1 .. k : i # j => L[i] # L[j]
      /\ \A i \in 1 .. k : nx[L[i]] = IF i < k THEN L[i + 1] ELSE NULL
      /\ \A i \in 1 .. k : pv[L[i]] = IF i = 1 THEN NULL ELSE L[i - 1]
      /\ h = FirstOf(L)
  BY DEF Threaded, IsChain
<1>e. k = 0 <=> L = <<>>
  BY EmptySeq
<1>c. (p = 0 /\ before = NULL) \/ (p \in 1 .. k /\ before = L[p])
  BY <1>2
<1>d. (p = k /\ behind = NULL) \/ (p + 1 \in 1 .. k /\ behind = L[p + 1])
  BY <1>1, <1>2
<1> HIDE DEF M, k
<1>7. before \in Addr /\ behind \in Addr /\ before # n /\ behind # n
  BY <1>4, <1>5, <1>c, <1>d
<1>8. nx2 \in [Node -> Addr] /\ pv2 \in [Node -> Addr]
  BY <1>5, <1>7
<1>9. \A x \in Node : nx2[x] = IF x = n THEN behind ELSE IF x = before THEN n ELSE nx[x]
  OBVIOUS
<1>10. \A x \in Node : pv2[x] = IF x = n THEN before ELSE IF x = behind THEN n ELSE pv[x]
  OBVIOUS
<1>11. ASSUME NEW i \in 1 .. k + 1
       PROVE  /\ nx2[M[i]] = IF i < k + 1 THEN M[i + 1] ELSE NULL
              /\ pv2[M[i]] = IF i = 1 THEN NULL ELSE M[i - 1]
  <2>1. CASE i <= p
    <3>1. i \in 1 .. k /\ M[i] = L[i] /\ p \in 1 .. k /\ before = L[p] /\ i < k + 1
      BY <1>1, <1>2, <1>c, <2>1
    <3>2. nx2[L[i]] = IF L[i] = before THEN n ELSE nx[L[i]]
      BY <1>4, <1>9, <3>1
    <3>3. pv2[L[i]] = pv[L[i]]
      <4>1. L[i] # behind
        BY <1>2, <1>4, <1>6, <1>d, <2>1, <3>1
      <4> QED
        BY <1>4, <1>10, <3>1, <4>1
    <3>4. nx2[M[i]] = M[i + 1]
      <4>1. CASE i = p
        BY <1>1, <3>1, <3>2, <4>1
      <4>2. CASE i # p
        <5>1. i + 1 \in 1 .. p /\ i < k
          BY <1>1, <1>2, <2>1, <4>2
        <5>2. L[i] # L[p]
          BY <1>6, <3>1, <4>2
        <5> QED
          BY <1>1, <1>6, <3>1, <3>2, <5>1, <5>2
      <4> QED
        BY <4>1, <4>2
    <3>5. pv2[M[i]] = IF i = 1 THEN NULL ELSE M[i - 1]
      <4>1. i # 1 => i - 1 \in 1 .. p
        BY <1>2, <2>1
      <4> QED
        BY <1>1, <1>6, <3>1, <3>3, <4>1
    <3> QED
      BY <3>1, <3>4, <3>5
  <2>2. CASE i = p + 1
    <3>1. M[i] = n /\ nx2[n] = behind /\ pv2[n] = before
      BY <1>1, <1>9, <1>10, <2>2
    <3>2. behind = IF i < k + 1 THEN M[i + 1] ELSE NULL
      <4>1. CASE p = k
        BY <1>2, <1>d, <2>2, <4>1
      <4>2. CASE p # k
        <5>1. i + 1 \in p + 2 .. k + 1 /\ (i + 1) - 1 = p + 1 /\ i < k + 1
          BY <1>1, <1>2, <2>2, <4>2
        <5>2. M[i + 1] = L[p + 1]
          BY <1>1, <5>1
        <5> QED
          BY <1>d, <4>2, <5>1, <5>2
      <4> QED
        BY <4>1, <4>2
    <3>3. before = IF i = 1 THEN NULL ELSE M[i - 1]
      <4>1. i # 1 => i - 1 = p /\ p \in 1 .. p
        BY <1>2, <2>2
      <4>2. i = 1 => p = 0
        BY <1>2, <2>2
      <4> QED
        BY <1>1, <1>c, <4>1, <4>2
    <3> QED
      BY <3>1, <3>2, <3>3
  <2>3. CASE i > p + 1
    <3>1. i - 1 \in 1 .. k /\ i \in p + 2 .. k + 1 /\ M[i] = L[i - 1]
          /\ p + 1 \in 1 .. k /\ behind = L[p + 1]
      BY <1>1, <1>2, <1>d, <2>3
    <3>2. L[i - 1] # before
      BY <1>2, <1>4, <1>6, <1>c, <2>3, <3>1
    <3>3. nx2[M[i]] = nx[L[i - 1]]
      BY <1>4, <1>9, <3>1, <3>2
    <3>4. nx[L[i - 1]] = IF i < k + 1 THEN L[i] ELSE NULL
      <4>1. (i - 1) + 1 = i /\ (i - 1 < k <=> i < k + 1)
        BY <1>1
      <4> QED
        BY <1>6, <3>1, <4>1
    <3>5. i < k + 1 => M[i + 1] = L[i]
      <4>1. i < k + 1 => i + 1 \in p + 2 .. k + 1 /\ (i + 1) - 1 = i
        BY <1>1, <1>2, <2>3
      <4> QED
        BY <1>1, <4>1
    <3>6. pv2[M[i]] = M[i - 1]
      <4>1. CASE i = p + 2
        <5>1. i - 1 = p + 1
          BY <1>2, <4>1
        <5> QED
          BY <1>1, <1>4, <1>10, <3>1, <5>1
      <4>2. CASE i # p + 2
        <5>1. i - 1 \in p + 2 .. k + 1 /\ (i - 1) - 1 \in 1 .. k /\ i - 1 # 1 /\ i - 1 # p + 1
          BY <1>1, <1>2, <2>3, <4>2
        <5>2. M[i - 1] = L[(i - 1) - 1]
          BY <1>1, <5>1
        <5>3. L[i - 1] # behind
          BY <1>6, <3>1, <5>1
        <5>4. pv2[L[i - 1]] = pv[L[i - 1]]
          BY <1>4, <1>10, <3>1, <5>3
        <5> QED
          BY <1>6, <3>1, <5>1, <5>2, <5>4
      <4> QED
        BY <4>1, <4>2
    <3>7. i # 1
      BY <1>2, <2>3
    <3> QED
      BY <3>3, <3>4, <3>5, <3>6, <3>7
  <2> QED
    BY <1>2, <2>1, <2>2, <2>3
<1>12. ASSUME NEW i \in 1 .. k + 1, NEW j \in 1 .. k + 1, i < j
       PROVE  M[i] # M[j]
  <2>1. CASE j <= p
    <3>1. i \in 1 .. k /\ j \in 1 .. k /\ i # j /\ M[i] = L[i] /\ M[j] = L[j]
      BY <1>1, <1>2, <1>12, <2>1
    <3> QED
      BY <1>6, <3>1
  <2>2. CASE j = p + 1
    <3>1. i \in 1 .. k /\ M[i] = L[i] /\ M[j] = n
      BY <1>1, <1>2, <1>12, <2>2
    <3> QED
      BY <1>4, <3>1
  <2>3. CASE i <= p /\ j > p + 1
    <3>1. i \in 1 .. k /\ j - 1 \in 1 .. k /\ i # j - 1 /\ M[i] = L[i] /\ M[j] = L[j - 1]
      BY <1>1, <1>2, <2>3
    <3> QED
      BY <1>6, <3>1
  <2>4. CASE i = p + 1
    <3>1. j - 1 \in 1 .. k /\ M[i] = n /\ M[j] = L[j - 1]
      BY <1>1, <1>2, <1>12, <2>4
    <3> QED
      BY <1>4, <3>1
  <2>5. CASE i > p + 1
    <3>1. i - 1 \in 1 .. k /\ j - 1 \in 1 .. k /\ i - 1 # j - 1
          /\ M[i] = L[i - 1] /\ M[j] = L[j - 1]
      BY <1>1, <1>2, <1>12, <2>5
    <3> QED
      BY <1>6, <3>1
  <2> QED
    BY <1>2, <1>12, <2>1, <2>2, <2>3, <2>4, <2>5
<1>13. \A i, j \in 1 .. k + 1 : i # j => M[i] # M[j]
  <2> TAKE i, j \in 1 .. k + 1
  <2>1. i < j \/ j < i \/ i = j
    BY <1>1
  <2> QED
    BY <1>12, <2>1
<1>14. h2 = FirstOf(M)
  <2>1. FirstOf(M) = M[1]
    BY <1>1 DEF FirstOf
  <2>2. CASE p = 0
    BY <1>1, <1>c, <2>1, <2>2
  <2>3. CASE p # 0
    <3>1. before = L[p] /\ p \in 1 .. k /\ 1 \in 1 .. p /\ L # <<>>
      BY <1>2, <1>c, <1>e, <2>3
    <3>2. h2 = h /\ before # NULL
      BY <1>4, <3>1
    <3> QED
      BY <1>1, <1>6, <2>1, <3>1, <3>2 DEF FirstOf
  <2> QED
    BY <2>2, <2>3
<1>15. Threaded(M, h2, nx2, pv2)
  <2>1. IsChain(M, nx2)
    <3>1. M \in Seq(Node) /\ Len(M) = k + 1
      BY <1>1
    <3>2. \A i, j \in 1 .. Len(M) : i # j => M[i] # M[j]
      BY <1>13, <3>1
    <3>3. ASSUME NEW i \in 1 .. Len(M)
          PROVE  nx2[M[i]] = IF i < Len(M) THEN M[i + 1] ELSE NULL
      <4>1. i \in 1 .. k + 1
        BY <3>1
      <4>2. nx2[M[i]] = IF i < k + 1 THEN M[i + 1] ELSE NULL
        BY <1>11, <4>1
      <4> QED
        BY <3>1, <4>2, Zenon
    <3> QED
      BY <3>1, <3>2, <3>3, Zenon DEF IsChain
  <2>2. \A i \in 1 .. Len(M) : pv2[M[i]] = IF i = 1 THEN NULL ELSE M[i - 1]
    BY <1>1, <1>11
  <2> QED
    BY <1>14, <2>1, <2>2 DEF Threaded
<1>16. ASSUME OthersClear(L, nx, pv), NEW x \in Node, \A i \in 1 .. Len(M) : M[i] # x
       PROVE  nx2[x] = NULL /\ pv2[x] = NULL
  <2>1. x # n /\ \A i \in 1 .. k : L[i] # x
    BY <1>3, <1>16 DEF k
  <2>2. x # NULL
    BY NodeAssumption
  <2>3. x # before /\ x # behind
    BY <1>c, <1>d, <2>1, <2>2
  <2> QED
    BY <1>9, <1>10, <1>16, <2>1, <2>3 DEF OthersClear, k
<1> QED
  BY <1>8, <1>15, <1>16 DEF OthersClear, M

-----------------------------------------------------------------------------
(* The invariant of the main loop.                                         *)

Requests ==
  [req : {"none", "exec", "query", "auto_fill"}, cli_org : Seq(Char),
   root : Addr, cur : Addr, tokens : Seq(Seq(Char)), last : Seq(Char),
   set_no : BOOLEAN, set_default : BOOLEAN]

ParserTyped ==
  /\ mode \in Mode
  /\ pc \in {"idle", "parse", "collect", "done", "fault"}
  /\ cpi \in Requests /\ \A i \in 1 .. Len(cpi.tokens) : cpi.tokens[i] # <<>>
  /\ process_result \in BOOLEAN /\ leaked \in BOOLEAN
  /\ ran \in Addr /\ head \in Addr /\ walk \in Addr
  /\ help_prev \in [Node -> Addr] /\ help_next \in [Node -> Addr]

TokenCount(text) == Len(Split(text).tokens)

(* Where the parser is in the tree, what it has read of the array of tokens,
   and what Tab will put in the place of the command.                      *)
RequestSound ==
  /\ pc \in {"parse", "collect"} =>
       /\ cpi.cur \in InUse
       /\ cpi.req = "auto_fill" => cpi.last # <<>>
       /\ cpi.last # <<>> => TokenCount(cpi.cli_org) <= CLI_TOKEN_MAX_CNT
  /\ pc = "fault" => cpi.req # "exec" /\ TokenCount(cpi.cli_org) > CLI_TOKEN_MAX_CNT
  /\ cpi.req = "auto_fill" /\ output # <<>> => output[1] \in Seq(Char)

(* After k alternatives the candidates among them are threaded in order, and
   no other node is linked that was not before.                            *)
Collected(k, L) ==
  /\ walk = IF k < Len(Level(cpi.cur)) THEN Level(cpi.cur)[k + 1] ELSE NULL
  /\ L \in Seq(Node) /\ Threaded(L, head, help_next, help_prev) /\ InOrder(L)
  /\ \A x : (\E i \in 1 .. Len(L) : L[i] = x) <=>
              IsNodeHelp(x) /\ \E i \in 1 .. k : Level(cpi.cur)[i] = x
  /\ ~leaked => OthersClear(L, help_next, help_prev)

CandidatesSound ==
  /\ pc = "collect" => \E k \in 0 .. Len(Level(cpi.cur)), L \in Seq(Node) : Collected(k, L)
  /\ pc # "collect" /\ ~leaked => OthersClear(<<>>, help_next, help_prev)

(* The command line and the input, which is only read in autotest mode.    *)
TextSound ==
  /\ autotest \in BOOLEAN
  /\ cmd \in Seq(Char) /\ Len(cmd) <= IF autotest THEN CMD_MAX_LEN + 1 ELSE CMD_MAX_LEN
  /\ stdin \in Seq(Char)

(* Nothing is asked before the trees are built.                            *)
BuiltFirst == stage # "ready" => pc = "idle"

SessionInv ==
  /\ TreeInv /\ BuiltFirst
  /\ ParserTyped /\ RequestSound /\ CandidatesSound
  /\ TextSound

(* What a step that does not change the tree keeps of it.                  *)
LEMMA SameTree ==
  ASSUME TreeInv, UNCHANGED treeVars
  PROVE  /\ TreeInv' /\ InUse' = InUse
         /\ \A n : Level(n)' = Level(n)
<1>1. UNCHANGED <<acc, alter, root, example, stage, link, stack, buildin>>
  BY DEF treeVars
<1>2. TreeInv'
  BY TreeInvNext
<1>3. InUse' = InUse
  BY <1>1 DEF InUse
<1>4. \A n : Level(n)' = Level(n)
  BY <1>1 DEF Level, LevelIn, GetNextNode
<1> QED
  BY <1>2, <1>3, <1>4

LEMMA SessionInvInit == Init => SessionInv
<1> SUFFICES ASSUME Init
             PROVE  SessionInv
  OBVIOUS
<1>1. TreeInv
  BY TreeInvInit DEF Init
<1>2. pc = "idle" /\ output = <<>> /\ cpi = NoRequest /\ help_prev = NoLinks /\ help_next = NoLinks
  BY DEF Init, ParserInit
<1>3. ParserTyped
  <2>1. <<>> \in Seq(Char) /\ <<>> \in Seq(Seq(Char)) /\ Len(<<>>) = 0 /\ 1 .. 0 = {}
    OBVIOUS
  <2>2. cpi \in Requests /\ \A i \in 1 .. Len(cpi.tokens) : cpi.tokens[i] # <<>>
    BY <1>2, <2>1 DEF NoRequest, Requests, Addr
  <2> QED
    BY <2>2 DEF Init, ParserInit, ParserTyped, Mode, NoLinks, Addr
<1>4. RequestSound
  BY <1>2 DEF RequestSound, NoRequest
<1>5. CandidatesSound
  BY <1>2 DEF CandidatesSound, OthersClear, NoLinks
<1>6. TextSound
  <2>1. <<>> \in Seq(Char) /\ Len(<<>>) = 0
    OBVIOUS
  <2>2. stdin \in Seq(Char)
    BY <2>1, TextAssumption DEF Init
  <2> QED
    BY <2>1, <2>2, TextAssumption DEF Init, TextSound
<1>7. BuiltFirst
  BY <1>2 DEF BuiltFirst
<1> QED
  BY <1>1, <1>3, <1>4, <1>5, <1>6, <1>7 DEF SessionInv

(* Start-up steps change nothing but the tree.                             *)
LEMMA StartUpStep ==
  ASSUME SessionInv, StartUp
  PROVE  SessionInv'
<1>1. TreeNext /\ UNCHANGED <<mode, pc, cpi, output, process_result, ran, head, help_prev,
                              help_next, walk, leaked, cmd, autotest, stdin, running>>
  BY DEF StartUp, parserVars, links
<1>2. TreeInv'
  BY <1>1, TreeInvNext DEF SessionInv
<1>3. stage # "ready" /\ pc = "idle"
  <2>1. stage # "ready"
    <3>1. stack # <<>> => stage = "links"
      BY DEF SessionInv, TreeInv, MergesStatic
    <3> QED
      BY <1>1, <3>1 DEF TreeNext, InitCliMode, LinkRoot, LinkMerge, MergeReturns, MergeAdds,
                        MergeDescends, LinksDone, AddBuildinNodes, SkipBuildinNodes,
                        InitCliTreeReturns
  <2> QED
    BY <2>1 DEF SessionInv, BuiltFirst
<1>4. BuiltFirst' /\ ParserTyped' /\ TextSound'
  BY <1>1, <1>3 DEF SessionInv, BuiltFirst, ParserTyped, TextSound
<1>5. RequestSound'
  BY <1>1, <1>3 DEF SessionInv, RequestSound
<1>6. CandidatesSound'
  BY <1>1, <1>3 DEF SessionInv, CandidatesSound, OthersClear
<1> QED
  BY <1>2, <1>4, <1>5, <1>6 DEF SessionInv

-----------------------------------------------------------------------------
(* A request begins.                                                       *)

LEMMA InitialRequest ==
  ASSUME SessionInv, NEW req \in {"exec", "query", "auto_fill"}, NEW text \in Seq(Char),
         InitCliParserInfo(Asked(req, text))
  PROVE  /\ cpi' \in Requests /\ \A i \in 1 .. Len(cpi'.tokens) : cpi'.tokens[i] # <<>>
         /\ cpi'.req = req /\ cpi'.cli_org = text /\ cpi'.cur = RootOf(text)
         /\ RootOf(text) \in InUse \cup {NULL}
         /\ cpi'.last = IF TakesLast(Asked(req, text)) THEN Last(Split(text).tokens) ELSE <<>>
<1> DEFINE a == Asked(req, text)
           t == Split(text).tokens
           tk == IF TakesLast(a) THEN Front(t) ELSE t
           la == IF TakesLast(a) THEN Last(t) ELSE <<>>
<1>1. a.req = req /\ a.cli_org = text /\ a.split = Split(text)
  BY DEF Asked
<1>2. RootOf(text) \in InUse \cup {NULL} /\ RootOf(text) \in Addr
  <2>1. root[mode] \in InUse \cup {NULL} /\ root["exec"] \in InUse \cup {NULL}
    BY DEF SessionInv, ParserTyped, TreeInv, Wired, Mode
  <2> QED
    BY <2>1 DEF RootOf, InUse, Addr
<1>3. /\ tk \in Seq(Seq(Char)) /\ la \in Seq(Char)
      /\ \A i \in 1 .. Len(tk) : tk[i] # <<>>
  <2>1. CASE TakesLast(a)
    <3>1. t # <<>>
      BY <1>1, <2>1 DEF TakesLast
    <3>2. /\ Front(t) \in Seq(Seq(Char)) /\ Last(t) \in Seq(Char)
          /\ \A i \in 1 .. Len(Front(t)) : Front(t)[i] # <<>>
      BY <3>1, TakenTokens
    <3> QED
      BY <2>1, <3>2
  <2>2. CASE ~TakesLast(a)
    <3>1. t \in Seq(Seq(Char)) /\ \A i \in 1 .. Len(t) : t[i] # <<>>
      BY SplitShape
    <3>2. <<>> \in Seq(Char)
      OBVIOUS
    <3> QED
      BY <2>2, <3>1, <3>2
  <2> QED
    BY <2>1, <2>2
<1> HIDE DEF tk, la
<1>4. cpi' = [NoRequest EXCEPT !.req = req, !.cli_org = text, !.root = RootOf(text),
                               !.cur = RootOf(text), !.tokens = tk, !.last = la]
  BY <1>1 DEF InitCliParserInfo, tk, la
<1>5. cpi' = [req |-> req, cli_org |-> text, root |-> RootOf(text), cur |-> RootOf(text),
              tokens |-> tk, last |-> la, set_no |-> FALSE, set_default |-> FALSE]
  BY <1>4 DEF NoRequest
<1>6. cpi' \in Requests
  BY <1>2, <1>3, <1>5 DEF Requests
<1> QED
  BY <1>2, <1>3, <1>5, <1>6 DEF la

LEMMA RequestStep ==
  ASSUME SessionInv, UNCHANGED treeVars, stage = "ready", pc = "idle",
         NEW req \in {"exec", "query", "auto_fill"}, NEW text \in Seq(Char),
         Request(req, text)
  PROVE  BuiltFirst' /\ ParserTyped' /\ RequestSound' /\ CandidatesSound'
<1> DEFINE a == Asked(req, text)
           t == Split(text).tokens
<1>0. stage' = stage /\ InUse' = InUse
  BY SameTree DEF treeVars, SessionInv
<1>1. InitCliParserInfo(a)
  BY DEF Request, RequestIgnored, RequestInvalid, RequestFaults, RequestParses
<1>2. \/ RequestIgnored(a) \/ RequestInvalid(a)
      \/ RequestFaults(a) \/ RequestParses(a)
  BY DEF Request
<1>3. a.req = req /\ a.cli_org = text /\ a.split = Split(text)
  BY DEF Asked
<1>4. /\ cpi' \in Requests /\ \A i \in 1 .. Len(cpi'.tokens) : cpi'.tokens[i] # <<>>
      /\ cpi'.req = req /\ cpi'.cli_org = text /\ cpi'.cur = RootOf(text)
      /\ RootOf(text) \in InUse \cup {NULL}
      /\ cpi'.last = IF TakesLast(a) THEN Last(t) ELSE <<>>
  BY <1>1, InitialRequest
<1>5. /\ ran' = NULL /\ process_result' = FALSE
      /\ UNCHANGED <<mode, head, help_prev, help_next, walk, leaked>>
  BY <1>1 DEF InitCliParserInfo, links
<1>6. pc' \in {"done", "fault", "parse"}
  BY <1>2 DEF RequestIgnored, RequestInvalid, RequestFaults, RequestParses, Answer
<1> HIDE DEF a
<1>7. BuiltFirst' /\ ParserTyped'
  BY <1>0, <1>4, <1>5, <1>6 DEF SessionInv, BuiltFirst, ParserTyped, Addr
<1>8. CandidatesSound'
  BY <1>5, <1>6 DEF SessionInv, CandidatesSound, OthersClear
<1>9. RequestSound'
  <2>1. /\ t \in Seq(Seq(Char)) /\ Len(t) \in Nat
        /\ \A i \in 1 .. Len(t) : t[i] # <<>>
    BY SplitShape
  <2>2. TokenCount(cpi'.cli_org) = Len(t)
    BY <1>4 DEF TokenCount
  <2>3. CASE RequestIgnored(a) \/ RequestInvalid(a)
    <3>1. pc' = "done" /\ output' \in {<<>>, <<<<"Invalid command.">>>>, ParserErr("Invalid command.")}
      BY <2>3 DEF RequestIgnored, RequestInvalid, Answer
    <3>2. output' # <<>> => output'[1] \in Seq(Char)
      <4>1. <<<<"Invalid command.">>>>[1] = <<"Invalid command.">>
        OBVIOUS
      <4>2. ParserErr("Invalid command.")[1] = MarkFailToken
        BY DEF ParserErr
      <4> QED
        BY <3>1, <4>1, <4>2, AnswersAreText, Zenon
    <3> QED
      BY <3>1, <3>2 DEF RequestSound
  <2>4. CASE RequestFaults(a)
    <3>1. pc' = "fault" /\ output' = <<>> /\ LastTokenLost(a)
      BY <2>4 DEF RequestFaults
    <3>2. Len(t) > CLI_TOKEN_MAX_CNT /\ req # "exec"
      BY <1>3, <3>1 DEF LastTokenLost, TakesLast
    <3> QED
      BY <1>4, <2>2, <3>1, <3>2 DEF RequestSound
  <2>5. CASE RequestParses(a)
    <3>1. ~NothingAsked(a) /\ ~LastTokenLost(a) /\ output' = <<>>
      BY <2>5 DEF RequestParses, Answer
    <3>2. cpi'.cur \in InUse'
      BY <1>0, <1>3, <1>4, <3>1 DEF NothingAsked
    <3>3. req = "auto_fill" => cpi'.last # <<>>
      <4>1. req = "auto_fill" => t # <<>> /\ TakesLast(a)
        BY <1>3, <3>1 DEF NothingAsked, TakesLast
      <4>2. t # <<>> => Last(t) # <<>>
        BY TakenTokens
      <4> QED
        BY <1>4, <4>1, <4>2
    <3>4. cpi'.last # <<>> => Len(t) <= CLI_TOKEN_MAX_CNT
      BY <1>3, <1>4, <2>1, <3>1, TokenAssumption DEF LastTokenLost
    <3>5. pc' # "fault"
      BY <2>5 DEF RequestParses, Answer
    <3> QED
      BY <1>4, <2>2, <3>1, <3>2, <3>3, <3>4, <3>5 DEF RequestSound
  <2> QED
    BY <1>2, <2>3, <2>4, <2>5
<1> QED
  BY <1>7, <1>8, <1>9

-----------------------------------------------------------------------------
(* A request goes on.                                                      *)

(* parse_cli() refuses a token, or exec_cli() the command.                 *)
LEMMA RefusalSteps ==
  ASSUME SessionInv, UNCHANGED treeVars, stage = "ready",
         TokenFails \/ ParamFails \/ ExecIncomplete
  PROVE  BuiltFirst' /\ ParserTyped' /\ RequestSound' /\ CandidatesSound'
<1>1. /\ UNCHANGED <<mode, cpi, process_result, ran, head, help_prev, help_next, walk, leaked>>
      /\ pc = "parse" /\ pc' = "done" /\ stage' = "ready"
  BY DEF TokenFails, ParamFails, ExecIncomplete, Answer, links, treeVars
<1>2. cpi.req = "auto_fill" => output'[1] = MarkFailToken
  <2> SUFFICES ASSUME cpi.req = "auto_fill"
               PROVE  output'[1] = MarkFailToken
    OBVIOUS
  <2>1. \A m : ParserErr(m)[1] = MarkFailToken
    BY DEF ParserErr
  <2>2. \E m : output' = ParserErr(m)
    BY DEF TokenFails, ParamFails, ExecIncomplete, Answer
  <2> QED
    BY <2>1, <2>2
<1>3. BuiltFirst' /\ ParserTyped'
  BY <1>1 DEF SessionInv, BuiltFirst, ParserTyped
<1>4. RequestSound'
  BY <1>1, <1>2, AnswersAreText DEF RequestSound
<1>5. CandidatesSound'
  BY <1>1 DEF SessionInv, CandidatesSound, OthersClear
<1> QED
  BY <1>3, <1>4, <1>5

LEMMA TokenMatchesStep ==
  ASSUME SessionInv, UNCHANGED treeVars, stage = "ready", TokenMatches
  PROVE  BuiltFirst' /\ ParserTyped' /\ RequestSound' /\ CandidatesSound'
<1> DEFINE m == GetMatchNode(cpi.cur, Head(cpi.tokens)).node
           no == cpi.set_no \/ Type[m] = "NO"
           de == cpi.set_default \/ Type[m] = "DEFAULT"
<1>1. /\ UNCHANGED <<mode, pc, output, process_result, ran, head, help_prev, help_next,
                     walk, leaked>>
      /\ pc = "parse" /\ cpi.tokens # <<>> /\ m # NULL
      /\ cpi' = [cpi EXCEPT !.cur = acc[m], !.tokens = Tail(@), !.set_no = no,
                            !.set_default = de]
      /\ stage' = "ready"
  BY DEF TokenMatches, links, treeVars
<1>2. TreeInv /\ cpi.cur \in InUse /\ InUse' = InUse
  BY <1>1, SameTree DEF SessionInv, RequestSound
<1>3. acc[m] \in InUse
  BY <1>1, <1>2, MatchFound
<1>4. /\ cpi \in Requests /\ cpi.tokens \in Seq(Seq(Char))
      /\ \A i \in 1 .. Len(cpi.tokens) : cpi.tokens[i] # <<>>
  BY DEF SessionInv, ParserTyped, Requests
<1> HIDE DEF m
<1>5. /\ Tail(cpi.tokens) \in Seq(Seq(Char))
      /\ \A i \in 1 .. Len(Tail(cpi.tokens)) : Tail(cpi.tokens)[i] # <<>>
  <2> DEFINE t == cpi.tokens
             S == Seq(Char)
  <2>1. t \in Seq(S) /\ t # <<>> /\ \A i \in 1 .. Len(t) : t[i] # <<>>
    BY <1>1, <1>4
  <2> HIDE DEF t, S
  <2>2. /\ Tail(t) \in Seq(S) /\ Len(Tail(t)) = Len(t) - 1
        /\ \A i \in 1 .. Len(Tail(t)) : Tail(t)[i] = t[i + 1]
    BY <2>1, HeadTailProperties
  <2>3. Len(t) \in Nat
    BY <2>1, LenProperties
  <2>4. \A i \in 1 .. Len(Tail(t)) : i + 1 \in 1 .. Len(t)
    BY <2>2, <2>3
  <2>5. \A i \in 1 .. Len(Tail(t)) : Tail(t)[i] # <<>>
    BY <2>1, <2>2, <2>4
  <2> QED
    BY <2>2, <2>5 DEF t, S
<1>6. acc[m] \in Addr /\ no \in BOOLEAN /\ de \in BOOLEAN
  BY <1>3, <1>4 DEF InUse, Addr, Requests
<1> HIDE DEF no, de
<1>7. cpi' \in Requests /\ cpi'.tokens = Tail(cpi.tokens) /\ cpi'.cur = acc[m]
      /\ cpi'.req = cpi.req /\ cpi'.last = cpi.last /\ cpi'.cli_org = cpi.cli_org
  BY <1>1, <1>4, <1>5, <1>6 DEF Requests
<1>8. BuiltFirst' /\ ParserTyped'
  BY <1>1, <1>5, <1>7 DEF SessionInv, BuiltFirst, ParserTyped
<1>9. RequestSound'
  BY <1>1, <1>2, <1>3, <1>7 DEF SessionInv, RequestSound, TokenCount
<1>10. CandidatesSound'
  BY <1>1 DEF SessionInv, CandidatesSound, OthersClear
<1> QED
  BY <1>8, <1>9, <1>10

LEMMA ExecCliStep ==
  ASSUME SessionInv, UNCHANGED treeVars, stage = "ready", ExecCli
  PROVE  BuiltFirst' /\ ParserTyped' /\ RequestSound' /\ CandidatesSound'
<1> DEFINE n == EndNode(cpi.cur)
<1>1. /\ UNCHANGED <<cpi, head, help_prev, help_next, walk, leaked>>
      /\ pc = "parse" /\ pc' = "done" /\ output' = <<>> /\ stage' = "ready"
      /\ n # NULL /\ ran' = n /\ process_result' = Quits(n)
      /\ mode' = IF EntersSubmode(n) THEN Def[n].submode ELSE HandlerMode(n)
  BY DEF ExecCli, Answer, links, treeVars
<1>2. n \in Node
  <2>1. cpi.cur \in Node
    BY <1>1 DEF SessionInv, RequestSound, InUse
  <2> QED
    BY <1>1, <2>1, EndNodeTyped DEF SessionInv, Addr
<1> HIDE DEF n
<1>3. mode' \in Mode
  <2>1. EntersSubmode(n) => Def[n].submode \in Mode
    <3>1. PICK x \in Static : Def[n] = StaticNode[x]
      BY <1>2, DeclaredAs
    <3> QED
      BY <3>1, NodeAssumption DEF EntersSubmode, Static
  <2>2. HandlerMode(n) \in Mode
    <3>1. mode \in Mode
      BY DEF SessionInv, ParserTyped
    <3>2. ReturnUpper(mode) \in Mode
      BY <3>1 DEF ReturnUpper, ParentMode, Mode
    <3> QED
      BY <3>1, <3>2 DEF HandlerMode, Mode
  <2> QED
    BY <1>1, <2>1, <2>2
<1>4. process_result' \in BOOLEAN
  BY <1>1 DEF Quits
<1>5. BuiltFirst' /\ ParserTyped'
  BY <1>1, <1>2, <1>3, <1>4 DEF SessionInv, BuiltFirst, ParserTyped, Addr
<1>6. RequestSound'
  BY <1>1 DEF RequestSound
<1>7. CandidatesSound'
  BY <1>1 DEF SessionInv, CandidatesSound, OthersClear
<1> QED
  BY <1>5, <1>6, <1>7

LEMMA StartCollectStep ==
  ASSUME SessionInv, UNCHANGED treeVars, stage = "ready", StartCollect
  PROVE  BuiltFirst' /\ ParserTyped' /\ RequestSound' /\ CandidatesSound'
<1>1. /\ UNCHANGED <<mode, cpi, output, process_result, ran, help_prev, help_next, leaked>>
      /\ pc = "parse" /\ pc' = "collect" /\ stage' = "ready"
      /\ walk' = cpi.cur /\ head' = NULL
  BY DEF StartCollect, treeVars
<1>2. /\ cpi.cur \in InUse /\ cpi.cur \in Node /\ InUse' = InUse /\ TreeInv
      /\ \A n : Level(n)' = Level(n)
  BY <1>1, SameTree DEF SessionInv, RequestSound, InUse
<1>3. BuiltFirst' /\ ParserTyped'
  BY <1>1, <1>2 DEF SessionInv, BuiltFirst, ParserTyped, Addr
<1>4. RequestSound'
  BY <1>1, <1>2 DEF SessionInv, RequestSound, TokenCount
<1>5. CandidatesSound'
  <2> DEFINE none == <<>>
  <2>1. none \in Seq(Node) /\ Len(none) = 0 /\ none = <<>>
    OBVIOUS
  <2> HIDE DEF none
  <2>2. Threaded(none, head', help_next', help_prev') /\ InOrder(none)
    BY <1>1, <2>1 DEF Threaded, IsChain, FirstOf, InOrder
  <2>3. ~leaked => OthersClear(none, help_next', help_prev')
    BY <1>1, <2>1 DEF SessionInv, CandidatesSound
  <2>4. /\ Len(Level(cpi.cur)) \in Nat /\ Len(Level(cpi.cur)) >= 1
        /\ Level(cpi.cur)[1] = cpi.cur
    BY <1>2, LevelPlaces
  <2>5. Level(cpi.cur)' = Level(cpi.cur)
    BY <1>1, <1>2
  <2>6. Collected(0, none)'
    <3>1. walk' = IF 0 < Len(Level(cpi.cur))' THEN Level(cpi.cur)'[0 + 1] ELSE NULL
      BY <1>1, <2>4, <2>5
    <3>2. \A x : (\E i \in 1 .. Len(none) : none[i] = x) <=>
                   IsNodeHelp(x)' /\ \E i \in 1 .. 0 : Level(cpi.cur)'[i] = x
      BY <2>1
    <3>3. InOrder(none)'
      BY <2>1 DEF InOrder
    <3> QED
      BY <1>1, <2>1, <2>2, <2>3, <3>1, <3>2, <3>3 DEF Collected
  <2>7. 0 \in 0 .. Len(Level(cpi.cur))'
    BY <2>4, <2>5
  <2> QED
    BY <1>1, <2>1, <2>6, <2>7 DEF CandidatesSound
<1> QED
  BY <1>3, <1>4, <1>5

-----------------------------------------------------------------------------
(* Candidates are collected.                                               *)

LEMMA CollectedFacts ==
  ASSUME SessionInv, pc = "collect", NEW k \in 0 .. Len(Level(cpi.cur)),
         NEW L \in Seq(Node), Collected(k, L)
  PROVE  /\ HelpList = L /\ head = FirstOf(L)
         /\ \A i \in 1 .. Len(L) : L[i] \in Node /\ IsNodeHelp(L[i])
         /\ k < Len(Level(cpi.cur)) =>
              \A i \in 1 .. Len(L) : Type[L[i]] \notin EndType /\ L[i] # Level(cpi.cur)[k + 1]
<1> DEFINE s == Level(cpi.cur)
<1>1. cpi.cur \in Node /\ TreeInv /\ help_next \in [Node -> Addr]
  BY DEF SessionInv, RequestSound, InUse, ParserTyped
<1>2. /\ Len(s) \in Nat
      /\ \A i, j \in 1 .. Len(s) : i # j => s[i] # s[j]
      /\ \A i \in 1 .. Len(s) : i < Len(s) => Type[s[i]] \notin EndType
  BY <1>1, LevelPlaces
<1> HIDE DEF s
<1>3. IsChain(L, help_next) /\ head = FirstOf(L)
  BY DEF Collected, Threaded
<1>4. HelpList = L
  BY <1>1, <1>3, ChainIsList DEF HelpList
<1>5. \A i \in 1 .. Len(L) : L[i] \in Node
  BY ElementOfSeq
<1>6. ASSUME NEW i \in 1 .. Len(L)
      PROVE  IsNodeHelp(L[i]) /\ \E j \in 1 .. k : s[j] = L[i]
  BY DEF Collected, s
<1>7. ASSUME k < Len(s), NEW i \in 1 .. Len(L)
      PROVE  Type[L[i]] \notin EndType /\ L[i] # s[k + 1]
  <2>1. PICK j \in 1 .. k : s[j] = L[i]
    BY <1>6
  <2>2. j \in 1 .. Len(s) /\ k + 1 \in 1 .. Len(s) /\ j # k + 1 /\ j < Len(s)
    BY <1>2, <1>7
  <2> QED
    BY <1>2, <2>1, <2>2
<1> QED
  BY <1>3, <1>4, <1>5, <1>6, <1>7 DEF s

LEMMA CollectStep ==
  ASSUME SessionInv, UNCHANGED treeVars, stage = "ready", CollectHelpNode
  PROVE  BuiltFirst' /\ ParserTyped' /\ RequestSound' /\ CandidatesSound'
<1> DEFINE s == Level(cpi.cur)
           n == walk
<1>1. /\ UNCHANGED <<mode, cpi, pc, output, process_result, ran, leaked>>
      /\ pc = "collect" /\ n # NULL /\ stage' = "ready"
      /\ walk' = GetNextNode(alter, n)
      /\ IF IsNodeHelp(n)
         THEN InsertHelpNode(n, CandidateAt(PlaceOf(n)), CandidateAt(PlaceOf(n) + 1))
         ELSE UNCHANGED <<head, help_prev, help_next>>
  BY DEF CollectHelpNode, InsertCandidate, treeVars
<1>2. PICK k \in 0 .. Len(s), L \in Seq(Node) : Collected(k, L)
  BY <1>1 DEF SessionInv, CandidatesSound
<1>3. /\ cpi.cur \in Node /\ cpi.cur \in InUse /\ InUse' = InUse /\ TreeInv
      /\ \A x : Level(x)' = Level(x)
  BY <1>1, SameTree DEF SessionInv, RequestSound, InUse
<1>4. /\ Len(s) \in Nat
      /\ \A i \in 1 .. Len(s) :
           /\ s[i] \in Node
           /\ GetNextNode(alter, s[i]) = IF i < Len(s) THEN s[i + 1] ELSE NULL
  BY <1>3, LevelPlaces
<1>5. s' = s
  BY <1>1, <1>3
<1>6. k < Len(s) /\ n = s[k + 1] /\ k + 1 \in 1 .. Len(s) /\ n \in Node /\ k \in Nat
  <2>1. k < Len(s)
    BY <1>1, <1>2, <1>4 DEF Collected
  <2> QED
    BY <1>2, <1>4, <2>1 DEF Collected
<1>7. walk' = IF k + 1 < Len(s) THEN s[(k + 1) + 1] ELSE NULL
  BY <1>1, <1>4, <1>6
<1>8. /\ HelpList = L /\ \A i \in 1 .. Len(L) : L[i] \in Node /\ IsNodeHelp(L[i])
      /\ \A i \in 1 .. Len(L) : Type[L[i]] \notin EndType /\ L[i] # n
  BY <1>1, <1>2, <1>6, CollectedFacts
<1> DEFINE Kept(M) ==
             /\ M \in Seq(Node) /\ Threaded(M, head', help_next', help_prev') /\ InOrder(M)
             /\ \A x : (\E i \in 1 .. Len(M) : M[i] = x) <=>
                         IsNodeHelp(x) /\ \E i \in 1 .. k + 1 : s[i] = x
             /\ ~leaked => OthersClear(M, help_next', help_prev')
<1>9. \A x : (\E i \in 1 .. k + 1 : s[i] = x) <=> (x = n \/ \E i \in 1 .. k : s[i] = x)
  BY <1>6
<1>10. \A x : (\E i \in 1 .. Len(L) : L[i] = x) <=>
                IsNodeHelp(x) /\ \E i \in 1 .. k : s[i] = x
  BY <1>2 DEF Collected
<1>11. /\ Threaded(L, head, help_next, help_prev) /\ InOrder(L)
       /\ ~leaked => OthersClear(L, help_next, help_prev)
  BY <1>2 DEF Collected
<1>12. help_next \in [Node -> Addr] /\ help_prev \in [Node -> Addr] /\ head \in Addr
  BY DEF SessionInv, ParserTyped
<1> HIDE DEF s, n
<1>13. /\ head' \in Addr /\ help_next' \in [Node -> Addr] /\ help_prev' \in [Node -> Addr]
       /\ \E M \in Seq(Node) : Kept(M)
  <2>1. CASE IsNodeHelp(n)
    <3> DEFINE p == PlaceOf(n)
               before == CandidateAt(p)
               behind == CandidateAt(p + 1)
               M == InsertedAt(L, p, n)
    <3>1. /\ p \in 0 .. Len(L)
          /\ \A i \in 1 .. p : Before(L[i], n)
          /\ \A i \in p + 1 .. Len(L) : Before(n, L[i])
      <4>1. Type[n] # "DEAD" /\ \A i \in 1 .. Len(L) : Type[L[i]] # "DEAD" /\ Type[L[i]] # "END"
        BY <1>8, <2>1 DEF IsNodeHelp, EndType
      <4> QED
        BY <1>6, <1>8, <1>11, <4>1, PlaceSound
    <3> HIDE DEF p
    <3>2. DOMAIN L = 1 .. Len(L) /\ Len(L) \in Nat /\ p \in Nat /\ p <= Len(L)
      <4>1. DOMAIN L = 1 .. Len(L) /\ Len(L) \in Nat
        BY LenProperties
      <4> QED
        BY <3>1, <4>1
    <3>3. before = IF p = 0 THEN NULL ELSE L[p]
      BY <1>8, <3>2 DEF CandidateAt
    <3>4. behind = IF p = Len(L) THEN NULL ELSE L[p + 1]
      <4>0. \A a, b \in Nat : a <= b => (a + 1 \in 1 .. b <=> a # b)
        OBVIOUS
      <4>1. p + 1 \in DOMAIN L <=> p # Len(L)
        BY <3>2, <4>0, Zenon
      <4> QED
        BY <1>8, <4>1 DEF CandidateAt
    <3>5. /\ help_prev' = [x \in Node |-> IF x = n THEN before
                                          ELSE IF x = behind THEN n ELSE help_prev[x]]
          /\ help_next' = [x \in Node |-> IF x = n THEN behind
                                          ELSE IF x = before THEN n ELSE help_next[x]]
          /\ head' = IF before = NULL THEN n ELSE head
      BY <1>1, <2>1 DEF InsertHelpNode, n, p
    <3> HIDE DEF before, behind
    <3>6. /\ help_next' \in [Node -> Addr] /\ help_prev' \in [Node -> Addr]
          /\ Threaded(M, head', help_next', help_prev')
          /\ OthersClear(L, help_next, help_prev) => OthersClear(M, help_next', help_prev')
      <4>1. n \in Node /\ (\A i \in 1 .. Len(L) : L[i] # n) /\ p \in 0 .. Len(L)
            /\ Threaded(L, head, help_next, help_prev)
        BY <1>6, <1>8, <1>11, <3>1
      <4> HIDE DEF M
      <4> QED
        BY <1>12, <3>3, <3>4, <3>5, <4>1, InsertionThreads, SMTT(60) DEF M
    <3>7. /\ M \in Seq(Node)
          /\ \A x : (\E i \in 1 .. Len(M) : M[i] = x) <=>
                      (x = n \/ \E i \in 1 .. Len(L) : L[i] = x)
      BY <1>6, <3>1, InsertedElements
    <3>8. InOrder(M)
      BY <1>6, <1>11, <3>1, InsertionOrdered
    <3> HIDE DEF M
    <3>9. Kept(M)
      BY <1>9, <1>10, <1>11, <2>1, <3>6, <3>7, <3>8
    <3>10. head' \in Addr
      BY <1>6, <1>12, <3>5 DEF Addr
    <3> HIDE DEF Kept
    <3> QED
      BY <3>6, <3>7, <3>9, <3>10
  <2>2. CASE ~IsNodeHelp(n)
    <3>1. UNCHANGED <<head, help_prev, help_next>>
      BY <1>1, <2>2 DEF n
    <3>2. Kept(L)
      BY <1>9, <1>10, <1>11, <2>2, <3>1
    <3> HIDE DEF Kept
    <3> QED
      BY <1>12, <3>1, <3>2
  <2> QED
    BY <2>1, <2>2
<1>14. walk' \in Addr
  <2>1. k + 1 < Len(s) => (k + 1) + 1 \in 1 .. Len(s)
    BY <1>4, <1>6
  <2> QED
    BY <1>4, <1>7, <2>1 DEF Addr
<1>15. BuiltFirst' /\ ParserTyped'
  BY <1>1, <1>13, <1>14 DEF SessionInv, BuiltFirst, ParserTyped
<1>16. RequestSound'
  BY <1>1, <1>3 DEF SessionInv, RequestSound, TokenCount
<1>17. CandidatesSound'
  <2>1. PICK M \in Seq(Node) : Kept(M)
    BY <1>13
  <2>2. \A x : IsNodeHelp(x)' <=> IsNodeHelp(x)
    BY <1>1 DEF IsNodeHelp, Matches
  <2>3. Collected(k + 1, M)'
    <3>1. walk' = IF k + 1 < Len(s') THEN s'[(k + 1) + 1] ELSE NULL
      BY <1>5, <1>7
    <3>2. /\ M \in Seq(Node) /\ Threaded(M, head', help_next', help_prev') /\ InOrder(M)
          /\ \A x : (\E i \in 1 .. Len(M) : M[i] = x) <=>
                      IsNodeHelp(x)' /\ \E i \in 1 .. k + 1 : s'[i] = x
          /\ ~leaked' => OthersClear(M, help_next', help_prev')
      BY <1>1, <1>5, <2>1, <2>2
    <3> HIDE DEF Kept
    <3> QED
      BY <3>1, <3>2 DEF Collected, s, Threaded, IsChain, InOrder, Before, OthersClear
  <2>4. k + 1 \in 0 .. Len(s')
    BY <1>4, <1>5, <1>6
  <2> HIDE DEF Kept
  <2> QED
    BY <1>1, <2>1, <2>3, <2>4 DEF CandidatesSound, s
<1> QED
  BY <1>15, <1>16, <1>17

-----------------------------------------------------------------------------
(* An answer is given.                                                     *)

LEMMA LongestIsText ==
  ASSUME NEW S, S \subseteq Seq(Char), S # {}
  PROVE  /\ LongestCommonPrefix(S) \in Seq(Char)
         /\ LongestCommonPrefix(S) \in CommonPrefixes(S)
         /\ \A q \in CommonPrefixes(S) : Len(q) <= Len(LongestCommonPrefix(S))
<1> DEFINE C == CommonPrefixes(S)
           lens == {Len(p) : p \in C}
<1>1. ASSUME NEW p \in C
      PROVE  p \in Seq(Char) /\ Len(p) \in Nat /\ \A t \in S : Len(p) <= Len(t)
  <2>1. PICK t \in S : \E l \in 0 .. Len(t) : p = SubSeq(t, 1, l)
    BY DEF CommonPrefixes, Prefixes
  <2>2. t \in Seq(Char) /\ Len(t) \in Nat
    BY LenProperties
  <2>3. p \in Seq(Char)
    BY <2>1, <2>2, SubSeqProperties
  <2>4. \A u \in S : Len(p) <= Len(u)
    BY DEF CommonPrefixes, IsPrefix
  <2> QED
    BY <2>3, <2>4, LenProperties
<1>2. PICK w \in S : w \in Seq(Char) /\ Len(w) \in Nat
  BY LenProperties
<1>3. C # {}
  <2>1. \A t \in Seq(Char) : SubSeq(t, 1, 0) = <<>>
    OBVIOUS
  <2>2. <<>> = SubSeq(w, 1, 0) /\ 0 \in 0 .. Len(w)
    BY <1>2, <2>1
  <2>3. SubSeq(<<>>, 1, 0) = <<>> /\ Len(<<>>) = 0
    OBVIOUS
  <2>4. \A t \in S : IsPrefix(<<>>, t)
    <3> TAKE t \in S
    <3>1. 0 <= Len(t)
      BY LenProperties
    <3> QED
      BY <2>1, <2>3, <3>1 DEF IsPrefix
  <2>5. <<>> \in C
    BY <2>2, <2>4 DEF CommonPrefixes, Prefixes
  <2> QED
    BY <2>5
<1>4. LongestCommonPrefix(S) = CHOOSE p \in C : \A q \in C : Len(q) <= Len(p)
  BY DEF LongestCommonPrefix
<1> HIDE DEF C
<1>5. \E p \in C : \A q \in C : Len(q) <= Len(p)
  <2>1. lens \subseteq Nat /\ lens # {} /\ \A x \in lens : x <= Len(w)
    BY <1>1, <1>3
  <2>2. Max(lens) \in lens /\ \A x \in lens : x <= Max(lens)
    <3> HIDE DEF lens
    <3> QED
      BY <1>2, <2>1, GreatestNat
  <2> QED
    BY <2>2
<1>6. /\ LongestCommonPrefix(S) \in C
      /\ \A q \in C : Len(q) <= Len(LongestCommonPrefix(S))
  BY <1>4, <1>5
<1> QED
  BY <1>1, <1>6 DEF C

LEMMA FilledIsText ==
  ASSUME SessionInv, NEW word \in Seq(Char)
  PROVE  Filled(word) \in Seq(Char)
<1> DEFINE text == cpi.cli_org
           I == {i \in 1 .. Len(text) : text[i] = Blank}
           k == SelectLastInSeq(text, LAMBDA c : c = Blank)
<1>1. text \in Seq(Char) /\ Len(text) \in Nat
  BY LenProperties DEF SessionInv, ParserTyped, Requests
<1>2. k = IF I # {} THEN Max(I) ELSE 0
  BY DEF SelectLastInSeq
<1>3. I \subseteq 1 .. Len(text)
  OBVIOUS
<1>4. Filled(word) = SubSeq(text, 1, k) \o word
  BY DEF Filled
<1> HIDE DEF text, I, k
<1>5. k \in 0 .. Len(text)
  <2>1. I # {} => Max(I) \in I
    BY <1>1, <1>3, GreatestOf
  <2>2. \A i \in 1 .. Len(text) : i \in 0 .. Len(text)
    BY <1>1
  <2>3. 0 \in 0 .. Len(text)
    BY <1>1
  <2> QED
    BY <1>2, <1>3, <2>1, <2>2, <2>3, Zenon
<1>6. SubSeq(text, 1, k) \in Seq(Char)
  BY <1>1, <1>5, SubSeqProperties
<1> QED
  BY <1>4, <1>6, ConcatProperties

(* When the whole level was looked at, the list of candidates is empty only
   if there are none; those of a completion are words.                     *)
LEMMA CandidateFacts ==
  ASSUME SessionInv, pc = "collect"
  PROVE  \E L \in Seq(Node) :
           /\ HelpList = L /\ head = FirstOf(L)
           /\ Threaded(L, head, help_next, help_prev)
           /\ ~leaked => OthersClear(L, help_next, help_prev)
           /\ cpi.req = "auto_fill" => \A i \in 1 .. Len(L) : Keyword(L[i]) \in Seq(Char)
<1>1. PICK k \in 0 .. Len(Level(cpi.cur)), L \in Seq(Node) : Collected(k, L)
  BY DEF SessionInv, CandidatesSound
<1>2. /\ HelpList = L /\ head = FirstOf(L)
      /\ \A i \in 1 .. Len(L) : L[i] \in Node /\ IsNodeHelp(L[i])
  BY <1>1, CollectedFacts
<1>3. ASSUME cpi.req = "auto_fill", NEW i \in 1 .. Len(L)
      PROVE  Keyword(L[i]) \in Seq(Char)
  <2>1. cpi.last # <<>>
    BY <1>3 DEF SessionInv, RequestSound
  <2>2. Type[L[i]] \in KeywordType /\ L[i] \in Node
    BY <1>2, <2>1 DEF IsNodeHelp, Matches
  <2>3. Type[L[i]] \notin EndType
    BY <2>2 DEF KeywordType, EndType
  <2> QED
    BY <2>2, <2>3, WordsRanked
<1> QED
  BY <1>1, <1>2, <1>3 DEF Collected

(* clean_help_node_list() clears the links of all that is listed.          *)
LEMMA CleaningClears ==
  ASSUME SessionInv, pc = "collect", CleanHelpNodeList
  PROVE  /\ help_prev' \in [Node -> Addr] /\ help_next' \in [Node -> Addr] /\ head' = NULL
         /\ ~leaked => OthersClear(<<>>, help_next', help_prev')
<1>1. PICK L \in Seq(Node) : HelpList = L /\ (~leaked => OthersClear(L, help_next, help_prev))
  BY CandidateFacts
<1>2. ToSet(L) = {L[i] : i \in 1 .. Len(L)}
  <2>1. DOMAIN L = 1 .. Len(L)
    BY LenProperties
  <2> QED
    BY <2>1 DEF ToSet
<1>3. /\ help_prev' = [x \in Node |-> IF x \in ToSet(L) THEN NULL ELSE help_prev[x]]
      /\ help_next' = [x \in Node |-> IF x \in ToSet(L) THEN NULL ELSE help_next[x]]
      /\ head' = NULL
  BY <1>1 DEF CleanHelpNodeList
<1>4. help_prev \in [Node -> Addr] /\ help_next \in [Node -> Addr] /\ NULL \in Addr
  BY DEF SessionInv, ParserTyped, Addr
<1>5. ASSUME ~leaked, NEW x \in Node
      PROVE  help_next'[x] = NULL /\ help_prev'[x] = NULL
  BY <1>1, <1>2, <1>3, <1>5 DEF OthersClear
<1> QED
  BY <1>3, <1>4, <1>5 DEF OthersClear

LEMMA NoCandidateStep ==
  ASSUME SessionInv, UNCHANGED treeVars, stage = "ready", NoCandidate
  PROVE  BuiltFirst' /\ ParserTyped' /\ RequestSound' /\ CandidatesSound'
<1>1. /\ UNCHANGED <<mode, cpi, process_result, ran, head, help_prev, help_next, walk, leaked>>
      /\ pc = "collect" /\ head = NULL /\ pc' = "done" /\ output' = <<>> /\ stage' = "ready"
  BY DEF NoCandidate, Answer, links, treeVars
<1>2. PICK L \in Seq(Node) : /\ head = FirstOf(L)
                             /\ ~leaked => OthersClear(L, help_next, help_prev)
  BY <1>1, CandidateFacts
<1>3. L = <<>>
  <2> SUFFICES ASSUME L # <<>>
               PROVE  FALSE
    OBVIOUS
  <2>1. 1 \in 1 .. Len(L)
    BY EmptySeq
  <2>2. L[1] \in Node
    BY <2>1, ElementOfSeq
  <2> QED
    BY <1>1, <1>2, <2>2, NodeAssumption DEF FirstOf
<1>4. BuiltFirst' /\ ParserTyped'
  BY <1>1 DEF SessionInv, BuiltFirst, ParserTyped
<1>5. RequestSound'
  BY <1>1 DEF RequestSound
<1>6. CandidatesSound'
  BY <1>1, <1>2, <1>3 DEF CandidatesSound, OthersClear
<1> QED
  BY <1>4, <1>5, <1>6

LEMMA PrintHelpStep ==
  ASSUME SessionInv, UNCHANGED treeVars, stage = "ready", PrintHelp
  PROVE  BuiltFirst' /\ ParserTyped' /\ RequestSound' /\ CandidatesSound'
<1>1. /\ UNCHANGED <<mode, cpi, process_result, ran, walk, leaked>>
      /\ pc = "collect" /\ cpi.req = "query" /\ pc' = "done" /\ stage' = "ready"
      /\ CleanHelpNodeList
  BY DEF PrintHelp, Answer, treeVars
<1>2. /\ help_prev' \in [Node -> Addr] /\ help_next' \in [Node -> Addr] /\ head' = NULL
      /\ ~leaked => OthersClear(<<>>, help_next', help_prev')
  BY <1>1, CleaningClears
<1>3. BuiltFirst' /\ ParserTyped'
  BY <1>1, <1>2 DEF SessionInv, BuiltFirst, ParserTyped, Addr
<1>4. RequestSound'
  BY <1>1 DEF RequestSound
<1>5. CandidatesSound'
  BY <1>1, <1>2 DEF CandidatesSound, OthersClear
<1> QED
  BY <1>3, <1>4, <1>5

LEMMA AutoFillOneStep ==
  ASSUME SessionInv, UNCHANGED treeVars, stage = "ready", AutoFillOne
  PROVE  BuiltFirst' /\ ParserTyped' /\ RequestSound' /\ CandidatesSound'
<1>1. /\ UNCHANGED <<mode, cpi, process_result, ran, help_prev, help_next, walk, leaked>>
      /\ pc = "collect" /\ head # NULL /\ pc' = "done" /\ stage' = "ready" /\ head' = NULL
      /\ cpi.req = "auto_fill" /\ help_next[head] = NULL
      /\ output' \in {<<Append(Filled(Keyword(head)), Blank)>>, <<<<Blank>>>>}
  BY DEF AutoFillOne, Answer, treeVars
<1>2. PICK L \in Seq(Node) : /\ head = FirstOf(L)
                             /\ Threaded(L, head, help_next, help_prev)
                             /\ ~leaked => OthersClear(L, help_next, help_prev)
                             /\ \A i \in 1 .. Len(L) : Keyword(L[i]) \in Seq(Char)
  BY <1>1, CandidateFacts
<1>3. L # <<>> /\ Len(L) \in Nat /\ 1 \in 1 .. Len(L) /\ head = L[1]
  BY <1>1, <1>2, EmptySeq DEF FirstOf
<1>4. Len(L) = 1
  <2> SUFFICES ASSUME Len(L) # 1
               PROVE  FALSE
    OBVIOUS
  <2>1. 1 < Len(L) /\ 2 \in 1 .. Len(L) /\ 1 + 1 = 2
    <3>1. \A n \in Nat : 1 \in 1 .. n /\ n # 1 => 1 < n /\ 2 \in 1 .. n
      OBVIOUS
    <3>2. 1 + 1 = 2
      OBVIOUS
    <3> QED
      BY <1>3, <3>1, <3>2, Zenon
  <2>2. help_next[L[1]] = L[2]
    BY <1>2, <1>3, <2>1 DEF Threaded, IsChain
  <2>3. L[2] \in Node
    BY <2>1, ElementOfSeq
  <2> QED
    BY <1>1, <1>3, <2>2, <2>3, NodeAssumption
<1>5. ~leaked => OthersClear(<<>>, help_next, help_prev)
  <2>1. help_prev[L[1]] = NULL
    BY <1>2, <1>3 DEF Threaded
  <2>2. ASSUME ~leaked, NEW x \in Node
        PROVE  help_next[x] = NULL /\ help_prev[x] = NULL
    <3>1. CASE x = L[1]
      BY <1>1, <1>3, <2>1, <3>1
    <3>2. CASE x # L[1]
      <4>1. \A i \in 1 .. Len(L) : i = 1
        BY <1>4
      <4>2. \A i \in 1 .. Len(L) : L[i] # x
        BY <3>2, <4>1
      <4> QED
        BY <1>2, <2>2, <4>2 DEF OthersClear
    <3> QED
      BY <3>1, <3>2
  <2> QED
    BY <2>2 DEF OthersClear
<1>6. output'[1] \in Seq(Char)
  <2> DEFINE f == Filled(Keyword(head))
  <2>1. f \in Seq(Char)
    BY <1>2, <1>3, FilledIsText
  <2> HIDE DEF f
  <2>2. Append(f, Blank) \in Seq(Char)
    BY <2>1, AnswersAreText, AppendProperties
  <2>3. \A x : <<x>>[1] = x
    OBVIOUS
  <2>4. output' = <<Append(f, Blank)>> \/ output' = <<<<Blank>>>>
    BY <1>1 DEF f
  <2> QED
    BY <2>2, <2>3, <2>4, AnswersAreText, Zenon
<1>7. BuiltFirst' /\ ParserTyped'
  BY <1>1 DEF SessionInv, BuiltFirst, ParserTyped, Addr
<1>8. RequestSound'
  BY <1>1, <1>6 DEF RequestSound
<1>9. CandidatesSound'
  BY <1>1, <1>5 DEF CandidatesSound, OthersClear
<1> QED
  BY <1>7, <1>8, <1>9

LEMMA AutoFillCommonStep ==
  ASSUME SessionInv, UNCHANGED treeVars, stage = "ready", AutoFillCommon
  PROVE  BuiltFirst' /\ ParserTyped' /\ RequestSound' /\ CandidatesSound'
<1>1. /\ UNCHANGED <<mode, cpi, process_result, ran, walk, leaked>>
      /\ pc = "collect" /\ head # NULL /\ pc' = "done" /\ stage' = "ready"
      /\ cpi.req = "auto_fill" /\ CleanHelpNodeList
      /\ \/ output' = <<Filled(MakeLastFillToken), Listed>>
         \/ output' = <<<<>>, Listed>>
  BY DEF AutoFillCommon, Answer, treeVars
<1>2. PICK L \in Seq(Node) : /\ HelpList = L /\ head = FirstOf(L)
                             /\ \A i \in 1 .. Len(L) : Keyword(L[i]) \in Seq(Char)
  BY <1>1, CandidateFacts
<1>3. L # <<>> /\ 1 \in 1 .. Len(L) /\ head = L[1] /\ DOMAIN L = 1 .. Len(L)
  BY <1>1, <1>2, EmptySeq, LenProperties DEF FirstOf
<1>4. MakeLastFillToken \in Seq(Char)
  <2> DEFINE S == {Keyword(n) : n \in ToSet(L)}
  <2>1. S \subseteq Seq(Char) /\ S # {}
    BY <1>2, <1>3 DEF ToSet
  <2>2. LongestCommonPrefix(S) \in Seq(Char)
    <3> HIDE DEF S
    <3> QED
      BY <2>1, LongestIsText
  <2>3. Keyword(head) \in Seq(Char)
    BY <1>2, <1>3
  <2> QED
    BY <1>2, <2>2, <2>3 DEF MakeLastFillToken
<1>5. output'[1] \in Seq(Char)
  <2>1. Filled(MakeLastFillToken) \in Seq(Char)
    BY <1>4, FilledIsText
  <2>2. \A x, y : <<x, y>>[1] = x
    OBVIOUS
  <2> QED
    BY <1>1, <2>1, <2>2, AnswersAreText, Zenon
<1>6. /\ help_prev' \in [Node -> Addr] /\ help_next' \in [Node -> Addr] /\ head' = NULL
      /\ ~leaked => OthersClear(<<>>, help_next', help_prev')
  BY <1>1, CleaningClears
<1>7. BuiltFirst' /\ ParserTyped'
  BY <1>1, <1>6 DEF SessionInv, BuiltFirst, ParserTyped, Addr
<1>8. RequestSound'
  BY <1>1, <1>5 DEF RequestSound
<1>9. CandidatesSound'
  BY <1>1, <1>6 DEF CandidatesSound, OthersClear
<1> QED
  BY <1>7, <1>8, <1>9

LEMMA AutoFillFailsStep ==
  ASSUME SessionInv, UNCHANGED treeVars, stage = "ready", AutoFillFails
  PROVE  BuiltFirst' /\ ParserTyped' /\ RequestSound' /\ CandidatesSound'
<1>1. /\ UNCHANGED <<mode, cpi, process_result, ran, help_prev, help_next, walk>>
      /\ pc' = "done" /\ stage' = "ready" /\ output' = <<>>
      /\ leaked' = TRUE /\ head' = NULL
  BY DEF AutoFillFails, Answer, treeVars
<1>2. BuiltFirst' /\ ParserTyped'
  BY <1>1 DEF SessionInv, BuiltFirst, ParserTyped, Addr
<1>3. RequestSound'
  BY <1>1 DEF RequestSound
<1>4. CandidatesSound'
  BY <1>1 DEF CandidatesSound
<1> QED
  BY <1>2, <1>3, <1>4

-----------------------------------------------------------------------------
(* The main loop.                                                          *)

LEMMA ParserStays ==
  ASSUME SessionInv, UNCHANGED <<treeVars, parserVars>>
  PROVE  BuiltFirst' /\ ParserTyped' /\ RequestSound' /\ CandidatesSound'
<1>1. /\ UNCHANGED <<mode, pc, cpi, output, process_result, ran, head, help_prev, help_next,
                     walk, leaked>>
      /\ stage' = stage
  BY DEF parserVars, links, treeVars
<1>2. InUse' = InUse /\ \A n : Level(n)' = Level(n)
  BY SameTree DEF SessionInv
<1>3. BuiltFirst' /\ ParserTyped'
  BY <1>1 DEF SessionInv, BuiltFirst, ParserTyped
<1>4. RequestSound'
  BY <1>1, <1>2 DEF SessionInv, RequestSound, TokenCount
<1>5. CASE pc # "collect"
  <2>1. CandidatesSound'
    BY <1>1, <1>5 DEF SessionInv, CandidatesSound, OthersClear
  <2> QED
    BY <1>3, <1>4, <2>1
<1>6. CASE pc = "collect"
  <2>1. PICK k \in 0 .. Len(Level(cpi.cur)), L \in Seq(Node) : Collected(k, L)
    BY <1>6 DEF SessionInv, CandidatesSound
  <2>2. Level(cpi.cur)' = Level(cpi.cur)
    BY <1>1, <1>2
  <2>3. \A x : IsNodeHelp(x)' <=> IsNodeHelp(x)
    BY <1>1 DEF IsNodeHelp, Matches
  <2>4. /\ Threaded(L, head, help_next, help_prev)' <=> Threaded(L, head, help_next, help_prev)
        /\ OthersClear(L, help_next, help_prev)' <=> OthersClear(L, help_next, help_prev)
        /\ InOrder(L)' <=> InOrder(L)
    BY <1>1 DEF Threaded, IsChain, OthersClear, InOrder, Before
  <2>5. Collected(k, L)'
    BY <1>1, <2>1, <2>2, <2>3, <2>4 DEF Collected
  <2>6. CandidatesSound'
    BY <1>1, <1>6, <2>2, <2>5 DEF CandidatesSound
  <2> QED
    BY <1>3, <1>4, <2>6
<1> QED
  BY <1>5, <1>6

(* One step of a request.                                                  *)
LEMMA ParseStep ==
  ASSUME SessionInv, Parse
  PROVE  SessionInv'
<1>1. /\ stage = "ready" /\ ParserStep
      /\ UNCHANGED treeVars /\ UNCHANGED <<cmd, autotest, stdin>>
  BY DEF Parse
<1>2. BuiltFirst' /\ ParserTyped' /\ RequestSound' /\ CandidatesSound'
  <2>1. CASE TokenFails \/ ParamFails \/ ExecIncomplete
    BY <1>1, <2>1, RefusalSteps
  <2>2. CASE TokenMatches
    BY <1>1, <2>2, TokenMatchesStep
  <2>3. CASE ExecCli
    BY <1>1, <2>3, ExecCliStep
  <2>4. CASE StartCollect
    BY <1>1, <2>4, StartCollectStep
  <2>5. CASE CollectHelpNode
    BY <1>1, <2>5, CollectStep
  <2>6. CASE NoCandidate
    BY <1>1, <2>6, NoCandidateStep
  <2>7. CASE PrintHelp
    BY <1>1, <2>7, PrintHelpStep
  <2>8. CASE AutoFillOne
    BY <1>1, <2>8, AutoFillOneStep
  <2>9. CASE AutoFillCommon
    BY <1>1, <2>9, AutoFillCommonStep
  <2>10. CASE AutoFillFails
    BY <1>1, <2>10, AutoFillFailsStep
  <2> QED
    BY <1>1, <2>1, <2>2, <2>3, <2>4, <2>5, <2>6, <2>7, <2>8, <2>9, <2>10 DEF ParserStep
<1>3. TreeInv'
  BY <1>1, SameTree DEF SessionInv
<1>4. TextSound'
  BY <1>1 DEF SessionInv, TextSound
<1> QED
  BY <1>2, <1>3, <1>4 DEF SessionInv

(* cli_parser_request() returns.                                           *)
LEMMA ReturnStep ==
  ASSUME SessionInv, UNCHANGED treeVars, CleanCliParserInfo
  PROVE  BuiltFirst' /\ ParserTyped' /\ RequestSound' /\ CandidatesSound'
<1>1. /\ UNCHANGED <<mode, head, help_prev, help_next, walk, leaked>>
      /\ pc = "done" /\ pc' = "idle" /\ cpi' = NoRequest /\ output' = <<>>
      /\ ran' = NULL /\ process_result' = FALSE
  BY DEF CleanCliParserInfo, links
<1>2. cpi' \in Requests /\ \A i \in 1 .. Len(cpi'.tokens) : cpi'.tokens[i] # <<>>
  <2>1. <<>> \in Seq(Char) /\ <<>> \in Seq(Seq(Char)) /\ Len(<<>>) = 0 /\ 1 .. 0 = {}
    OBVIOUS
  <2> QED
    BY <1>1, <2>1 DEF NoRequest, Requests, Addr
<1>3. BuiltFirst' /\ ParserTyped'
  BY <1>1, <1>2 DEF SessionInv, BuiltFirst, ParserTyped, Addr
<1>4. RequestSound'
  BY <1>1 DEF RequestSound
<1>5. CandidatesSound'
  BY <1>1 DEF SessionInv, CandidatesSound, OthersClear
<1> QED
  BY <1>3, <1>4, <1>5

(* The command line and the input after a step.                            *)
LEMMA TextKept ==
  ASSUME SessionInv,
         \/ \E text \in Typed : InputProcessText(text)
         \/ \E req \in {"exec", "query", "auto_fill"} : Ask(req)
         \/ InputProcessCtrlC \/ InputProcessCtrlZ
         \/ ExecReturns \/ QueryReturns \/ AutoFillReturns
         \/ AutotestReadChar \/ AutotestRunLine
  PROVE  TextSound'
<1>1. /\ autotest \in BOOLEAN /\ cmd \in Seq(Char) /\ stdin \in Seq(Char)
      /\ Len(cmd) \in Nat /\ CMD_MAX_LEN \in Nat
      /\ Len(cmd) <= IF autotest THEN CMD_MAX_LEN + 1 ELSE CMD_MAX_LEN
  BY LenProperties, TextAssumption DEF SessionInv, TextSound
<1>2. <<>> \in Seq(Char) /\ Len(<<>>) = 0
  OBVIOUS
<1>3. ASSUME NEW text \in Typed, InputProcessText(text)
      PROVE  TextSound'
  <2>1. text \in Seq(Char) /\ cmd \o text \in Seq(Char)
    BY <1>1, TextAssumption, ConcatProperties
  <2>2. cmd' = cmd \o text /\ Len(cmd \o text) <= CMD_MAX_LEN /\ ~autotest
        /\ UNCHANGED <<autotest, stdin>>
    BY <1>3 DEF InputProcessText
  <2> QED
    BY <1>1, <2>1, <2>2 DEF TextSound
<1>4. CASE (\E req \in {"exec", "query", "auto_fill"} : Ask(req)) \/ QueryReturns
  <2>1. UNCHANGED <<cmd, autotest, stdin>>
    BY <1>4 DEF Ask, QueryReturns
  <2> QED
    BY <1>1, <2>1 DEF TextSound
<1>5. CASE InputProcessCtrlC \/ InputProcessCtrlZ \/ ExecReturns
  <2>1. cmd' = <<>> /\ UNCHANGED <<autotest, stdin>>
    BY <1>5 DEF InputProcessCtrlC, InputProcessCtrlZ, ExecReturns
  <2> QED
    BY <1>1, <1>2, <2>1 DEF TextSound
<1>6. CASE AutoFillReturns
  <2>1. UNCHANGED <<autotest, stdin>> /\ cpi.req = "auto_fill"
    BY <1>6 DEF AutoFillReturns
  <2>2. CASE cmd' = cmd
    BY <1>1, <2>1, <2>2 DEF TextSound
  <2>3. CASE output # <<>> /\ ReplaceParserCmd(output[1])
    <3> DEFINE text == output[1]
               n == IF Len(text) > CMD_MAX_LEN THEN CMD_MAX_LEN ELSE Len(text)
    <3>1. text \in Seq(Char) /\ Len(text) \in Nat
      BY <2>1, <2>3, LenProperties DEF SessionInv, RequestSound
    <3>2. cmd' = SubSeq(text, 1, n)
      BY <2>3 DEF ReplaceParserCmd
    <3> HIDE DEF text
    <3>3. n \in Nat /\ n <= Len(text) /\ n <= CMD_MAX_LEN
      BY <1>1, <3>1
    <3> HIDE DEF n
    <3>4. cmd' \in Seq(Char) /\ Len(cmd') = n
      BY <3>1, <3>2, <3>3, SubSeqProperties
    <3> QED
      BY <1>1, <2>1, <3>3, <3>4 DEF TextSound
  <2> QED
    BY <1>6, <2>2, <2>3 DEF AutoFillReturns
<1>7. CASE AutotestReadChar
  <2>1. /\ stdin # <<>> /\ stdin' = Tail(stdin) /\ autotest /\ autotest' = autotest
        /\ cmd' = IF Len(cmd) <= CMD_MAX_LEN THEN Append(cmd, Head(stdin)) ELSE cmd
    BY <1>7 DEF AutotestReadChar, Stores
  <2>2. stdin' \in Seq(Char) /\ Head(stdin) \in Char
    BY <1>1, <2>1, HeadTailProperties
  <2>3. Append(cmd, Head(stdin)) \in Seq(Char) /\ Len(Append(cmd, Head(stdin))) = Len(cmd) + 1
    BY <1>1, <2>2, AppendProperties
  <2> QED
    BY <1>1, <2>1, <2>2, <2>3 DEF TextSound
<1>8. CASE AutotestRunLine
  <2>1. /\ stdin' = IF stdin = <<>> THEN <<>> ELSE Tail(stdin)
        /\ UNCHANGED <<cmd, autotest>>
    BY <1>8 DEF AutotestRunLine
  <2>2. stdin' \in Seq(Char)
    BY <1>1, <1>2, <2>1, HeadTailProperties
  <2> QED
    BY <1>1, <2>1, <2>2 DEF TextSound
<1> QED
  BY <1>3, <1>4, <1>5, <1>6, <1>7, <1>8
(* Keys, and the lines of the input.                                       *)
LEMMA KeyStep ==
  ASSUME SessionInv,
         \/ \E text \in Typed : InputProcessText(text)
         \/ \E req \in {"exec", "query", "auto_fill"} : Ask(req)
         \/ InputProcessCtrlC \/ InputProcessCtrlZ
         \/ ExecReturns \/ QueryReturns \/ AutoFillReturns
         \/ AutotestReadChar \/ AutotestRunLine
  PROVE  SessionInv'
<1>1. UNCHANGED treeVars
  BY DEF InputProcessText, Ask, InputProcessCtrlC, InputProcessCtrlZ, ExecReturns,
         QueryReturns, AutoFillReturns, AutotestReadChar, AutotestRunLine
<1>2. cmd \in Seq(Char)
  BY DEF SessionInv, TextSound
<1>3. BuiltFirst' /\ ParserTyped' /\ RequestSound' /\ CandidatesSound'
  <2>1. CASE \/ \E text \in Typed : InputProcessText(text)
             \/ InputProcessCtrlC \/ AutotestReadChar
    <3>1. UNCHANGED parserVars
      BY <2>1 DEF InputProcessText, InputProcessCtrlC, AutotestReadChar
    <3> QED
      BY <1>1, <3>1, ParserStays
  <2>2. CASE (\E req \in {"exec", "query", "auto_fill"} : Ask(req)) \/ AutotestRunLine
    <3>1. PICK req \in {"exec", "query", "auto_fill"} : Request(req, cmd)
      BY <2>2 DEF Ask, AutotestRunLine
    <3>2. stage = "ready" /\ pc = "idle"
      BY <2>2 DEF Ask, AutotestRunLine, Ready
    <3> QED
      BY <1>1, <1>2, <3>1, <3>2, RequestStep
  <2>3. CASE InputProcessCtrlZ
    <3>1. /\ UNCHANGED <<pc, cpi, output, process_result, ran, head, help_prev, help_next,
                         walk, leaked>>
          /\ mode' = "exec" /\ pc = "idle" /\ stage' = stage
      BY <2>3 DEF InputProcessCtrlZ, links, treeVars
    <3>2. BuiltFirst' /\ ParserTyped'
      BY <3>1 DEF SessionInv, BuiltFirst, ParserTyped, Mode
    <3>3. RequestSound'
      BY <3>1 DEF SessionInv, RequestSound
    <3>4. CandidatesSound'
      BY <3>1 DEF SessionInv, CandidatesSound, OthersClear
    <3> QED
      BY <3>2, <3>3, <3>4
  <2>4. CASE ExecReturns \/ QueryReturns \/ AutoFillReturns
    <3>1. CleanCliParserInfo
      BY <2>4 DEF ExecReturns, QueryReturns, AutoFillReturns
    <3> QED
      BY <1>1, <3>1, ReturnStep
  <2> QED
    BY <2>1, <2>2, <2>3, <2>4
<1>4. TextSound'
  BY TextKept
<1>5. TreeInv'
  BY <1>1, SameTree DEF SessionInv
<1> QED
  BY <1>3, <1>4, <1>5 DEF SessionInv

LEMMA SessionInvNext ==
  ASSUME SessionInv, [Next]_sessionVars
  PROVE  SessionInv'
<1>1. CASE StartUp
  BY <1>1, StartUpStep
<1>2. CASE Parse
  BY <1>2, ParseStep
<1>3. CASE \/ \E text \in Typed : InputProcessText(text)
           \/ \E req \in {"exec", "query", "auto_fill"} : Ask(req)
           \/ InputProcessCtrlC \/ InputProcessCtrlZ
           \/ ExecReturns \/ QueryReturns \/ AutoFillReturns
           \/ AutotestReadChar \/ AutotestRunLine
  BY <1>3, KeyStep
<1>4. CASE UNCHANGED sessionVars
  <2>1. UNCHANGED treeVars /\ UNCHANGED parserVars /\ UNCHANGED <<cmd, autotest, stdin>>
    BY <1>4 DEF sessionVars
  <2>2. BuiltFirst' /\ ParserTyped' /\ RequestSound' /\ CandidatesSound'
    BY <2>1, ParserStays
  <2>3. TreeInv' /\ TextSound'
    BY <2>1, SameTree DEF SessionInv, TextSound
  <2> QED
    BY <2>2, <2>3 DEF SessionInv
<1> QED
  BY <1>1, <1>2, <1>3, <1>4 DEF Next, Computes

LEMMA SessionInvAlways == Spec => []SessionInv
<1>1. SessionInv /\ [Next]_sessionVars => SessionInv'
  BY SessionInvNext
<1> QED
  BY SessionInvInit, <1>1, PTL DEF Spec

-----------------------------------------------------------------------------
(* What it implies.                                                        *)

LEMMA ArraysHold == SessionInv => ArraysFit
<1> SUFFICES ASSUME SessionInv
             PROVE  ArraysFit
  OBVIOUS
<1>1. cpi.cli_org \in Seq(Char)
  BY DEF SessionInv, ParserTyped, Requests
<1> DEFINE t == Split(cpi.cli_org).tokens
<1>2. Len(t) \in Nat /\ Len(t) <= CLI_TOKEN_MAX_CNT + 1
  BY <1>1, SplitShape
<1>3. /\ pc = "fault" => cpi.req # "exec" /\ Len(t) > CLI_TOKEN_MAX_CNT
      /\ pc \in {"parse", "collect"} /\ cpi.last # <<>> => Len(t) <= CLI_TOKEN_MAX_CNT
  BY DEF SessionInv, RequestSound, TokenCount
<1>4. TokenOverrun
  BY <1>2, <1>3, TokenAssumption DEF TokenOverrun
<1>5. CmdFits
  BY DEF SessionInv, TextSound, CmdFits
<1> QED
  BY <1>4, <1>5 DEF ArraysFit

LEMMA CandidatesInOrder == SessionInv => ListInOrder
<1> SUFFICES ASSUME SessionInv, pc = "collect"
             PROVE  ListInOrder
  BY DEF ListInOrder
<1> DEFINE s == Level(cpi.cur)
           seen == SubSeq(s, 1, Len(s) - Len(Level(walk)))
<1>1. PICK k \in 0 .. Len(s), L \in Seq(Node) : Collected(k, L)
  BY DEF SessionInv, CandidatesSound
<1>2. HelpList = L /\ \A i \in 1 .. Len(L) : L[i] \in Node /\ IsNodeHelp(L[i])
  BY <1>1, CollectedFacts
<1>3. /\ cpi.cur \in Node /\ TreeInv
  BY DEF SessionInv, RequestSound, InUse
<1>4. s \in Seq(Node) /\ Len(s) \in Nat
  BY <1>3, LevelPlaces
<1>5. Len(Level(walk)) = Len(s) - k
  <2>1. CASE k < Len(s)
    <3>1. k + 1 \in 1 .. Len(s) /\ walk = s[k + 1]
      BY <1>1, <1>4, <2>1 DEF Collected
    <3>2. Len(Level(s[k + 1])) = Len(s) - (k + 1) + 1
      BY <1>3, <3>1, LevelPlaces
    <3> QED
      BY <1>4, <3>1, <3>2
  <2>2. CASE k = Len(s)
    <3>1. walk = NULL
      BY <1>1, <1>4, <2>2 DEF Collected
    <3>2. Level(walk) = <<>>
      BY <1>3, <3>1, LevelSound, ListOfNone
    <3> QED
      BY <1>4, <2>2, <3>2
  <2> QED
    BY <1>4, <2>1, <2>2
<1>6. seen = SubSeq(s, 1, k)
  BY <1>4, <1>5
<1> HIDE DEF s
<1>7. \A x : x \in ToSet(seen) <=> \E i \in 1 .. k : s[i] = x
  <2>1. SubSeq(s, 1, k) \in Seq(Node) /\ Len(SubSeq(s, 1, k)) = k
        /\ \A i \in 1 .. k : SubSeq(s, 1, k)[i] = s[i]
    BY <1>4, SubSeqProperties
  <2>2. DOMAIN seen = 1 .. k /\ \A i \in 1 .. k : seen[i] = s[i]
    BY <1>6, <2>1, LenProperties
  <2> HIDE DEF seen
  <2> QED
    BY <2>2 DEF ToSet
<1> HIDE DEF seen
<1>8. /\ \A x : (\E i \in 1 .. Len(L) : L[i] = x) <=>
                  IsNodeHelp(x) /\ \E i \in 1 .. k : s[i] = x
      /\ Threaded(L, head, help_next, help_prev) /\ InOrder(L)
  BY <1>1 DEF Collected, s
<1>9. DOMAIN L = 1 .. Len(L) /\ Len(L) \in Nat
  BY LenProperties
<1>10. ToSet(L) = {n \in ToSet(seen) : IsNodeHelp(n)}
  BY <1>7, <1>8, <1>9 DEF ToSet
<1>11. ASSUME NEW i \in 1 .. Len(L), NEW j \in 1 .. Len(L), i < j
       PROVE  /\ L[i] # L[j] /\ Type[L[i]] # "END"
              /\ Type[L[j]] # "END" => Rank[Def[L[i]].keyword] <= Rank[Def[L[j]].keyword]
  <2>1. i # j
    BY <1>9, <1>11
  <2> QED
    BY <1>8, <1>11, <2>1 DEF Threaded, IsChain, InOrder, Before
<1>12. \A i \in 1 .. Len(L) : help_prev[L[i]] = IF i = 1 THEN NULL ELSE L[i - 1]
  BY <1>8 DEF Threaded
<1> QED
  BY <1>2, <1>9, <1>10, <1>11, <1>12 DEF ListInOrder, s, seen

LEMMA ParserHolds == SessionInv => ParserConsistent
<1> SUFFICES ASSUME SessionInv
             PROVE  ParserConsistent
  OBVIOUS
<1>1. ParserTypeOK
  <2>1. DOMAIN cpi.tokens = 1 .. Len(cpi.tokens)
    <3>1. cpi.tokens \in Seq(Seq(Char))
      BY DEF SessionInv, ParserTyped, Requests
    <3> QED
      BY <3>1, LenProperties
  <2>2. \A i \in DOMAIN cpi.tokens : cpi.tokens[i] # <<>>
    BY <2>1 DEF SessionInv, ParserTyped
  <2>3. pc \in {"parse", "collect"} => cpi.cur \in Node
    BY DEF SessionInv, RequestSound, InUse
  <2> QED
    BY <2>2, <2>3 DEF SessionInv, ParserTyped, ParserTypeOK, Requests, Addr
<1>2. LinksCleared
  <2> SUFFICES ASSUME pc \in {"idle", "done"}, ~leaked
               PROVE  help_prev = NoLinks /\ help_next = NoLinks
    BY DEF LinksCleared
  <2>1. \A x \in Node : help_next[x] = NULL /\ help_prev[x] = NULL
    BY DEF SessionInv, CandidatesSound, OthersClear
  <2>2. help_prev \in [Node -> Addr] /\ help_next \in [Node -> Addr]
    BY DEF SessionInv, ParserTyped
  <2> QED
    BY <2>1, <2>2 DEF NoLinks
<1> QED
  BY <1>1, <1>2, CandidatesInOrder DEF ParserConsistent

(* Whatever lines are typed or read, split_cli() and autotest_read_in_cmd()
   write at most one element behind their arrays, and reading that token
   back is where `?' and Tab fault.                                        *)
THEOREM ArraysSound == Spec => []ArraysFit
<1> QED
  BY SessionInvAlways, ArraysHold, PTL

(* Whatever the trees and the requests before, every step of a request finds
   real nodes; the candidates are threaded in order, both ways and without
   a node that is none; and no link stays, unless a completion ran out of
   memory.                                                                 *)
THEOREM ParserSound == Spec => []ParserConsistent
<1> QED
  BY SessionInvAlways, ParserHolds, PTL

-----------------------------------------------------------------------------
(* What Tab does to the command.                                           *)

LEMMA PrefixIs ==
  ASSUME NEW s \in Seq(Char), NEW t \in Seq(Char)
  PROVE  IsPrefix(s, t) <=> Prefixed(s, t)
<1>1. Len(s) \in Nat /\ Len(t) \in Nat
  BY LenProperties
<1> SUFFICES ASSUME Len(s) <= Len(t)
             PROVE  SubSeq(s, 1, Len(s)) = SubSeq(t, 1, Len(s)) <=>
                      \A i \in 1 .. Len(s) : s[i] = t[i]
  BY DEF IsPrefix, Prefixed
<1> DEFINE n == Len(s)
           u == SubSeq(t, 1, n)
<1>2. u \in Seq(Char) /\ Len(u) = n /\ \A i \in 1 .. n : u[i] = t[i]
  BY <1>1, SubSeqProperties
<1>3. SubSeq(s, 1, n) = s
  OBVIOUS
<1> HIDE DEF u
<1>4. s = u <=> \A i \in 1 .. n : s[i] = u[i]
  BY <1>1, <1>2, SeqEqual
<1> QED
  BY <1>2, <1>3, <1>4 DEF u

(* What all words of a set begin with, the longest of it begins with.      *)
LEMMA CommonExtends ==
  ASSUME NEW S, S \subseteq Seq(Char), S # {}, NEW l \in Seq(Char),
         \A t \in S : Prefixed(l, t)
  PROVE  Prefixed(l, LongestCommonPrefix(S))
<1> DEFINE p == LongestCommonPrefix(S)
<1>1. /\ p \in Seq(Char) /\ p \in CommonPrefixes(S)
      /\ \A q \in CommonPrefixes(S) : Len(q) <= Len(p)
  BY LongestIsText
<1> HIDE DEF p
<1>2. PICK t \in S : TRUE
  OBVIOUS
<1>3. t \in Seq(Char) /\ Len(t) \in Nat /\ Len(l) \in Nat /\ Len(p) \in Nat
  BY <1>1, LenProperties
<1>4. l \in CommonPrefixes(S)
  <2>1. \A u \in S : IsPrefix(l, u)
    BY PrefixIs
  <2>2. SubSeq(l, 1, Len(l)) = l
    OBVIOUS
  <2>3. l = SubSeq(t, 1, Len(l)) /\ Len(l) \in 0 .. Len(t)
    BY <1>3, <2>1, <2>2 DEF IsPrefix
  <2>4. l \in Prefixes(t)
    BY <2>3 DEF Prefixes
  <2> QED
    BY <2>1, <2>4 DEF CommonPrefixes
<1>5. Len(l) <= Len(p)
  BY <1>1, <1>4
<1>6. Prefixed(p, t)
  <2>1. IsPrefix(p, t)
    BY <1>1 DEF CommonPrefixes
  <2> QED
    BY <1>1, <1>3, <2>1, PrefixIs
<1>7. ASSUME NEW i \in 1 .. Len(l)
      PROVE  l[i] = p[i]
  <2>1. i \in 1 .. Len(p)
    BY <1>3, <1>5
  <2>2. l[i] = t[i] /\ p[i] = t[i]
    BY <1>6, <2>1 DEF Prefixed
  <2> QED
    BY <2>2
<1> QED
  BY <1>5, <1>7 DEF Prefixed, p

NoBlankIn(l) == \A i \in 1 .. Len(l) : l[i] # Blank

LEMMA MaxIs ==
  ASSUME NEW S, S \subseteq Nat, NEW d \in S, \A i \in S : i <= d
  PROVE  Max(S) = d
<1>1. Max(S) \in S /\ \A i \in S : i <= Max(S)
  BY GreatestNat
<1>2. Max(S) <= d /\ d <= Max(S) /\ Max(S) \in Nat /\ d \in Nat
  BY <1>1
<1> QED
  BY <1>2

(* The last blank is right before the last token.                          *)
LEMMA LastBlankAt ==
  ASSUME NEW text \in Seq(Char), NEW l \in Seq(Char), l # <<>>, NoBlankIn(l),
         TokenEnds(text, Len(text), l)
  PROVE  SelectLastInSeq(text, LAMBDA c : c = Blank) = Len(text) - Len(l)
<1> DEFINE n == Len(text)
           m == Len(l)
           I == {i \in 1 .. n : text[i] = Blank}
           k == SelectLastInSeq(text, LAMBDA c : c = Blank)
<1>1. n \in Nat /\ m \in Nat /\ m # 0
  BY LenProperties, EmptySeq
<1>2. k = IF I # {} THEN Max(I) ELSE 0
  BY DEF SelectLastInSeq
<1>3. /\ m <= n /\ (m = n \/ text[n - m] = Blank)
      /\ \A i \in 1 .. m : text[n - m + i] # Blank
  BY DEF TokenEnds, NoBlankIn
<1> HIDE DEF n, m, k
<1>4. I \subseteq Nat
  BY <1>1
<1>5. \A i \in I : i <= n - m
  <2> TAKE i \in I
  <2> SUFFICES ASSUME ~(i <= n - m)
               PROVE  FALSE
    OBVIOUS
  <2> DEFINE j == i - (n - m)
  <2>1. j \in 1 .. m /\ n - m + j = i
    BY <1>1, <1>3
  <2> HIDE DEF j
  <2> QED
    BY <1>3, <2>1
<1>6. CASE m = n
  <2>1. I = {}
    BY <1>1, <1>5, <1>6
  <2> QED
    BY <1>1, <1>2, <1>6, <2>1 DEF k, n, m
<1>7. CASE m # n
  <2>1. n - m \in I
    BY <1>1, <1>3, <1>7
  <2>2. Max(I) = n - m
    BY <1>4, <1>5, <2>1, MaxIs
  <2>3. k = n - m
    BY <1>2, <2>1, <2>2
  <2> QED
    BY <2>3 DEF k, n, m
<1> QED
  BY <1>6, <1>7

(* autofill_cli() puts a word in the place of the last token: when the word
   begins with that, the text only grows.                                  *)
LEMMA FilledExtends ==
  ASSUME SessionInv, NEW word \in Seq(Char), cpi.last # <<>>, NoBlankIn(cpi.last),
         TokenEnds(cpi.cli_org, Len(cpi.cli_org), cpi.last), Prefixed(cpi.last, word)
  PROVE  Prefixed(cpi.cli_org, Filled(word))
<1> DEFINE text == cpi.cli_org
           l == cpi.last
           n == Len(text)
           m == Len(l)
           k == SelectLastInSeq(text, LAMBDA c : c = Blank)
           s == SubSeq(text, 1, k)
<1>1. text \in Seq(Char) /\ l \in Seq(Char) /\ n \in Nat /\ m \in Nat /\ m # 0
  BY LenProperties, EmptySeq DEF SessionInv, ParserTyped, Requests
<1>2. Filled(word) = s \o word
  BY DEF Filled
<1>3. /\ m <= n /\ (m = n \/ text[n - m] = Blank)
      /\ \A i \in 1 .. m : l[i] = text[n - m + i] /\ l[i] # Blank /\ l[i] = word[i]
      /\ m <= Len(word)
  BY DEF TokenEnds, NoBlankIn, Prefixed
<1>4. k = n - m
  BY <1>1, LastBlankAt
<1> HIDE DEF text, l, n, m, k
<1>5. s \in Seq(Char) /\ Len(s) = n - m /\ \A i \in 1 .. n - m : s[i] = text[i]
  BY <1>1, <1>3, <1>4, SubSeqProperties DEF n
<1> HIDE DEF s
<1>6. /\ Len(s \o word) = Len(s) + Len(word)
      /\ \A i \in 1 .. Len(s) + Len(word) :
           (s \o word)[i] = IF i <= Len(s) THEN s[i] ELSE word[i - Len(s)]
  BY <1>5, ConcatProperties
<1>7. Len(word) \in Nat
  BY LenProperties
<1>8. ASSUME NEW i \in 1 .. n
       PROVE  text[i] = (s \o word)[i]
  <2>1. i \in 1 .. Len(s) + Len(word)
    BY <1>1, <1>3, <1>5, <1>7
  <2>2. CASE i <= n - m
    BY <1>1, <1>5, <1>6, <2>1, <2>2
  <2>3. CASE ~(i <= n - m)
    <3> DEFINE j == i - (n - m)
    <3>1. j \in 1 .. m /\ n - m + j = i
      BY <1>1, <1>3, <2>3
    <3>2. (s \o word)[i] = word[j]
      BY <1>5, <1>6, <2>1, <2>3
    <3> HIDE DEF j
    <3> QED
      BY <1>3, <3>1, <3>2
  <2> QED
    BY <2>2, <2>3
<1>9. n <= Len(s \o word)
  BY <1>1, <1>3, <1>5, <1>6, <1>7
<1> QED
  BY <1>2, <1>8, <1>9 DEF Prefixed, n, text

(* Every candidate of a completion begins with the last token.             *)
LEMMA CandidatesExtend ==
  ASSUME SessionInv, pc = "collect", head # NULL, cpi.req = "auto_fill"
  PROVE  /\ cpi.last \in Seq(Char) /\ cpi.last # <<>> /\ NoBlankIn(cpi.last)
         /\ head \in ToSet(HelpList)
         /\ \A x \in ToSet(HelpList) : Keyword(x) \in Seq(Char) /\ Prefixed(cpi.last, Keyword(x))
<1>1. PICK k \in 0 .. Len(Level(cpi.cur)), L \in Seq(Node) : Collected(k, L)
  BY DEF SessionInv, CandidatesSound
<1>2. /\ HelpList = L /\ head = FirstOf(L)
      /\ \A i \in 1 .. Len(L) : L[i] \in Node /\ IsNodeHelp(L[i])
  BY <1>1, CollectedFacts
<1>3. L # <<>> /\ 1 \in 1 .. Len(L) /\ head = L[1] /\ DOMAIN L = 1 .. Len(L)
  BY <1>2, EmptySeq, LenProperties DEF FirstOf
<1>4. ToSet(L) = {L[i] : i \in 1 .. Len(L)}
  BY <1>3 DEF ToSet
<1>5. cpi.last \in Seq(Char) /\ cpi.last # <<>>
  BY DEF SessionInv, ParserTyped, RequestSound, Requests
<1>6. ASSUME NEW x \in ToSet(L)
      PROVE  /\ Keyword(x) \in Seq(Char) /\ NoBlankIn(Keyword(x))
             /\ Prefixed(cpi.last, Keyword(x))
  <2>1. x \in Node /\ IsNodeHelp(x)
    BY <1>2, <1>4
  <2>2. Type[x] \in KeywordType /\ IsPrefix(cpi.last, Keyword(x))
    BY <1>5, <2>1 DEF IsNodeHelp, Matches
  <2>3. Type[x] \notin EndType
    BY <2>2 DEF KeywordType, EndType
  <2>4. Keyword(x) \in Seq(Char) /\ NoBlankIn(Keyword(x))
    BY <2>1, <2>3, WordsRanked DEF NoBlankIn
  <2> QED
    BY <1>5, <2>2, <2>4, PrefixIs
<1>7. head \in ToSet(L)
  BY <1>3, <1>4
<1>8. NoBlankIn(cpi.last)
  <2>1. Len(Keyword(head)) \in Nat /\ Len(cpi.last) \in Nat
    BY <1>5, <1>6, <1>7, LenProperties
  <2> QED
    BY <1>6, <1>7, <2>1 DEF NoBlankIn, Prefixed
<1> QED
  BY <1>2, <1>5, <1>6, <1>7, <1>8

(* What Tab leaves of a command the parser refused, or when it runs out of
   memory.                                                                 *)
Leavings == {MarkFailToken, <<"Invalid command.">>, <<Blank>>, <<>>}

(* A completion is about the command on the screen; its last token is where
   the command ends, and its answer begins with the command.               *)
TabInv ==
  /\ pc = "idle" => cpi.req = "none"
  /\ cpi.req = "auto_fill" =>
       /\ ~autotest /\ cpi.cli_org = cmd
       /\ pc \in {"parse", "collect"} /\ NoBlankIn(cpi.last) => TokenEnds(cmd, Len(cmd), cpi.last)
       /\ pc = "done" /\ output # <<>> => output[1] \in Leavings \/ Prefixed(cmd, output[1])

LEMMA TabAsked ==
  ASSUME SessionInv, NEW req \in {"exec", "query", "auto_fill"}, Request(req, cmd),
         UNCHANGED <<cmd, autotest>>, req = "auto_fill" => ~autotest
  PROVE  TabInv'
<1> DEFINE a == Asked(req, cmd)
           t == Split(cmd).tokens
<1>0. cmd \in Seq(Char)
  BY DEF SessionInv, TextSound
<1>1. InitCliParserInfo(a)
  BY DEF Request, RequestIgnored, RequestInvalid, RequestFaults, RequestParses
<1>2. \/ RequestIgnored(a) \/ RequestInvalid(a)
      \/ RequestFaults(a) \/ RequestParses(a)
  BY DEF Request
<1>3. a.req = req /\ a.split = Split(cmd) /\ a.open = EndsInBlank(SkipDo(cmd))
  BY DEF Asked
<1>4. /\ cpi'.req = req /\ cpi'.cli_org = cmd
      /\ cpi'.last = IF TakesLast(a) THEN Last(t) ELSE <<>>
  BY <1>0, <1>1, InitialRequest
<1>5. pc' # "idle"
  BY <1>2 DEF RequestIgnored, RequestInvalid, RequestFaults, RequestParses, Answer
<1>6. ASSUME req = "auto_fill", output' # <<>>
      PROVE  output'[1] \in Leavings
  <2>1. output' \in {<<<<"Invalid command.">>>>, ParserErr("Invalid command.")}
    BY <1>2, <1>6 DEF RequestIgnored, RequestInvalid, RequestFaults, RequestParses, Answer
  <2>2. <<<<"Invalid command.">>>>[1] = <<"Invalid command.">>
    OBVIOUS
  <2>3. ParserErr("Invalid command.")[1] = MarkFailToken
    BY DEF ParserErr
  <2> QED
    BY <2>1, <2>2, <2>3, Zenon DEF Leavings
<1>7. ASSUME req = "auto_fill", pc' \in {"parse", "collect"}, NoBlankIn(cpi'.last)
      PROVE  TokenEnds(cmd, Len(cmd), cpi'.last)
  <2>1. RequestParses(a)
    BY <1>2, <1>7 DEF RequestIgnored, RequestInvalid, RequestFaults, Answer
  <2>2. ~EndsInBlank(SkipDo(cmd)) /\ t # <<>> /\ Split(cmd).err = NULL
    BY <1>3, <1>7, <2>1 DEF RequestParses, NothingAsked
  <2>3. cpi'.last = Last(t)
    BY <1>3, <1>4, <1>7, <2>2 DEF TakesLast
  <2> HIDE DEF t
  <2> DEFINE l == Last(t)
  <2>4. \A i \in 1 .. Len(l) : l[i] # Blank
    BY <1>7, <2>3 DEF NoBlankIn
  <2>5. l = Last(Split(cmd).tokens) /\ Split(cmd).tokens # <<>>
    BY <2>2 DEF t
  <2> HIDE DEF l
  <2>6. TokenEnds(cmd, Len(cmd), l)
    BY <1>0, <2>2, <2>4, <2>5, LastTokenEnds
  <2> QED
    BY <2>3, <2>6 DEF l
<1> QED
  BY <1>4, <1>5, <1>6, <1>7 DEF TabInv

(* The answer of a completion.                                             *)
LEMMA TabFilled ==
  ASSUME SessionInv, TabInv, AutoFillOne \/ AutoFillCommon
  PROVE  output'[1] \in Leavings \/ Prefixed(cmd, output'[1])
<1>1. /\ pc = "collect" /\ head # NULL /\ cpi.req = "auto_fill"
      /\ output' \in {<<Append(Filled(Keyword(head)), Blank)>>, <<<<Blank>>>>,
                      <<Filled(MakeLastFillToken), Listed>>, <<<<>>, Listed>>}
  BY DEF AutoFillOne, AutoFillCommon, Answer
<1> DEFINE K == {Keyword(n) : n \in ToSet(HelpList)}
<1>2. /\ cpi.last \in Seq(Char) /\ cpi.last # <<>> /\ NoBlankIn(cpi.last)
      /\ Keyword(head) \in K
      /\ K \subseteq Seq(Char) /\ \A w \in K : Prefixed(cpi.last, w)
  BY <1>1, CandidatesExtend
<1>3. TokenEnds(cpi.cli_org, Len(cpi.cli_org), cpi.last) /\ cpi.cli_org = cmd
  BY <1>1, <1>2 DEF TabInv
<1>4. MakeLastFillToken \in {Keyword(head), LongestCommonPrefix(K)}
  BY DEF MakeLastFillToken
<1> HIDE DEF K
<1>5. LongestCommonPrefix(K) \in Seq(Char) /\ Prefixed(cpi.last, LongestCommonPrefix(K))
  BY <1>2, LongestIsText, CommonExtends
<1>6. \A w \in Seq(Char) : Prefixed(cpi.last, w) =>
        Filled(w) \in Seq(Char) /\ Prefixed(cmd, Filled(w))
  BY <1>2, <1>3, FilledIsText, FilledExtends
<1>7. /\ Filled(Keyword(head)) \in Seq(Char) /\ Prefixed(cmd, Filled(Keyword(head)))
      /\ Prefixed(cmd, Filled(MakeLastFillToken))
  BY <1>2, <1>4, <1>5, <1>6
<1>8. Prefixed(cmd, Append(Filled(Keyword(head)), Blank))
  <2> DEFINE f == Filled(Keyword(head))
             g == Append(f, Blank)
  <2>1. f \in Seq(Char) /\ Prefixed(cmd, f) /\ Len(cmd) \in Nat /\ Len(f) \in Nat
    BY <1>7, LenProperties DEF SessionInv, TextSound
  <2> HIDE DEF f
  <2>2. Len(g) = Len(f) + 1 /\ \A i \in 1 .. Len(f) : g[i] = f[i]
    <3>1. Blank \in Char
      BY AnswersAreText
    <3>2. \A c \in Char : Len(Append(f, c)) = Len(f) + 1
                          /\ \A i \in 1 .. Len(f) : Append(f, c)[i] = f[i]
      BY <2>1, AppendProperties
    <3> QED
      BY <3>1, <3>2
  <2> HIDE DEF g
  <2>3. Prefixed(cmd, g)
    BY <2>1, <2>2 DEF Prefixed
  <2> QED
    BY <2>3 DEF f, g
<1>9. \A x, y : <<x>>[1] = x /\ <<x, y>>[1] = x
  OBVIOUS
<1>10. <<Blank>> \in Leavings /\ <<>> \in Leavings
  BY Zenon DEF Leavings
<1> HIDE DEF Leavings, Prefixed
<1>11. output'[1] \in {Append(Filled(Keyword(head)), Blank), <<Blank>>,
                       Filled(MakeLastFillToken), <<>>}
  BY <1>1, <1>9, Zenon
<1> QED
  BY <1>7, <1>8, <1>10, <1>11, Zenon

LEMMA TabParses ==
  ASSUME SessionInv, TabInv, Parse
  PROVE  TabInv'
<1>1. ParserStep /\ UNCHANGED <<cmd, autotest>>
  BY DEF Parse
<1>2. cpi \in Requests
  BY DEF SessionInv, ParserTyped
<1>3. pc \in {"parse", "collect"} /\ pc' \in {"parse", "collect", "done"}
  BY <1>1 DEF ParserStep, TokenFails, ParamFails, TokenMatches, ExecIncomplete, ExecCli,
     StartCollect, CollectHelpNode, NoCandidate, PrintHelp, AutoFillOne, AutoFillCommon,
     AutoFillFails, Answer
<1>4. cpi'.req = cpi.req /\ cpi'.cli_org = cpi.cli_org /\ cpi'.last = cpi.last
  <2>1. CASE TokenMatches
    BY <1>2, <2>1 DEF TokenMatches, Requests
  <2>2. CASE ~TokenMatches
    <3>1. cpi' = cpi
      BY <1>1, <2>2 DEF ParserStep, TokenFails, ParamFails, ExecIncomplete, ExecCli,
         StartCollect, CollectHelpNode, NoCandidate, PrintHelp, AutoFillOne, AutoFillCommon,
         AutoFillFails
    <3> QED
      BY <3>1
  <2> QED
    BY <2>1, <2>2
<1>5. ASSUME cpi.req = "auto_fill", pc' = "done", output' # <<>>
      PROVE  output'[1] \in Leavings \/ Prefixed(cmd, output'[1])
  <2>1. CASE TokenFails \/ ParamFails
    <3>1. PICK m : output' = ParserErr(m)
      BY <2>1 DEF TokenFails, ParamFails, Answer
    <3>2. output'[1] = MarkFailToken
      BY <3>1 DEF ParserErr
    <3> QED
      BY <3>2, Zenon DEF Leavings
  <2>2. CASE AutoFillOne \/ AutoFillCommon
    BY <2>2, TabFilled
  <2>3. CASE ~(TokenFails \/ ParamFails \/ AutoFillOne \/ AutoFillCommon)
    <3>1. output' = <<>> \/ pc' # "done"
      BY <1>1, <1>3, <1>5, <2>3 DEF ParserStep, TokenMatches, ExecIncomplete, ExecCli,
         StartCollect, CollectHelpNode, NoCandidate, PrintHelp, AutoFillFails, Answer
    <3> QED
      BY <1>5, <3>1
  <2> QED
    BY <2>1, <2>2, <2>3
<1> QED
  BY <1>1, <1>3, <1>4, <1>5 DEF TabInv

LEMMA TabStep ==
  ASSUME SessionInv, TabInv, [Next]_sessionVars
  PROVE  TabInv'
<1>1. CASE \/ UNCHANGED sessionVars \/ StartUp \/ AutotestReadChar
           \/ \E text \in Typed : InputProcessText(text)
           \/ InputProcessCtrlC \/ InputProcessCtrlZ
  <2>1. UNCHANGED <<pc, cpi, output, autotest>> /\ (pc = "idle" \/ cmd' = cmd)
    BY <1>1 DEF sessionVars, parserVars, StartUp, AutotestReadChar, InputProcessText,
       InputProcessCtrlC, InputProcessCtrlZ
  <2>2. CASE pc = "idle"
    BY <2>1, <2>2 DEF TabInv
  <2>3. CASE cmd' = cmd
    BY <2>1, <2>3 DEF TabInv
  <2> QED
    BY <2>1, <2>2, <2>3
<1>2. CASE Parse
  BY <1>2, TabParses
<1>3. CASE AutotestRunLine \/ \E req \in {"exec", "query", "auto_fill"} : Ask(req)
  <2>1. PICK req \in {"exec", "query", "auto_fill"} :
          Request(req, cmd) /\ (req = "auto_fill" => ~autotest)
    BY <1>3 DEF AutotestRunLine, Ask
  <2>2. UNCHANGED <<cmd, autotest>>
    BY <1>3 DEF AutotestRunLine, Ask
  <2> QED
    BY <2>1, <2>2, TabAsked
<1>4. CASE ExecReturns \/ QueryReturns \/ AutoFillReturns
  <2>1. cpi' = NoRequest
    BY <1>4 DEF ExecReturns, QueryReturns, AutoFillReturns, CleanCliParserInfo
  <2> QED
    BY <2>1 DEF TabInv, NoRequest
<1> QED
  BY <1>1, <1>2, <1>3, <1>4 DEF Next, Computes

(* replace_parser_cmd() cuts what a line has no room for.                  *)
LEMMA CutLeavings ==
  ASSUME NEW text \in Leavings, NEW n \in Nat, n <= Len(text)
  PROVE  SubSeq(text, 1, n) \in Leavings
<1> DEFINE s == SubSeq(text, 1, n)
<1>1. text \in Seq(Char) /\ Len(text) \in Nat
  BY AnswersAreText, LenProperties DEF Leavings
<1>2. s \in Seq(Char) /\ Len(s) = n /\ \A i \in 1 .. n : s[i] = text[i]
  BY <1>1, SubSeqProperties
<1>3. <<Blank>> \in Leavings /\ <<>> \in Leavings
  BY Zenon DEF Leavings
<1> HIDE DEF s
<1>4. CASE n = 0
  <2>1. s = <<>>
    BY <1>2, <1>4, EmptySeq
  <2> QED
    BY <1>3, <2>1 DEF s
<1>5. CASE n = Len(text)
  <2>1. s = text
    BY <1>1, <1>2, <1>5, SeqEqual
  <2> QED
    BY <2>1 DEF s
<1>6. CASE n # 0 /\ n # Len(text)
  <2>1. Len(text) > 1
    BY <1>1, <1>6
  <2>2. Len(<<"Invalid command.">>) = 1 /\ Len(<<Blank>>) = 1 /\ Len(<<>>) = 0
    OBVIOUS
  <2>3. Len(text) # 1 /\ Len(text) # 0
    <3>1. \A m \in Nat : m > 1 => m # 1 /\ m # 0
      OBVIOUS
    <3> QED
      BY <1>1, <2>1, <3>1, Zenon
  <2>4. text = MarkFailToken
    BY <2>2, <2>3, Zenon DEF Leavings
  <2>5. text = <<Blank, "^">>
    BY <2>4 DEF MarkFailToken
  <2>6. text[1] = Blank /\ Len(text) = 2
    BY <2>5
  <2>7. n = 1
    BY <1>6, <2>6
  <2> DEFINE b == <<Blank>>
  <2>8. b \in Seq(Char) /\ Len(b) = 1 /\ b[1] = Blank
    BY AnswersAreText
  <2> HIDE DEF b
  <2>9. s = b
    BY <1>2, <2>6, <2>7, <2>8, SeqEqual
  <2> QED
    BY <1>3, <2>9 DEF s, b
<1> QED
  BY <1>4, <1>5, <1>6

(* Whatever is typed, Tab keeps the command or extends it, or leaves the
   caret or message of an error, a blank or nothing: as the answer begins
   with the command when it is none of these, so does what fits of it.     *)
THEOREM TabSound == Spec => TabReplaces
<1>1. Init => TabInv
  BY DEF Init, ParserInit, TabInv, NoRequest
<1>2. SessionInv /\ TabInv /\ [Next]_sessionVars => TabInv'
  BY TabStep
<1>3. ASSUME SessionInv, TabInv, [Next]_sessionVars, cpi.req = "auto_fill", cmd' # cmd
      PROVE  IsPrefix(cmd, cmd') \/ cmd' \in Leavings
  <2>1. pc # "idle"
    BY <1>3 DEF TabInv
  <2>2. AutoFillReturns
    BY <1>3, <2>1 DEF Next, Computes, StartUp, Parse, ExecReturns, QueryReturns,
       AutotestReadChar, AutotestRunLine, InputProcessText, Ask, InputProcessCtrlC,
       InputProcessCtrlZ, sessionVars
  <2> DEFINE text == output[1]
             n == IF Len(text) > CMD_MAX_LEN THEN CMD_MAX_LEN ELSE Len(text)
  <2>3. pc = "done" /\ output # <<>> /\ cmd' = SubSeq(text, 1, n)
    BY <1>3, <2>2 DEF AutoFillReturns, CleanCliParserInfo, ReplaceParserCmd
  <2>4. text \in Leavings \/ Prefixed(cmd, text)
    BY <1>3, <2>3 DEF TabInv
  <2>5. text \in Seq(Char) /\ Len(text) \in Nat
    BY <1>3, <2>3, LenProperties DEF SessionInv, RequestSound
  <2>6. cmd \in Seq(Char) /\ Len(cmd) \in Nat /\ Len(cmd) <= CMD_MAX_LEN
    BY <1>3, LenProperties DEF SessionInv, TextSound, TabInv
  <2>7. n \in Nat /\ n <= Len(text) /\ n \in {CMD_MAX_LEN, Len(text)}
    BY <2>5, TextAssumption
  <2> HIDE DEF text, n
  <2>8. CASE text \in Leavings
    BY <2>3, <2>7, <2>8, CutLeavings
  <2>9. CASE Prefixed(cmd, text)
    <3>1. /\ SubSeq(text, 1, n) \in Seq(Char) /\ Len(SubSeq(text, 1, n)) = n
          /\ \A i \in 1 .. n : SubSeq(text, 1, n)[i] = text[i]
      BY <2>5, <2>7, SubSeqProperties
    <3>2. Len(cmd) <= n
      BY <2>6, <2>7, <2>9 DEF Prefixed
    <3>3. Prefixed(cmd, cmd')
      BY <2>3, <2>6, <2>7, <2>9, <3>1, <3>2 DEF Prefixed
    <3> QED
      BY <2>3, <2>6, <3>1, <3>3, PrefixIs
  <2> QED
    BY <2>4, <2>8, <2>9
<1>4. SessionInv /\ TabInv /\ [Next]_sessionVars =>
        [cpi.req = "auto_fill" /\ cmd' # cmd =>
           \/ IsPrefix(cmd, cmd')
           \/ cmd' \in {MarkFailToken, <<"Invalid command.">>, <<Blank>>, <<>>}]_sessionVars
  BY <1>3 DEF Leavings
<1> QED
  BY SessionInvAlways, <1>1, <1>2, <1>4, PTL DEF Spec, TabReplaces

-----------------------------------------------------------------------------
(* What can still be typed at a list.                                      *)

(* Commands are sequences of symbols.                                      *)
LEMMA SayingsTyped ==
  ASSUME NEW ac \in [Node -> Addr], NEW al \in [Node -> Addr], NEW d \in Nat
  PROVE  Sayings(ac, al)[d] \in [Addr -> SUBSET Seq(Symbols)]
<1> DEFINE f == Sayings(ac, al)
           A == [Addr -> SUBSET Seq(Symbols)]
           S == {e \in Nat : f[e] \notin A}
<1>1. f[0] \in A
  <2>1. f[0] = Spelled(f[0 - 1], ac, al, 0)
    BY CommandsRec
  <2>2. \A y : SpelledBy(f[0 - 1], ac, 0, y) = {}
    BY DEF SpelledBy
  <2>3. f[0] = [x \in Addr |-> {}]
    BY <2>1, <2>2 DEF Spelled
  <2> QED
    BY <2>3
<1>2. ASSUME NEW e \in Nat, f[e] \in A
      PROVE  f[e + 1] \in A
  <2>1. e + 1 \in Nat /\ (e + 1) - 1 = e
    OBVIOUS
  <2>2. f[e + 1] = Spelled(f[e], ac, al, e + 1)
    BY <2>1, CommandsRec
  <2> QED
    BY <1>2, <2>1, <2>2, SpelledTyped
<1> HIDE DEF f, A
<1>3. S = {}
  <2> SUFFICES ASSUME S # {}
               PROVE  FALSE
    OBVIOUS
  <2>1. PICK m \in S : \A n \in S : m <= n
    BY LeastNat
  <2>2. m \in Nat /\ m # 0
    BY <1>1
  <2>3. m - 1 \in Nat /\ m - 1 \notin S /\ (m - 1) + 1 = m
    BY <2>1, <2>2
  <2> QED
    BY <1>2, <2>3
<1> QED
  BY <1>3 DEF f, A

(* r is a command that begins with node y, and has up to d more words.     *)
Begins(ac, al, d, y, r) ==
  \/ Type[y] = "END" /\ r = <<y>>
  \/ IsWord(y) /\ \E c \in Sayings(ac, al)[d][ac[y]] : r = <<Def[y].keyword>> \o c

(* The commands at a list are those that begin with a node of it.          *)
LEMMA SaysAt ==
  ASSUME NEW ac, NEW al, Sound(ac, al), NEW d \in Nat, NEW x \in Node, NEW r
  PROVE  r \in Sayings(ac, al)[d + 1][x] <=>
           \E y \in Elements(x, al) : Begins(ac, al, d, y, r)
<1>1. /\ ac \in [Node -> Addr] /\ al \in [Node -> Addr]
      /\ \A n \in Node : Type[n] \in EndType => al[n] = NULL
  BY DEF Sound
<1>2. d + 1 \in Nat /\ d + 1 # 0 /\ (d + 1) - 1 = d
  OBVIOUS
<1> DEFINE f == Sayings(ac, al)[d]
<1>3. Sayings(ac, al)[d + 1] = Spelled(f, ac, al, d + 1)
  BY <1>1, <1>2, CommandsRec
<1>4. ToSet(LevelIn(al, x)) = Elements(x, al)
  BY <1>1, LevelIs
<1>5. Sayings(ac, al)[d + 1][x] = UNION {SpelledBy(f, ac, d + 1, y) : y \in Elements(x, al)}
  BY <1>3, <1>4 DEF Spelled, Addr
<1> HIDE DEF f
<1>6. \A y : r \in SpelledBy(f, ac, d + 1, y) <=>
               \/ Type[y] = "END" /\ r = <<y>>
               \/ IsWord(y) /\ \E c \in f[ac[y]] : r = <<Def[y].keyword>> \o c
  BY <1>2 DEF SpelledBy, IsWord, EndType
<1>7. \A y : r \in SpelledBy(f, ac, d + 1, y) <=> Begins(ac, al, d, y, r)
  BY <1>6 DEF f, Begins
<1> QED
  BY <1>5, <1>7

(* No command is empty.                                                    *)
LEMMA SayingsSay ==
  ASSUME NEW ac, NEW al, Sound(ac, al), NEW d \in Nat, NEW x \in Node,
         NEW r \in Sayings(ac, al)[d + 1][x]
  PROVE  r \in Seq(Symbols) /\ Len(r) \in Nat /\ Len(r) >= 1
<1>1. ac \in [Node -> Addr] /\ al \in [Node -> Addr] /\ x \in Addr /\ d + 1 \in Nat
  BY DEF Sound, Addr
<1>2. r \in Seq(Symbols)
  BY <1>1, SayingsTyped
<1>3. r # <<>>
  <2>1. PICK y \in Elements(x, al) : Begins(ac, al, d, y, r)
    BY SaysAt
  <2>2. y \in Node
    <3>1. PICK q : Ranks(q, al)
      BY DEF Sound, Ranked
    <3> QED
      BY <1>1, <3>1, ListIsClosed
  <2>3. ASSUME NEW c \in Sayings(ac, al)[d][ac[y]], r = <<Def[y].keyword>> \o c
        PROVE  r # <<>>
    <3>1. c \in Seq(Symbols)
      BY <1>1, <2>2, SayingsTyped
    <3>2. Def[y].keyword \in Symbols
      BY <2>2 DEF Symbols
    <3>3. Len(r) = Len(c) + 1 /\ Len(c) \in Nat
      BY <2>3, <3>1, <3>2, ConsProperties
    <3> QED
      BY <3>3
  <2> QED
    BY <2>1, <2>3 DEF Begins
<1> QED
  BY <1>2, <1>3, EmptySeq, LenProperties

-----------------------------------------------------------------------------
(* What the parser sees where it looks for a token.                        *)

(* The words of a list are keywords, or it has nothing but a parameter, or
   nothing but the end of a command.                                       *)
Readable(x) ==
  /\ x \in Node /\ Elements(x, alter) \subseteq Node
  /\ \A y \in Elements(x, alter) :
       /\ IsWord(y) => /\ Type[y] \in KeywordType \cup {"STRING"}
                       /\ Type[y] = "STRING" <=> Def[y].keyword = "WORD"
       /\ Type[y] \in {"STRING", "END"} =>
            \A z \in Elements(x, alter) : z = y \/ Type[z] = "DEAD"

(* The parser has read j words of a command of mode m, the first one of them a
   prefix if neg.                                                          *)
At(T, x, m, j, neg) ==
  \/ x = root[m] /\ x # NULL /\ j = 0 /\ ~neg
  \/ x \in {"node_exit_end", "node_end_end"} /\ m # "exec" /\ j = 1 /\ ~neg
  \/ Leads(Links, T, alter, x, m, Path(x)) /\ j = Len(Path(x)) + (IF neg THEN 1 ELSE 0)

(* Nothing else is where a command ends.                                   *)
LEMMA EndsAreApart ==
  ASSUME TreeInv
  PROVE  EndsApart /\ Apart(LinksWith(example))
BY HomeTyped, LevelAssumption DEF EndsApart

(* Every list of the trees but the first ones.                             *)
LEMMA LedReadable ==
  ASSUME TreeInv, NEW T, NEW first, Shape(T, first), NEW x, NEW m,
         Leads(Links, T, alter, x, m, Path(x))
  PROVE  /\ Readable(x) /\ x \in T
         /\ \A y \in Elements(x, alter) : IsWord(y) \/ Type[y] = "END" =>
              y \in T /\ ModeOf(Links, y) = m /\ Path(y) = Path(x)
<1>1. /\ example \in ExampleLinks /\ Links = LinksWith(example)
      /\ link - 1 \in Nat /\ link - 1 <= Len(Links) /\ Len(Links) \in Nat
      /\ alter \in [Node -> Addr] /\ Ranked(alter) /\ T \subseteq Home /\ T \subseteq Chained
      /\ Distinct(Links, T)
  BY HomeTyped, TreesSound DEF Shape, Planted
<1>2. x \in T /\ x \in Node
  BY <1>1, LeaderOnList, PathsTyped
<1>3. PICK r : Ranks(r, alter)
  BY <1>1 DEF Ranked
<1>4. Elements(x, alter) \subseteq Node
  BY <1>1, <1>2, <1>3, ListIsClosed
<1>5. Type[NO_ALT] = "DEAD"
  BY NodeAssumption, ChainAssumption DEF Static
<1>6. ASSUME NEW y \in Elements(x, alter)
      PROVE  y = NO_ALT \/ (y \in T /\ ModeOf(Links, y) = m /\ Path(y) = Path(x))
  BY DEF Leads
<1>7. \A y \in T : /\ Type[y] \in {"KEYWORD", "STRING", "END"}
                   /\ IsWord(y) => (Type[y] = "STRING" <=> Def[y].keyword = "WORD")
  BY <1>1, ChainAssumption
<1>8. ASSUME NEW y \in T, NEW z \in T, Meet(Links, y, z), Type[y] = "END"
      PROVE  z = y
  <2>1. y \in LinkedBy(LinksWith(example), link - 1) /\ z \in LinkedBy(LinksWith(example), link - 1)
    BY <1>1 DEF Home
  <2>2. ~IsWord(y)
    BY <1>8 DEF IsWord, EndType
  <2> QED
    BY <1>1, <1>8, <2>1, <2>2, EndsAreApart, EndsAlone
<1>9. ASSUME NEW y \in T, NEW z \in T, Meet(Links, y, z), Type[y] = "STRING"
      PROVE  z = y
  <2>1. y \in LinkedBy(Links, Len(Links)) /\ z \in LinkedBy(Links, Len(Links))
    BY <1>1 DEF Home, LinkedBy
  <2>2. IsWord(y)
    BY <1>9 DEF IsWord, EndType
  <2>3. Def[z].keyword = Def[y].keyword
    BY <1>1, <1>9, <2>1, <2>2, LevelAssumption
  <2> QED
    BY <1>1, <1>9, <2>3 DEF Distinct
<1>10. ASSUME NEW y \in Elements(x, alter), Type[y] \in {"STRING", "END"},
              NEW z \in Elements(x, alter)
       PROVE  z = y \/ Type[z] = "DEAD"
  <2>1. CASE z = NO_ALT
    BY <1>5, <2>1
  <2>2. CASE z # NO_ALT
    <3>1. y \in T /\ z \in T /\ Meet(Links, y, z)
      BY <1>5, <1>6, <1>10, <2>2 DEF Meet
    <3> QED
      BY <1>8, <1>9, <1>10, <3>1
  <2> QED
    BY <2>1, <2>2
<1>11. ASSUME NEW y \in Elements(x, alter), IsWord(y)
       PROVE  Type[y] \in KeywordType \cup {"STRING"} /\ (Type[y] = "STRING" <=> Def[y].keyword = "WORD")
  BY <1>5, <1>6, <1>7, <1>11 DEF IsWord, EndType, KeywordType
<1>12. Readable(x)
  BY <1>2, <1>4, <1>10, <1>11 DEF Readable
<1> QED
  BY <1>2, <1>5, <1>6, <1>12 DEF IsWord, EndType

(* The list of a mode, behind the built-in commands.                       *)
LEMMA FirstReadable ==
  ASSUME TreeInv, NEW T, NEW first \in [Mode -> Addr], Shape(T, first), NEW m \in Mode,
         first[m] # NULL
  PROVE  /\ first[m] \in T /\ first[m] \in Node /\ Leads(Links, T, alter, first[m], m, Path(first[m]))
         /\ Len(Path(first[m])) = 0
         /\ \A y \in Elements(first[m], alter) :
              /\ y \in Node
              /\ IsWord(y) => Type[y] = "KEYWORD" /\ Def[y].keyword # "WORD" /\ y \in T
              /\ Type[y] # "END" /\ Type[y] # "STRING"
<1>1. /\ T \subseteq Chained /\ T \subseteq Home /\ alter \in [Node -> Addr] /\ Ranked(alter)
      /\ Leads(Links, T, alter, first[m], m, <<>>)
      /\ Links = LinksWith(example) /\ example \in ExampleLinks
      /\ link - 1 \in Nat /\ link - 1 <= Len(Links) /\ Len(Links) \in Nat
  BY HomeTyped, TreesSound DEF Shape, Planted
<1>2. first[m] \in T /\ Path(first[m]) = <<>>
  BY <1>1, LeaderOnList
<1>3. Leads(Links, T, alter, first[m], m, Path(first[m]))
  BY <1>1, <1>2
<1>4. Readable(first[m]) /\ \A y \in Elements(first[m], alter) : IsWord(y) \/ Type[y] = "END" =>
                              y \in T /\ ModeOf(Links, y) = m /\ Path(y) = Path(first[m])
  BY <1>3, LedReadable
<1>5. ASSUME NEW y \in T, Path(y) = <<>>
      PROVE  Type[y] = "KEYWORD" /\ Def[y].keyword # "WORD" /\ IsWord(y)
  <2>1. y \in LinkedBy(Links, Len(Links))
    BY <1>1 DEF Home, LinkedBy
  <2>2. Type[y] # "STRING"
    BY <1>1, <1>5, <2>1, LevelAssumption
  <2> QED
    BY <1>1, <1>5, <2>2, ChainAssumption DEF IsWord, EndType
<1>6. ASSUME NEW y \in Elements(first[m], alter)
      PROVE  /\ y \in Node
             /\ IsWord(y) => Type[y] = "KEYWORD" /\ Def[y].keyword # "WORD" /\ y \in T
             /\ Type[y] # "END" /\ Type[y] # "STRING"
  <2>1. y \in Node
    BY <1>4 DEF Readable
  <2>2. IsWord(y) \/ Type[y] = "END" => /\ Type[y] = "KEYWORD" /\ Def[y].keyword # "WORD"
                                        /\ IsWord(y) /\ y \in T
    BY <1>2, <1>4, <1>5
  <2> QED
    BY <2>1, <2>2 DEF IsWord, EndType
<1>7. Len(Path(first[m])) = 0 /\ first[m] \in Node
  BY <1>1, <1>2, PathsTyped
<1> QED
  BY <1>2, <1>3, <1>6, <1>7

(* The first list of a mode.                                               *)
LEMMA RootReadable ==
  ASSUME TreeInv, NEW T, NEW first \in [Mode -> Addr], Shape(T, first), NEW m \in Mode,
         root[m] # NULL, root[m] # first[m]
  PROVE  /\ Readable(root[m])
         /\ \A y \in Elements(root[m], alter) :
              /\ Type[y] # "END"
              /\ IsWord(y) =>
                   \/ acc[y] \in {"node_exit_end", "node_end_end"} /\ Type[y] = "KEYWORD"
                   \/ acc[y] = first[m] /\ first[m] # NULL /\ Type[y] \in {"NO", "DEFAULT"}
                   \/ y \in Elements(first[m], alter) /\ first[m] # NULL /\ Type[y] = "KEYWORD"
              /\ \/ y \in {Clone[m][t] : t \in Template}
                 \/ y \in Elements(first[m], alter) /\ first[m] # NULL
         /\ m # "exec"
<1> DEFINE ex == Clone[m]["node_exit"]
           en == Clone[m]["node_end"]
           no == Clone[m]["node_no"]
           de == Clone[m]["node_default"]
           L == IF first[m] = NULL THEN {} ELSE Elements(first[m], alter)
<1>1. /\ ex \in Node /\ en \in Node /\ no \in Node /\ de \in Node
      /\ Def[ex].keyword = "exit" /\ Def[en].keyword = "end"
      /\ Def[no].keyword = "no" /\ Def[de].keyword = "default"
      /\ Type[ex] = "KEYWORD" /\ Type[en] = "KEYWORD" /\ Type[no] = "NO" /\ Type[de] = "DEFAULT"
  BY CloneIs, TemplatesSay DEF Type
<1>2. alter \in [Node -> Addr] /\ Ranked(alter)
  BY HomeTyped
<1>3. m # "exec" /\ (LedByExit(m, first[m]) \/ LedByAll(m, first[m]))
  BY DEF Shape, Tops
<1>4. \A y \in L : /\ y \in Node /\ first[m] # NULL /\ y \in Elements(first[m], alter)
                   /\ IsWord(y) => Type[y] = "KEYWORD" /\ Def[y].keyword # "WORD"
                   /\ Type[y] # "END" /\ Type[y] # "STRING"
  BY FirstReadable
<1> DEFINE S == {ex, en, no, de}
<1>5. root[m] = ex /\ Elements(ex, alter) \subseteq S \cup L
      /\ acc[ex] = "node_exit_end" /\ acc[en] = "node_end_end"
      /\ (\A y \in {no, de} \cap Elements(ex, alter) : y \in L \/ (acc[y] = first[m] /\ first[m] # NULL))
  <2>1. CASE LedByExit(m, first[m])
    <3>1. /\ root[m] = ex /\ acc[ex] = "node_exit_end" /\ acc[en] = "node_end_end"
          /\ alter[ex] = en /\ alter[en] = first[m]
      BY <2>1 DEF LedByExit
    <3>2. Elements(ex, alter) = {ex} \cup Elements(en, alter)
      BY <1>1, <1>2, <3>1, ListUnfoldsToSet, NodeAssumption
    <3>3. Elements(en, alter) = {en} \cup L
      BY <1>1, <1>2, <3>1, ListUnfoldsToSet
    <3>4. no \notin {ex, en} /\ de \notin {ex, en}
      BY <1>1
    <3> HIDE DEF ex, en, no, de, L
    <3> QED
      BY <3>1, <3>2, <3>3, <3>4
  <2>2. CASE LedByAll(m, first[m])
    <3>1. /\ root[m] = ex /\ acc[ex] = "node_exit_end" /\ acc[en] = "node_end_end"
          /\ alter[ex] = en /\ alter[en] = no /\ alter[no] = de /\ alter[de] = first[m]
          /\ acc[no] = first[m] /\ acc[de] = first[m] /\ first[m] # NULL
      BY <2>2 DEF LedByAll
    <3>2. Elements(ex, alter) = {ex} \cup Elements(en, alter)
      BY <1>1, <1>2, <3>1, ListUnfoldsToSet, NodeAssumption
    <3>3. Elements(en, alter) = {en} \cup Elements(no, alter)
      BY <1>1, <1>2, <3>1, ListUnfoldsToSet, NodeAssumption
    <3>4. Elements(no, alter) = {no} \cup Elements(de, alter)
      BY <1>1, <1>2, <3>1, ListUnfoldsToSet, NodeAssumption
    <3>5. Elements(de, alter) = {de} \cup L
      BY <1>1, <1>2, <3>1, ListUnfoldsToSet
    <3> HIDE DEF ex, en, no, de, L
    <3> QED
      BY <3>1, <3>2, <3>3, <3>4, <3>5
  <2> QED
    BY <1>3, <2>1, <2>2
<1>a. S \subseteq {Clone[m][t] : t \in Template}
  BY DEF Template
<1>b. \A y \in Elements(ex, alter) : y \in {Clone[m][t] : t \in Template} \/ y \in L
  BY <1>5, <1>a
<1> HIDE DEF ex, en, no, de, L
<1>6. \A y \in Elements(ex, alter) :
        /\ y \in Node /\ Type[y] # "END" /\ Type[y] # "STRING"
        /\ IsWord(y) => Type[y] \in KeywordType /\ Def[y].keyword # "WORD"
  BY <1>1, <1>4, <1>5 DEF KeywordType
<1>7. Readable(ex)
  BY <1>1, <1>6 DEF Readable
<1>8. \A y \in Elements(ex, alter) : IsWord(y) =>
        \/ acc[y] \in {"node_exit_end", "node_end_end"} /\ Type[y] = "KEYWORD"
        \/ acc[y] = first[m] /\ first[m] # NULL /\ Type[y] \in {"NO", "DEFAULT"}
        \/ y \in Elements(first[m], alter) /\ first[m] # NULL /\ Type[y] = "KEYWORD"
  BY <1>1, <1>4, <1>5
<1> QED
  BY <1>3, <1>5, <1>6, <1>7, <1>8, <1>b, <1>4

(* Wherever the parser is, it can read on, within the bounds.              *)
LEMMA AtReadable ==
  ASSUME TreeInv, NEW T, NEW first \in [Mode -> Addr], Shape(T, first), NEW m \in Mode,
         NEW x, NEW j, NEW neg \in BOOLEAN, At(T, x, m, j, neg)
  PROVE  /\ Readable(x) /\ j \in Nat /\ j <= MaxWords /\ j < CLI_TOKEN_MAX_CNT
         /\ \A y \in Elements(x, alter) :
              /\ IsWord(y) => /\ acc[y] \in Node
                              /\ At(T, acc[y], m, j + 1, neg \/ Type[y] \in {"NO", "DEFAULT"})
              /\ Type[y] = "END" => \/ y \in {"node_exit_end", "node_end_end"} /\ ~neg /\ m # "exec"
                                    \/ y \in T /\ ModeOf(Links, y) = m
<1>1. /\ T \subseteq Chained /\ alter \in [Node -> Addr] /\ Ranked(alter)
      /\ Grove(Links, T, alter) /\ NULL \notin Node
      /\ \A n \in Static : n \in Node /\ acc[n] = StaticNode[n].acc
  BY HomeTyped, TreesSound, NodeAssumption DEF Shape, Planted
<1>2. ASSUME NEW h, NEW k, Leads(Links, T, alter, h, m, Path(h)),
             NEW y \in Elements(h, alter), IsWord(y)
      PROVE  /\ acc[y] \in Node /\ Type[y] \in {"KEYWORD", "STRING"}
             /\ Leads(Links, T, alter, acc[y], m, Path(acc[y])) /\ Len(Path(acc[y])) = Len(Path(h)) + 1
  <2>1. y \in T /\ ModeOf(Links, y) = m /\ Path(y) = Path(h)
    BY <1>2, LedReadable
  <2>2. y \in Static /\ acc[y] = StaticNode[y].acc /\ y \in Chained
    BY <1>1, <2>1, PathsTyped
  <2>3. Leads(Links, T, alter, acc[y], m, PathBehind(y))
    BY <1>1, <1>2, <2>1, <2>2 DEF Grove
  <2>4. acc[y] \in T /\ Path(acc[y]) = PathBehind(y)
    BY <1>1, <2>3, LeaderOnList
  <2>5. Len(PathBehind(y)) = Len(Path(y)) + 1 /\ acc[y] \in Node
    BY <1>1, <2>2, <2>4, PathsTyped
  <2>6. Type[y] \in {"KEYWORD", "STRING"}
    BY <1>2, <2>2, ChainAssumption DEF IsWord, EndType
  <2> QED
    BY <2>1, <2>3, <2>4, <2>5, <2>6
<1>3. MaxWords = 5
  BY DEF MaxWords
<1>4. CLI_TOKEN_MAX_CNT \in Nat /\ CLI_TOKEN_MAX_CNT > 1
  BY TokenAssumption
<1>5. CASE Leads(Links, T, alter, x, m, Path(x)) /\ j = Len(Path(x)) + (IF neg THEN 1 ELSE 0)
  <2>1. Readable(x) /\ x \in T /\ x \in Chained
    BY <1>1, <1>5, LedReadable
  <2>2. Len(Path(x)) \in Nat /\ Len(Path(x)) < MaxWords /\ Len(Path(x)) + 1 < CLI_TOKEN_MAX_CNT
    BY <2>1, PathsTyped, TokenAssumption
  <2>3. j \in Nat /\ j <= MaxWords /\ j < CLI_TOKEN_MAX_CNT
    BY <1>3, <1>4, <1>5, <2>2
  <2>4. ASSUME NEW y \in Elements(x, alter), IsWord(y)
        PROVE  acc[y] \in Node /\ At(T, acc[y], m, j + 1, neg \/ Type[y] \in {"NO", "DEFAULT"})
    <3>1. /\ acc[y] \in Node /\ Type[y] \in {"KEYWORD", "STRING"}
          /\ Leads(Links, T, alter, acc[y], m, Path(acc[y])) /\ Len(Path(acc[y])) = Len(Path(x)) + 1
      BY <1>2, <1>5, <2>4
    <3>2. (neg \/ Type[y] \in {"NO", "DEFAULT"}) = neg
      BY <3>1
    <3>3. j + 1 = Len(Path(acc[y])) + (IF neg THEN 1 ELSE 0)
      BY <1>5, <2>2, <3>1
    <3> QED
      BY <3>1, <3>2, <3>3 DEF At
  <2>5. \A y \in Elements(x, alter) : Type[y] = "END" => y \in T /\ ModeOf(Links, y) = m
    BY <1>5, LedReadable
  <2> QED
    BY <2>1, <2>3, <2>4, <2>5
<1>6. CASE x \in {"node_exit_end", "node_end_end"} /\ m # "exec" /\ j = 1 /\ ~neg
  <2>1. x \in Node /\ Type[x] = "END" /\ alter[x] = NULL
    BY <1>1, <1>6, TemplatesSay, TreesSound DEF EndType
  <2>2. Elements(x, alter) = {x}
    BY <1>1, <2>1, ListUnfoldsToSet
  <2>3. Readable(x) /\ ~IsWord(x)
    BY <2>1, <2>2 DEF Readable, IsWord, EndType
  <2> QED
    BY <1>3, <1>4, <1>6, <2>2, <2>3
<1>7. CASE x = root[m] /\ x # NULL /\ j = 0 /\ ~neg
  <2>1. CASE root[m] = first[m]
    <3>1. Leads(Links, T, alter, x, m, Path(x)) /\ Len(Path(x)) = 0
      BY <1>7, <2>1, FirstReadable
    <3>2. j = Len(Path(x)) + (IF neg THEN 1 ELSE 0)
      BY <1>7, <3>1
    <3> QED
      BY <1>5, <3>1, <3>2
  <2>2. CASE root[m] # first[m]
    <3>1. /\ Readable(x) /\ m # "exec"
          /\ \A y \in Elements(x, alter) :
               /\ Type[y] # "END"
               /\ IsWord(y) =>
                   \/ acc[y] \in {"node_exit_end", "node_end_end"} /\ Type[y] = "KEYWORD"
                   \/ acc[y] = first[m] /\ first[m] # NULL /\ Type[y] \in {"NO", "DEFAULT"}
                   \/ y \in Elements(first[m], alter) /\ first[m] # NULL /\ Type[y] = "KEYWORD"
      BY <1>7, <2>2, RootReadable
    <3>2. ASSUME NEW y \in Elements(x, alter), IsWord(y)
          PROVE  acc[y] \in Node /\ At(T, acc[y], m, j + 1, neg \/ Type[y] \in {"NO", "DEFAULT"})
      <4>1. CASE acc[y] \in {"node_exit_end", "node_end_end"} /\ Type[y] = "KEYWORD"
        <5>1. acc[y] \in Node
          BY <1>1, <4>1, TemplatesSay
        <5>2. At(T, acc[y], m, 1, FALSE)
          BY <3>1, <4>1 DEF At
        <5>3. (neg \/ Type[y] \in {"NO", "DEFAULT"}) = FALSE /\ j + 1 = 1
          BY <1>7, <4>1
        <5> QED
          BY <5>1, <5>2, <5>3
      <4>2. CASE acc[y] = first[m] /\ first[m] # NULL /\ Type[y] \in {"NO", "DEFAULT"}
        <5>1. /\ acc[y] \in Node /\ Leads(Links, T, alter, acc[y], m, Path(acc[y]))
              /\ Len(Path(acc[y])) = 0
          BY <4>2, FirstReadable
        <5>2. At(T, acc[y], m, 1, TRUE)
          BY <5>1 DEF At
        <5>3. (neg \/ Type[y] \in {"NO", "DEFAULT"}) = TRUE /\ j + 1 = 1
          BY <1>7, <4>2
        <5> QED
          BY <5>1, <5>2, <5>3
      <4>3. CASE y \in Elements(first[m], alter) /\ first[m] # NULL /\ Type[y] = "KEYWORD"
        <5>1. /\ Leads(Links, T, alter, first[m], m, Path(first[m]))
              /\ Len(Path(first[m])) = 0
          BY <4>3, FirstReadable
        <5>2. /\ acc[y] \in Node /\ Leads(Links, T, alter, acc[y], m, Path(acc[y]))
              /\ Len(Path(acc[y])) = 1
          <6>1. /\ acc[y] \in Node /\ Leads(Links, T, alter, acc[y], m, Path(acc[y]))
                /\ Len(Path(acc[y])) = Len(Path(first[m])) + 1
            BY <1>2, <3>2, <4>3, <5>1
          <6> QED
            BY <5>1, <6>1
        <5>3. At(T, acc[y], m, 1, FALSE)
          BY <5>2 DEF At
        <5>4. (neg \/ Type[y] \in {"NO", "DEFAULT"}) = FALSE /\ j + 1 = 1
          BY <1>7, <4>3
        <5> QED
          BY <5>2, <5>3, <5>4
      <4> QED
        BY <3>1, <3>2, <4>1, <4>2, <4>3
    <3> QED
      BY <1>3, <1>4, <1>7, <3>1, <3>2
  <2> QED
    BY <2>1, <2>2
<1> QED
  BY <1>5, <1>6, <1>7 DEF At

-----------------------------------------------------------------------------
(* What a token is taken for.                                              *)

(* If it is no word but one, it stands for no other.                       *)
LEMMA MatchRead ==
  ASSUME NEW x, Readable(x), \A n \in Node : Type[n] \in EndType => alter[n] = NULL,
         TreeInv, NEW token,
         GetMatchNode(x, token).node # NULL, GetMatchNode(x, token).cnt <= 1
  PROVE  LET y == GetMatchNode(x, token).node IN
         /\ y \in Elements(x, alter) /\ IsWord(y)
         /\ \A z \in Elements(x, alter) : IsWord(z) => (StandsFor(token, Def[z].keyword) <=> z = y)
<1> DEFINE level == Level(x)
           words == {i \in DOMAIN level : Matches(token, level[i])}
           params == {i \in DOMAIN level : Type[level[i]] \in ParamType}
           y == GetMatchNode(x, token).node
           E == Elements(x, alter)
<1>1. x \in Node /\ alter \in [Node -> Addr]
  BY HomeTyped DEF Readable
<1>2. level \in Seq(Node) /\ Len(level) \in Nat /\ DOMAIN level = 1 .. Len(level)
  BY <1>1, LevelPlaces
<1>3. \A z : z \in E <=> \E i \in 1 .. Len(level) : level[i] = z
  <2>1. ToSet(level) = E
    BY <1>1, LevelIs DEF Level
  <2>2. ToSet(level) = {level[i] : i \in 1 .. Len(level)}
    BY <1>2 DEF ToSet
  <2> QED
    BY <2>1, <2>2
<1>4. /\ y = IF token[1] = Quote THEN (IF params = {} THEN NULL ELSE level[Min(params)])
             ELSE IF words # {} THEN level[Max(words)]
             ELSE IF params # {} THEN level[Max(params)] ELSE NULL
      /\ token[1] # Quote => Cardinality(words) <= 1
  BY <1>2 DEF GetMatchNode, MatchIn
<1>5. words \subseteq 1 .. Len(level) /\ params \subseteq 1 .. Len(level) /\ params \subseteq Nat
  BY <1>2
<1>6. /\ \A i \in 1 .. Len(level) : i \in words <=> Matches(token, level[i])
      /\ \A i \in 1 .. Len(level) : i \in params <=> Type[level[i]] = "STRING"
  BY <1>2 DEF ParamType
<1>7. /\ params # {} => Min(params) \in params /\ Max(params) \in params
      /\ words # {} => Max(words) \in words
  BY <1>2, <1>5, LeastOf, GreatestOf
<1>8. y # NULL
  OBVIOUS
<1>9. \A z \in E :
        /\ IsWord(z) => Type[z] \in KeywordType \cup {"STRING"} /\ (Type[z] = "STRING" <=> Def[z].keyword = "WORD")
        /\ Type[z] = "STRING" => \A v \in E : v = z \/ Type[v] = "DEAD"
  BY DEF Readable
<1>a. \A z : Matches(token, z) <=> Type[z] \in KeywordType /\ IsPrefix(token, Spell[Def[z].keyword])
  BY DEF Matches, Keyword
<1> HIDE DEF level, words, params, y, E
<1>10. CASE params # {}
  <2>1. PICK i \in params : TRUE
    BY <1>10
  <2>2. level[i] \in E /\ Type[level[i]] = "STRING"
    BY <1>3, <1>5, <1>6
  <2>3. words = {}
    <3> SUFFICES ASSUME NEW k \in words
                 PROVE  FALSE
      OBVIOUS
    <3>1. level[k] \in E /\ Type[level[k]] \in KeywordType
      BY <1>3, <1>5, <1>6, <1>a
    <3>2. level[k] = level[i] \/ Type[level[k]] = "DEAD"
      BY <1>9, <2>2, <3>1
    <3> QED
      BY <2>2, <3>1, <3>2 DEF KeywordType
  <2>4. y = level[Min(params)] \/ y = level[Max(params)]
    BY <1>4, <1>10, <2>3
  <2>5. y \in E /\ Type[y] = "STRING"
    BY <1>3, <1>5, <1>6, <1>7, <1>10, <2>4
  <2>6. IsWord(y) /\ Def[y].keyword = "WORD"
    BY <1>9, <2>5 DEF IsWord, EndType
  <2>7. \A z \in E : IsWord(z) => z = y
    BY <1>9, <2>5 DEF IsWord, EndType
  <2> QED
    BY <2>5, <2>6, <2>7 DEF StandsFor, y, E
<1>11. CASE params = {}
  <2>1. token[1] # Quote /\ words # {} /\ y = level[Max(words)]
    BY <1>4, <1>8, <1>11
  <2>2. \A i \in words : i = Max(words)
    <3> DEFINE k == Max(words)
    <3>1. k \in words /\ Cardinality(words) <= 1
      BY <1>4, <1>7, <2>1
    <3> HIDE DEF k
    <3>2. IsFiniteSet(words)
      <4>1. IsFiniteSet(1 .. Len(level))
        BY <1>2, FS_Interval
      <4> QED
        BY <1>5, <4>1, FS_Subset
    <3>3. /\ IsFiniteSet(words \ {k}) /\ Cardinality(words \ {k}) = Cardinality(words) - 1
          /\ Cardinality(words \ {k}) \in Nat /\ Cardinality(words) \in Nat
      BY <3>1, <3>2, FS_RemoveElement, FS_CardinalityType
    <3>4. Cardinality(words \ {k}) = 0
      BY <3>1, <3>3
    <3>5. words \ {k} = {}
      BY <3>3, <3>4, FS_EmptySet
    <3> QED
      BY <3>5 DEF k
  <2>3. y \in E /\ Matches(token, y)
    BY <1>3, <1>5, <1>6, <1>7, <2>1
  <2>4. IsWord(y)
    BY <1>a, <2>3 DEF IsWord, KeywordType, EndType
  <2>5. ASSUME NEW z \in E, IsWord(z)
        PROVE  StandsFor(token, Def[z].keyword) <=> Matches(token, z)
    <3>1. Type[z] # "STRING"
      BY <1>3, <1>6, <1>11, <2>5
    <3> QED
      BY <1>9, <1>a, <2>5, <3>1 DEF StandsFor
  <2>6. ASSUME NEW z \in E, Matches(token, z)
        PROVE  z = y
    <3>1. PICK i \in 1 .. Len(level) : level[i] = z
      BY <1>3
    <3> QED
      BY <1>6, <2>1, <2>2, <2>6, <3>1
  <2> QED
    BY <2>3, <2>4, <2>5, <2>6 DEF y, E
<1> QED
  BY <1>10, <1>11

-----------------------------------------------------------------------------
(* What the tokens that were read can stand for.                           *)

(* What can follow where j words were read.                                *)
Rest(j, x) == Sayings(acc, alter)[MaxWords + 1 - j][x]

(* The commands at r that the first j tokens can begin.                    *)
Still(r, tokens, j) ==
  {c \in Commands(acc, alter, r) : j < Len(c) /\ \A i \in 1 .. j : StandsFor(tokens[i], c[i])}

(* They are those that begin with the words pre, which the parser read.    *)
Reads(r, tokens, j, pre, x) ==
  /\ pre \in Seq(Symbols) /\ Len(pre) = j
  /\ Still(r, tokens, j) = {pre \o c : c \in Rest(j, x)}

(* Nothing is read yet.                                                    *)
LEMMA ReadsStart ==
  ASSUME Sound(acc, alter), NEW x \in Node, NEW tokens
  PROVE  Reads(x, tokens, 0, <<>>, x)
<1> DEFINE C == Commands(acc, alter, x)
<1>1. MaxWords \in Nat /\ MaxWords + 1 - 0 = MaxWords + 1
  BY DEF MaxWords
<1>2. C = Sayings(acc, alter)[MaxWords + 1][x]
  BY CommandsIs
<1>3. C = Rest(0, x)
  BY <1>1, <1>2 DEF Rest
<1>4. \A c \in C : c \in Seq(Symbols) /\ Len(c) \in Nat /\ Len(c) >= 1
  BY <1>1, <1>2, SayingsSay
<1> HIDE DEF C
<1>5. \A c \in C : <<>> \o c = c /\ 0 < Len(c)
  BY <1>4, ConcatEmptySeq
<1>6. Still(x, tokens, 0) = C
  BY <1>5 DEF Still, C
<1>7. {<<>> \o c : c \in Rest(0, x)} = C
  BY <1>3, <1>5
<1>8. <<>> \in Seq(Symbols) /\ Len(<<>>) = 0
  OBVIOUS
<1> QED
  BY <1>6, <1>7, <1>8 DEF Reads

(* Joined sequences, element by element.                                   *)
LEMMA JoinedIs ==
  ASSUME NEW S, NEW p \in Seq(S), NEW w \in S, NEW c \in Seq(S)
  PROVE  /\ p \o (<<w>> \o c) = Append(p, w) \o c
         /\ p \o (<<w>> \o c) \in Seq(S)
         /\ Len(p \o (<<w>> \o c)) = Len(p) + 1 + Len(c)
         /\ (p \o (<<w>> \o c))[Len(p) + 1] = w
<1>1. <<w>> \in Seq(S) /\ Len(<<w>>) = 1 /\ <<w>>[1] = w /\ Len(p) \in Nat /\ Len(c) \in Nat
  OBVIOUS
<1> DEFINE o == <<w>>
           t == o \o c
           u == p \o t
<1>2. t \in Seq(S) /\ Len(t) = Len(c) + 1 /\ t[1] = w
  BY ConsProperties
<1>3. Append(p, w) = p \o o
  BY AppendIsConcat
<1>4. (p \o o) \o c = p \o (o \o c)
  BY <1>1, ConcatAssociative
<1> HIDE DEF o, t
<1>5. u \in Seq(S) /\ Len(u) = Len(p) + Len(t)
      /\ \A i \in 1 .. Len(p) + Len(t) : u[i] = IF i <= Len(p) THEN p[i] ELSE t[i - Len(p)]
  BY <1>2, ConcatProperties
<1> HIDE DEF u
<1>6. u[Len(p) + 1] = w
  <2>1. Len(p) + 1 \in 1 .. Len(p) + Len(t) /\ ~(Len(p) + 1 <= Len(p)) /\ Len(p) + 1 - Len(p) = 1
    BY <1>1, <1>2
  <2> QED
    BY <1>2, <1>5, <2>1
<1>7. Len(u) = Len(p) + 1 + Len(c)
  BY <1>1, <1>2, <1>5
<1> QED
  BY <1>3, <1>4, <1>5, <1>6, <1>7 DEF o, t, u

(* A token that stands for one word is read.                               *)
LEMMA ReadsOn ==
  ASSUME Sound(acc, alter), NEW r \in Node, NEW tokens, NEW j \in Nat, j <= MaxWords, NEW pre,
         NEW x, Readable(x), Reads(r, tokens, j, pre, x),
         NEW y \in Elements(x, alter), IsWord(y), acc[y] \in Node,
         NEW d \in Nat, d + j = MaxWords,
         \A z \in Elements(x, alter) :
           IsWord(z) => (StandsFor(tokens[j + 1], Def[z].keyword) <=> z = y),
         j < MaxWords
  PROVE  Reads(r, tokens, j + 1, Append(pre, Def[y].keyword), acc[y])
<1> DEFINE w == Def[y].keyword
           F == Sayings(acc, alter)[d][acc[y]]
<1>1. MaxWords \in Nat /\ MaxWords + 1 - j = d + 1 /\ MaxWords + 1 - (j + 1) = d /\ d \in Nat
  BY DEF MaxWords
<1>2. PICK e \in Nat : d = e + 1
  <2>1. d - 1 \in Nat /\ d = (d - 1) + 1
    BY <1>1
  <2> QED
    BY <2>1
<1>3. /\ Rest(j, x) = Sayings(acc, alter)[d + 1][x] /\ Rest(j + 1, acc[y]) = F
      /\ x \in Node /\ Elements(x, alter) \subseteq Node
  BY <1>1 DEF Rest, Readable
<1>4. /\ pre \in Seq(Symbols) /\ Len(pre) = j
      /\ Still(r, tokens, j) = {pre \o c : c \in Rest(j, x)}
  BY DEF Reads
<1>5. w \in Symbols
  BY <1>3 DEF Symbols
<1>6. \A c \in F : c \in Seq(Symbols) /\ Len(c) \in Nat /\ Len(c) >= 1
  BY <1>2, SayingsSay
<1>7. \A c \in Rest(j, x) : c \in Seq(Symbols) /\ Len(c) \in Nat /\ Len(c) >= 1
  BY <1>3, SayingsSay
<1>8. \A c : c \in Rest(j, x) <=> \E z \in Elements(x, alter) : Begins(acc, alter, d, z, c)
  BY <1>3, SaysAt
<1> HIDE DEF w, F
<1>9. \A c : c \in Still(r, tokens, j + 1) <=>
               /\ c \in Still(r, tokens, j)
               /\ j + 1 < Len(c) /\ StandsFor(tokens[j + 1], c[j + 1])
  <2> TAKE c
  <2>1. ASSUME c \in Still(r, tokens, j + 1)
        PROVE  /\ c \in Still(r, tokens, j)
               /\ j + 1 < Len(c) /\ StandsFor(tokens[j + 1], c[j + 1])
    <3>1. c \in Commands(acc, alter, r) /\ j + 1 < Len(c)
          /\ \A i \in 1 .. j + 1 : StandsFor(tokens[i], c[i])
      BY <2>1 DEF Still
    <3>2. j < Len(c)
      <4>1. Len(c) \in Nat
        <5>1. c \in Sayings(acc, alter)[MaxWords + 1][r]
          BY <3>1, CommandsIs
        <5> QED
          BY <1>1, <5>1, SayingsSay
      <4> QED
        BY <3>1, <4>1
    <3>3. j + 1 \in 1 .. j + 1 /\ \A i \in 1 .. j : i \in 1 .. j + 1
      OBVIOUS
    <3> QED
      BY <3>1, <3>2, <3>3 DEF Still
  <2>2. ASSUME c \in Still(r, tokens, j), j + 1 < Len(c), StandsFor(tokens[j + 1], c[j + 1])
        PROVE  c \in Still(r, tokens, j + 1)
    <3>1. \A i \in 1 .. j + 1 : i = j + 1 \/ i \in 1 .. j
      OBVIOUS
    <3> QED
      BY <2>2, <3>1 DEF Still
  <2> QED
    BY <2>1, <2>2
<1>10. ASSUME NEW c \in Still(r, tokens, j + 1)
       PROVE  c \in {Append(pre, w) \o b : b \in F}
  <2>1. c \in Still(r, tokens, j) /\ j + 1 < Len(c) /\ StandsFor(tokens[j + 1], c[j + 1])
    BY <1>9
  <2>2. PICK b \in Rest(j, x) : c = pre \o b
    BY <1>4, <2>1
  <2>3. PICK z \in Elements(x, alter) : Begins(acc, alter, d, z, b)
    BY <1>8
  <2>4. Len(c) = j + Len(b) /\ Len(b) \in Nat
    BY <1>4, <1>7, <2>2, ConcatProperties
  <2>5. b # <<z>>
    <3>1. Len(<<z>>) = 1
      OBVIOUS
    <3>2. ASSUME Len(b) = 1
          PROVE  FALSE
      <4>1. Len(c) = j + 1
        BY <2>4, <3>2
      <4>2. ~(j + 1 < j + 1)
        OBVIOUS
      <4> QED
        BY <2>1, <4>1, <4>2
    <3> QED
      BY <3>1, <3>2
  <2>6. IsWord(z) /\ z \in Node
    BY <1>3, <2>3, <2>5 DEF Begins
  <2>7. PICK a \in Sayings(acc, alter)[d][acc[z]] : b = <<Def[z].keyword>> \o a
    BY <2>3, <2>5 DEF Begins
  <2>8. Def[z].keyword \in Symbols /\ a \in Seq(Symbols)
    <3>1. acc[z] \in Addr /\ acc \in [Node -> Addr] /\ alter \in [Node -> Addr]
      BY <2>6 DEF Sound
    <3>2. Sayings(acc, alter)[d] \in [Addr -> SUBSET Seq(Symbols)]
      BY <3>1, SayingsTyped
    <3> QED
      BY <2>6, <3>1, <3>2 DEF Symbols
  <2>9. c[j + 1] = Def[z].keyword
    BY <1>4, <2>2, <2>7, <2>8, JoinedIs
  <2>10. z = y
    BY <2>1, <2>6, <2>9
  <2>11. a \in F /\ c = pre \o (<<w>> \o a)
    BY <2>2, <2>7, <2>10 DEF F, w
  <2>12. c = Append(pre, w) \o a
    BY <1>4, <1>5, <1>6, <2>11, JoinedIs
  <2> QED
    BY <2>11, <2>12
<1>11. ASSUME NEW b \in F
       PROVE  Append(pre, w) \o b \in Still(r, tokens, j + 1)
  <2> DEFINE a == <<w>> \o b
             c == pre \o a
  <2>1. Begins(acc, alter, d, y, a)
    BY DEF Begins, F, w
  <2>2. a \in Rest(j, x)
    BY <1>8, <2>1
  <2>3. c \in Still(r, tokens, j)
    BY <1>4, <2>2
  <2>4. /\ c = Append(pre, w) \o b /\ Len(c) = Len(pre) + 1 + Len(b) /\ c[Len(pre) + 1] = w
    <3>1. /\ pre \o (<<w>> \o b) = Append(pre, w) \o b
          /\ Len(pre \o (<<w>> \o b)) = Len(pre) + 1 + Len(b)
          /\ (pre \o (<<w>> \o b))[Len(pre) + 1] = w
      <4>1. b \in Seq(Symbols)
        BY <1>6
      <4>2. pre \in Seq(Symbols) /\ w \in Symbols
        BY <1>4, <1>5
      <4> HIDE DEF a, c
      <4>3. \A p \in Seq(Symbols), v \in Symbols, u \in Seq(Symbols) :
              /\ p \o (<<v>> \o u) = Append(p, v) \o u
              /\ Len(p \o (<<v>> \o u)) = Len(p) + 1 + Len(u)
              /\ (p \o (<<v>> \o u))[Len(p) + 1] = v
        BY JoinedIs
      <4> QED
        BY <4>1, <4>2, <4>3, Zenon
    <3> QED
      BY <3>1
  <2> HIDE DEF a, c
  <2>5. j + 1 < Len(c) /\ c[j + 1] = w
    BY <1>4, <1>6, <2>4
  <2>6. StandsFor(tokens[j + 1], w)
    BY DEF w
  <2> QED
    BY <1>9, <2>3, <2>4, <2>5, <2>6
<1>12. Append(pre, w) \in Seq(Symbols) /\ Len(Append(pre, w)) = j + 1
  BY <1>4, <1>5, AppendProperties
<1>13. Still(r, tokens, j + 1) = {Append(pre, w) \o b : b \in F}
  BY <1>10, <1>11
<1> QED
  BY <1>3, <1>12, <1>13 DEF Reads, w

-----------------------------------------------------------------------------
(* Where a command can end, it is the one that was read.                   *)
LEMMA ReadsAll ==
  ASSUME Sound(acc, alter), NEW r \in Node, NEW tokens, NEW j \in Nat, j <= MaxWords, NEW pre,
         NEW x, Readable(x), Reads(r, tokens, j, pre, x),
         NEW n \in Elements(x, alter), Type[n] = "END"
  PROVE  Still(r, tokens, j) = {Append(pre, n)} /\ Len(Append(pre, n)) = j + 1
         /\ Last(Append(pre, n)) = n
<1>1. PICK d \in Nat : d + j = MaxWords /\ MaxWords + 1 - j = d + 1
  <2>1. MaxWords \in Nat /\ MaxWords - j \in Nat
    BY DEF MaxWords
  <2>2. (MaxWords - j) + j = MaxWords /\ MaxWords + 1 - j = (MaxWords - j) + 1
    BY <2>1
  <2> QED
    BY <2>1, <2>2
<1>2. /\ pre \in Seq(Symbols) /\ Len(pre) = j
      /\ Still(r, tokens, j) = {pre \o c : c \in Rest(j, x)}
      /\ x \in Node /\ n \in Node
  BY DEF Reads, Readable
<1>3. Rest(j, x) = Sayings(acc, alter)[d + 1][x]
  BY <1>1 DEF Rest
<1>4. \A c : c \in Rest(j, x) <=> \E z \in Elements(x, alter) : Begins(acc, alter, d, z, c)
  BY <1>2, <1>3, SaysAt
<1>5. ASSUME NEW z \in Elements(x, alter), NEW c, Begins(acc, alter, d, z, c)
      PROVE  c = <<n>>
  <2>1. z = n \/ Type[z] = "DEAD"
    BY DEF Readable
  <2>2. z = n
    BY <1>5, <2>1 DEF Begins, IsWord, EndType
  <2> QED
    BY <1>5, <2>2 DEF Begins, IsWord, EndType
<1>6. Begins(acc, alter, d, n, <<n>>)
  BY DEF Begins
<1>7. Rest(j, x) = {<<n>>}
  BY <1>4, <1>5, <1>6
<1>8. n \in Symbols
  BY <1>2 DEF Symbols
<1>9. Append(pre, n) = pre \o <<n>>
  BY <1>2, <1>8, AppendIsConcat
<1>10. Still(r, tokens, j) = {Append(pre, n)}
  BY <1>2, <1>7, <1>9
<1>11. Len(Append(pre, n)) = j + 1 /\ Last(Append(pre, n)) = n
  BY <1>2, <1>8, AppendProperties DEF Last
<1> QED
  BY <1>10, <1>11

-----------------------------------------------------------------------------
(* How far a request was read.                                             *)

RootMode(text) == IF StartWithDo(text) THEN "exec" ELSE mode

(* The tokens that the parser is to read.                                  *)
ToParse ==
  IF cpi.last = <<>> THEN Split(cpi.cli_org).tokens ELSE Front(Split(cpi.cli_org).tokens)

(* It has read j of them, for the words pre.                               *)
ReadTo(T, j, pre) ==
  /\ At(T, cpi.cur, RootMode(cpi.cli_org), j, cpi.set_no \/ cpi.set_default)
  /\ Reads(cpi.root, ToParse, j, pre, cpi.cur)
  /\ Len(ToParse) \in Nat /\ Len(cpi.tokens) + j = Len(ToParse)
  /\ \A i \in 1 .. Len(cpi.tokens) : cpi.tokens[i] = ToParse[j + i]

ReadSound ==
  pc \in {"parse", "collect"} =>
    /\ cpi.root = root[RootMode(cpi.cli_org)] /\ cpi.root \in Node
    /\ cpi.req = "exec" => cpi.last = <<>>
    /\ \E T \in SUBSET Chained, first \in [Mode -> Addr], j \in Nat, pre \in Seq(Symbols) :
         Shape(T, first) /\ ReadTo(T, j, pre)

(* What a step that does not change the tree keeps of it.                  *)
LEMMA SameReading ==
  ASSUME UNCHANGED treeVars
  PROVE  /\ \A T, x, m, j, neg : At(T, x, m, j, neg)' <=> At(T, x, m, j, neg)
         /\ \A r, t, j, pre, x : Reads(r, t, j, pre, x)' <=> Reads(r, t, j, pre, x)
<1>1. UNCHANGED <<acc, alter, root, example>>
  BY DEF treeVars
<1>2. Links' = Links
  BY <1>1 DEF Links
<1>3. \A T, x, m, j, neg : At(T, x, m, j, neg)' <=> At(T, x, m, j, neg)
  BY <1>1, <1>2 DEF At
<1>4. \A r, t, j : Still(r, t, j)' = Still(r, t, j)
  BY <1>1 DEF Still
<1>5. \A j, x : Rest(j, x)' = Rest(j, x)
  BY <1>1 DEF Rest
<1>6. \A r, t, j, pre, x : Reads(r, t, j, pre, x)' <=> Reads(r, t, j, pre, x)
  BY <1>4, <1>5 DEF Reads
<1> QED
  BY <1>3, <1>6

LEMMA RequestReads ==
  ASSUME SessionInv, Grown, UNCHANGED treeVars, NEW req \in {"exec", "query", "auto_fill"},
         NEW text \in Seq(Char), Request(req, text)
  PROVE  ReadSound' /\ ran' = NULL
<1> DEFINE a == Asked(req, text)
           t == Split(text).tokens
           tk == IF TakesLast(a) THEN Front(t) ELSE t
           la == IF TakesLast(a) THEN Last(t) ELSE <<>>
<1>1. InitCliParserInfo(a)
  BY DEF Request, RequestIgnored, RequestInvalid, RequestFaults, RequestParses
<1>2. a.req = req /\ a.cli_org = text /\ a.split = Split(text)
  BY DEF Asked
<1>3. /\ cpi' \in Requests /\ cpi'.req = req /\ cpi'.cli_org = text /\ cpi'.cur = RootOf(text)
      /\ cpi'.last = la /\ ran' = NULL /\ mode' = mode
  BY <1>1, InitialRequest DEF InitCliParserInfo
<1>4. /\ cpi'.tokens = tk /\ cpi'.root = RootOf(text)
      /\ cpi'.set_no = FALSE /\ cpi'.set_default = FALSE
  BY <1>1, <1>2 DEF InitCliParserInfo, NoRequest
<1>5. ASSUME pc' \in {"parse", "collect"}
      PROVE  RootOf(text) # NULL
  BY <1>2, <1>5 DEF Request, RequestIgnored, RequestInvalid, RequestFaults, RequestParses,
                    Answer, NothingAsked
<1>6. t \in Seq(Seq(Char)) /\ Len(t) \in Nat
  BY SplitShape
<1>7. /\ TakesLast(a) => t # <<>> /\ req # "exec"
      /\ TakesLast(a) => la # <<>>
      /\ tk \in Seq(Seq(Char))
  <2>1. TakesLast(a) => t # <<>> /\ req # "exec"
    BY <1>2 DEF TakesLast
  <2>2. t # <<>> => Last(t) # <<>> /\ Front(t) \in Seq(Seq(Char))
    BY TakenTokens
  <2> QED
    BY <1>6, <2>1, <2>2
<1>8. ToParse' = tk
  <2>1. ToParse' = IF cpi'.last = <<>> THEN Split(cpi'.cli_org).tokens
                                       ELSE Front(Split(cpi'.cli_org).tokens)
    BY DEF ToParse
  <2> QED
    BY <1>3, <1>7, <2>1
<1>9. Len(tk) \in Nat
  BY <1>7, LenProperties
<1> HIDE DEF a, t, tk, la
<1>10. RootOf(text) = root[RootMode(text)] /\ RootOf(text) \in Addr
  <2>1. RootOf(text) = root[RootMode(text)]
    BY DEF RootOf, RootMode
  <2>2. RootOf(text) \in Addr
    BY <1>3 DEF Requests
  <2> QED
    BY <2>1, <2>2
<1>11. RootMode(text)' = RootMode(text) /\ root' = root
  BY <1>3 DEF RootMode, treeVars
<1>12. ASSUME pc' \in {"parse", "collect"}
       PROVE  /\ cpi'.root = root'[RootMode(cpi.cli_org)'] /\ cpi'.root \in Node
              /\ cpi'.req = "exec" => cpi'.last = <<>>
              /\ \E T \in SUBSET Chained, first \in [Mode -> Addr], j \in Nat, pre \in Seq(Symbols) :
                    Shape(T, first)' /\ ReadTo(T, j, pre)'
  <2>1. PICK T \in SUBSET Chained, first \in [Mode -> Addr] : Shape(T, first)
    BY DEF Grown
  <2>2. TreeInv /\ Sound(acc, alter)
    BY <2>1, TreesSound DEF SessionInv
  <2>3. Shape(T, first)'
    BY <2>1, <2>2, ShapeStart
  <2>4. RootOf(text) \in Node
    BY <1>5, <1>10, <1>12 DEF Addr
  <2>5. At(T, RootOf(text), RootMode(text), 0, FALSE)
    BY <1>10, <1>5, <1>12 DEF At
  <2>6. Reads(RootOf(text), tk, 0, <<>>, RootOf(text))
    BY <2>2, <2>4, ReadsStart
  <2>7. At(T, cpi.cur, RootMode(cpi.cli_org), 0, cpi.set_no \/ cpi.set_default)'
    <3>1. (cpi'.set_no \/ cpi'.set_default) = FALSE
      BY <1>4
    <3>2. RootMode(cpi.cli_org)' = RootMode(text)
      BY <1>3 DEF RootMode
    <3> QED
      BY <1>3, <2>5, <3>1, <3>2, SameReading
  <2>8. Reads(cpi.root, ToParse, 0, <<>>, cpi.cur)'
    BY <1>3, <1>4, <1>8, <2>6, SameReading
  <2>9. /\ Len(ToParse)' \in Nat /\ Len(cpi.tokens)' + 0 = Len(ToParse)'
        /\ \A i \in 1 .. Len(cpi.tokens)' : cpi.tokens[i]' = ToParse[0 + i]'
    <3>1. cpi'.tokens = tk /\ ToParse' = tk
      BY <1>4, <1>8
    <3>2. Len(tk) + 0 = Len(tk) /\ \A i \in 1 .. Len(tk) : 0 + i = i
      BY <1>9
    <3> QED
      BY <1>9, <3>1, <3>2
  <2>10. ReadTo(T, 0, <<>>)'
    BY <2>7, <2>8, <2>9 DEF ReadTo
  <2>11. <<>> \in Seq(Symbols)
    OBVIOUS
  <2>12. RootMode(cpi.cli_org)' = RootMode(text)
    BY <1>3 DEF RootMode
  <2>13. req = "exec" => cpi'.last = <<>>
    BY <1>3, <1>7 DEF la
  <2> QED
    BY <1>3, <1>4, <1>10, <1>11, <2>3, <2>4, <2>10, <2>11, <2>12, <2>13
<1> QED
  BY <1>3, <1>12 DEF ReadSound

-----------------------------------------------------------------------------
(* parse_cli() takes one more token.                                       *)
LEMMA TokenReads ==
  ASSUME SessionInv, ReadSound, UNCHANGED treeVars, TokenMatches
  PROVE  ReadSound'
<1> DEFINE y == GetMatchNode(cpi.cur, Head(cpi.tokens)).node
           m == RootMode(cpi.cli_org)
           neg == cpi.set_no \/ cpi.set_default
           tk == cpi.tokens
<1>1. /\ UNCHANGED <<mode, pc>> /\ pc = "parse" /\ tk # <<>>
      /\ y # NULL /\ GetMatchNode(cpi.cur, Head(tk)).cnt <= 1
      /\ cpi' = [cpi EXCEPT !.cur = acc[y], !.tokens = Tail(@),
                            !.set_no = @ \/ Type[y] = "NO",
                            !.set_default = @ \/ Type[y] = "DEFAULT"]
  BY DEF TokenMatches
<1>2. cpi \in Requests /\ tk \in Seq(Seq(Char))
  BY DEF SessionInv, ParserTyped, Requests
<1>3. /\ cpi'.cli_org = cpi.cli_org /\ cpi'.last = cpi.last /\ cpi'.root = cpi.root
      /\ cpi'.req = cpi.req /\ cpi'.cur = acc[y] /\ cpi'.tokens = Tail(tk)
      /\ cpi'.set_no = (cpi.set_no \/ Type[y] = "NO")
      /\ cpi'.set_default = (cpi.set_default \/ Type[y] = "DEFAULT")
      /\ cpi.set_no \in BOOLEAN /\ cpi.set_default \in BOOLEAN
  BY <1>1, <1>2 DEF Requests
<1>4. /\ cpi.root = root[m] /\ cpi.root \in Node /\ (cpi.req = "exec" => cpi.last = <<>>)
  BY <1>1 DEF ReadSound
<1>5. PICK T \in SUBSET Chained, first \in [Mode -> Addr], j \in Nat, pre \in Seq(Symbols) :
         Shape(T, first) /\ ReadTo(T, j, pre)
  BY <1>1 DEF ReadSound
<1>6. /\ At(T, cpi.cur, m, j, neg)
      /\ Reads(cpi.root, ToParse, j, pre, cpi.cur)
      /\ Len(ToParse) \in Nat /\ Len(tk) + j = Len(ToParse)
      /\ \A i \in 1 .. Len(tk) : tk[i] = ToParse[j + i]
  BY <1>5 DEF ReadTo
<1>7. /\ TreeInv /\ m \in Mode /\ neg \in BOOLEAN
  BY <1>3 DEF SessionInv, ParserTyped, RootMode, Mode
<1>8. /\ Sound(acc, alter) /\ \A n \in Node : Type[n] \in EndType => alter[n] = NULL
  BY <1>5, <1>7, TreesSound
<1> HIDE DEF m, neg, tk
<1>9. Head(tk) = tk[1] /\ Len(tk) \in Nat /\ Len(tk) >= 1 /\ 1 \in 1 .. Len(tk)
  BY <1>1, <1>2, HeadTailProperties, EmptySeq, LenProperties
<1>10. Head(tk) = ToParse[j + 1]
  BY <1>6, <1>9
<1>11. /\ Readable(cpi.cur) /\ j \in Nat /\ j <= MaxWords
       /\ \A z \in Elements(cpi.cur, alter) : IsWord(z) =>
            acc[z] \in Node /\ At(T, acc[z], m, j + 1, neg \/ Type[z] \in {"NO", "DEFAULT"})
  BY <1>5, <1>6, <1>7, AtReadable
<1>12. /\ y \in Elements(cpi.cur, alter) /\ IsWord(y)
       /\ \A z \in Elements(cpi.cur, alter) : IsWord(z) =>
            (StandsFor(Head(tk), Def[z].keyword) <=> z = y)
  BY <1>1, <1>7, <1>8, <1>11, MatchRead DEF tk
<1> HIDE DEF y
<1>13. acc[y] \in Node /\ At(T, acc[y], m, j + 1, neg \/ Type[y] \in {"NO", "DEFAULT"})
  BY <1>11, <1>12
<1>14. j + 1 <= MaxWords
  BY <1>5, <1>7, <1>13, AtReadable
<1>15. PICK d \in Nat : d + j = MaxWords
  <2>1. MaxWords \in Nat /\ MaxWords - j \in Nat /\ (MaxWords - j) + j = MaxWords
    BY <1>11 DEF MaxWords
  <2> QED
    BY <2>1
<1>16. j < MaxWords
  BY <1>14 DEF MaxWords
<1>w. PICK w \in Symbols : w = Def[y].keyword
  BY <1>11, <1>12 DEF Readable, Symbols
<1>17. Reads(cpi.root, ToParse, j + 1, Append(pre, w), acc[y])
  <2>1. \A z \in Elements(cpi.cur, alter) : IsWord(z) =>
            (StandsFor(ToParse[j + 1], Def[z].keyword) <=> z = y)
    BY <1>10, <1>12
  <2> QED
    BY <1>4, <1>6, <1>8, <1>11, <1>12, <1>13, <1>15, <1>16, <1>w, <2>1, ReadsOn
<1>18. ToParse' = ToParse /\ RootMode(cpi.cli_org)' = m /\ root' = root
  BY <1>1, <1>3 DEF ToParse, RootMode, m, treeVars
<1>19. At(T, cpi.cur, RootMode(cpi.cli_org), j + 1, cpi.set_no \/ cpi.set_default)'
  <2>1. (cpi'.set_no \/ cpi'.set_default) = (neg \/ Type[y] \in {"NO", "DEFAULT"})
    BY <1>3 DEF neg
  <2> QED
    BY <1>3, <1>13, <1>18, <2>1, SameReading
<1>20. Reads(cpi.root, ToParse, j + 1, Append(pre, w), cpi.cur)'
  BY <1>3, <1>17, <1>18, SameReading
<1>21. /\ Len(Tail(tk)) = Len(tk) - 1
       /\ \A i \in 1 .. Len(Tail(tk)) : Tail(tk)[i] = tk[i + 1]
  <2> DEFINE S == Seq(Char)
  <2>1. tk \in Seq(S) /\ tk # <<>>
    BY <1>1, <1>2 DEF tk
  <2> HIDE DEF S
  <2> QED
    BY <2>1, HeadTailProperties
<1>22. /\ Len(Tail(tk)) + (j + 1) = Len(ToParse)
       /\ \A i \in 1 .. Len(Tail(tk)) : Tail(tk)[i] = ToParse[j + 1 + i]
  <2>1. Len(Tail(tk)) + (j + 1) = Len(ToParse)
    <3>1. \A a, b, c \in Nat : a >= 1 /\ a + b = c => (a - 1) + (b + 1) = c
      OBVIOUS
    <3>2. Len(tk) \in Nat /\ Len(tk) >= 1 /\ Len(ToParse) \in Nat /\ Len(tk) + j = Len(ToParse)
      BY <1>6, <1>9
    <3>3. (Len(tk) - 1) + (j + 1) = Len(ToParse)
      BY <3>1, <3>2, Zenon
    <3> QED
      BY <1>21, <3>3
  <2>2. ASSUME NEW i \in 1 .. Len(Tail(tk))
        PROVE  Tail(tk)[i] = ToParse[j + 1 + i]
    <3>1. i + 1 \in 1 .. Len(tk) /\ j + (i + 1) = j + 1 + i
      BY <1>9, <1>21
    <3> QED
      BY <1>6, <1>21, <3>1
  <2> QED
    BY <2>1, <2>2
<1>23. ReadTo(T, j + 1, Append(pre, w))'
  BY <1>3, <1>6, <1>18, <1>19, <1>20, <1>22 DEF ReadTo, tk
<1>24. Shape(T, first)'
  BY <1>5, <1>7, ShapeStart
<1>25. Append(pre, w) \in Seq(Symbols) /\ j + 1 \in Nat
  BY AppendProperties
<1>26. /\ cpi'.root = root'[RootMode(cpi.cli_org)'] /\ cpi'.root \in Node
       /\ (cpi'.req = "exec" => cpi'.last = <<>>)
  BY <1>3, <1>4, <1>18
<1> QED
  BY <1>23, <1>24, <1>25, <1>26 DEF ReadSound

(* exec_cli() runs what was read.                                          *)
LEMMA EndNodeFound ==
  ASSUME TreeInv, \A k \in Node : Type[k] \in EndType => alter[k] = NULL,
         NEW n \in Node, EndNode(n) # NULL
  PROVE  EndNode(n) \in Elements(n, alter) /\ Type[EndNode(n)] = "END"
<1> DEFINE s == Level(n)
           I == {i \in 1 .. Len(s) : Type[s[i]] = "END"}
<1>1. /\ Len(s) \in Nat /\ alter \in [Node -> Addr]
      /\ s \in Seq(Node)
  BY LevelPlaces, HomeTyped
<1>2. EndNode(n) = IF I = {} THEN NULL ELSE IF Min(I) = 0 THEN NULL ELSE s[Min(I)]
  BY DEF EndNode, SelectInSeq
<1>3. I \subseteq 1 .. Len(s) /\ I \subseteq Nat
  OBVIOUS
<1>4. ToSet(s) = {s[i] : i \in 1 .. Len(s)}
  BY <1>1 DEF ToSet
<1>5. I # {} => Min(I) \in I
  BY <1>3, LeastOf
<1>6. \E i \in I : EndNode(n) = s[i]
  BY <1>2, <1>5
<1>7. EndNode(n) \in ToSet(s) /\ Type[EndNode(n)] = "END"
  BY <1>4, <1>6
<1>8. ToSet(s) = Elements(n, alter)
  BY <1>1, LevelIs DEF Level
<1> QED
  BY <1>7, <1>8

-----------------------------------------------------------------------------
(* exec_cli() finds the end of the command that was read.                  *)
LEMMA ExecFacts ==
  ASSUME SessionInv, ReadSound, ExecCli
  PROVE  /\ cpi.root = root[RootMode(cpi.cli_org)] /\ cpi.root \in Node
         /\ TreeInv /\ Sound(acc, alter) /\ RootMode(cpi.cli_org) \in Mode
         /\ ToParse = Split(cpi.cli_org).tokens
         /\ \E T \in SUBSET Chained, first \in [Mode -> Addr], pre \in Seq(Symbols) :
              LET j == Len(ToParse)
                  n == EndNode(cpi.cur) IN
              /\ Shape(T, first) /\ j \in Nat
              /\ At(T, cpi.cur, RootMode(cpi.cli_org), j, cpi.set_no \/ cpi.set_default)
              /\ n \in Elements(cpi.cur, alter) /\ Type[n] = "END"
              /\ Still(cpi.root, ToParse, j) = {Append(pre, n)}
              /\ Len(Append(pre, n)) = j + 1 /\ Last(Append(pre, n)) = n
<1> DEFINE n == EndNode(cpi.cur)
           t == ToParse
           m == RootMode(cpi.cli_org)
           neg == cpi.set_no \/ cpi.set_default
<1>1. pc = "parse" /\ cpi.req = "exec" /\ cpi.tokens = <<>> /\ n # NULL
  BY DEF ExecCli
<1>2. cpi.root = root[m] /\ cpi.root \in Node /\ cpi.last = <<>>
  BY <1>1 DEF ReadSound
<1>3. t = Split(cpi.cli_org).tokens
  BY <1>2 DEF ToParse
<1>4. PICK T \in SUBSET Chained, first \in [Mode -> Addr], j \in Nat, pre \in Seq(Symbols) :
         Shape(T, first) /\ ReadTo(T, j, pre)
  BY <1>1 DEF ReadSound
<1>5. /\ At(T, cpi.cur, m, j, neg) /\ Reads(cpi.root, t, j, pre, cpi.cur)
      /\ Len(t) \in Nat /\ Len(cpi.tokens) + j = Len(t)
  BY <1>4 DEF ReadTo
<1>6. Len(t) = j
  <2>1. Len(cpi.tokens) = 0
    BY <1>1
  <2>2. 0 + j = j
    OBVIOUS
  <2> QED
    BY <1>5, <2>1, <2>2
<1>7. /\ TreeInv /\ m \in Mode /\ neg \in BOOLEAN
  BY DEF SessionInv, ParserTyped, RootMode, Mode, Requests
<1>8. /\ Sound(acc, alter) /\ \A k \in Node : Type[k] \in EndType => alter[k] = NULL
  BY <1>4, <1>7, TreesSound
<1>9. Readable(cpi.cur) /\ j <= MaxWords
  BY <1>4, <1>5, <1>7, AtReadable
<1>10. n \in Elements(cpi.cur, alter) /\ Type[n] = "END"
  <2>1. cpi.cur \in Node
    BY <1>9 DEF Readable
  <2> QED
    BY <1>1, <1>7, <1>8, <2>1, EndNodeFound
<1> HIDE DEF n, t, m, neg
<1>11. /\ Still(cpi.root, t, j) = {Append(pre, n)}
       /\ Len(Append(pre, n)) = j + 1 /\ Last(Append(pre, n)) = n
  <2>1. Reads(cpi.root, t, j, pre, cpi.cur) /\ cpi.root \in Node /\ Sound(acc, alter)
    BY <1>2, <1>5, <1>8
  <2>2. \A p : Reads(cpi.root, t, j, p, cpi.cur) =>
          /\ Still(cpi.root, t, j) = {Append(p, n)}
          /\ Len(Append(p, n)) = j + 1 /\ Last(Append(p, n)) = n
    BY <1>9, <1>10, <2>1, ReadsAll
  <2> QED
    BY <2>1, <2>2
<1>12. \E T1 \in SUBSET Chained, first1 \in [Mode -> Addr], pre1 \in Seq(Symbols) :
         /\ Shape(T1, first1) /\ Len(t) \in Nat
         /\ At(T1, cpi.cur, m, Len(t), neg)
         /\ n \in Elements(cpi.cur, alter) /\ Type[n] = "END"
         /\ Still(cpi.root, t, Len(t)) = {Append(pre1, n)}
         /\ Len(Append(pre1, n)) = Len(t) + 1 /\ Last(Append(pre1, n)) = n
  BY <1>4, <1>5, <1>6, <1>10, <1>11
<1> QED
  BY <1>2, <1>3, <1>7, <1>8, <1>12 DEF n, t, m, neg

(* The commands the tokens can be, and nothing more.                       *)
LEMMA MeantIsStill ==
  ASSUME NEW tokens, DOMAIN tokens = 1 .. Len(tokens)
  PROVE  Candidates(tokens) = Still(cpi.root, tokens, Len(tokens))
BY DEF Candidates, Still, Offered

LEMMA ExecReads ==
  ASSUME SessionInv, ReadSound, UNCHANGED treeVars, ExecCli
  PROVE  RunsTheOneMeant'
<1> DEFINE n == EndNode(cpi.cur)
           t == Split(cpi.cli_org).tokens
           M == {c \in Candidates(t) : Len(c) = Len(t) + 1}
<1>1. PICK T \in SUBSET Chained, first \in [Mode -> Addr], pre \in Seq(Symbols) :
        /\ Still(cpi.root, t, Len(t)) = {Append(pre, n)}
        /\ Len(Append(pre, n)) = Len(t) + 1 /\ Last(Append(pre, n)) = n
  BY ExecFacts
<1>2. cpi.cli_org \in Seq(Char)
  BY DEF SessionInv, ParserTyped, Requests
<1>3. DOMAIN t = 1 .. Len(t)
  BY <1>2, SplitShape, LenProperties
<1>4. Candidates(t) = {Append(pre, n)}
  BY <1>1, <1>3, MeantIsStill
<1>5. {Last(c) : c \in M} = {n}
  BY <1>1, <1>4
<1>6. ran' = n /\ cpi' = cpi
  BY DEF ExecCli
<1>7. Split(cpi.cli_org)' = Split(cpi.cli_org)
  BY <1>6
<1>8. \A s : Candidates(s)' = Candidates(s)
  BY <1>6 DEF Candidates, Offered, treeVars
<1>9. {Last(c) : c \in {x \in Candidates(t)' : Len(x) = Len(t)' + 1}} = {ran'}
  BY <1>5, <1>6, <1>7, <1>8
<1> QED
  BY <1>9 DEF RunsTheOneMeant

(* What leaves the tree and the request as they are.                       *)
LEMMA ReadStays ==
  ASSUME SessionInv, ReadSound, UNCHANGED treeVars, UNCHANGED <<mode, cpi>>,
         pc \in {"parse", "collect"}
  PROVE  ReadSound'
<1>1. PICK T \in SUBSET Chained, first \in [Mode -> Addr], j \in Nat, pre \in Seq(Symbols) :
         Shape(T, first) /\ ReadTo(T, j, pre)
  BY DEF ReadSound
<1>2. Shape(T, first)'
  BY <1>1, ShapeStart DEF SessionInv
<1>3. ToParse' = ToParse /\ RootMode(cpi.cli_org)' = RootMode(cpi.cli_org) /\ root' = root
  BY DEF ToParse, RootMode, treeVars
<1>4. ReadTo(T, j, pre)'
  BY <1>1, <1>3, SameReading DEF ReadTo
<1> QED
  BY <1>2, <1>3, <1>4 DEF ReadSound

(* The inductive invariant of the parser, on trees that grew.              *)
ReadInv == ReadSound /\ (ran # NULL => pc = "done") /\ RunsTheOneMeant

LEMMA ReadInvInit == Init => ReadInv
BY DEF Init, ParserInit, ReadInv, ReadSound, RunsTheOneMeant

LEMMA ReadInvNext ==
  ASSUME SessionInv, Grown, ReadInv, [Next]_sessionVars
  PROVE  ReadInv'
<1>0. ReadSound /\ (ran # NULL => pc = "done") /\ RunsTheOneMeant
  BY DEF ReadInv
<1>1. ASSUME ran' = NULL, ReadSound'
      PROVE  ReadInv'
  BY <1>1 DEF ReadInv, RunsTheOneMeant
<1>2. CASE StartUp \/ InputProcessCtrlZ
  <2>1. pc = "idle" /\ pc' = pc /\ ran' = ran
    <3>1. CASE StartUp
      <4>1. stage # "ready"
        <5>1. stack # <<>> => stage = "links"
          BY DEF SessionInv, TreeInv, MergesStatic
        <5> QED
          BY <3>1, <5>1 DEF StartUp, TreeNext, InitCliMode, LinkRoot, LinkMerge, MergeReturns,
                            MergeAdds, MergeDescends, LinksDone, AddBuildinNodes,
                            SkipBuildinNodes, InitCliTreeReturns
      <4> QED
        BY <3>1, <4>1 DEF StartUp, parserVars, SessionInv, BuiltFirst
    <3> QED
      BY <1>2, <3>1 DEF InputProcessCtrlZ
  <2>2. ran' = NULL /\ ReadSound'
    BY <1>0, <2>1 DEF ReadSound
  <2> QED
    BY <1>1, <2>2
<1>3. CASE \/ UNCHANGED sessionVars \/ AutotestReadChar
           \/ \E text \in Typed : InputProcessText(text)
           \/ InputProcessCtrlC
  <2>1. UNCHANGED treeVars /\ UNCHANGED <<mode, cpi, pc, ran>>
    BY <1>3 DEF sessionVars, parserVars, AutotestReadChar, InputProcessText, InputProcessCtrlC
  <2>2. ReadSound'
    <3>1. CASE pc \in {"parse", "collect"}
      BY <1>0, <2>1, <3>1, ReadStays
    <3>2. CASE pc \notin {"parse", "collect"}
      BY <2>1, <3>2 DEF ReadSound
    <3> QED
      BY <3>1, <3>2
  <2>3. RunsTheOneMeant'
    BY <1>0, <2>1 DEF RunsTheOneMeant, Candidates, Offered, treeVars
  <2> QED
    BY <1>0, <2>1, <2>2, <2>3 DEF ReadInv
<1>4. CASE Parse
  <2>1. UNCHANGED treeVars /\ ParserStep
    BY <1>4 DEF Parse
  <2>2. CASE TokenMatches
    <3>1. ran' = ran /\ pc = "parse"
      BY <2>2 DEF TokenMatches
    <3> QED
      BY <1>0, <1>1, <2>1, <2>2, <3>1, TokenReads
  <2>3. CASE ExecCli
    <3>1. pc' = "done"
      BY <2>3 DEF ExecCli, Answer
    <3>2. ReadSound'
      BY <3>1 DEF ReadSound
    <3> QED
      BY <1>0, <2>1, <2>3, <3>1, <3>2, ExecReads DEF ReadInv
  <2>4. CASE StartCollect \/ CollectHelpNode
    <3>1. UNCHANGED <<mode, cpi, ran>> /\ pc \in {"parse", "collect"}
      BY <2>4 DEF StartCollect, CollectHelpNode
    <3> QED
      BY <1>0, <1>1, <2>1, <3>1, ReadStays
  <2>5. CASE \/ TokenFails \/ ParamFails \/ ExecIncomplete \/ NoCandidate \/ PrintHelp
             \/ AutoFillOne \/ AutoFillCommon \/ AutoFillFails
    <3>1. ran' = ran /\ pc \in {"parse", "collect"} /\ pc' = "done"
      BY <2>5 DEF TokenFails, ParamFails, ExecIncomplete, NoCandidate, PrintHelp, AutoFillOne,
                  AutoFillCommon, AutoFillFails, Answer
    <3>2. ReadSound'
      BY <3>1 DEF ReadSound
    <3> QED
      BY <1>0, <1>1, <3>1, <3>2
  <2> QED
    BY <2>1, <2>2, <2>3, <2>4, <2>5 DEF ParserStep
<1>5. CASE AutotestRunLine \/ \E req \in {"exec", "query", "auto_fill"} : Ask(req)
  <2>1. PICK req \in {"exec", "query", "auto_fill"} : Request(req, cmd)
    BY <1>5 DEF AutotestRunLine, Ask
  <2>2. UNCHANGED treeVars /\ cmd \in Seq(Char)
    BY <1>5 DEF AutotestRunLine, Ask, SessionInv, TextSound
  <2> QED
    BY <1>1, <2>1, <2>2, RequestReads
<1>6. CASE ExecReturns \/ QueryReturns \/ AutoFillReturns
  <2>1. ran' = NULL /\ pc' = "idle"
    BY <1>6 DEF ExecReturns, QueryReturns, AutoFillReturns, CleanCliParserInfo
  <2> QED
    BY <1>1, <2>1 DEF ReadSound
<1> QED
  BY <1>2, <1>3, <1>4, <1>5, <1>6 DEF Next, Computes

(* The trees of a run.                                                     *)
LEMMA TreesGrow == Spec => []MergeInv
<1>1. Init => MergeInv
  BY MergeInvInit DEF Init
<1>2. MergeInv /\ [Next]_sessionVars => MergeInv'
  <2> SUFFICES ASSUME MergeInv, [Next]_sessionVars
               PROVE  MergeInv'
    OBVIOUS
  <2>1. [TreeNext]_treeVars
    BY DEF Next, Computes, StartUp, Parse, ExecReturns, QueryReturns, AutoFillReturns,
           AutotestReadChar, AutotestRunLine, InputProcessText, Ask, InputProcessCtrlC,
           InputProcessCtrlZ, sessionVars
  <2> QED
    BY <2>1, MergeInvNext
<1> QED
  BY <1>1, <1>2, PTL DEF Spec

LEMMA TreesAreGrown == MergeInv => Grown
BY EndsAreApart DEF MergeInv

LEMMA ReadInvAlways == Spec => [](SessionInv /\ MergeInv /\ ReadInv)
<1>1. SessionInv /\ MergeInv /\ ReadInv /\ [Next]_sessionVars => ReadInv'
  BY ReadInvNext, TreesAreGrown
<1> QED
  BY SessionInvAlways, TreesGrow, ReadInvInit, <1>1, PTL DEF Spec

(* The overrun of the array.                                               *)
LEMMA OverrunIsUnread ==
  ASSUME SessionInv, ReadSound
  PROVE  OverrunUnread
<1> DEFINE t == Split(cpi.cli_org).tokens
<1> SUFFICES ASSUME pc \in {"parse", "collect"}, Len(t) > CLI_TOKEN_MAX_CNT
             PROVE  Len(cpi.tokens) > 1
  BY DEF OverrunUnread
<1>1. cpi.cli_org \in Seq(Char) /\ cpi.tokens \in Seq(Seq(Char))
  BY DEF SessionInv, ParserTyped, Requests
<1>2. Len(t) \in Nat /\ Len(cpi.tokens) \in Nat
  BY <1>1, SplitShape, LenProperties
<1>3. cpi.last = <<>>
  BY <1>2, TokenAssumption DEF SessionInv, RequestSound, TokenCount
<1>4. ToParse = t
  BY <1>3 DEF ToParse
<1>5. PICK T \in SUBSET Chained, first \in [Mode -> Addr], j \in Nat, pre \in Seq(Symbols) :
         Shape(T, first) /\ ReadTo(T, j, pre)
  BY DEF ReadSound
<1>6. Len(cpi.tokens) + j = Len(t)
  BY <1>4, <1>5 DEF ReadTo
<1>7. j < CLI_TOKEN_MAX_CNT
  <2>1. /\ At(T, cpi.cur, RootMode(cpi.cli_org), j, cpi.set_no \/ cpi.set_default)
        /\ TreeInv /\ RootMode(cpi.cli_org) \in Mode /\ (cpi.set_no \/ cpi.set_default) \in BOOLEAN
    BY <1>5 DEF ReadTo, SessionInv, ParserTyped, RootMode, Mode, Requests
  <2> QED
    BY <1>5, <2>1, AtReadable
<1> HIDE DEF t
<1> QED
  BY <1>2, <1>6, <1>7, TokenAssumption

(* Where no command is the beginning of another and parameters stand alone:
   whatever is typed, in any mode and behind `no', `default' or `do', the
   handler that runs is that of the one command the tokens can stand for,
   and no token from behind the array is among them.                       *)
THEOREM RunsWhatWasReadAlways == Spec => []RunsWhatWasRead
<1>1. SessionInv /\ MergeInv /\ ReadInv => RunsWhatWasRead
  BY OverrunIsUnread DEF ReadInv, RunsWhatWasRead
<1> QED
  BY ReadInvAlways, <1>1, PTL

-----------------------------------------------------------------------------
(* The commands that module CliModes knows have different words.           *)
LEMMA WordsDiffer ==
  /\ \A v, w \in DOMAIN WordsOf : WordsOf[v] = WordsOf[w] => v = w
  /\ "exec" \notin DOMAIN WordsOf /\ "quit" \in DOMAIN WordsOf /\ "other" \notin DOMAIN WordsOf
  /\ Mode \ {"exec"} \subseteq DOMAIN WordsOf
  /\ \A m \in Mode : "other" \notin Tree[m] /\ ("quit" \in Tree[m] => m = "exec")
  /\ WordsOf["exit"][1] = "exit" /\ WordsOf["end"][1] = "end"
  /\ {"quit", "exit", "end", "other"} \cap Mode = {} /\ CLI_MODE_NONE \notin Mode
<1>1. DOMAIN WordsOf = {"quit", "config", "shell", "flush", "exec_cmd", "exit", "end", "gvd"}
  BY NamesOf
<1>2. /\ WordsOf["quit"][1] = "quit" /\ WordsOf["config"][1] = "configure"
      /\ WordsOf["shell"][1] = "shell" /\ WordsOf["flush"][1] = "logfile"
      /\ WordsOf["exec_cmd"][1] = "exec" /\ WordsOf["exit"][1] = "exit"
      /\ WordsOf["end"][1] = "end" /\ WordsOf["gvd"][1] = "gvd-config"
  BY DEF WordsOf
<1>3. \A v, w \in DOMAIN WordsOf : WordsOf[v][1] = WordsOf[w][1] => v = w
  BY <1>1, <1>2
<1>4. \A m \in Mode : "other" \notin Tree[m] /\ ("quit" \in Tree[m] => m = "exec")
  BY DEF Mode, Tree
<1>5. Mode \ {"exec"} \subseteq DOMAIN WordsOf
  BY <1>1 DEF Mode
<1>6. {"quit", "exit", "end", "other"} \cap Mode = {} /\ CLI_MODE_NONE \notin Mode
  BY DEF Mode, CLI_MODE_NONE
<1> QED
  BY <1>1, <1>2, <1>3, <1>4, <1>5, <1>6

(* A command behind a word ends where it ended.                            *)
LEMMA EndsOf ==
  /\ \A a, b : Last(<<a, b>>) = b /\ Front(<<a, b>>) = <<a>>
  /\ \A e \in Chained : ~IsWord(e) => /\ Last(Append(Path(e), e)) = e
                                      /\ Front(Append(Path(e), e)) = Path(e)
                                      /\ Path(e)[1] \notin {"exit", "end", "no", "default"}
<1>1. \A a, b : Last(<<a, b>>) = b /\ Front(<<a, b>>) = <<a>>
  <2> TAKE a, b
  <2> DEFINE Z == {a, b}
             o == <<a>>
  <2>1. o \in Seq(Z) /\ Len(o) = 1 /\ b \in Z /\ o[1] = a
    OBVIOUS
  <2> HIDE DEF Z, o
  <2>2. <<a, b>> = Append(o, b)
    BY DEF o
  <2>3. Len(<<a, b>>) = 2 /\ <<a, b>>[2] = b
    OBVIOUS
  <2>4. Front(<<a, b>>) = o
    BY <2>1, <2>2, <2>3 DEF Front
  <2> QED
    BY <2>3, <2>4 DEF Last, o
<1>2. ASSUME NEW e \in Chained, ~IsWord(e)
      PROVE  /\ Last(Append(Path(e), e)) = e /\ Front(Append(Path(e), e)) = Path(e)
             /\ Path(e)[1] \notin {"exit", "end", "no", "default"}
  <2> DEFINE p == Path(e)
             c == Append(p, e)
  <2>1. /\ Len(c) \in Nat /\ Len(c) > 1 /\ c[1] \notin {"exit", "end", "no", "default"}
        /\ Front(c) = p
    BY <1>2, CommandIs
  <2>2. p \in Seq(Symbols) /\ e \in Symbols /\ Len(p) \in Nat
    BY SymbolsTyped, PathsTyped, LenProperties
  <2> HIDE DEF p
  <2>3. Len(c) = Len(p) + 1 /\ c[Len(p) + 1] = e /\ \A i \in 1 .. Len(p) : c[i] = p[i]
    BY <2>2, AppendProperties
  <2> HIDE DEF c
  <2>4. 1 \in 1 .. Len(p)
    BY <2>1, <2>2, <2>3
  <2> QED
    BY <2>1, <2>3, <2>4 DEF Last, c, p
<1> QED
  BY <1>1, <1>2

(* What the trees say a command is called.                                 *)
LEMMA CalledBy ==
  ASSUME TreeInv, NEW T \in SUBSET Chained, NEW first \in [Mode -> Addr], Shape(T, first),
         NEW m \in Mode, NEW c \in CommandsOf(m), NEW w \in DOMAIN WordsOf,
         Front(c) = WordsOf[w]
  PROVE  \/ Last(c) \in T /\ Type[Last(c)] = "END" /\ Path(Last(c)) = WordsOf[w]
         \/ Last(c) = "node_exit_end" /\ w = "exit"
         \/ Last(c) = "node_end_end" /\ w = "end"
<1> DEFINE S == Said(Links, T, m)
<1>1. T \subseteq Chained
  OBVIOUS
<1>2. \/ c \in S \/ c \in ExitAndEnd \/ c \in WithFirst("no", S) \/ c \in WithFirst("default", S)
  <2>1. root[m] = first[m] \/ LedByExit(m, first[m]) \/ LedByAll(m, first[m])
    BY DEF Shape, Tops
  <2> QED
    BY <2>1, TopCommands
<1>3. CASE c \in S
  <2>1. PICK e \in T : ~IsWord(e) /\ c = Append(Path(e), e)
    BY <1>3 DEF Said
  <2>2. Last(c) = e /\ Front(c) = Path(e)
    BY <2>1, EndsOf
  <2>3. Type[e] = "END"
    BY <1>1, <2>1, ChainAssumption DEF IsWord, EndType
  <2> QED
    BY <2>2, <2>3
<1>4. CASE c \in ExitAndEnd
  <2>1. c = <<"exit", "node_exit_end">> \/ c = <<"end", "node_end_end">>
    BY <1>4 DEF ExitAndEnd
  <2>2. \/ Last(c) = "node_exit_end" /\ Front(c) = <<"exit">>
        \/ Last(c) = "node_end_end" /\ Front(c) = <<"end">>
    BY <2>1, EndsOf
  <2> QED
    BY <2>2, NamesOf
<1>5. ASSUME NEW v \in {"no", "default"}, c \in WithFirst(v, S)
      PROVE  FALSE
  <2>1. w \in Named(WithFirst(v, S))
    BY <1>5 DEF Named
  <2> QED
    BY <1>1, <2>1, PrefixesSay
<1> QED
  BY <1>2, <1>3, <1>4, <1>5

(* and that every command of a chain is there under its name, as are `exit'
   and `end' in a mode where they can be run.                              *)
LEMMA CommandsThere ==
  ASSUME TreeInv, NEW T \in SUBSET Chained, NEW first \in [Mode -> Addr], Shape(T, first),
         NEW m \in Mode
  PROVE  /\ \A e \in T : Type[e] = "END" /\ ModeOf(Links, e) = m =>
              Append(Path(e), e) \in CommandsOf(m)
         /\ (\E c \in CommandsOf(m) : Last(c) \in {"node_exit_end", "node_end_end"}) =>
              ExitAndEnd \subseteq CommandsOf(m)
<1> DEFINE S == Said(Links, T, m)
<1>1. root[m] = first[m] \/ LedByExit(m, first[m]) \/ LedByAll(m, first[m])
  BY DEF Shape, Tops
<1>2. S \subseteq CommandsOf(m) /\ (CommandsOf(m) = S \/ ExitAndEnd \subseteq CommandsOf(m))
  BY <1>1, TopCommands
<1>3. \A e \in T : Type[e] = "END" /\ ModeOf(Links, e) = m => Append(Path(e), e) \in S
  BY DEF Said, IsWord, EndType
<1>4. ASSUME NEW c \in S
      PROVE  Last(c) \notin {"node_exit_end", "node_end_end"}
  <2>1. PICK e \in T : ~IsWord(e) /\ c = Append(Path(e), e)
    BY <1>4 DEF Said
  <2>2. Last(c) = e
    BY <2>1, EndsOf
  <2> QED
    BY <2>2, HandlerAssumption
<1> QED
  BY <1>2, <1>3, <1>4

-----------------------------------------------------------------------------
(* What the END node that is run is called.                                *)
LEMMA RunIsNamed ==
  ASSUME SessionInv, ReadSound, ExecCli
  PROVE  LET n   == EndNode(cpi.cur)
             m   == RootMode(cpi.cli_org)
             w   == {x \in DOMAIN WordsOf : \E c \in Offered : Last(c) = n /\ Front(c) = WordsOf[x]}
             neg == cpi.set_no \/ cpi.set_default
         IN  /\ m \in Mode /\ n \in Node
             /\ \/ n = "node_exit_end" /\ w = {"exit"} /\ ~neg /\ m # "exec"
                \/ n = "node_end_end" /\ w = {"end"} /\ ~neg /\ m # "exec"
                \/ /\ n \in Chained /\ Type[n] = "END"
                   /\ w = {x \in DOMAIN WordsOf : WordsOf[x] = Path(n)}
                   /\ \A x \in w : x \in Tree[m]
<1> DEFINE n == EndNode(cpi.cur)
           m == RootMode(cpi.cli_org)
           w == {x \in DOMAIN WordsOf : \E c \in Offered : Last(c) = n /\ Front(c) = WordsOf[x]}
           neg == cpi.set_no \/ cpi.set_default
           t == ToParse
<1>1. /\ cpi.root = root[m] /\ TreeInv /\ Sound(acc, alter) /\ m \in Mode /\ neg \in BOOLEAN
  BY ExecFacts DEF SessionInv, ParserTyped, Requests
<1>2. PICK T \in SUBSET Chained, first \in [Mode -> Addr], pre \in Seq(Symbols) :
        /\ Shape(T, first) /\ Len(t) \in Nat
        /\ At(T, cpi.cur, m, Len(t), neg)
        /\ n \in Elements(cpi.cur, alter) /\ Type[n] = "END"
        /\ Still(cpi.root, t, Len(t)) = {Append(pre, n)}
        /\ Last(Append(pre, n)) = n
  BY ExecFacts
<1>3. Offered = CommandsOf(m)
  BY <1>1 DEF Offered, CommandsOf
<1>4. \E c \in CommandsOf(m) : Last(c) = n
  BY <1>2, <1>3 DEF Still, Offered
<1> HIDE DEF t
<1> HIDE DEF n, m, neg
<1>5. \/ n \in {"node_exit_end", "node_end_end"} /\ ~neg /\ m # "exec"
      \/ n \in T /\ ModeOf(Links, n) = m
  BY <1>1, <1>2, AtReadable
<1>6. \A x : x \in w <=> x \in DOMAIN WordsOf /\ \E c \in CommandsOf(m) : Last(c) = n /\ Front(c) = WordsOf[x]
  BY <1>3
<1> HIDE DEF w
<1>7. ASSUME NEW x \in w
      PROVE  \/ n \in T /\ Type[n] = "END" /\ Path(n) = WordsOf[x]
             \/ n = "node_exit_end" /\ x = "exit"
             \/ n = "node_end_end" /\ x = "end"
  BY <1>1, <1>2, <1>6, CalledBy
<1>8. "node_exit_end" \notin Chained /\ "node_end_end" \notin Chained /\ n \in Node
  BY <1>1, <1>2, <1>5, HandlerAssumption, TemplatesSay, HomeTyped DEF Chained, Static, Node
<1>9. CASE n \in T /\ ModeOf(Links, n) = m
  <2>1. n \in Chained
    BY <1>9
  <2>2. ASSUME NEW x \in DOMAIN WordsOf, WordsOf[x] = Path(n)
        PROVE  x \in w
    <3>1. Append(Path(n), n) \in CommandsOf(m)
      BY <1>1, <1>2, <1>9, CommandsThere
    <3>2. Last(Append(Path(n), n)) = n /\ Front(Append(Path(n), n)) = Path(n)
      BY <1>2, <2>1, EndsOf DEF IsWord, EndType
    <3> QED
      BY <1>6, <2>2, <3>1, <3>2
  <2>3. w = {x \in DOMAIN WordsOf : WordsOf[x] = Path(n)}
    BY <1>6, <1>7, <1>8, <2>1, <2>2
  <2>4. \A x \in w : x \in Tree[m]
    <3>1. /\ n \in LinkedBy(LinksWith(example), Len(LinksWith(example)))
          /\ example \in ExampleLinks /\ Links = LinksWith(example)
      <4>1. T \subseteq Home
        BY <1>1, <1>2, TreesSound
      <4>2. /\ example \in ExampleLinks /\ Links = LinksWith(example) /\ link - 1 \in Nat
            /\ link - 1 <= Len(Links) /\ Len(Links) \in Nat
        BY <1>1, HomeTyped
      <4> QED
        BY <1>9, <4>1, <4>2 DEF Home, LinkedBy
    <3> QED
      BY <1>2, <1>9, <2>3, <3>1, WordsAssumption
  <2> QED
    BY <1>1, <1>2, <1>8, <2>1, <2>3, <2>4 DEF n, m, w, neg
<1>10. CASE n \in {"node_exit_end", "node_end_end"} /\ ~neg /\ m # "exec"
  <2>1. ExitAndEnd \subseteq CommandsOf(m)
    BY <1>1, <1>2, <1>4, <1>10, CommandsThere
  <2>2. <<"exit", "node_exit_end">> \in CommandsOf(m) /\ <<"end", "node_end_end">> \in CommandsOf(m)
    BY <2>1 DEF ExitAndEnd
  <2>3. /\ Last(<<"exit", "node_exit_end">>) = "node_exit_end"
        /\ Front(<<"exit", "node_exit_end">>) = WordsOf["exit"]
        /\ Last(<<"end", "node_end_end">>) = "node_end_end"
        /\ Front(<<"end", "node_end_end">>) = WordsOf["end"]
    BY EndsOf, NamesOf
  <2>4. n = "node_exit_end" => w = {"exit"}
    BY <1>6, <1>7, <1>8, <2>2, <2>3, NamesOf
  <2>5. n = "node_end_end" => w = {"end"}
    BY <1>6, <1>7, <1>8, <2>2, <2>3, NamesOf
  <2> QED
    BY <1>1, <1>8, <1>10, <2>4, <2>5 DEF n, m, w, neg
<1> QED
  BY <1>5, <1>9, <1>10

(* What exec_cli() makes of it.                                            *)
LEMMA ModeIsPromised ==
  ASSUME SessionInv, ReadSound, ExecCli
  PROVE  /\ mode' = ModeAfter(AsCli(cpi.cli_org, ran'), mode)
         /\ process_result' =>
              /\ Def[ran'].handler = "exec_quit"
              /\ mode' = "exec" \/ StartWithDo(cpi.cli_org)
<1> DEFINE n == EndNode(cpi.cur)
           m == RootMode(cpi.cli_org)
           w == {x \in DOMAIN WordsOf : \E c \in Offered : Last(c) = n /\ Front(c) = WordsOf[x]}
           neg == cpi.set_no \/ cpi.set_default
           word == IF w = {} \/ neg THEN "other" ELSE CHOOSE x \in w : TRUE
           cli == AsCli(cpi.cli_org, n)
<1>1. /\ ran' = n /\ process_result' = Quits(n)
      /\ mode' = IF EntersSubmode(n) THEN Def[n].submode ELSE HandlerMode(n)
  BY DEF ExecCli
<1>2. /\ m \in Mode /\ n \in Node
      /\ \/ n = "node_exit_end" /\ w = {"exit"} /\ ~neg /\ m # "exec"
         \/ n = "node_end_end" /\ w = {"end"} /\ ~neg /\ m # "exec"
         \/ /\ n \in Chained /\ Type[n] = "END"
            /\ w = {x \in DOMAIN WordsOf : WordsOf[x] = Path(n)}
            /\ \A x \in w : x \in Tree[m]
  BY RunIsNamed
<1>3. cli = [do |-> StartWithDo(cpi.cli_org), word |-> word]
  BY DEF AsCli
<1>4. EntersSubmode(n) <=> Def[n].submode # CLI_MODE_NONE /\ ~neg
  BY DEF EntersSubmode
<1>5. m = (IF StartWithDo(cpi.cli_org) THEN "exec" ELSE mode)
  BY DEF RootMode
<1> HIDE DEF n, m, w, neg, word, cli
<1>6. word = IF w = {} \/ neg THEN "other" ELSE CHOOSE x \in w : TRUE
  BY DEF word, w, neg
<1>7. Found(cli, mode) <=> word \in Tree[m]
  BY <1>3, <1>5 DEF Found, Root
<1>8. ModeAfter(cli, mode) = CASE word \in Tree[m] /\ word \in Mode -> word
                               [] word \in Tree[m] /\ word = "exit" -> ReturnUpper(mode)
                               [] word \in Tree[m] /\ word = "end"  -> "exec"
                               [] OTHER -> mode
  BY <1>3, <1>7 DEF ModeAfter
<1>9. HandlerMode(n) = CASE Def[n].handler = "exec_exit" -> ReturnUpper(mode)
                         [] Def[n].handler = "exec_end"  -> "exec"
                         [] OTHER -> mode
  BY DEF HandlerMode
<1>10. Quits(n) <=> Def[n].handler = "exec_quit"
  BY DEF Quits
<1>11. Def[n].submode \in Mode \cup {CLI_MODE_NONE}
  <2>1. n \in Static
    BY <1>2, NodeAssumption DEF Chained, Static
  <2>2. Def[n] = StaticNode[n]
    BY <2>1 DEF Def, Node, Static
  <2> QED
    BY <2>1, <2>2, NodeAssumption DEF Static
<1>12. mode \in Mode
  BY DEF SessionInv, ParserTyped
<1>13. CASE n = "node_exit_end" /\ w = {"exit"} /\ ~neg /\ m # "exec"
  <2>1. word = "exit"
    BY <1>6, <1>13
  <2>2. "exit" \in Tree[m] /\ "exit" \notin Mode
    BY <1>2, <1>13, NamesOf, WordsDiffer
  <2>3. ModeAfter(cli, mode) = ReturnUpper(mode)
    BY <1>8, <2>1, <2>2
  <2>4. ~EntersSubmode(n) /\ HandlerMode(n) = ReturnUpper(mode) /\ ~Quits(n)
    BY <1>4, <1>9, <1>10, <1>13, HandlerAssumption
  <2> QED
    BY <1>1, <2>3, <2>4 DEF cli
<1>14. CASE n = "node_end_end" /\ w = {"end"} /\ ~neg /\ m # "exec"
  <2>1. word = "end"
    BY <1>6, <1>14
  <2>2. "end" \in Tree[m] /\ "end" \notin Mode
    BY <1>2, <1>14, NamesOf, WordsDiffer
  <2>3. ModeAfter(cli, mode) = "exec"
    BY <1>8, <2>1, <2>2
  <2>4. ~EntersSubmode(n) /\ HandlerMode(n) = "exec" /\ ~Quits(n)
    BY <1>4, <1>9, <1>10, <1>14, HandlerAssumption
  <2> QED
    BY <1>1, <2>3, <2>4 DEF cli
<1>15. CASE /\ n \in Chained /\ Type[n] = "END"
            /\ w = {x \in DOMAIN WordsOf : WordsOf[x] = Path(n)}
            /\ \A x \in w : x \in Tree[m]
  <2>1. /\ Def[n].handler \notin {"exec_exit", "exec_end"}
        /\ Def[n].handler = "exec_quit" => Path(n) = WordsOf["quit"]
        /\ Def[n].submode # "exec"
        /\ \A k \in Mode \ {"exec"} : Def[n].submode = k <=> Path(n) = WordsOf[k]
    BY <1>15, HandlerAssumption
  <2>2. HandlerMode(n) = mode
    BY <1>9, <2>1
  <2>3. Path(n)[1] \notin {"exit", "end"}
    BY <1>15, EndsOf DEF IsWord, EndType
  <2>4. \A x \in w : w = {x} /\ x \in DOMAIN WordsOf /\ WordsOf[x] = Path(n)
    BY <1>15, WordsDiffer
  <2>5. ASSUME neg
        PROVE  mode' = ModeAfter(cli, mode)
    <3>1. word = "other" /\ ~EntersSubmode(n)
      BY <1>4, <1>6, <2>5
    <3>2. word \notin Tree[m]
      BY <1>2, <3>1, WordsDiffer
    <3>3. ModeAfter(cli, mode) = mode
      BY <1>8, <3>2
    <3>4. mode' = mode
      BY <1>1, <2>2, <3>1
    <3> QED
      BY <3>3, <3>4
  <2>6. ASSUME ~neg, w = {}
        PROVE  mode' = ModeAfter(cli, mode)
    <3>1. word = "other"
      BY <1>6, <2>6
    <3>2. \A k \in Mode \ {"exec"} : WordsOf[k] # Path(n)
      BY <1>15, <2>6, WordsDiffer
    <3>3. Def[n].submode = CLI_MODE_NONE
      BY <1>11, <2>1, <3>2
    <3>4. word \notin Tree[m]
      BY <1>2, <3>1, WordsDiffer
    <3>5. ModeAfter(cli, mode) = mode
      BY <1>8, <3>4
    <3>6. mode' = mode
      BY <1>1, <1>4, <2>2, <3>3
    <3> QED
      BY <3>5, <3>6
  <2>7. ASSUME ~neg, NEW x \in w
        PROVE  mode' = ModeAfter(cli, mode)
    <3>1. word = x /\ x \in Tree[m] /\ WordsOf[x] = Path(n) /\ x \in DOMAIN WordsOf
      BY <1>6, <1>15, <2>4, <2>7
    <3>2. x # "exit" /\ x # "end"
      BY <2>3, <3>1, WordsDiffer
    <3>3. CASE x \in Mode
      <4>1. x \in Mode \ {"exec"} /\ Def[n].submode = x
        BY <2>1, <3>1, <3>3, WordsDiffer
      <4>2. EntersSubmode(n)
        BY <1>4, <2>7, <4>1, WordsDiffer
      <4>3. ModeAfter(cli, mode) = x
        <5>1. word \in Tree[m] /\ word \in Mode
          BY <3>1, <3>3
        <5>2. word # "exit" /\ word # "end"
          BY <3>1, <3>2
        <5>3. ModeAfter(cli, mode) = word
          BY <1>8, <5>1, <5>2
        <5> QED
          BY <3>1, <5>3
      <4>4. mode' = x
        BY <1>1, <4>1, <4>2
      <4> QED
        BY <4>3, <4>4
    <3>4. CASE x \notin Mode
      <4>1. \A k \in Mode \ {"exec"} : Path(n) # WordsOf[k]
        BY <3>1, <3>4, WordsDiffer
      <4>2. Def[n].submode = CLI_MODE_NONE
        BY <1>11, <2>1, <4>1
      <4>3. ModeAfter(cli, mode) = mode
        BY <1>8, <3>1, <3>2, <3>4
      <4>4. mode' = mode
        BY <1>1, <1>4, <2>2, <4>2
      <4> QED
        BY <4>3, <4>4
    <3> QED
      BY <3>3, <3>4
  <2>8. mode' = ModeAfter(cli, mode)
    BY <1>1, <2>5, <2>6, <2>7 DEF cli
  <2>9. ASSUME Quits(n)
        PROVE  mode' = "exec" \/ StartWithDo(cpi.cli_org)
    <3>1. Path(n) = WordsOf["quit"]
      BY <1>10, <2>1, <2>9
    <3>2. "quit" \in w
      BY <1>15, <3>1, WordsDiffer
    <3>3. m = "exec"
      BY <1>2, <1>15, <3>2, WordsDiffer
    <3>4. \A k \in Mode \ {"exec"} : Path(n) # WordsOf[k]
      BY <3>1, WordsDiffer
    <3>5. Def[n].submode = CLI_MODE_NONE
      BY <1>11, <2>1, <3>4
    <3>6. mode' = mode
      BY <1>1, <1>4, <2>2, <3>5
    <3> QED
      BY <1>5, <3>3, <3>6
  <2> QED
    BY <1>1, <1>10, <2>8, <2>9 DEF cli
<1> QED
  BY <1>2, <1>13, <1>14, <1>15

-----------------------------------------------------------------------------
(* Only exec_cli() runs a command, or changes the mode of the TTY besides Ctrl-Z. *)
LEMMA OnlyExecRuns ==
  ASSUME [Next]_sessionVars, ran' # ran, ran' # NULL
  PROVE  ExecCli
<1>1. CASE StartUp \/ UNCHANGED sessionVars \/ AutotestReadChar \/ InputProcessCtrlC
           \/ InputProcessCtrlZ \/ \E text \in Typed : InputProcessText(text)
  BY <1>1 DEF StartUp, sessionVars, parserVars, AutotestReadChar, InputProcessCtrlC,
              InputProcessCtrlZ, InputProcessText
<1>2. CASE AutotestRunLine \/ \E req \in {"exec", "query", "auto_fill"} : Ask(req)
  <2>1. PICK req : Request(req, cmd)
    BY <1>2 DEF AutotestRunLine, Ask
  <2>2. ran' = NULL
    BY <2>1 DEF Request, RequestIgnored, RequestInvalid, RequestFaults, RequestParses,
                InitCliParserInfo
  <2> QED
    BY <2>2
<1>3. CASE ExecReturns \/ QueryReturns \/ AutoFillReturns
  BY <1>3 DEF ExecReturns, QueryReturns, AutoFillReturns, CleanCliParserInfo
<1>4. CASE Parse
  BY <1>4 DEF Parse, ParserStep, TokenFails, ParamFails, TokenMatches, ExecIncomplete,
              StartCollect, CollectHelpNode, NoCandidate, PrintHelp, AutoFillOne,
              AutoFillCommon, AutoFillFails
<1> QED
  BY <1>1, <1>2, <1>3, <1>4 DEF Next, Computes

(* exec_cli(): in trees as the assumptions allow them, a command changes the
   mode of its TTY as module CliModes says, and `no', `default' never do.  *)
THEOREM ModeAlwaysAsPromised == Spec => ModeAsPromised
<1>1. SessionInv /\ MergeInv /\ ReadInv /\ [Next]_sessionVars =>
        [ran' # ran /\ ran' # NULL =>
           mode' = ModeAfter(AsCli(cpi.cli_org, ran'), mode)]_parserVars
  <2> SUFFICES ASSUME SessionInv, ReadInv, [Next]_sessionVars, ran' # ran, ran' # NULL
               PROVE  mode' = ModeAfter(AsCli(cpi.cli_org, ran'), mode)
    OBVIOUS
  <2>1. ExecCli
    BY OnlyExecRuns
  <2> QED
    BY <2>1, ModeIsPromised DEF ReadInv
<1> QED
  BY ReadInvAlways, <1>1, PTL DEF Spec, ModeAsPromised

(* A request that may end the program: the line it is about is still the command,
   and the program is to end only because `quit' ran where it may.         *)
QuitInv ==
  /\ running \in BOOLEAN /\ (pc # "idle" => running)
  /\ pc # "idle" /\ cpi.req = "exec" => cmd = cpi.cli_org
  /\ process_result => /\ pc = "done" /\ cpi.req = "exec"
                       /\ Def[ran].handler = "exec_quit"
                       /\ mode = "exec" \/ StartWithDo(cpi.cli_org)

LEMMA QuitInvInit == Init => QuitInv
BY DEF Init, ParserInit, QuitInv

LEMMA QuitInvNext ==
  ASSUME SessionInv, ReadInv, QuitInv, [Next]_sessionVars
  PROVE  QuitInv'
<1>1. CASE StartUp
  <2>1. UNCHANGED <<parserVars, cmd, running>>
    BY <1>1 DEF StartUp
  <2> QED
    BY <2>1 DEF QuitInv, parserVars
<1>2. CASE \/ AutotestReadChar \/ InputProcessCtrlC \/ InputProcessCtrlZ
           \/ \E text \in Typed : InputProcessText(text)
  <2>1. pc = "idle" /\ UNCHANGED <<pc, cpi, process_result, running>>
    BY <1>2 DEF AutotestReadChar, InputProcessCtrlC, InputProcessCtrlZ, InputProcessText,
                parserVars
  <2> QED
    BY <2>1 DEF QuitInv
<1>3. CASE UNCHANGED sessionVars
  BY <1>3 DEF sessionVars, parserVars, QuitInv
<1>4. CASE AutotestRunLine \/ \E req \in {"exec", "query", "auto_fill"} : Ask(req)
  <2>1. PICK req : Request(req, cmd)
    BY <1>4 DEF AutotestRunLine, Ask
  <2>2. running /\ UNCHANGED <<cmd, running>>
    BY <1>4 DEF AutotestRunLine, Ask, Ready
  <2>3. PICK a : a = Asked(req, cmd) /\ InitCliParserInfo(a)
    BY <2>1 DEF Request, RequestIgnored, RequestInvalid, RequestFaults, RequestParses
  <2>4. process_result' = FALSE /\ cpi'.cli_org = cmd
    BY <2>3 DEF InitCliParserInfo, Asked, NoRequest
  <2> QED
    BY <2>2, <2>4 DEF QuitInv
<1>5. CASE ExecReturns \/ QueryReturns \/ AutoFillReturns
  <2>1. pc' = "idle" /\ process_result' = FALSE /\ running' \in {running, ~process_result}
    BY <1>5 DEF ExecReturns, QueryReturns, AutoFillReturns, CleanCliParserInfo
  <2> QED
    BY <2>1 DEF QuitInv, SessionInv, ParserTyped
<1>6. CASE Parse
  <2>1. UNCHANGED <<cmd, running>> /\ ParserStep
    BY <1>6 DEF Parse
  <2>2. CASE ExecCli
    <3>1. pc' = "done" /\ pc = "parse" /\ UNCHANGED cpi /\ cpi.req = "exec"
      BY <2>2 DEF ExecCli, Answer
    <3> QED
      BY <2>1, <2>2, <3>1, ModeIsPromised DEF QuitInv, ReadInv
  <2>3. CASE ~ExecCli
    <3>1. /\ pc \in {"parse", "collect"} /\ UNCHANGED process_result
          /\ cpi'.req = cpi.req /\ cpi'.cli_org = cpi.cli_org
      <4>1. CASE TokenMatches
        <5>1. PICK m :
                cpi' = [cpi EXCEPT !.cur = acc[m.node], !.tokens = Tail(@),
                                   !.set_no = @ \/ Type[m.node] = "NO",
                                   !.set_default = @ \/ Type[m.node] = "DEFAULT"]
          BY <4>1 DEF TokenMatches
        <5>2. pc = "parse" /\ UNCHANGED process_result
          BY <4>1 DEF TokenMatches
        <5>3. cpi \in Requests
          BY DEF SessionInv, ParserTyped
        <5> QED
          BY <5>1, <5>2, <5>3 DEF Requests
      <4>2. CASE ~TokenMatches
        BY <2>1, <2>3, <4>2 DEF ParserStep, TokenFails, ParamFails, ExecIncomplete,
              StartCollect, CollectHelpNode, NoCandidate, PrintHelp, AutoFillOne,
              AutoFillCommon, AutoFillFails
      <4> QED
        BY <4>1, <4>2
    <3> QED
      BY <2>1, <3>1 DEF QuitInv
  <2> QED
    BY <2>2, <2>3
<1> QED
  BY <1>1, <1>2, <1>3, <1>4, <1>5, <1>6 DEF Next, Computes

(* input_process_enter() and autotest_mode(): whatever the trees and the input, the
   program ends by `quit' alone, and only in the top mode or behind `do'.  *)
THEOREM EndsByQuitAlone == Spec => EndsByQuit
<1>1. SessionInv /\ MergeInv /\ ReadInv /\ QuitInv /\ [Next]_sessionVars =>
        /\ QuitInv'
        /\ [running' # running =>
              /\ Def[ran].handler = "exec_quit"
              /\ mode = "exec" \/ StartWithDo(cmd)]_sessionVars
  <2> SUFFICES ASSUME SessionInv, ReadInv, QuitInv, [Next]_sessionVars
               PROVE  /\ QuitInv'
                      /\ running' # running =>
                           /\ Def[ran].handler = "exec_quit"
                           /\ mode = "exec" \/ StartWithDo(cmd)
    OBVIOUS
  <2>1. QuitInv'
    BY QuitInvNext
  <2>2. ASSUME running' # running
        PROVE  ExecReturns
    BY <2>2 DEF Next, Computes, StartUp, Parse, QueryReturns, AutoFillReturns,
           AutotestReadChar, AutotestRunLine, InputProcessText, Ask, InputProcessCtrlC,
           InputProcessCtrlZ, sessionVars
  <2>3. ASSUME running' # running
        PROVE  process_result /\ cmd = cpi.cli_org
    BY <2>2, <2>3 DEF ExecReturns, CleanCliParserInfo, QuitInv
  <2> QED
    BY <2>1, <2>3 DEF QuitInv
<1> QED
  BY ReadInvAlways, QuitInvInit, <1>1, PTL DEF Spec, EndsByQuit

-----------------------------------------------------------------------------
(* How words are split.                                                    *)

(* Text that split_cli() takes as it stands.                               *)
Plain(w) == \A i \in 1 .. Len(w) : w[i] \notin {Blank, Quote, Escape}

(* The loop is neither inside quotes nor behind an escape.                 *)
Between(tokens) == [tokens |-> tokens, quoted |-> FALSE, escaped |-> FALSE, err |-> NULL]

LEMMA AppendEnds ==
  ASSUME NEW S, NEW f \in Seq(S), NEW u \in S
  PROVE  /\ Append(f, u) \in Seq(S) /\ Append(f, u) # <<>> /\ Len(Append(f, u)) = Len(f) + 1
         /\ Front(Append(f, u)) = f /\ Last(Append(f, u)) = u
<1> DEFINE g == Append(f, u)
           k == Len(f)
           h == SubSeq(g, 1, k)
<1>1. /\ g \in Seq(S) /\ Len(g) = k + 1 /\ g[k + 1] = u /\ k \in Nat
      /\ \A i \in 1 .. k : g[i] = f[i]
  BY AppendProperties, LenProperties
<1> HIDE DEF g, k
<1>2. Len(g) - 1 = k /\ g # <<>>
  BY <1>1, EmptySeq
<1>3. h \in Seq(S) /\ Len(h) = k /\ \A i \in 1 .. k : h[i] = g[i]
  BY <1>1, SubSeqProperties
<1>4. Front(g) = h
  BY <1>2 DEF Front
<1> HIDE DEF h
<1>5. h = f
  BY <1>1, <1>3, SeqEqual DEF k
<1> QED
  BY <1>1, <1>2, <1>4, <1>5 DEF Last, g, k

LEMMA CutGrows ==
  ASSUME NEW S, NEW s \in Seq(S), NEW k \in Nat, k + 1 <= Len(s)
  PROVE  /\ SubSeq(s, 1, k) \in Seq(S) /\ SubSeq(s, 1, k + 1) \in Seq(S)
         /\ Len(SubSeq(s, 1, k)) = k
         /\ Append(SubSeq(s, 1, k), s[k + 1]) = SubSeq(s, 1, k + 1)
<1> DEFINE a == SubSeq(s, 1, k)
           b == SubSeq(s, 1, k + 1)
           c == Append(a, s[k + 1])
<1>1. Len(s) \in Nat /\ k + 1 \in 1 .. Len(s) /\ s[k + 1] \in S
  <2>1. Len(s) \in Nat
    BY LenProperties
  <2>2. k + 1 \in 1 .. Len(s)
    BY <2>1
  <2> QED
    BY <2>1, <2>2, ElementOfSeq
<1>2. a \in Seq(S) /\ Len(a) = k /\ \A i \in 1 .. k : a[i] = s[i]
  BY <1>1, SubSeqProperties
<1>3. b \in Seq(S) /\ Len(b) = k + 1 /\ \A i \in 1 .. k + 1 : b[i] = s[i]
  BY <1>1, SubSeqProperties
<1> HIDE DEF a, b
<1>4. /\ c \in Seq(S) /\ Len(c) = k + 1 /\ c[k + 1] = s[k + 1]
      /\ \A i \in 1 .. k : c[i] = a[i]
  BY <1>1, <1>2, AppendProperties
<1> HIDE DEF c
<1>5. \A i \in 1 .. k + 1 : c[i] = b[i]
  BY <1>2, <1>3, <1>4
<1>6. c = b
  BY <1>3, <1>4, <1>5, SeqEqual
<1> QED
  BY <1>2, <1>3, <1>6 DEF a, b, c

LEMMA BetweenChanges ==
  ASSUME NEW t, NEW n
  PROVE  [Between(t) EXCEPT !.tokens = n] = Between(n)
<1>1. \A q : [[tokens |-> t, quoted |-> q, escaped |-> q, err |-> NULL] EXCEPT !.tokens = n]
              = [tokens |-> n, quoted |-> q, escaped |-> q, err |-> NULL]
  OBVIOUS
<1> QED
  BY <1>1 DEF Between

(* A piece of a word, and a blank behind one.                              *)
LEMMA CharRead ==
  ASSUME NEW text \in Seq(Char), NEW i \in 1 .. Len(text), NEW f \in Seq(Seq(Char)),
         NEW u \in Seq(Char), text[i] \notin {Blank, Quote, Escape}
  PROVE  SplitStep(text, i)[Between(Append(f, u))] = Between(Append(f, Append(u, text[i])))
<1> DEFINE c == text[i]
           t == Append(f, u)
           s == Between(t)
           n == Append(Front(s.tokens), Append(Last(s.tokens), c))
<1>1. t \in Seq(Seq(Char)) /\ t # <<>> /\ Front(t) = f /\ Last(t) = u
  BY AppendEnds
<1> HIDE DEF t
<1>2. /\ s \in SplitState /\ s.tokens = t /\ ~s.quoted /\ ~s.escaped /\ s.err = NULL
      /\ s = [tokens |-> t, quoted |-> FALSE, escaped |-> FALSE, err |-> NULL]
  BY <1>1 DEF Between, SplitState
<1> HIDE DEF s
<1>3. SplitStep(text, i)[s] = [s EXCEPT !.tokens = n]
  BY <1>2 DEF SplitStep
<1>4. n = Append(f, Append(u, c))
  BY <1>1, <1>2
<1> HIDE DEF n
<1>5. [s EXCEPT !.tokens = n] = Between(n)
  BY BetweenChanges DEF s
<1> QED
  BY <1>3, <1>4, <1>5 DEF s, t

LEMMA GapRead ==
  ASSUME NEW text \in Seq(Char), NEW i \in 1 .. Len(text), NEW t \in Seq(Seq(Char)), t # <<>>,
         text[i] = Blank, Last(t) # <<>>, Len(t) <= CLI_TOKEN_MAX_CNT
  PROVE  SplitStep(text, i)[Between(t)] = Between(Append(t, <<>>))
<1> DEFINE s == Between(t)
<1>1. /\ s \in SplitState /\ s.tokens = t /\ ~s.quoted /\ ~s.escaped /\ s.err = NULL
      /\ s = [tokens |-> t, quoted |-> FALSE, escaped |-> FALSE, err |-> NULL]
  BY DEF Between, SplitState
<1>2. ~TooMany(Len(t))
  BY LenProperties, TokenAssumption DEF TooMany
<1> HIDE DEF s
<1>3. SplitStep(text, i)[s] = [s EXCEPT !.tokens = Append(s.tokens, <<>>)]
  BY <1>1, <1>2 DEF SplitStep
<1>4. [s EXCEPT !.tokens = Append(s.tokens, <<>>)] = Between(Append(t, <<>>))
  BY <1>1, BetweenChanges DEF s
<1> QED
  BY <1>3, <1>4 DEF s

(* A whole word.                                                           *)
LEMMA WordRead ==
  ASSUME NEW text \in Seq(Char), NEW n \in Nat, NEW f \in Seq(Seq(Char)),
         SplitAfter(text)[n] = Between(Append(f, <<>>)),
         NEW w \in Seq(Char), Plain(w), n + Len(w) <= Len(text),
         \A i \in 1 .. Len(w) : text[n + i] = w[i]
  PROVE  SplitAfter(text)[n + Len(w)] = Between(Append(f, w))
<1> DEFINE S == {p \in Nat : p <= Len(w) =>
                   SplitAfter(text)[n + p] = Between(Append(f, SubSeq(w, 1, p)))}
<1>1. Len(w) \in Nat /\ Len(text) \in Nat
  BY LenProperties
<1>2. 0 \in S
  <2>1. SubSeq(w, 1, 0) = <<>> /\ n + 0 = n
    OBVIOUS
  <2> QED
    BY <2>1
<1>3. ASSUME NEW p \in Nat, p \in S
      PROVE  p + 1 \in S
  <2> SUFFICES ASSUME p + 1 <= Len(w)
               PROVE  SplitAfter(text)[n + (p + 1)] = Between(Append(f, SubSeq(w, 1, p + 1)))
    OBVIOUS
  <2> DEFINE i == n + (p + 1)
             u == SubSeq(w, 1, p)
  <2>1. i \in 1 .. Len(text) /\ i - 1 = n + p /\ p + 1 \in 1 .. Len(w) /\ p <= Len(w)
    BY <1>1
  <2>2. text[i] = w[p + 1] /\ text[i] \notin {Blank, Quote, Escape}
    BY <2>1 DEF Plain
  <2>3. SplitAfter(text)[i - 1] = Between(Append(f, u))
    BY <1>3, <2>1
  <2>4. u \in Seq(Char) /\ Append(u, w[p + 1]) = SubSeq(w, 1, p + 1)
    BY CutGrows
  <2> HIDE DEF i, u
  <2>5. SplitAfter(text)[i] = SplitStep(text, i)[SplitAfter(text)[i - 1]]
    BY <2>1, SplitAfterSound
  <2>6. SplitStep(text, i)[Between(Append(f, u))] = Between(Append(f, Append(u, text[i])))
    BY <2>1, <2>2, <2>4, CharRead
  <2> QED
    BY <2>2, <2>3, <2>4, <2>5, <2>6 DEF i
<1> HIDE DEF S
<1>4. \A p \in Nat : p \in S
  BY <1>2, <1>3, NatSetInduction
<1>5. SubSeq(w, 1, Len(w)) = w
  OBVIOUS
<1>6. SplitAfter(text)[n + Len(w)] = Between(Append(f, SubSeq(w, 1, Len(w))))
  BY <1>1, <1>4 DEF S
<1> QED
  BY <1>5, <1>6

-----------------------------------------------------------------------------
(* A command typed in full.                                                *)

(* n steps from a can be taken one after the other.                        *)
Stepped(A, a, n, g) ==
  \E h \in [0 .. n -> A] : h[0] = a /\ \A k \in 1 .. n : h[k] = g[k][h[k - 1]]

LEMMA StepsExist ==
  ASSUME NEW A, NEW a \in A, NEW n \in Nat, NEW g \in [1 .. n -> [A -> A]]
  PROVE  Stepped(A, a, n, g)
<1> DEFINE Steps(k) == {h \in [0 .. k -> A] : h[0] = a /\ \A i \in 1 .. k : h[i] = g[i][h[i - 1]]}
           S == {k \in Nat : k <= n => Steps(k) # {}}
<1>1. 0 \in S
  <2>1. [k \in 0 .. 0 |-> a] \in Steps(0)
    OBVIOUS
  <2> QED
    BY <2>1
<1>2. ASSUME NEW k \in Nat, k \in S
      PROVE  k + 1 \in S
  <2> SUFFICES ASSUME k + 1 <= n
               PROVE  Steps(k + 1) # {}
    OBVIOUS
  <2>1. PICK h \in [0 .. k -> A] : h[0] = a /\ \A i \in 1 .. k : h[i] = g[i][h[i - 1]]
    BY <1>2
  <2> DEFINE e == [i \in 0 .. k + 1 |-> IF i <= k THEN h[i] ELSE g[k + 1][h[k]]]
  <2>2. g[k + 1] \in [A -> A] /\ h[k] \in A
    BY <2>1
  <2>3. e \in [0 .. k + 1 -> A] /\ e[0] = a
    BY <2>1, <2>2
  <2>4. ASSUME NEW i \in 1 .. k + 1
        PROVE  e[i] = g[i][e[i - 1]]
    <3>1. CASE i <= k
      BY <2>1, <3>1
    <3>2. CASE i = k + 1
      BY <2>1, <3>2
    <3> QED
      BY <3>1, <3>2
  <2> HIDE DEF e
  <2>5. e \in Steps(k + 1)
    BY <2>3, <2>4
  <2> QED
    BY <2>5
<1> HIDE DEF S
<1>3. \A k \in Nat : k \in S
  BY <1>1, <1>2, NatSetInduction
<1>4. Steps(n) # {}
  BY <1>3 DEF S
<1> QED
  BY <1>4 DEF Stepped

(* What is typed before word k.                                            *)
Gap(k) == IF k = 1 THEN <<>> ELSE <<Blank>>

LEMMA TypedSteps ==
  ASSUME NEW c, NEW n \in Nat, n = Len(c) - 1,
         \A k \in 1 .. n : Spell[c[k]] \in Seq(Char)
  PROVE  \E J \in [0 .. n -> Seq(Char)] :
           /\ J[0] = <<>> /\ J[n] = InFull(c)
           /\ \A k \in 1 .. n : J[k] = (J[k - 1] \o Gap(k)) \o Spell[c[k]]
<1> DEFINE A == Seq(Char)
           g == [k \in 1 .. n |-> [s \in A |-> (s \o Gap(k)) \o Spell[c[k]]]]
<1>1. <<>> \in A /\ \A k : Gap(k) \in A
  <2>1. <<>> \in A /\ <<Blank>> \in A
    BY AnswersAreText
  <2> QED
    BY <2>1 DEF Gap
<1>2. ASSUME NEW k \in 1 .. n, NEW s \in A
      PROVE  (s \o Gap(k)) \o Spell[c[k]] \in A
  <2>1. Gap(k) \in A /\ Spell[c[k]] \in A
    BY <1>1
  <2>2. s \o Gap(k) \in A
    BY <2>1, ConcatProperties
  <2> QED
    BY <2>1, <2>2, ConcatProperties
<1> HIDE DEF A
<1>3. g \in [1 .. n -> [A -> A]]
  BY <1>2
<1>4. \A k \in 1 .. n : \A s \in A : g[k][s] = (s \o Gap(k)) \o Spell[c[k]]
  OBVIOUS
<1> HIDE DEF g
<1>5. PICK h \in [0 .. n -> A] : h[0] = <<>> /\ \A k \in 1 .. n : h[k] = g[k][h[k - 1]]
  <2> DEFINE a == <<>>
  <2>1. a \in A
    BY <1>1
  <2> HIDE DEF a
  <2>2. Stepped(A, a, n, g)
    BY <1>3, <2>1, StepsExist
  <2> QED
    BY <2>2, Zenon DEF Stepped, a
<1>6. \A k \in 1 .. n : h[k] = (h[k - 1] \o Gap(k)) \o Spell[c[k]]
  <2> TAKE k \in 1 .. n
  <2>1. k - 1 \in 0 .. n
    OBVIOUS
  <2> QED
    BY <1>4, <1>5, <2>1
<1>7. h = [k \in 0 .. n |-> IF k = 0 THEN <<>> ELSE h[k - 1] \o Gap(k) \o Spell[c[k]]]
  <2>1. \A k \in 0 .. n : h[k] = IF k = 0 THEN <<>> ELSE h[k - 1] \o Gap(k) \o Spell[c[k]]
    <3> TAKE k \in 0 .. n
    <3>1. CASE k = 0
      BY <1>5, <3>1
    <3>2. CASE k # 0
      <4>1. k \in 1 .. n
        BY <3>2
      <4> QED
        BY <1>6, <3>2, <4>1
    <3> QED
      BY <3>1, <3>2
  <2> QED
    BY <1>5, <2>1
<1> DEFINE e == CHOOSE typed : typed = [k \in 0 .. n |->
                  IF k = 0 THEN <<>> ELSE typed[k - 1] \o Gap(k) \o Spell[c[k]]]
<1>8. InFull(c) = e[n]
  BY DEF InFull, Gap
<1>9. e = [k \in 0 .. n |-> IF k = 0 THEN <<>> ELSE e[k - 1] \o Gap(k) \o Spell[c[k]]]
  BY <1>7
<1> HIDE DEF e
<1>10. DOMAIN e = 0 .. n /\ e[0] = <<>>
       /\ \A k \in 1 .. n : e[k] = (e[k - 1] \o Gap(k)) \o Spell[c[k]]
  <2>1. \A k \in 0 .. n : e[k] = IF k = 0 THEN <<>> ELSE e[k - 1] \o Gap(k) \o Spell[c[k]]
    BY <1>9
  <2>2. 0 \in 0 .. n /\ \A k \in 1 .. n : k \in 0 .. n /\ k # 0
    OBVIOUS
  <2>3. e[0] = <<>>
    BY <2>1, <2>2
  <2>4. \A k \in 1 .. n : e[k] = (e[k - 1] \o Gap(k)) \o Spell[c[k]]
    BY <2>1, <2>2
  <2>5. DOMAIN e = 0 .. n
    BY <1>9
  <2> QED
    BY <2>3, <2>4, <2>5
<1> DEFINE S == {k \in Nat : k <= n => e[k] \in A}
<1>11. 0 \in S
  BY <1>1, <1>10
<1>12. ASSUME NEW k \in Nat, k \in S
       PROVE  k + 1 \in S
  <2> SUFFICES ASSUME k + 1 <= n
               PROVE  e[k + 1] \in A
    OBVIOUS
  <2>1. k + 1 \in 1 .. n /\ (k + 1) - 1 = k /\ e[k] \in A
    BY <1>12
  <2>2. e[k + 1] = (e[k] \o Gap(k + 1)) \o Spell[c[k + 1]]
    BY <1>10, <2>1
  <2> QED
    BY <1>2, <2>1, <2>2
<1> HIDE DEF S
<1>13. \A k \in Nat : k \in S
  BY <1>11, <1>12, NatSetInduction
<1>14. e \in [0 .. n -> A]
  <2>1. \A k \in 0 .. n : e[k] \in A
    BY <1>13 DEF S
  <2> QED
    BY <1>9, <2>1
<1> QED
  BY <1>8, <1>10, <1>14 DEF A

(* The words of a command.                                                 *)
WordsTyped(c) == [i \in 1 .. Len(c) - 1 |-> Spell[c[i]]]

(* A word behind what was typed before.                                    *)
LEMMA NextWordRead ==
  ASSUME NEW text \in Seq(Char), NEW u \in Seq(Char), NEW w \in Seq(Char), w # <<>>, Plain(w),
         NEW W \in Seq(Seq(Char)), NEW k \in Nat, k + 1 <= Len(W), W[k + 1] = w,
         k > 0 => W[k] # <<>>, Len(W) <= CLI_TOKEN_MAX_CNT,
         Prefixed((u \o Gap(k + 1)) \o w, text),
         k = 0 => u = <<>>,
         k > 0 => SplitAfter(text)[Len(u)] = Between(SubSeq(W, 1, k))
  PROVE  SplitAfter(text)[Len((u \o Gap(k + 1)) \o w)] = Between(SubSeq(W, 1, k + 1))
<1> DEFINE G == Gap(k + 1)
           v == u \o G
           all == v \o w
           f == SubSeq(W, 1, k)
           b == Len(v)
<1>1. /\ Len(u) \in Nat /\ Len(w) \in Nat /\ Len(text) \in Nat /\ Len(W) \in Nat
      /\ G \in Seq(Char) /\ Len(G) = (IF k = 0 THEN 0 ELSE 1)
  <2>1. <<>> \in Seq(Char) /\ <<Blank>> \in Seq(Char) /\ Len(<<Blank>>) = 1 /\ Len(<<>>) = 0
    BY AnswersAreText
  <2>2. k + 1 = 1 <=> k = 0
    OBVIOUS
  <2> QED
    BY <2>1, <2>2, LenProperties DEF Gap
<1> HIDE DEF G
<1>j. \A p, q \in Seq(Char) :
        /\ p \o q \in Seq(Char) /\ Len(p \o q) = Len(p) + Len(q) /\ Len(p) \in Nat
        /\ \A i \in 1 .. Len(p) + Len(q) :
             (p \o q)[i] = IF i <= Len(p) THEN p[i] ELSE q[i - Len(p)]
  BY ConcatProperties, LenProperties
<1>2. v \in Seq(Char) /\ b = Len(u) + Len(G)
      /\ \A i \in 1 .. Len(u) + Len(G) : v[i] = IF i <= Len(u) THEN u[i] ELSE G[i - Len(u)]
  BY <1>1, <1>j
<1> HIDE DEF v
<1>3. all \in Seq(Char) /\ Len(all) = b + Len(w) /\ b \in Nat
      /\ \A i \in 1 .. b + Len(w) : all[i] = IF i <= b THEN v[i] ELSE w[i - b]
  BY <1>1, <1>2, <1>j
<1> HIDE DEF all
<1>4. b + Len(w) <= Len(text) /\ \A i \in 1 .. b + Len(w) : text[i] = all[i]
  BY <1>3 DEF Prefixed, all, v, G
<1>5. ASSUME NEW i \in 1 .. Len(w)
      PROVE  text[b + i] = w[i]
  <2>1. b + i \in 1 .. b + Len(w) /\ ~(b + i <= b) /\ (b + i) - b = i
    BY <1>1, <1>3
  <2> QED
    BY <1>3, <1>4, <2>1
<1>6. f \in Seq(Seq(Char)) /\ Append(f, w) = SubSeq(W, 1, k + 1) /\ Len(f) = k
  <2> DEFINE Z == Seq(Char)
  <2>1. W \in Seq(Z)
    OBVIOUS
  <2> HIDE DEF Z
  <2>2. f \in Seq(Z) /\ Append(f, W[k + 1]) = SubSeq(W, 1, k + 1) /\ Len(f) = k
    BY <2>1, CutGrows
  <2> QED
    BY <2>2 DEF Z
<1>7. SplitAfter(text)[b] = Between(Append(f, <<>>))
  <2>1. CASE k = 0
    <3>1. b = 0
      <4>1. Len(u) = 0
        BY <2>1
      <4> QED
        BY <1>1, <1>2, <2>1, <4>1
    <3>2. SplitAfter(text)[0] = SplitStart
      BY SplitAfterSound
    <3>3. f = <<>>
      BY <1>6, <2>1, EmptySeq
    <3>4. Append(<<>>, <<>>) = <<<<>>>>
      OBVIOUS
    <3> QED
      BY <3>1, <3>2, <3>3, <3>4 DEF Between, SplitStart
  <2>2. CASE k # 0
    <3>1. /\ b = Len(u) + 1 /\ b \in 1 .. Len(text) /\ b - 1 = Len(u) /\ b <= b + Len(w)
          /\ ~(b <= Len(u)) /\ b - Len(u) = 1
      BY <1>1, <1>2, <1>3, <1>4, <2>2
    <3>2. text[b] = Blank
      <4>1. G[1] = Blank
        BY <2>2 DEF G, Gap
      <4>2. text[b] = v[b]
        BY <1>3, <1>4, <3>1
      <4>3. v[b] = G[1]
        BY <1>1, <1>2, <2>2, <3>1
      <4> QED
        BY <4>1, <4>2, <4>3
    <3>3. f # <<>> /\ Last(f) # <<>> /\ Len(f) <= CLI_TOKEN_MAX_CNT
      <4>1. Len(f) = k /\ k > 0
        BY <1>6, <2>2
      <4>2. f[k] = W[k]
        <5>1. \A i \in 1 .. k : W[i] \in Seq(Char)
          <6> DEFINE Z == Seq(Char)
          <6>1. W \in Seq(Z)
            OBVIOUS
          <6> HIDE DEF Z
          <6>2. \A i \in 1 .. k : i \in 1 .. Len(W)
            BY <1>1
          <6> QED
            BY <6>1, <6>2, ElementOfSeq DEF Z
        <5> DEFINE Z == Seq(Char)
        <5>2. \A i \in 1 .. k : W[i] \in Z
          BY <5>1
        <5> HIDE DEF Z
        <5>3. \A i \in 1 .. k - 1 + 1 : f[i] = W[1 + i - 1]
          BY <5>2, SubSeqProperties
        <5>4. k \in 1 .. k - 1 + 1 /\ 1 + k - 1 = k
          BY <4>1
        <5> QED
          BY <5>3, <5>4
      <4>3. f # <<>>
        <5>1. Len(<<>>) = 0
          OBVIOUS
        <5> HIDE DEF f
        <5> QED
          BY <4>1, <5>1
      <4>4. k <= CLI_TOKEN_MAX_CNT
        BY <1>1, TokenAssumption
      <4> HIDE DEF f
      <4> QED
        BY <4>1, <4>2, <4>3, <4>4 DEF Last
    <3>4. SplitAfter(text)[b - 1] = Between(f)
      BY <2>2, <3>1
    <3> HIDE DEF f, b
    <3>5. SplitAfter(text)[b] = SplitStep(text, b)[SplitAfter(text)[b - 1]]
      BY <3>1, SplitAfterSound
    <3>6. SplitStep(text, b)[Between(f)] = Between(Append(f, <<>>))
      BY <1>6, <3>1, <3>2, <3>3, GapRead
    <3> QED
      BY <3>4, <3>5, <3>6
  <2> QED
    BY <2>1, <2>2
<1> HIDE DEF f, b
<1>8. SplitAfter(text)[b + Len(w)] = Between(Append(f, w))
  BY <1>3, <1>4, <1>5, <1>6, <1>7, WordRead
<1> QED
  BY <1>3, <1>6, <1>8 DEF all, v, G, f

-----------------------------------------------------------------------------
LEMMA JoinedPrefixes ==
  ASSUME NEW S, NEW u \in Seq(S), NEW v \in Seq(S), NEW t \in Seq(S), Prefixed(u \o v, t)
  PROVE  Prefixed(u, t)
<1>1. /\ Len(u) \in Nat /\ Len(v) \in Nat /\ Len(t) \in Nat /\ Len(u \o v) = Len(u) + Len(v)
      /\ \A i \in 1 .. Len(u) + Len(v) : (u \o v)[i] = IF i <= Len(u) THEN u[i] ELSE v[i - Len(u)]
  BY ConcatProperties, LenProperties
<1> DEFINE j == u \o v
<1>2. Len(j) <= Len(t) /\ \A i \in 1 .. Len(j) : j[i] = t[i]
  BY DEF Prefixed
<1> HIDE DEF j
<1>3. Len(u) <= Len(t)
  BY <1>1, <1>2 DEF j
<1>4. ASSUME NEW i \in 1 .. Len(u)
      PROVE  u[i] = t[i]
  <2>1. i \in 1 .. Len(u) + Len(v) /\ i <= Len(u)
    BY <1>1
  <2> QED
    BY <1>1, <1>2, <2>1 DEF j
<1> QED
  BY <1>3, <1>4 DEF Prefixed

(* Behind the text u stand the first k of these words.                     *)
ReadsTo(u, words, k) ==
  \A text \in Seq(Char) : Prefixed(u, text) =>
    SplitAfter(text)[Len(u)] = Between(SubSeq(words, 1, k))

(* The text read so far grows by a word.                                   *)
LEMMA FullReadStep ==
  ASSUME NEW words \in Seq(Seq(Char)), Len(words) <= CLI_TOKEN_MAX_CNT,
         NEW k \in Nat, k + 1 <= Len(words),
         NEW so_far \in Seq(Char), NEW word \in Seq(Char), word # <<>>, Plain(word),
         words[k + 1] = word, k > 0 => words[k] # <<>>, k = 0 => so_far = <<>>,
         k > 0 => ReadsTo(so_far, words, k)
  PROVE  ReadsTo((so_far \o Gap(k + 1)) \o word, words, k + 1)
<1> SUFFICES ASSUME NEW text \in Seq(Char), Prefixed((so_far \o Gap(k + 1)) \o word, text)
             PROVE  SplitAfter(text)[Len((so_far \o Gap(k + 1)) \o word)]
                      = Between(SubSeq(words, 1, k + 1))
  BY DEF ReadsTo
<1>1. Prefixed(so_far, text)
  <2>1. Gap(k + 1) \in Seq(Char)
    <3>1. <<>> \in Seq(Char) /\ <<Blank>> \in Seq(Char)
      BY AnswersAreText
    <3> QED
      BY <3>1 DEF Gap
  <2>2. so_far \o Gap(k + 1) \in Seq(Char)
    BY <2>1, ConcatProperties
  <2>3. \A p, q, t \in Seq(Char) : Prefixed(p \o q, t) => Prefixed(p, t)
    BY JoinedPrefixes
  <2>4. Prefixed(so_far \o Gap(k + 1), text)
    BY <2>2, <2>3
  <2> QED
    BY <2>1, <2>3, <2>4
<1>2. k > 0 => SplitAfter(text)[Len(so_far)] = Between(SubSeq(words, 1, k))
  BY <1>1 DEF ReadsTo
<1> QED
  BY <1>2, NextWordRead

(* What was typed after each word.                                         *)
LEMMA FullReadAlong ==
  ASSUME NEW words \in Seq(Seq(Char)), NEW n \in Nat, n = Len(words), n <= CLI_TOKEN_MAX_CNT,
         \A k \in 1 .. n : words[k] \in Seq(Char) /\ words[k] # <<>> /\ Plain(words[k]),
         NEW J \in [0 .. n -> Seq(Char)], J[0] = <<>>,
         \A k \in 1 .. n : J[k] = (J[k - 1] \o Gap(k)) \o words[k]
  PROVE  \A k \in 1 .. n : ReadsTo(J[k], words, k)
<1> DEFINE S == {k \in Nat : k > 0 /\ k <= n => ReadsTo(J[k], words, k)}
<1>1. 0 \in S
  OBVIOUS
<1>2. ASSUME NEW k \in Nat, k \in S
      PROVE  k + 1 \in S
  <2> SUFFICES ASSUME k + 1 <= n
               PROVE  ReadsTo(J[k + 1], words, k + 1)
    OBVIOUS
  <2>1. k + 1 \in 1 .. n /\ (k + 1) - 1 = k /\ k \in 0 .. n /\ (k > 0 => k \in 1 .. n)
    OBVIOUS
  <2>2. /\ J[k] \in Seq(Char)
        /\ words[k + 1] \in Seq(Char) /\ words[k + 1] # <<>> /\ Plain(words[k + 1])
        /\ J[k + 1] = (J[k] \o Gap(k + 1)) \o words[k + 1]
    BY <2>1
  <2>a. k > 0 => words[k] # <<>>
    BY <2>1
  <2>b. k = 0 => J[k] = <<>>
    OBVIOUS
  <2>c. k > 0 => ReadsTo(J[k], words, k)
    BY <1>2
  <2>3. ReadsTo((J[k] \o Gap(k + 1)) \o words[k + 1], words, k + 1)
    BY <2>1, <2>2, <2>a, <2>b, <2>c, FullReadStep
  <2> QED
    BY <2>2, <2>3
<1> HIDE DEF S
<1>3. \A k \in Nat : k \in S
  BY <1>1, <1>2, NatSetInduction
<1> QED
  BY <1>3 DEF S

(* split_cli() finds the words that were typed.                            *)
LEMMA FullRead ==
  ASSUME NEW c, NEW n \in Nat, n = Len(c) - 1, n >= 1, n <= CLI_TOKEN_MAX_CNT,
         \A k \in 1 .. n : Spell[c[k]] \in Seq(Char) /\ Spell[c[k]] # <<>> /\ Plain(Spell[c[k]])
  PROVE  /\ InFull(c) \in Seq(Char)
         /\ WordsTyped(c) \in Seq(Seq(Char)) /\ Len(WordsTyped(c)) = n
         /\ \A k \in 1 .. n : WordsTyped(c)[k] = Spell[c[k]]
         /\ SplitAfter(InFull(c))[Len(InFull(c))] = Between(WordsTyped(c))
<1> DEFINE words == WordsTyped(c)
<1>1. words \in Seq(Seq(Char)) /\ Len(words) = n /\ \A k \in 1 .. n : words[k] = Spell[c[k]]
  BY DEF WordsTyped
<1>2. PICK J \in [0 .. n -> Seq(Char)] :
           /\ J[0] = <<>> /\ J[n] = InFull(c)
           /\ \A k \in 1 .. n : J[k] = (J[k - 1] \o Gap(k)) \o Spell[c[k]]
  BY TypedSteps
<1> HIDE DEF words
<1>3. \A k \in 1 .. n : ReadsTo(J[k], words, k)
  <2>1. \A k \in 1 .. n : words[k] \in Seq(Char) /\ words[k] # <<>> /\ Plain(words[k])
    BY <1>1
  <2>2. \A k \in 1 .. n : J[k] = (J[k - 1] \o Gap(k)) \o words[k]
    BY <1>1, <1>2
  <2> QED
    BY <1>1, <1>2, <2>1, <2>2, FullReadAlong
<1>4. ReadsTo(J[n], words, n)
  BY <1>3
<1>5. InFull(c) \in Seq(Char) /\ J[n] = InFull(c)
  BY <1>2
<1>6. Prefixed(InFull(c), InFull(c))
  BY <1>5, LenProperties DEF Prefixed
<1>7. SubSeq(words, 1, n) = words
  BY <1>1
<1>8. SplitAfter(InFull(c))[Len(InFull(c))] = Between(words)
  BY <1>4, <1>5, <1>6, <1>7 DEF ReadsTo
<1> QED
  BY <1>1, <1>5, <1>8 DEF words

LEMMA FullSplits ==
  ASSUME NEW c, NEW n \in Nat, n = Len(c) - 1, n >= 1, n <= CLI_TOKEN_MAX_CNT,
         \A k \in 1 .. n : Spell[c[k]] \in Seq(Char) /\ Spell[c[k]] # <<>> /\ Plain(Spell[c[k]]),
         NEW text \in Seq(Char), Bare(text) = InFull(c)
  PROVE  /\ Split(text).err = NULL /\ Split(text).tokens = WordsTyped(c)
         /\ WordsTyped(c) \in Seq(Seq(Char)) /\ Len(WordsTyped(c)) = n
         /\ \A k \in 1 .. n : WordsTyped(c)[k] = Spell[c[k]]
<1> DEFINE b == InFull(c)
           W == WordsTyped(c)
           s == SplitAfter(b)[Len(b)]
<1>1. /\ b \in Seq(Char) /\ W \in Seq(Seq(Char)) /\ Len(W) = n
      /\ \A k \in 1 .. n : W[k] = Spell[c[k]]
      /\ s = Between(W)
  BY FullRead
<1>2. b # <<>>
  <2> SUFFICES ASSUME b = <<>>
               PROVE  FALSE
    OBVIOUS
  <2>1. s = SplitStart
    <3>1. SplitAfter(b)[0] = SplitStart
      BY <1>1, SplitAfterSound
    <3>2. Len(b) = 0
      BY EmptySeq
    <3> QED
      BY <3>1, <3>2
  <2>2. s.tokens = W /\ SplitStart.tokens = <<<<>>>>
    BY <1>1 DEF Between, SplitStart
  <2>3. W = <<<<>>>>
    BY <2>1, <2>2
  <2>4. W[1] = <<>>
    BY <2>3
  <2> QED
    BY <1>1, <2>4
<1>3. s.tokens = W /\ s.err = NULL /\ s.quoted = FALSE
  BY <1>1 DEF Between
<1> HIDE DEF s, W
<1>4. SplitCli(b) = [tokens |-> W, err |-> NULL]
  BY <1>3 DEF SplitCli, s
<1> HIDE DEF b
<1>5. Split(text) = SplitCli(b)
  BY <1>1, <1>2 DEF Split, SplitBare, b
<1> QED
  BY <1>1, <1>4, <1>5 DEF W

-----------------------------------------------------------------------------
(* What the commands of the trees are made of.                             *)

LEMMA WordsArePlain ==
  ASSUME NEW y \in Node, IsWord(y)
  PROVE  /\ Spell[Def[y].keyword] \in Seq(Char) /\ Spell[Def[y].keyword] # <<>>
         /\ Plain(Spell[Def[y].keyword])
<1> DEFINE w == Def[y].keyword
<1>1. w \in DOMAIN Rank
  BY WordsRanked DEF IsWord
<1> HIDE DEF w
<1>2. PICK i \in DOMAIN Spelling : Spelling[i][1] = w
  BY <1>1 DEF Rank
<1>3. Rank[w] = CHOOSE j \in DOMAIN Spelling : Spelling[j][1] = w
  BY <1>1, <1>2 DEF Rank
<1>4. Rank[w] \in DOMAIN Spelling
  BY <1>2, <1>3
<1>5. Spell[w] \in Seq(Char \ {Blank, Quote, Escape}) /\ Spell[w] # <<>>
  BY <1>1, <1>4, CharAssumption DEF Spell
<1>6. \A t \in Seq(Char \ {Blank, Quote, Escape}) : t \in Seq(Char) /\ Plain(t)
  <2> TAKE t \in Seq(Char \ {Blank, Quote, Escape})
  <2>1. Len(t) \in Nat /\ t \in [1 .. Len(t) -> Char \ {Blank, Quote, Escape}]
    BY LenProperties
  <2>2. t \in [1 .. Len(t) -> Char]
    BY <2>1
  <2> QED
    BY <2>1, <2>2 DEF Plain
<1> QED
  BY <1>5, <1>6 DEF w

(* Each entry but the last is a word of the tree.                          *)
MadeOfWords(c) ==
  /\ c \in Seq(Symbols) /\ Len(c) \in Nat /\ Len(c) > 1 /\ Len(c) - 1 < CLI_TOKEN_MAX_CNT
  /\ \A i \in 1 .. Len(c) - 1 : \E y \in Node : IsWord(y) /\ c[i] = Def[y].keyword

LEMMA PathIsWords ==
  ASSUME NEW e \in Chained, NEW i \in 1 .. Len(Path(e))
  PROVE  \E y \in Node : IsWord(y) /\ Path(e)[i] = Def[y].keyword
<1> DEFINE p == Path(e)
           q == SubSeq(p, 1, i)
<1>1. p \in Seq(Keywords) /\ Len(p) \in Nat /\ DOMAIN p = 1 .. Len(p)
  BY PathsTyped
<1>2. i \in DOMAIN Path(e)
  BY <1>1
<1>3. PICK k \in Chained : IsWord(k) /\ PathBehind(k) = SubSeq(Path(e), 1, i)
  BY <1>2, ChainAssumption
<1>4. Len(q) = i /\ q[i] = p[i]
  <2>1. Len(q) = i /\ Prefixed(q, p)
    BY <1>1, CutPath
  <2>2. i \in 1 .. Len(q)
    BY <2>1
  <2> QED
    BY <2>1, <2>2 DEF Prefixed
<1> HIDE DEF q
<1>5. /\ Path(k) \in Seq(Keywords) /\ Def[k].keyword \in Keywords /\ k \in Node
      /\ Len(PathBehind(k)) = Len(Path(k)) + 1 /\ Len(Path(k)) \in Nat
  BY PathsTyped
<1>6. PathBehind(k)[Len(Path(k)) + 1] = Def[k].keyword
  BY <1>5, AppendProperties DEF PathBehind
<1>7. q = PathBehind(k)
  BY <1>3 DEF q
<1> QED
  BY <1>3, <1>4, <1>5, <1>6, <1>7

LEMMA SaidIsWords ==
  ASSUME NEW e \in Chained, ~IsWord(e)
  PROVE  LET c == Append(Path(e), e) IN
         MadeOfWords(c) /\ \A y \in Node : IsWord(y) => MadeOfWords(<<Def[y].keyword>> \o c)
<1> DEFINE p == Path(e)
           c == Append(p, e)
<1>1. p \in Seq(Symbols) /\ e \in Symbols /\ Len(p) \in Nat
  BY SymbolsTyped, PathsTyped, LenProperties
<1>2. Len(p) + 1 < CLI_TOKEN_MAX_CNT /\ CLI_TOKEN_MAX_CNT \in Nat
  BY TokenAssumption
<1>3. Len(c) \in Nat /\ Len(c) > 1 /\ c \in Seq(Symbols)
  BY CommandIs
<1>4. \A i \in 1 .. Len(p) : \E y \in Node : IsWord(y) /\ p[i] = Def[y].keyword
  BY PathIsWords
<1> HIDE DEF p
<1>5. Len(c) = Len(p) + 1 /\ \A i \in 1 .. Len(p) : c[i] = p[i]
  BY <1>1, AppendProperties
<1> HIDE DEF c
<1>6. MadeOfWords(c)
  <2>1. Len(c) - 1 = Len(p) /\ Len(c) - 1 < CLI_TOKEN_MAX_CNT
    BY <1>1, <1>2, <1>5
  <2> QED
    BY <1>3, <1>4, <1>5, <2>1 DEF MadeOfWords
<1>7. ASSUME NEW y \in Node, IsWord(y)
      PROVE  MadeOfWords(<<Def[y].keyword>> \o c)
  <2> DEFINE w == Def[y].keyword
             b == <<w>> \o c
  <2>1. w \in Symbols
    BY DEF Symbols
  <2> HIDE DEF w
  <2>2. /\ b \in Seq(Symbols) /\ Len(b) = Len(c) + 1 /\ b[1] = w
        /\ \A i \in 1 .. Len(c) : b[i + 1] = c[i]
    BY <1>3, <2>1, ConsProperties
  <2> HIDE DEF b
  <2>3. Len(b) - 1 < CLI_TOKEN_MAX_CNT /\ Len(b) > 1 /\ Len(b) \in Nat /\ Len(b) - 1 = Len(p) + 1
    BY <1>1, <1>2, <1>3, <1>5, <2>2
  <2>4. ASSUME NEW i \in 1 .. Len(b) - 1
        PROVE  \E z \in Node : IsWord(z) /\ b[i] = Def[z].keyword
    <3>1. CASE i = 1
      BY <1>7, <2>2, <3>1 DEF w
    <3>2. CASE i # 1
      <4>1. i - 1 \in 1 .. Len(p) /\ i - 1 \in 1 .. Len(c) /\ (i - 1) + 1 = i
        BY <1>1, <1>5, <2>3, <3>2
      <4>2. b[i] = p[i - 1]
        BY <1>5, <2>2, <4>1
      <4> QED
        BY <1>4, <4>1, <4>2
    <3> QED
      BY <3>1, <3>2
  <2> QED
    BY <2>2, <2>3, <2>4 DEF MadeOfWords, b, w
<1> QED
  BY <1>6, <1>7 DEF c, p

LEMMA CommandsAreWords ==
  ASSUME TreeInv, NEW T \in SUBSET Chained, NEW first \in [Mode -> Addr], Shape(T, first),
         NEW m \in Mode, NEW c \in CommandsOf(m)
  PROVE  MadeOfWords(c)
<1> DEFINE S == Said(Links, T, m)
<1>1. \A t \in Template : t \in Node /\ IsWord(t)
  BY TemplatesSay DEF IsWord, EndType, Template
<1>2. \/ c \in S \/ c \in ExitAndEnd \/ c \in WithFirst("no", S) \/ c \in WithFirst("default", S)
  <2>1. root[m] = first[m] \/ LedByExit(m, first[m]) \/ LedByAll(m, first[m])
    BY DEF Shape, Tops
  <2> QED
    BY <2>1, TopCommands
<1>3. ASSUME NEW r \in S
      PROVE  MadeOfWords(r) /\ \A y \in Node : IsWord(y) => MadeOfWords(<<Def[y].keyword>> \o r)
  <2>1. PICK e \in T : ~IsWord(e) /\ r = Append(Path(e), e)
    BY <1>3 DEF Said
  <2> QED
    BY <2>1, SaidIsWords
<1>4. ASSUME c \in ExitAndEnd
      PROVE  MadeOfWords(c)
  <2>1. PICK t \in {"node_exit", "node_end"}, e \in {"node_exit_end", "node_end_end"} :
          c = <<Def[t].keyword, e>>
    BY <1>4, TemplatesSay DEF ExitAndEnd
  <2>2. t \in Node /\ IsWord(t) /\ e \in Node
    BY <1>1, TemplatesSay, DeclaredPointers DEF Template
  <2>3. Def[t].keyword \in Symbols /\ e \in Symbols
    BY <2>2 DEF Symbols
  <2>4. /\ c \in Seq(Symbols) /\ Len(c) = 2 /\ c[1] = Def[t].keyword
    BY <2>1, <2>3
  <2>5. CLI_TOKEN_MAX_CNT \in Nat /\ CLI_TOKEN_MAX_CNT > 1
    BY TokenAssumption
  <2>6. 1 .. Len(c) - 1 = {1} /\ Len(c) \in Nat /\ Len(c) > 1 /\ Len(c) - 1 < CLI_TOKEN_MAX_CNT
    BY <2>4, <2>5
  <2> QED
    BY <2>2, <2>4, <2>6 DEF MadeOfWords
<1>5. ASSUME NEW t \in Template, c \in WithFirst(Def[t].keyword, S)
      PROVE  MadeOfWords(c)
  BY <1>1, <1>3, <1>5 DEF WithFirst
<1>6. /\ "no" = Def["node_no"].keyword /\ "default" = Def["node_default"].keyword
      /\ "node_no" \in Template /\ "node_default" \in Template
  BY TemplatesSay
<1> QED
  BY <1>2, <1>3, <1>4, <1>5, <1>6

-----------------------------------------------------------------------------
(* The words where the parser looks for one differ.                        *)

LEMMA LedDistinct ==
  ASSUME TreeInv, NEW T, NEW first, Shape(T, first), NEW x, NEW m,
         Leads(Links, T, alter, x, m, Path(x)),
         NEW y \in Elements(x, alter), NEW z \in Elements(x, alter), IsWord(y), IsWord(z),
         Def[y].keyword = Def[z].keyword
  PROVE  y = z
<1>1. Distinct(Links, T)
  BY DEF Shape, Planted
<1>2. y \in T /\ z \in T /\ Meet(Links, y, z)
  BY LedReadable DEF Meet
<1> QED
  BY <1>1, <1>2 DEF Distinct

LEMMA RootDistinct ==
  ASSUME TreeInv, NEW T, NEW first \in [Mode -> Addr], Shape(T, first), NEW m \in Mode,
         root[m] # NULL, root[m] # first[m],
         NEW y \in Elements(root[m], alter), NEW z \in Elements(root[m], alter),
         IsWord(y), IsWord(z), Def[y].keyword = Def[z].keyword
  PROVE  y = z
<1> DEFINE B == {Clone[m][t] : t \in Template}
           L == IF first[m] = NULL THEN {} ELSE Elements(first[m], alter)
<1>1. (y \in B \/ y \in L) /\ (z \in B \/ z \in L)
  BY RootReadable
<1>2. \A t \in Template : Def[Clone[m][t]].keyword = Def[t].keyword
  BY CloneIs
<1>3. ASSUME NEW v \in L, IsWord(v), NEW t \in Template
      PROVE  Def[v].keyword # Def[t].keyword
  <2>1. first[m] # NULL /\ v \in Elements(first[m], alter)
    OBVIOUS
  <2>2. Leads(Links, T, alter, first[m], m, Path(first[m])) /\ Path(first[m]) = <<>>
    <3>1. /\ Leads(Links, T, alter, first[m], m, Path(first[m])) /\ Len(Path(first[m])) = 0
          /\ first[m] \in T
      BY <2>1, FirstReadable
    <3>2. Path(first[m]) \in Seq(Keywords)
      <4>1. T \subseteq Chained
        BY TreesSound
      <4> QED
        BY <3>1, <4>1, PathsTyped
    <3> QED
      BY <3>1, <3>2, EmptySeq
  <2>3. v \in T /\ Path(v) = <<>>
    BY <1>3, <2>1, <2>2, LedReadable
  <2>4. v \in Chained
    BY <2>3, TreesSound
  <2> QED
    BY <2>3, <2>4, BuildinAssumption
<1>4. CASE y \in B /\ z \in B
  <2>1. PICK t \in Template : y = Clone[m][t]
    BY <1>4
  <2>2. PICK u \in Template : z = Clone[m][u]
    BY <1>4
  <2>3. Def[t].keyword = Def[u].keyword
    BY <1>2, <2>1, <2>2
  <2>4. t = u
    BY <2>3, TemplatesSay DEF Template
  <2> QED
    BY <2>1, <2>2, <2>4
<1>5. CASE y \in L /\ z \in L
  <2>1. first[m] # NULL /\ y \in Elements(first[m], alter) /\ z \in Elements(first[m], alter)
    BY <1>5
  <2>2. Leads(Links, T, alter, first[m], m, Path(first[m]))
    BY <2>1, FirstReadable
  <2> QED
    BY <2>1, <2>2, LedDistinct
<1>6. CASE y \in B /\ z \in L
  BY <1>2, <1>3, <1>6
<1>7. CASE y \in L /\ z \in B
  BY <1>2, <1>3, <1>7
<1> QED
  BY <1>1, <1>4, <1>5, <1>6, <1>7

LEMMA WordsDistinct ==
  ASSUME TreeInv, NEW T, NEW first \in [Mode -> Addr], Shape(T, first), NEW m \in Mode,
         NEW x, NEW j, NEW neg, At(T, x, m, j, neg),
         NEW y \in Elements(x, alter), NEW z \in Elements(x, alter), IsWord(y), IsWord(z),
         Def[y].keyword = Def[z].keyword
  PROVE  y = z
<1>1. CASE Leads(Links, T, alter, x, m, Path(x))
  BY <1>1, LedDistinct
<1>2. CASE x \in {"node_exit_end", "node_end_end"}
  <2>1. /\ \A n \in Static : n \in Node
        /\ alter \in [Node -> Addr] /\ \A n \in Node : Type[n] \in EndType => alter[n] = NULL
    BY TreesSound, HomeTyped
  <2>2. x \in Node /\ Type[x] = "END" /\ alter[x] = NULL
    BY <1>2, <2>1, TemplatesSay, DeclaredPointers DEF EndType
  <2>3. Elements(x, alter) = {x}
    BY <2>1, <2>2, ListUnfoldsToSet, HomeTyped
  <2> QED
    BY <2>3
<1>3. CASE x = root[m] /\ x # NULL
  <2>1. CASE root[m] = first[m]
    <3>1. Leads(Links, T, alter, x, m, Path(x))
      BY <1>3, <2>1, FirstReadable
    <3> QED
      BY <1>1, <3>1
  <2>2. CASE root[m] # first[m]
    BY <1>3, <2>2, RootDistinct
  <2> QED
    BY <2>1, <2>2
<1> QED
  BY <1>1, <1>2, <1>3 DEF At

(* A command follows wherever the parser may be: words lead to words until a
   command ends.                                                           *)
Follows(T, m, j) ==
  \A x, neg : neg \in BOOLEAN /\ At(T, x, m, j, neg) => Rest(j, x) # {}

LEMMA EachFollows ==
  ASSUME TreeInv, NEW T, NEW first \in [Mode -> Addr], Shape(T, first), NEW m \in Mode,
         NEW j \in Nat, Follows(T, m, j + 1)
  PROVE  Follows(T, m, j)
<1> SUFFICES ASSUME NEW x, NEW neg \in BOOLEAN, At(T, x, m, j, neg)
             PROVE  Rest(j, x) # {}
  BY DEF Follows
<1>1. /\ Readable(x) /\ j <= MaxWords /\ x \in Node /\ Sound(acc, alter)
  BY AtReadable, TreesSound DEF Readable
<1>2. x \in Elements(x, alter)
  BY <1>1, HomeTyped, ListUnfoldsToSet
<1>3. IsWord(x) \/ Type[x] = "END"
  <2>1. T \subseteq Chained /\ \A n \in Chained : IsWord(n) \/ Type[n] = "END"
    BY TreesSound, ChainAssumption DEF IsWord, EndType
  <2>2. CASE Leads(Links, T, alter, x, m, Path(x))
    BY <2>1, <2>2, LedReadable
  <2>3. CASE x \in {"node_exit_end", "node_end_end"}
    BY <2>3, TemplatesSay
  <2>4. CASE x = root[m] /\ x = first[m]
    BY <1>1, <2>1, <2>4, FirstReadable, NodeAssumption
  <2>5. CASE x = root[m] /\ x # first[m]
    <3>1. x = Clone[m]["node_exit"]
      BY <2>5 DEF Shape, Tops, LedByExit, LedByAll
    <3>2. Type[x] = "KEYWORD"
      BY <3>1, CloneIs, TemplatesSay DEF Template, Type
    <3> QED
      BY <3>2 DEF IsWord, EndType
  <2> QED
    BY <2>2, <2>3, <2>4, <2>5 DEF At
<1>4. PICK d \in Nat : d + j = MaxWords /\ MaxWords + 1 - j = d + 1 /\ MaxWords + 1 - (j + 1) = d
  <2>1. MaxWords \in Nat /\ MaxWords - j \in Nat
    BY <1>1 DEF MaxWords
  <2>2. /\ (MaxWords - j) + j = MaxWords /\ MaxWords + 1 - j = (MaxWords - j) + 1
        /\ MaxWords + 1 - (j + 1) = MaxWords - j
    BY <1>1, <2>1
  <2> QED
    BY <2>1, <2>2
<1>5. \E r : Begins(acc, alter, d, x, r)
  <2>1. CASE Type[x] = "END"
    BY <2>1 DEF Begins
  <2>2. CASE IsWord(x)
    <3>1. At(T, acc[x], m, j + 1, neg \/ Type[x] \in {"NO", "DEFAULT"})
      BY <1>2, <2>2, AtReadable
    <3>2. (neg \/ Type[x] \in {"NO", "DEFAULT"}) \in BOOLEAN
      OBVIOUS
    <3>3. Rest(j + 1, acc[x]) # {}
      BY <3>1, <3>2 DEF Follows
    <3>4. PICK c : c \in Sayings(acc, alter)[d][acc[x]]
      BY <1>4, <3>3 DEF Rest
    <3> QED
      BY <2>2, <3>4 DEF Begins
  <2> QED
    BY <1>3, <2>1, <2>2
<1>6. \E r : r \in Sayings(acc, alter)[d + 1][x]
  BY <1>1, <1>2, <1>4, <1>5, SaysAt
<1> QED
  BY <1>4, <1>6 DEF Rest

LEMMA AllFollow ==
  ASSUME TreeInv, NEW T, NEW first \in [Mode -> Addr], Shape(T, first), NEW m \in Mode
  PROVE  \A j \in Nat : Follows(T, m, j)
<1>1. ASSUME NEW j \in Nat, j > MaxWords
      PROVE  Follows(T, m, j)
  <2>1. \A x, neg : neg \in BOOLEAN /\ At(T, x, m, j, neg) => j <= MaxWords
    BY AtReadable
  <2>2. ~(j <= MaxWords)
    BY <1>1 DEF MaxWords
  <2> QED
    BY <2>1, <2>2 DEF Follows
<1>2. \A j \in Nat : Follows(T, m, j + 1) => Follows(T, m, j)
  BY EachFollows
<1>3. Follows(T, m, 6)
  BY <1>1 DEF MaxWords
<1>4. Follows(T, m, 5)
  <2>1. 5 \in Nat /\ 5 + 1 = 6
    OBVIOUS
  <2> QED
    BY <1>2, <1>3, <2>1
<1>5. Follows(T, m, 4)
  <2>1. 4 \in Nat /\ 4 + 1 = 5
    OBVIOUS
  <2> QED
    BY <1>2, <1>4, <2>1
<1>6. Follows(T, m, 3)
  <2>1. 3 \in Nat /\ 3 + 1 = 4
    OBVIOUS
  <2> QED
    BY <1>2, <1>5, <2>1
<1>7. Follows(T, m, 2)
  <2>1. 2 \in Nat /\ 2 + 1 = 3
    OBVIOUS
  <2> QED
    BY <1>2, <1>6, <2>1
<1>8. Follows(T, m, 1)
  <2>1. 1 \in Nat /\ 1 + 1 = 2
    OBVIOUS
  <2> QED
    BY <1>2, <1>7, <2>1
<1>9. Follows(T, m, 0)
  <2>1. 0 \in Nat /\ 0 + 1 = 1
    OBVIOUS
  <2> QED
    BY <1>2, <1>8, <2>1
<1>10. \A j \in Nat : j > MaxWords \/ j \in {0, 1, 2, 3, 4, 5}
  BY DEF MaxWords
<1> QED
  BY <1>1, <1>4, <1>5, <1>6, <1>7, <1>8, <1>9, <1>10

(* A word typed in full is found, and no other one that it does not begin. *)
LEMMA FullMatch ==
  ASSUME TreeInv, NEW x, Readable(x), \A n \in Node : Type[n] \in EndType => alter[n] = NULL,
         NEW y \in Elements(x, alter), IsWord(y),
         \A z \in Elements(x, alter) : IsWord(z) /\ IsPrefix(Keyword(y), Keyword(z)) => y = z
  PROVE  /\ GetMatchNode(x, Keyword(y)).node # NULL
         /\ GetMatchNode(x, Keyword(y)).cnt \in Nat /\ GetMatchNode(x, Keyword(y)).cnt <= 1
<1> DEFINE level == Level(x)
           token == Keyword(y)
           words == {i \in DOMAIN level : Matches(token, level[i])}
           params == {i \in DOMAIN level : Type[level[i]] \in ParamType}
           E == Elements(x, alter)
           g == GetMatchNode(x, token)
<1>1. x \in Node /\ alter \in [Node -> Addr] /\ E \subseteq Node /\ NULL \notin Node
  BY HomeTyped, NodeAssumption DEF Readable
<1>2. /\ level \in Seq(Node) /\ Len(level) \in Nat /\ DOMAIN level = 1 .. Len(level)
      /\ \A i, k \in 1 .. Len(level) : i # k => level[i] # level[k]
      /\ \A i \in 1 .. Len(level) : level[i] \in Node
  <2>1. /\ level \in Seq(Node) /\ Len(level) \in Nat
        /\ \A i, k \in 1 .. Len(level) : i # k => level[i] # level[k]
        /\ \A i \in 1 .. Len(level) : level[i] \in Node
    BY <1>1, LevelPlaces
  <2> HIDE DEF level
  <2> QED
    BY <2>1
<1>3. \A z : z \in E <=> \E i \in 1 .. Len(level) : level[i] = z
  <2>1. ToSet(level) = E
    BY <1>1, LevelIs DEF Level
  <2>2. ToSet(level) = {level[i] : i \in 1 .. Len(level)}
    BY <1>2 DEF ToSet
  <2> QED
    BY <2>1, <2>2
<1>4. token \in Seq(Char) /\ token[1] # Quote
  <2>1. token \in Seq(Char) /\ token # <<>> /\ Plain(token)
    BY <1>1, WordsArePlain DEF Keyword
  <2> HIDE DEF token
  <2>2. 1 \in 1 .. Len(token)
    BY <2>1, EmptySeq, LenProperties
  <2> QED
    BY <2>1, <2>2 DEF Plain
<1>5. /\ g.cnt = Cardinality(words)
      /\ g.node = IF words # {} THEN level[Max(words)]
                  ELSE IF params # {} THEN level[Max(params)] ELSE NULL
  BY <1>2, <1>4 DEF GetMatchNode, MatchIn
<1>6. words \subseteq 1 .. Len(level) /\ params \subseteq 1 .. Len(level)
  BY <1>2
<1>7. /\ \A i \in 1 .. Len(level) : i \in words <=>
            Type[level[i]] \in KeywordType /\ IsPrefix(token, Keyword(level[i]))
      /\ \A i \in 1 .. Len(level) : i \in params <=> Type[level[i]] = "STRING"
  BY <1>2 DEF Matches, ParamType
<1>8. /\ params # {} => Max(params) \in params
      /\ words # {} => Max(words) \in words
  BY <1>2, <1>6, GreatestOf
<1>9. IsPrefix(token, token)
  BY <1>4, LenProperties DEF IsPrefix
<1>10. PICK k \in 1 .. Len(level) : level[k] = y
  BY <1>3
<1>11. Type[y] \in KeywordType \cup {"STRING"}
  BY DEF Readable
<1>12. \A i \in words : level[i] = y
  <2> TAKE i \in words
  <2>1. level[i] \in E /\ Type[level[i]] \in KeywordType /\ IsPrefix(token, Keyword(level[i]))
    BY <1>3, <1>6, <1>7
  <2>2. IsWord(level[i])
    BY <2>1 DEF IsWord, KeywordType, EndType
  <2> QED
    BY <2>1, <2>2
<1> HIDE DEF level, words, params, E, g
<1>13. words \subseteq {k}
  BY <1>2, <1>6, <1>10, <1>12
<1>14. Cardinality(words) \in Nat /\ Cardinality(words) <= 1
  <2>1. IsFiniteSet({k}) /\ Cardinality({k}) = 1
    BY FS_Singleton
  <2>2. IsFiniteSet(words) /\ Cardinality(words) <= 1
    BY <1>13, <2>1, FS_Subset
  <2> QED
    BY <2>2, FS_CardinalityType
<1>15. words # {} \/ params # {}
  <2>1. Type[y] \in KeywordType => k \in words
    BY <1>7, <1>9, <1>10
  <2>2. Type[y] = "STRING" => k \in params
    BY <1>7, <1>10
  <2> QED
    BY <1>11, <2>1, <2>2
<1>16. g.node # NULL
  BY <1>1, <1>2, <1>5, <1>6, <1>8, <1>15
<1> QED
  BY <1>5, <1>14, <1>16 DEF g

-----------------------------------------------------------------------------
(* A command of the trees that is typed in full is split into its words.   *)
LEMMA OfferedSplits ==
  ASSUME TreeInv, NEW T \in SUBSET Chained, NEW first \in [Mode -> Addr], Shape(T, first),
         NEW m \in Mode, NEW c \in CommandsOf(m), NEW text \in Seq(Char), Bare(text) = InFull(c)
  PROVE  /\ MadeOfWords(c) /\ Split(text).err = NULL
         /\ Len(Split(text).tokens) = Len(c) - 1
         /\ \A i \in 1 .. Len(c) - 1 : Split(text).tokens[i] = Spell[c[i]]
<1>1. MadeOfWords(c)
  BY CommandsAreWords
<1> DEFINE n == Len(c) - 1
<1>2. n \in Nat /\ n >= 1 /\ n <= CLI_TOKEN_MAX_CNT
  BY <1>1, TokenAssumption DEF MadeOfWords
<1>3. \A i \in 1 .. n : Spell[c[i]] \in Seq(Char) /\ Spell[c[i]] # <<>> /\ Plain(Spell[c[i]])
  BY <1>1, WordsArePlain DEF MadeOfWords
<1>4. n = Len(c) - 1
  OBVIOUS
<1> HIDE DEF n
<1>5. /\ Split(text).err = NULL /\ Split(text).tokens = WordsTyped(c)
      /\ Len(WordsTyped(c)) = n
      /\ \A k \in 1 .. n : WordsTyped(c)[k] = Spell[c[k]]
  BY <1>2, <1>3, <1>4, FullSplits
<1> QED
  BY <1>1, <1>4, <1>5

(* exec_cli() finds an END node if there is one.                           *)
LEMMA EndNodeThere ==
  ASSUME TreeInv, \A k \in Node : Type[k] \in EndType => alter[k] = NULL,
         NEW n \in Node, NEW y \in Elements(n, alter), Type[y] = "END"
  PROVE  EndNode(n) # NULL
<1> DEFINE s == Level(n)
           I == {i \in 1 .. Len(s) : Type[s[i]] = "END"}
<1>1. /\ Len(s) \in Nat /\ alter \in [Node -> Addr] /\ s \in Seq(Node)
      /\ \A i \in 1 .. Len(s) : s[i] \in Node
  <2>1. /\ s \in Seq(Node) /\ Len(s) \in Nat /\ \A i \in 1 .. Len(s) : s[i] \in Node
    BY LevelPlaces
  <2> QED
    BY <2>1, HomeTyped
<1>2. EndNode(n) = IF I = {} THEN NULL ELSE IF Min(I) = 0 THEN NULL ELSE s[Min(I)]
  BY DEF EndNode, SelectInSeq
<1>3. ToSet(s) = {s[i] : i \in 1 .. Len(s)}
  <2> HIDE DEF s
  <2>1. DOMAIN s = 1 .. Len(s)
    BY <1>1
  <2> QED
    BY <2>1 DEF ToSet
<1>4. ToSet(s) = Elements(n, alter)
  BY <1>1, LevelIs DEF Level
<1>5. PICK i \in 1 .. Len(s) : s[i] = y
  BY <1>3, <1>4
<1>6. i \in I /\ I \subseteq Nat
  BY <1>5
<1>7. Min(I) \in I
  BY <1>6, LeastOf
<1>8. Min(I) \in 1 .. Len(s) /\ Min(I) # 0
  BY <1>1, <1>7
<1>9. EndNode(n) \in Node
  BY <1>1, <1>2, <1>6, <1>8
<1> QED
  BY <1>9, NodeAssumption

(* What is left of a command where the parser is.                          *)
LEMMA RestBegins ==
  ASSUME TreeInv, NEW T, NEW first \in [Mode -> Addr], Shape(T, first), NEW m \in Mode,
         NEW x, NEW j, NEW neg \in BOOLEAN, At(T, x, m, j, neg), NEW b \in Rest(j, x)
  PROVE  /\ b \in Seq(Symbols) /\ Len(b) \in Nat
         /\ \E y \in Elements(x, alter) :
              \/ Type[y] = "END" /\ Len(b) = 1
              \/ IsWord(y) /\ Len(b) > 1 /\ b[1] = Def[y].keyword
<1>1. /\ Readable(x) /\ j \in Nat /\ j <= MaxWords /\ Sound(acc, alter)
      /\ x \in Node /\ Elements(x, alter) \subseteq Node
  BY AtReadable, TreesSound DEF Readable
<1>2. PICK d \in Nat : d + j = MaxWords /\ MaxWords + 1 - j = d + 1
  <2>1. MaxWords \in Nat /\ MaxWords - j \in Nat
    BY <1>1 DEF MaxWords
  <2>2. (MaxWords - j) + j = MaxWords /\ MaxWords + 1 - j = (MaxWords - j) + 1
    BY <1>1, <2>1
  <2> QED
    BY <2>1, <2>2
<1>3. b \in Sayings(acc, alter)[d + 1][x]
  BY <1>2 DEF Rest
<1>4. b \in Seq(Symbols) /\ Len(b) \in Nat
  BY <1>1, <1>3, SayingsSay
<1>5. PICK y \in Elements(x, alter) : Begins(acc, alter, d, y, b)
  BY <1>1, <1>3, SaysAt
<1>6. CASE Type[y] = "END" /\ b = <<y>>
  BY <1>4, <1>6
<1>7. CASE IsWord(y) /\ \E r \in Sayings(acc, alter)[d][acc[y]] : b = <<Def[y].keyword>> \o r
  <2>1. PICK r \in Sayings(acc, alter)[d][acc[y]] : b = <<Def[y].keyword>> \o r
    BY <1>7
  <2>2. acc[y] \in Node /\ At(T, acc[y], m, j + 1, neg \/ Type[y] \in {"NO", "DEFAULT"})
    BY <1>7, AtReadable
  <2>3. j + 1 <= MaxWords
    BY <2>2, AtReadable
  <2>4. PICK e \in Nat : d = e + 1
    <3>1. d - 1 \in Nat /\ d = (d - 1) + 1
      BY <1>1, <1>2, <2>3
    <3> QED
      BY <3>1
  <2>5. r \in Seq(Symbols) /\ Len(r) \in Nat /\ Len(r) >= 1
    BY <1>1, <2>1, <2>2, <2>4, SayingsSay
  <2>6. Def[y].keyword \in Symbols
    BY <1>1 DEF Symbols
  <2>7. b[1] = Def[y].keyword /\ Len(b) = Len(r) + 1
    BY <2>1, <2>5, <2>6, ConsProperties
  <2> QED
    BY <1>4, <1>7, <2>5, <2>7
<1> QED
  BY <1>5, <1>6, <1>7 DEF Begins

(* A command goes on with each word where the parser is.                   *)
LEMMA WordGoesOn ==
  ASSUME TreeInv, NEW T, NEW first \in [Mode -> Addr], Shape(T, first), NEW m \in Mode,
         NEW x, NEW j, NEW neg \in BOOLEAN, At(T, x, m, j, neg),
         NEW z \in Elements(x, alter), IsWord(z)
  PROVE  \E q \in Rest(j, x) : q \in Seq(Symbols) /\ Len(q) \in Nat /\ Len(q) > 1
                              /\ q[1] = Def[z].keyword
<1>1. /\ Readable(x) /\ j \in Nat /\ Sound(acc, alter)
      /\ x \in Node /\ Elements(x, alter) \subseteq Node
  BY AtReadable, TreesSound DEF Readable
<1>2. acc[z] \in Node /\ At(T, acc[z], m, j + 1, neg \/ Type[z] \in {"NO", "DEFAULT"})
  BY AtReadable
<1>3. (neg \/ Type[z] \in {"NO", "DEFAULT"}) \in BOOLEAN /\ j + 1 \in Nat
  BY <1>1
<1>4. j + 1 <= MaxWords
  BY <1>2, <1>3, AtReadable
<1>5. PICK d \in Nat : /\ MaxWords + 1 - j = (d + 1) + 1 /\ MaxWords + 1 - (j + 1) = d + 1
  <2>1. MaxWords \in Nat /\ MaxWords - (j + 1) \in Nat
    BY <1>1, <1>4 DEF MaxWords
  <2>2. /\ MaxWords + 1 - j = ((MaxWords - (j + 1)) + 1) + 1
        /\ MaxWords + 1 - (j + 1) = (MaxWords - (j + 1)) + 1
    BY <1>1, <2>1
  <2> QED
    BY <2>1, <2>2
<1>6. PICK r : r \in Sayings(acc, alter)[d + 1][acc[z]]
  BY <1>2, <1>3, <1>5, AllFollow DEF Follows, Rest
<1>7. r \in Seq(Symbols) /\ Len(r) \in Nat /\ Len(r) >= 1
  BY <1>1, <1>2, <1>6, SayingsSay
<1>8. PICK q : q = <<Def[z].keyword>> \o r
  OBVIOUS
<1>9. Def[z].keyword \in Symbols
  BY <1>1 DEF Symbols
<1>10. q \in Seq(Symbols) /\ q[1] = Def[z].keyword /\ Len(q) = Len(r) + 1
  BY <1>7, <1>8, <1>9, ConsProperties
<1>11. q \in Rest(j, x)
  <2>1. Begins(acc, alter, d + 1, z, q) /\ d + 1 \in Nat
    BY <1>6, <1>8 DEF Begins
  <2>2. q \in Sayings(acc, alter)[(d + 1) + 1][x]
    BY <1>1, <2>1, SaysAt
  <2> QED
    BY <1>5, <2>2 DEF Rest
<1> QED
  BY <1>7, <1>10, <1>11

(* A command that is typed in full is read to its end, if it begins no other. *)
LEMMA FullGoesOn ==
  ASSUME SessionInv, ReadSound, pc = "parse", cpi.req = "exec",
         NEW c \in Offered, Bare(cpi.cli_org) = InFull(c), ~BeginsAnother(c)
  PROVE  /\ cpi.tokens = <<>> => EndNode(cpi.cur) # NULL
         /\ cpi.tokens # <<>> => /\ GetMatchNode(cpi.cur, Head(cpi.tokens)).node # NULL
                                 /\ GetMatchNode(cpi.cur, Head(cpi.tokens)).cnt \in Nat
                                 /\ GetMatchNode(cpi.cur, Head(cpi.tokens)).cnt <= 1
<1> DEFINE t == Split(cpi.cli_org).tokens
           m == RootMode(cpi.cli_org)
           neg == cpi.set_no \/ cpi.set_default
           x == cpi.cur
           tk == cpi.tokens
<1>1. cpi.root = root[m] /\ cpi.root \in Node /\ cpi.last = <<>>
  BY DEF ReadSound
<1>2. ToParse = t
  BY <1>1 DEF ToParse
<1>3. PICK T \in SUBSET Chained, first \in [Mode -> Addr], j \in Nat, pre \in Seq(Symbols) :
         Shape(T, first) /\ ReadTo(T, j, pre)
  BY DEF ReadSound
<1>4. /\ At(T, x, m, j, neg) /\ Reads(cpi.root, t, j, pre, x)
      /\ Len(t) \in Nat /\ Len(tk) + j = Len(t)
      /\ \A i \in 1 .. Len(tk) : tk[i] = t[j + i]
  BY <1>2, <1>3 DEF ReadTo
<1>5. /\ TreeInv /\ m \in Mode /\ neg \in BOOLEAN /\ cpi.cli_org \in Seq(Char)
      /\ tk \in Seq(Seq(Char)) /\ Len(tk) \in Nat
  <2>1. /\ TreeInv /\ m \in Mode /\ neg \in BOOLEAN /\ cpi.cli_org \in Seq(Char)
        /\ tk \in Seq(Seq(Char))
    BY DEF SessionInv, ParserTyped, RootMode, Mode, Requests
  <2> QED
    BY <2>1, LenProperties
<1>6. /\ Sound(acc, alter) /\ \A k \in Node : Type[k] \in EndType => alter[k] = NULL
  BY <1>3, <1>5, TreesSound
<1>7. c \in Commands(acc, alter, cpi.root) /\ c \in CommandsOf(m)
  BY <1>1 DEF Offered, CommandsOf
<1>8. /\ MadeOfWords(c) /\ Len(t) = Len(c) - 1
      /\ \A i \in 1 .. Len(c) - 1 : t[i] = Spell[c[i]]
  BY <1>3, <1>5, <1>7, OfferedSplits
<1> HIDE DEF t, m, neg, x, tk
<1>9. Readable(x) /\ x \in Node /\ Elements(x, alter) \subseteq Node
  <2>1. Readable(x)
    BY <1>3, <1>4, <1>5, AtReadable
  <2> QED
    BY <2>1 DEF Readable
<1>10. Len(c) \in Nat /\ j <= Len(t) /\ j < Len(c)
  BY <1>4, <1>5, <1>8 DEF MadeOfWords
<1>11. c \in Still(cpi.root, t, j)
  <2>1. ASSUME NEW i \in 1 .. j
        PROVE  StandsFor(t[i], c[i])
    <3>1. i \in 1 .. Len(c) - 1
      BY <1>4, <1>8, <1>10
    <3>2. PICK y \in Node : IsWord(y) /\ c[i] = Def[y].keyword
      BY <1>8, <3>1 DEF MadeOfWords
    <3>3. Spell[c[i]] \in Seq(Char)
      BY <3>2, WordsArePlain
    <3>4. IsPrefix(Spell[c[i]], Spell[c[i]])
      BY <3>3, LenProperties DEF IsPrefix
    <3> QED
      BY <1>8, <3>1, <3>4 DEF StandsFor
  <2> QED
    BY <1>7, <1>10, <2>1 DEF Still
<1>12. PICK b \in Rest(j, x) : c = pre \o b
  BY <1>4, <1>11 DEF Reads
<1>13. b \in Seq(Symbols) /\ Len(b) \in Nat
  BY <1>3, <1>4, <1>5, RestBegins
<1>14. PICK y \in Elements(x, alter) : \/ Type[y] = "END" /\ Len(b) = 1
                                       \/ IsWord(y) /\ Len(b) > 1 /\ b[1] = Def[y].keyword
  BY <1>3, <1>4, <1>5, RestBegins
<1>15. Len(pre) = j /\ Len(c) = j + Len(b)
       /\ \A i \in 1 .. j + Len(b) : c[i] = IF i <= j THEN pre[i] ELSE b[i - j]
  <2>1. pre \in Seq(Symbols) /\ Len(pre) = j
    BY <1>4 DEF Reads
  <2>2. /\ Len(pre \o b) = Len(pre) + Len(b)
        /\ \A i \in 1 .. Len(pre) + Len(b) :
             (pre \o b)[i] = IF i <= Len(pre) THEN pre[i] ELSE b[i - Len(pre)]
    BY <1>13, <2>1, ConcatProperties
  <2> QED
    BY <1>12, <2>1, <2>2
<1>16. Len(tk) = Len(b) - 1
  BY <1>4, <1>5, <1>8, <1>10, <1>13, <1>15
<1>17. CASE tk = <<>>
  <2>1. Len(tk) = 0
    BY <1>17
  <2>2. Len(b) = 1
    BY <1>13, <1>16, <2>1
  <2>3. Type[y] = "END"
    BY <1>14, <2>2
  <2>4. EndNode(x) # NULL
    BY <1>5, <1>6, <1>9, <2>3, EndNodeThere
  <2> QED
    BY <1>17, <2>4 DEF x, tk
<1>18. CASE tk # <<>>
  <2>1. Head(tk) = tk[1] /\ Len(tk) >= 1
    BY <1>5, <1>18, HeadTailProperties, EmptySeq
  <2>2. Len(b) > 1 /\ 1 \in 1 .. Len(tk)
    BY <1>5, <1>13, <1>16, <2>1
  <2>3. IsWord(y) /\ b[1] = Def[y].keyword
    <3>1. \A k \in Nat : k > 1 => k # 1
      OBVIOUS
    <3>2. Len(b) # 1
      BY <1>13, <2>2, <3>1, Zenon
    <3> QED
      BY <1>14, <3>2
  <2>4. /\ j + 1 \in 1 .. j + Len(b) /\ ~(j + 1 <= j) /\ (j + 1) - j = 1
        /\ j + 1 \in 1 .. Len(c) - 1
    BY <1>10, <1>13, <1>15, <2>2
  <2>5. c[j + 1] = Def[y].keyword
    BY <1>15, <2>3, <2>4
  <2>6. Head(tk) = Keyword(y)
    BY <1>4, <1>8, <2>1, <2>2, <2>4, <2>5 DEF Keyword
  <2>7. ASSUME NEW z \in Elements(x, alter), IsWord(z), IsPrefix(Keyword(y), Keyword(z))
        PROVE  y = z
    <3>1. ASSUME y # z
          PROVE  BeginsAnother(c)
      <4>1. Def[z].keyword # Def[y].keyword
        BY <1>3, <1>4, <1>5, <2>3, <2>7, <3>1, WordsDistinct
      <4>2. PICK q \in Rest(j, x) : q \in Seq(Symbols) /\ Len(q) \in Nat /\ Len(q) > 1
                                   /\ q[1] = Def[z].keyword
        BY <1>3, <1>4, <1>5, <2>7, WordGoesOn
      <4>3. pre \o q \in Offered
        BY <1>4, <4>2 DEF Reads, Still, Offered
      <4>4. /\ Len(pre \o q) = j + Len(q)
            /\ \A i \in 1 .. j + Len(q) : (pre \o q)[i] = IF i <= j THEN pre[i] ELSE q[i - j]
        <5>1. pre \in Seq(Symbols) /\ Len(pre) = j
          BY <1>4 DEF Reads
        <5> QED
          BY <4>2, <5>1, ConcatProperties
      <4>5. (pre \o q)[j + 1] = Def[z].keyword /\ j + 1 < Len(pre \o q)
        BY <1>10, <2>4, <4>2, <4>4
      <4>6. \A k \in 1 .. (j + 1) - 1 : (pre \o q)[k] = c[k]
        BY <1>10, <1>13, <1>15, <4>2, <4>4
      <4>7. c[j + 1] = Def[y].keyword
        BY <2>5
      <4>8. IsPrefix(Spell[c[j + 1]], Spell[(pre \o q)[j + 1]])
        BY <2>7, <4>5, <4>7 DEF Keyword
      <4> QED
        BY <2>4, <4>1, <4>3, <4>5, <4>6, <4>7, <4>8 DEF BeginsAnother
    <3> QED
      BY <3>1
  <2>8. /\ GetMatchNode(x, Keyword(y)).node # NULL
        /\ GetMatchNode(x, Keyword(y)).cnt \in Nat /\ GetMatchNode(x, Keyword(y)).cnt <= 1
    BY <1>5, <1>6, <1>9, <2>3, <2>7, FullMatch
  <2> QED
    BY <1>18, <2>6, <2>8 DEF x, tk
<1> QED
  BY <1>17, <1>18 DEF x, tk

-----------------------------------------------------------------------------

(* The request itself refuses no command that is typed in full.            *)
LEMMA RequestAccepts ==
  ASSUME SessionInv, Grown, UNCHANGED treeVars, NEW text \in Seq(Char), Request("exec", text)
  PROVE  FullCommandAccepted'
<1> DEFINE a == Asked("exec", text)
<1>1. InitCliParserInfo(a)
  BY DEF Request, RequestIgnored, RequestInvalid, RequestFaults, RequestParses
<1>2. a.req = "exec" /\ a.cli_org = text /\ a.split = Split(text)
  BY DEF Asked
<1>3. /\ cpi'.req = "exec" /\ cpi'.cli_org = text /\ mode' = mode
      /\ cpi'.root = RootOf(text)
  BY <1>1, <1>2 DEF InitCliParserInfo, NoRequest
<1> HIDE DEF a
<1> SUFFICES ASSUME pc' = "done", output' \in Refusal, NEW c \in Offered', Bare(text) = InFull(c)
             PROVE  BeginsAnother(c)'
  BY <1>3 DEF FullCommandAccepted
<1>4. <<>> \notin Refusal
  BY DEF Refusal, ParserErr, MarkFailToken
<1>5. ~NothingAsked(a) /\ a.split.err # NULL
  BY <1>2, <1>4 DEF Request, RequestIgnored, RequestInvalid, RequestFaults, RequestParses, Answer, a
<1>6. RootOf(text) = root[RootMode(text)] /\ RootMode(text) \in Mode
  BY DEF RootOf, RootMode, SessionInv, ParserTyped, Mode
<1>7. PICK T \in SUBSET Chained, first \in [Mode -> Addr] : Shape(T, first)
  BY DEF Grown
<1>8. c \in CommandsOf(RootMode(text))
  BY <1>3, <1>6 DEF Offered, CommandsOf, treeVars
<1>9. TreeInv
  BY DEF SessionInv
<1>10. Split(text).err = NULL
  BY <1>6, <1>7, <1>8, <1>9, OfferedSplits
<1> QED
  BY <1>2, <1>5, <1>10

(* Every other step keeps it.                                              *)
LEMMA FullNext ==
  ASSUME SessionInv, Grown, ReadSound, FullCommandAccepted, [Next]_sessionVars
  PROVE  FullCommandAccepted'
<1>1. CASE pc' # "done"
  BY <1>1 DEF FullCommandAccepted
<1>2. CASE StartUp \/ InputProcessCtrlZ
  <2>1. CASE StartUp
    <3>1. stage # "ready"
      <4>1. stack # <<>> => stage = "links"
        BY DEF SessionInv, TreeInv, MergesStatic
      <4> QED
        BY <2>1, <4>1 DEF StartUp, TreeNext, InitCliMode, LinkRoot, LinkMerge, MergeReturns,
                          MergeAdds, MergeDescends, LinksDone, AddBuildinNodes,
                          SkipBuildinNodes, InitCliTreeReturns
    <3>2. pc' = "idle"
      BY <2>1, <3>1 DEF StartUp, parserVars, SessionInv, BuiltFirst
    <3> QED
      BY <1>1, <3>2
  <2>2. CASE InputProcessCtrlZ
    BY <1>1, <2>2 DEF InputProcessCtrlZ
  <2> QED
    BY <1>2, <2>1, <2>2
<1>3. CASE \/ AutotestReadChar \/ InputProcessCtrlC \/ \E text \in Typed : InputProcessText(text)
           \/ UNCHANGED sessionVars
  <2>1. UNCHANGED <<cpi, pc, output, acc, alter>>
    BY <1>3 DEF AutotestReadChar, InputProcessCtrlC, InputProcessText, parserVars, sessionVars,
                treeVars
  <2> QED
    BY <2>1 DEF FullCommandAccepted, BeginsAnother, Offered
<1>4. CASE AutotestRunLine \/ \E req \in {"exec", "query", "auto_fill"} : Ask(req)
  <2>1. PICK req \in {"exec", "query", "auto_fill"} : Request(req, cmd)
    BY <1>4 DEF AutotestRunLine, Ask
  <2>2. UNCHANGED treeVars /\ cmd \in Seq(Char)
    BY <1>4 DEF AutotestRunLine, Ask, SessionInv, TextSound
  <2>3. CASE req = "exec"
    BY <2>1, <2>2, <2>3, RequestAccepts
  <2>4. CASE req # "exec"
    <3>1. PICK a : a = Asked(req, cmd) /\ InitCliParserInfo(a)
      BY <2>1 DEF Request, RequestIgnored, RequestInvalid, RequestFaults, RequestParses
    <3>2. cpi'.req = req
      BY <3>1 DEF InitCliParserInfo, Asked, NoRequest
    <3> QED
      BY <2>4, <3>2 DEF FullCommandAccepted
  <2> QED
    BY <2>3, <2>4
<1>5. CASE ExecReturns \/ QueryReturns \/ AutoFillReturns
  <2>1. pc' = "idle"
    BY <1>5 DEF ExecReturns, QueryReturns, AutoFillReturns, CleanCliParserInfo
  <2> QED
    BY <1>1, <2>1
<1>6. CASE Parse
  <2>1. UNCHANGED treeVars /\ ParserStep
    BY <1>6 DEF Parse
  <2>2. CASE pc' = "done" /\ cpi.req = "exec"
    <3>1. UNCHANGED cpi /\ pc \in {"parse", "collect"} /\ ~TokenMatches
      BY <2>1, <2>2 DEF ParserStep, TokenFails, ParamFails, TokenMatches, ExecIncomplete, ExecCli,
                  StartCollect, CollectHelpNode, NoCandidate, PrintHelp, AutoFillOne,
                  AutoFillCommon, AutoFillFails
    <3>2. <<>> \notin Refusal
      BY DEF Refusal, ParserErr, MarkFailToken
    <3>3. ParserErr("Invalid parameter.") \notin Refusal
      BY DEF Refusal, ParserErr, MarkFailToken
    <3>4. ASSUME output' \in Refusal
          PROVE  TokenFails \/ ExecIncomplete
      BY <2>1, <2>2, <3>1, <3>2, <3>3, <3>4 DEF ParserStep, ParamFails, ExecCli, StartCollect,
           CollectHelpNode, NoCandidate, PrintHelp, AutoFillOne, AutoFillCommon, AutoFillFails,
           Answer
    <3>5. ASSUME output' \in Refusal, NEW c \in Offered, Bare(cpi.cli_org) = InFull(c),
                 ~BeginsAnother(c)
          PROVE  FALSE
      <4>1. pc = "parse"
        BY <3>4, <3>5 DEF TokenFails, ExecIncomplete
      <4>2. /\ cpi.tokens = <<>> => EndNode(cpi.cur) # NULL
            /\ cpi.tokens # <<>> => /\ GetMatchNode(cpi.cur, Head(cpi.tokens)).node # NULL
                                    /\ GetMatchNode(cpi.cur, Head(cpi.tokens)).cnt \in Nat
                                    /\ GetMatchNode(cpi.cur, Head(cpi.tokens)).cnt <= 1
        BY <2>2, <3>5, <4>1, FullGoesOn
      <4>3. ~TokenFails
        <5> DEFINE g == GetMatchNode(cpi.cur, Head(cpi.tokens))
        <5>1. TokenFails => cpi.tokens # <<>> /\ (g.node = NULL \/ g.cnt > 1)
          BY DEF TokenFails
        <5>2. cpi.tokens # <<>> => g.node # NULL /\ g.cnt \in Nat /\ g.cnt <= 1
          BY <4>2
        <5> HIDE DEF g
        <5> QED
          BY <5>1, <5>2
      <4>4. ~ExecIncomplete
        BY <4>2 DEF ExecIncomplete
      <4> QED
        BY <3>4, <3>5, <4>3, <4>4
    <3>6. Offered' = Offered
      BY <2>1, <3>1 DEF Offered, treeVars
    <3> QED
      BY <3>1, <3>5, <3>6 DEF FullCommandAccepted, BeginsAnother
  <2>3. CASE cpi.req # "exec"
    <3>1. cpi'.req = cpi.req
      <4>1. cpi \in Requests
        BY DEF SessionInv, ParserTyped
      <4> QED
        BY <2>1, <4>1 DEF ParserStep, TokenFails, ParamFails, TokenMatches, ExecIncomplete, ExecCli,
                  StartCollect, CollectHelpNode, NoCandidate, PrintHelp, AutoFillOne,
                  AutoFillCommon, AutoFillFails, Requests
    <3> QED
      BY <2>3, <3>1 DEF FullCommandAccepted
  <2> QED
    BY <1>1, <2>2, <2>3
<1> QED
  BY <1>2, <1>3, <1>4, <1>5, <1>6 DEF Next, Computes

(* split_cli(), parse_cli() and exec_cli(): whatever chains the trees were merged
   from, as long as no command is the beginning of another one, a command
   that is typed in full is refused only if a word of it is the beginning of
   another word at its place; in whatever mode, behind `do', `no' or
   `default', and although keywords begin alike.                           *)
THEOREM FullCommandsAccepted == Spec => []FullCommandAccepted
<1>1. Init => FullCommandAccepted
  BY DEF Init, ParserInit, FullCommandAccepted
<1>2. SessionInv /\ MergeInv /\ ReadInv /\ FullCommandAccepted /\ [Next]_sessionVars =>
        FullCommandAccepted'
  BY FullNext, TreesAreGrown DEF ReadInv
<1> QED
  BY ReadInvAlways, <1>1, <1>2, PTL DEF Spec

-----------------------------------------------------------------------------
(* Where a command line begins, and where a word ends it.                  *)

LEMMA MinIs ==
  ASSUME NEW S, S \subseteq Nat, NEW d \in S, \A i \in S : d <= i
  PROVE  Min(S) = d
<1>1. Min(S) \in S /\ \A i \in S : Min(S) <= i
  BY DEF Min
<1>2. Min(S) <= d /\ d <= Min(S) /\ Min(S) \in Nat /\ d \in Nat
  BY <1>1
<1> QED
  BY <1>2

(* Character d is the first that is not blank.                             *)
StartsAt(text, d) ==
  /\ d \in 1 .. Len(text) /\ text[d] # Blank
  /\ \A i \in 1 .. d - 1 : text[i] = Blank

LEMMA StartFound ==
  ASSUME NEW text \in Seq(Char), NEW k \in 1 .. Len(text), text[k] # Blank
  PROVE  \E d \in 1 .. k : StartsAt(text, d)
<1> DEFINE I == {i \in 1 .. Len(text) : text[i] # Blank}
<1>1. Len(text) \in Nat /\ k \in I /\ I \subseteq Nat
  BY LenProperties
<1>2. PICK d \in I : \A i \in I : d <= i
  BY <1>1, LeastNat
<1>3. d \in 1 .. k
  BY <1>1, <1>2
<1>4. ASSUME NEW i \in 1 .. d - 1
      PROVE  text[i] = Blank
  <2>1. i \in 1 .. Len(text) /\ ~(d <= i)
    BY <1>1, <1>2
  <2> QED
    BY <1>2, <2>1
<1> QED
  BY <1>2, <1>3, <1>4 DEF StartsAt

(* skip_spaces(), cli_start_with_do() and skip_first_token() go there.     *)
LEMMA StartIsFound ==
  ASSUME NEW text \in Seq(Char), NEW d, StartsAt(text, d)
  PROVE  /\ SkipSpaces(text) = SubSeq(text, d, Len(text))
         /\ StartWithDo(text) <=> text[d] = "do" /\ (d < Len(text) => text[d + 1] = Blank)
         /\ \A i \in 1 .. Len(text) :
              SkipDo(text)[i] = IF StartWithDo(text) /\ i = d THEN Blank ELSE text[i]
<1> DEFINE n == Len(text)
           I == {i \in 1 .. n : text[i] # Blank}
           wide == text \o <<NULL>>
           J == {i \in 1 .. Len(wide) : wide[i] # Blank}
           k == SelectInSeq(wide, LAMBDA c : c # Blank)
           e == SelectInSeq(text, LAMBDA c : c # Blank)
<1>1. n \in Nat /\ d \in 1 .. n /\ d \in Nat /\ text \in [1 .. n -> Char]
  BY LenProperties DEF StartsAt
<1>2. \A i \in 1 .. n : text[i] # Blank => d <= i
  <2> SUFFICES ASSUME NEW i \in 1 .. n, text[i] # Blank, ~(d <= i)
               PROVE  FALSE
    OBVIOUS
  <2>1. i \in 1 .. d - 1
    BY <1>1
  <2> QED
    BY <2>1 DEF StartsAt
<1>3. Len(wide) = n + 1 /\ \A i \in 1 .. n : wide[i] = text[i]
  OBVIOUS
<1>4. k = d
  <2>1. k = IF J # {} THEN Min(J) ELSE 0
    BY DEF SelectInSeq
  <2> HIDE DEF k, wide, n
  <2>2. d \in J /\ J \subseteq Nat
    BY <1>1, <1>3 DEF StartsAt
  <2>3. \A i \in J : d <= i
    <3> TAKE i \in J
    <3>1. i \in 1 .. n \/ i = n + 1
      BY <1>1, <1>3
    <3> QED
      BY <1>1, <1>2, <1>3, <3>1
  <2> QED
    BY <2>1, <2>2, <2>3, MinIs
<1>5. e = d
  <2>1. e = IF I # {} THEN Min(I) ELSE 0
    BY DEF SelectInSeq
  <2> HIDE DEF e, n
  <2>2. d \in I /\ I \subseteq Nat
    BY <1>1 DEF StartsAt
  <2>3. \A i \in I : d <= i
    BY <1>2
  <2> QED
    BY <2>1, <2>2, <2>3, MinIs
<1> DEFINE cli == SkipSpaces(text)
<1>6. cli = SubSeq(text, d, n)
  BY <1>4 DEF SkipSpaces
<1> HIDE DEF k, e, wide, cli, n
<1>7. /\ Len(cli) = n - d + 1
      /\ \A i \in 1 .. n - d + 1 : cli[i] = text[d + i - 1]
  <2>1. /\ Len(SubSeq(text, d, n)) = IF d <= n THEN n - d + 1 ELSE 0
        /\ \A i \in 1 .. n - d + 1 : SubSeq(text, d, n)[i] = text[d + i - 1]
    BY <1>1, SubSeqProperties
  <2> QED
    BY <1>1, <1>6, <2>1
<1>8. StartWithDo(text) <=> text[d] = "do" /\ (d < n => text[d + 1] = Blank)
  <2>1. StartWithDo(text) <=> cli # <<>> /\ cli[1] = "do" /\ (Len(cli) > 1 => cli[2] = Blank)
    BY DEF StartWithDo, cli
  <2>2. cli # <<>> /\ cli[1] = text[d]
    <3>1. Len(cli) # 0 /\ 1 \in 1 .. n - d + 1 /\ d + 1 - 1 = d
      BY <1>1, <1>7
    <3>2. Len(<<>>) = 0
      OBVIOUS
    <3>3. cli # <<>>
      BY <3>1, <3>2
    <3>4. cli[1] = text[d + 1 - 1]
      BY <1>7, <3>1
    <3> QED
      BY <3>1, <3>3, <3>4
  <2>3. Len(cli) > 1 <=> d < n
    BY <1>1, <1>7
  <2>4. d < n => cli[2] = text[d + 1]
    <3>1. d < n => 2 \in 1 .. n - d + 1 /\ d + 2 - 1 = d + 1
      BY <1>1
    <3> QED
      BY <1>7, <3>1
  <2> QED
    BY <2>1, <2>2, <2>3, <2>4
<1>9. SkipDo(text) = IF StartWithDo(text) THEN [text EXCEPT ![d] = Blank] ELSE text
  BY <1>5 DEF SkipDo, e
<1>10. \A i \in 1 .. n : SkipDo(text)[i] = IF StartWithDo(text) /\ i = d THEN Blank ELSE text[i]
  BY <1>1, <1>9
<1> QED
  BY <1>6, <1>8, <1>10 DEF n, cli

(* Behind k characters, the last of which is a blank, text is the word w, and
   perhaps one more blank.                                                 *)
EndsWith(text, k, w) ==
  /\ Len(text) \in {k + Len(w), k + Len(w) + 1}
  /\ k = 0 \/ text[k] = Blank
  /\ \A i \in 1 .. Len(w) : text[k + i] = w[i]
  /\ Len(text) = k + Len(w) + 1 => text[Len(text)] = Blank

(* The blanks behind the word and before the text go.                      *)
LEMMA PreprocessEnds ==
  ASSUME NEW s \in Seq(Char), NEW k \in Nat, NEW w \in Seq(Char), w # <<>>, NoBlankIn(w),
         EndsWith(s, k, w), NEW c \in 1 .. k + 1, StartsAt(s, c)
  PROVE  PreprocessCli(s) = SubSeq(s, c, k + Len(w))
<1> DEFINE n == Len(s)
           m == k + Len(w)
           I == {i \in 1 .. n : s[i] # Blank}
           e == SelectLastInSeq(s, LAMBDA x : x # Blank)
           u == SubSeq(s, 1, m)
<1>1. n \in Nat /\ Len(w) \in Nat /\ Len(w) >= 1
  BY LenProperties, EmptySeq
<1>2. m \in Nat /\ (n = m \/ (n = m + 1 /\ s[n] = Blank)) /\ m >= 1 /\ k + 1 <= m
  BY <1>1 DEF EndsWith
<1>3. s[m] # Blank
  <2>1. Len(w) \in 1 .. Len(w)
    BY <1>1
  <2> QED
    BY <2>1 DEF EndsWith, NoBlankIn
<1>4. e = IF I # {} THEN Max(I) ELSE 0
  BY DEF SelectLastInSeq
<1> HIDE DEF e, n, m
<1>5. m \in I /\ I \subseteq Nat
  BY <1>1, <1>2, <1>3
<1>6. \A i \in I : i <= m
  <2> TAKE i \in I
  <2>1. i \in 1 .. n /\ s[i] # Blank
    OBVIOUS
  <2>2. n = m + 1 => i # n
    BY <1>2, <2>1
  <2> QED
    BY <1>1, <1>2, <2>1, <2>2
<1>7. e = m
  BY <1>4, <1>5, <1>6, MaxIs
<1>8. RemoveTrailingSpaces(s) = u
  BY <1>7 DEF RemoveTrailingSpaces, e
<1>9. u \in Seq(Char) /\ Len(u) = m /\ \A i \in 1 .. m : u[i] = s[i]
  BY <1>1, <1>2, SubSeqProperties DEF n
<1> HIDE DEF u
<1>10. StartsAt(u, c)
  <2>1. c \in 1 .. m /\ \A i \in 1 .. c - 1 : i \in 1 .. m
    BY <1>1, <1>2
  <2> QED
    BY <1>9, <2>1 DEF StartsAt
<1>11. SkipSpaces(u) = SubSeq(u, c, m)
  BY <1>9, <1>10, StartIsFound
<1>12. SubSeq(u, c, m) = SubSeq(s, c, m)
  <2>1. /\ Len(SubSeq(u, c, m)) = m - c + 1
        /\ SubSeq(u, c, m) \in Seq(Char)
        /\ \A i \in 1 .. m - c + 1 : SubSeq(u, c, m)[i] = u[c + i - 1]
    BY <1>1, <1>2, <1>9, SubSeqProperties
  <2>2. /\ Len(SubSeq(s, c, m)) = m - c + 1
        /\ SubSeq(s, c, m) \in Seq(Char)
        /\ \A i \in 1 .. m - c + 1 : SubSeq(s, c, m)[i] = s[c + i - 1]
    BY <1>1, <1>2, SubSeqProperties DEF n
  <2>3. \A i \in 1 .. m - c + 1 : SubSeq(u, c, m)[i] = SubSeq(s, c, m)[i]
    <3> TAKE i \in 1 .. m - c + 1
    <3>1. c + i - 1 \in 1 .. m
      BY <1>1, <1>2
    <3> QED
      BY <1>9, <2>1, <2>2, <3>1
  <2> QED
    BY <2>1, <2>2, <2>3, SeqEqual
<1> QED
  BY <1>8, <1>11, <1>12 DEF PreprocessCli, m

-----------------------------------------------------------------------------
(* Text a is what is typed so far, b is a completed: both are the same up to
   character k, and b goes on with word w where a has its beginning l.      *)
Completes(b, w, a, l, k) ==
  /\ a \in Seq(Char) /\ b \in Seq(Char) /\ l \in Seq(Char) /\ w \in Seq(Char) /\ k \in Nat
  /\ l # <<>> /\ Plain(l) /\ Plain(w) /\ Prefixed(l, w)
  /\ EndsWith(a, k, l) /\ Len(a) = k + Len(l) /\ EndsWith(b, k, w)
  /\ \A i \in 1 .. k : a[i] = b[i]

LEMMA CompletesFacts ==
  ASSUME NEW a, NEW b, NEW l, NEW w, NEW k, Completes(b, w, a, l, k)
  PROVE  /\ w # <<>> /\ NoBlankIn(l) /\ NoBlankIn(w) /\ Len(a) \in Nat /\ Len(b) \in Nat
         /\ Len(l) \in Nat /\ Len(w) \in Nat /\ 1 <= Len(l) /\ Len(l) <= Len(w)
         /\ a[k + 1] = l[1] /\ b[k + 1] = l[1] /\ l[1] # Blank
         /\ k + 1 \in 1 .. Len(a) /\ k + 1 \in 1 .. Len(b)
<1>1. /\ Len(a) \in Nat /\ Len(b) \in Nat /\ Len(l) \in Nat /\ Len(w) \in Nat /\ k \in Nat
      /\ 1 <= Len(l) /\ Len(l) <= Len(w)
  BY LenProperties, EmptySeq DEF Completes, Prefixed
<1>2. w # <<>>
  BY <1>1
<1>3. NoBlankIn(l) /\ NoBlankIn(w)
  BY DEF Completes, Plain, NoBlankIn
<1>4. 1 \in 1 .. Len(l) /\ 1 \in 1 .. Len(w)
  BY <1>1
<1>5. a[k + 1] = l[1] /\ b[k + 1] = w[1] /\ l[1] = w[1] /\ l[1] # Blank
  BY <1>3, <1>4 DEF Completes, EndsWith, Prefixed, NoBlankIn
<1>6. Len(a) >= k + Len(l) /\ Len(b) >= k + Len(w)
  BY <1>1 DEF Completes, EndsWith
<1> QED
  BY <1>1, <1>2, <1>3, <1>5, <1>6

(* skip_first_token() does the same to both.                               *)
LEMMA DoKept ==
  ASSUME NEW a, NEW b, NEW l, NEW w, NEW k, Completes(b, w, a, l, k), ~EndsInBlank(SkipDo(a))
  PROVE  Completes(SkipDo(b), w, SkipDo(a), l, k)
<1> DEFINE s == SkipDo(a)
           t == SkipDo(b)
<1>1. /\ NoBlankIn(l) /\ NoBlankIn(w) /\ Len(a) \in Nat /\ Len(b) \in Nat
      /\ Len(l) \in Nat /\ Len(w) \in Nat /\ 1 <= Len(l) /\ Len(l) <= Len(w)
      /\ a[k + 1] = l[1] /\ b[k + 1] = l[1] /\ l[1] # Blank
      /\ k + 1 \in 1 .. Len(a) /\ k + 1 \in 1 .. Len(b)
  BY CompletesFacts
<1>2. /\ a \in Seq(Char) /\ b \in Seq(Char) /\ k \in Nat /\ Prefixed(l, w)
      /\ EndsWith(a, k, l) /\ EndsWith(b, k, w) /\ Len(a) = k + Len(l)
      /\ \A i \in 1 .. k : a[i] = b[i]
  BY DEF Completes
<1>3. /\ s \in Seq(Char) /\ Len(s) = Len(a) /\ t \in Seq(Char) /\ Len(t) = Len(b)
  BY <1>2, SkipDoShape
<1>4. PICK d \in 1 .. k + 1 : StartsAt(a, d)
  BY <1>1, <1>2, StartFound
<1>5. StartsAt(b, d)
  <2>1. \A i \in 1 .. k + 1 : a[i] = b[i]
    <3> TAKE i \in 1 .. k + 1
    <3>1. i \in 1 .. k \/ i = k + 1
      BY <1>2
    <3> QED
      BY <1>1, <1>2, <3>1
  <2>2. d \in 1 .. Len(b) /\ \A i \in 1 .. d - 1 : i \in 1 .. k + 1
    BY <1>1, <1>2
  <2> QED
    BY <1>4, <2>1, <2>2 DEF StartsAt
<1>6. /\ StartWithDo(a) <=> a[d] = "do" /\ (d < Len(a) => a[d + 1] = Blank)
      /\ \A i \in 1 .. Len(a) : s[i] = IF StartWithDo(a) /\ i = d THEN Blank ELSE a[i]
  BY <1>2, <1>4, StartIsFound
<1>7. /\ StartWithDo(b) <=> b[d] = "do" /\ (d < Len(b) => b[d + 1] = Blank)
      /\ \A i \in 1 .. Len(b) : t[i] = IF StartWithDo(b) /\ i = d THEN Blank ELSE b[i]
  BY <1>2, <1>5, StartIsFound
<1>8. CASE d = k + 1
  <2>1. ~StartWithDo(a)
    <3> SUFFICES ASSUME StartWithDo(a)
                 PROVE  FALSE
      OBVIOUS
    <3>1. CASE Len(l) = 1
      <4>1. Len(a) = d /\ s[d] = Blank
        BY <1>1, <1>2, <1>6, <1>8, <3>1
      <4>2. s # <<>> /\ Last(s) = Blank
        BY <1>3, <1>1, <4>1 DEF Last
      <4> QED
        BY <4>2 DEF EndsInBlank
    <3>2. CASE Len(l) # 1
      <4> DEFINE n == Len(l)
                 m == Len(a)
      <4>a. n \in Nat /\ 1 <= n /\ m = k + n /\ k \in Nat /\ n # 1
        BY <1>1, <1>2, <3>2
      <4>b. 2 <= n /\ d < m /\ d + 1 = k + 2
        <5> HIDE DEF n, m
        <5> QED
          BY <4>a, <1>8
      <4>1. 2 <= Len(l) /\ d < Len(a) /\ d + 1 = k + 2
        BY <4>b
      <4>2. 2 \in 1 .. Len(l)
        BY <1>1, <4>1
      <4>3. a[k + 2] = l[2]
        BY <1>2, <4>2 DEF EndsWith
      <4>4. l[2] # Blank
        BY <1>1, <4>2 DEF NoBlankIn
      <4>5. a[d + 1] = Blank
        BY <1>6, <4>1
      <4> QED
        BY <4>1, <4>3, <4>4, <4>5
    <3> QED
      BY <3>1, <3>2
  <2>2. ~StartWithDo(b)
    <3> SUFFICES ASSUME b[d] = "do"
                 PROVE  d < Len(b) /\ b[d + 1] # Blank
      BY <1>7
    <3>1. d < Len(a)
      BY <1>1, <1>6, <1>8, <2>1
    <3>2. 2 \in 1 .. Len(w) /\ d + 1 = k + 2 /\ d < Len(b)
      <4>1. Len(b) >= k + Len(w)
        BY <1>1, <1>2 DEF EndsWith
      <4> QED
        BY <1>1, <1>2, <1>8, <3>1, <4>1
    <3>3. b[k + 2] = w[2] /\ w[2] # Blank
      BY <1>1, <1>2, <3>2 DEF EndsWith, NoBlankIn
    <3> QED
      BY <3>2, <3>3
  <2>3. s = a /\ t = b
    BY <2>1, <2>2 DEF SkipDo
  <2> QED
    BY <2>3
<1>9. CASE d # k + 1
  <2>1. d \in 1 .. k /\ (d + 1 \in 1 .. k \/ d + 1 = k + 1) /\ d < Len(a) /\ d < Len(b)
    BY <1>1, <1>2, <1>9
  <2>2. a[d] = b[d] /\ a[d + 1] = b[d + 1]
    BY <1>1, <1>2, <2>1
  <2>3. StartWithDo(a) <=> StartWithDo(b)
    BY <1>6, <1>7, <2>1, <2>2
  <2>4. \A i \in 1 .. k : i \in 1 .. Len(a) /\ i \in 1 .. Len(b) /\ i \in Nat
    BY <1>1, <1>2
  <2>5. \A i \in 1 .. k : s[i] = t[i] /\ (a[i] = Blank => s[i] = Blank /\ t[i] = Blank)
    BY <1>2, <1>6, <1>7, <2>3, <2>4
  <2>c. d <= k /\ d \in Nat
    BY <1>2, <2>1
  <2>6. \A i \in 1 .. Len(a) : i > k => s[i] = a[i]
    <3> TAKE i \in 1 .. Len(a)
    <3>1. i > k => i # d
      BY <1>2, <1>1, <2>c
    <3> QED
      BY <1>6, <3>1
  <2>7. \A i \in 1 .. Len(b) : i > k => t[i] = b[i]
    <3> TAKE i \in 1 .. Len(b)
    <3>1. i > k => i # d
      BY <1>2, <1>1, <2>c
    <3> QED
      BY <1>7, <3>1
  <2>8. k = 0 \/ (s[k] = Blank /\ t[k] = Blank)
    <3>1. k = 0 \/ k \in 1 .. k
      BY <1>2
    <3>2. k = 0 \/ a[k] = Blank
      BY <1>2 DEF EndsWith
    <3> QED
      BY <2>5, <3>1, <3>2
  <2>9. EndsWith(s, k, l)
    <3>1. \A i \in 1 .. Len(l) : k + i \in 1 .. Len(a) /\ k + i > k
      BY <1>1, <1>2
    <3>2. Len(s) # k + Len(l) + 1
      BY <1>1, <1>2, <1>3
    <3> QED
      BY <1>2, <1>3, <2>6, <2>8, <3>1, <3>2 DEF EndsWith
  <2>10. EndsWith(t, k, w)
    <3>1. Len(b) >= k + Len(w)
      BY <1>1, <1>2 DEF EndsWith
    <3>2. \A i \in 1 .. Len(w) : k + i \in 1 .. Len(b) /\ k + i > k
      BY <1>1, <1>2, <3>1
    <3>3. Len(b) \in 1 .. Len(b) /\ Len(b) > k
      BY <1>1, <1>2, <3>1
    <3> QED
      BY <1>2, <1>3, <2>7, <2>8, <3>2, <3>3 DEF EndsWith
  <2> QED
    BY <1>2, <1>3, <2>5, <2>9, <2>10 DEF Completes
<1> QED
  BY <1>8, <1>9

(* What is split of both is the same up to the word.                       *)
LEMMA BareCompletes ==
  ASSUME NEW a, NEW b, NEW l, NEW w, NEW k, Completes(b, w, a, l, k), ~EndsInBlank(SkipDo(a))
  PROVE  \E h \in Nat : /\ Completes(Bare(b), w, Bare(a), l, h)
                        /\ Len(Bare(b)) = h + Len(w)
<1> DEFINE s == SkipDo(a)
           t == SkipDo(b)
<1>1. Completes(t, w, s, l, k)
  BY DoKept
<1> HIDE DEF s, t
<1>2. /\ NoBlankIn(l) /\ NoBlankIn(w) /\ w # <<>> /\ Len(s) \in Nat /\ Len(t) \in Nat
      /\ Len(l) \in Nat /\ Len(w) \in Nat /\ 1 <= Len(l) /\ Len(l) <= Len(w)
      /\ s[k + 1] = l[1] /\ t[k + 1] = l[1] /\ l[1] # Blank
      /\ k + 1 \in 1 .. Len(s) /\ k + 1 \in 1 .. Len(t)
  BY <1>1, CompletesFacts
<1>3. /\ s \in Seq(Char) /\ t \in Seq(Char) /\ k \in Nat /\ Prefixed(l, w)
      /\ EndsWith(s, k, l) /\ EndsWith(t, k, w) /\ Len(s) = k + Len(l)
      /\ \A i \in 1 .. k : s[i] = t[i]
      /\ l \in Seq(Char) /\ w \in Seq(Char) /\ l # <<>> /\ Plain(l) /\ Plain(w)
  BY <1>1 DEF Completes
<1>4. PICK c \in 1 .. k + 1 : StartsAt(s, c)
  BY <1>2, <1>3, StartFound
<1>5. StartsAt(t, c)
  <2>1. \A i \in 1 .. k + 1 : s[i] = t[i]
    <3> TAKE i \in 1 .. k + 1
    <3>1. i \in 1 .. k \/ i = k + 1
      BY <1>3
    <3> QED
      BY <1>2, <1>3, <3>1
  <2>2. c \in 1 .. Len(t) /\ \A i \in 1 .. c - 1 : i \in 1 .. k + 1
    BY <1>2, <1>3
  <2> QED
    BY <1>4, <2>1, <2>2 DEF StartsAt
<1> DEFINE x == SubSeq(s, c, k + Len(l))
           y == SubSeq(t, c, k + Len(w))
           h == k + 1 - c
<1>6. Bare(a) = x /\ Bare(b) = y
  BY <1>2, <1>3, <1>4, <1>5, PreprocessEnds DEF Bare, s, t
<1>a. Len(t) >= k + Len(w) /\ Len(t) \in Nat /\ h \in Nat /\ c \in Nat /\ c <= k + 1 /\ c >= 1
  BY <1>2, <1>3 DEF EndsWith
<1>7. /\ x \in Seq(Char) /\ Len(x) = h + Len(l)
      /\ \A i \in 1 .. h + Len(l) : x[i] = s[c + i - 1]
  <2>1. /\ x \in Seq(Char) /\ Len(x) = IF c <= k + Len(l) THEN k + Len(l) - c + 1 ELSE 0
        /\ \A i \in 1 .. k + Len(l) - c + 1 : x[i] = s[c + i - 1]
    BY <1>2, <1>3, <1>a, SubSeqProperties
  <2>2. c <= k + Len(l) /\ k + Len(l) - c + 1 = h + Len(l)
    BY <1>2, <1>3, <1>a
  <2> HIDE DEF x, h
  <2> QED
    BY <2>1, <2>2
<1>8. /\ y \in Seq(Char) /\ Len(y) = h + Len(w)
      /\ \A i \in 1 .. h + Len(w) : y[i] = t[c + i - 1]
  <2>a. k + Len(w) \in Nat /\ c \in 1 .. Len(t) + 1 /\ k + Len(w) \in c - 1 .. Len(t)
    BY <1>2, <1>3, <1>a
  <2> DEFINE z == k + Len(w)
  <2>b. /\ y \in Seq(Char) /\ Len(y) = IF c <= z THEN z - c + 1 ELSE 0
        /\ \A i \in 1 .. z - c + 1 : y[i] = t[c + i - 1]
    <3>1. y = SubSeq(t, c, z)
      OBVIOUS
    <3> HIDE DEF y, z
    <3> QED
      <4>1. t \in Seq(Char) /\ c \in 1 .. Len(t) + 1 /\ z \in c - 1 .. Len(t)
        BY <1>3, <2>a DEF z
      <4>2. /\ SubSeq(t, c, z) \in Seq(Char)
            /\ Len(SubSeq(t, c, z)) = IF c <= z THEN z - c + 1 ELSE 0
            /\ \A i \in 1 .. z - c + 1 : SubSeq(t, c, z)[i] = t[c + i - 1]
        BY <4>1, SubSeqProperties
      <4> QED
        BY <3>1, <4>2
  <2>2. c <= z /\ z - c + 1 = h + Len(w)
    BY <1>2, <1>3, <1>a
  <2> HIDE DEF y, h, z
  <2> QED
    BY <2>b, <2>2
<1> HIDE DEF x, y
<1>9. \A i \in 1 .. h : /\ x[i] = y[i] /\ x[i] = s[c + i - 1]
                        /\ c + i - 1 \in 1 .. k
  <2> TAKE i \in 1 .. h
  <2>1. i \in 1 .. h + Len(l) /\ i \in 1 .. h + Len(w) /\ c + i - 1 \in 1 .. k
    BY <1>2, <1>3, <1>a
  <2> QED
    BY <1>3, <1>7, <1>8, <2>1
<1>10. h = 0 \/ (x[h] = Blank /\ y[h] = Blank)
  <2> SUFFICES ASSUME h # 0
               PROVE  x[h] = Blank /\ y[h] = Blank
    OBVIOUS
  <2>1. h \in 1 .. h /\ c + h - 1 = k /\ k # 0
    BY <1>3, <1>a
  <2>2. s[k] = Blank
    BY <1>3, <2>1 DEF EndsWith
  <2> HIDE DEF h
  <2> QED
    BY <1>9, <2>1, <2>2
<1>11. EndsWith(x, h, l)
  <2>1. \A i \in 1 .. Len(l) : h + i \in 1 .. h + Len(l) /\ c + (h + i) - 1 = k + i
    BY <1>2, <1>3, <1>a
  <2>2. Len(x) # h + Len(l) + 1
    BY <1>2, <1>7, <1>a
  <2> HIDE DEF h
  <2> QED
    BY <1>3, <1>7, <1>10, <2>1, <2>2 DEF EndsWith
<1>12. EndsWith(y, h, w)
  <2>1. \A i \in 1 .. Len(w) : h + i \in 1 .. h + Len(w) /\ c + (h + i) - 1 = k + i
    BY <1>2, <1>3, <1>a
  <2>2. Len(y) # h + Len(w) + 1
    BY <1>2, <1>8, <1>a
  <2> HIDE DEF h
  <2> QED
    BY <1>3, <1>8, <1>10, <2>1, <2>2 DEF EndsWith
<1> HIDE DEF h
<1>13. Completes(y, w, x, l, h)
  BY <1>3, <1>7, <1>8, <1>9, <1>11, <1>12, <1>a DEF Completes
<1> QED
  BY <1>6, <1>8, <1>13, <1>a

-----------------------------------------------------------------------------
LEMMA FrontAppends ==
  ASSUME NEW S, NEW t \in Seq(S), t # <<>>
  PROVE  Front(t) \in Seq(S) /\ Append(Front(t), Last(t)) = t /\ Len(Front(t)) = Len(t) - 1
<1> DEFINE n == Len(t)
           k == n - 1
<1>1. n \in Nat /\ n # 0
  BY LenProperties, EmptySeq
<1>2. k \in Nat /\ k + 1 = n /\ k + 1 <= n
  BY <1>1
<1> HIDE DEF k
<1>3. /\ SubSeq(t, 1, k) \in Seq(S) /\ Len(SubSeq(t, 1, k)) = k
      /\ Append(SubSeq(t, 1, k), t[k + 1]) = SubSeq(t, 1, k + 1)
  BY <1>2, CutGrows
<1>4. SubSeq(t, 1, n) = t
  OBVIOUS
<1>5. Front(t) = SubSeq(t, 1, k) /\ Last(t) = t[k + 1]
  BY <1>2 DEF Front, Last, k
<1> QED
  BY <1>2, <1>3, <1>4, <1>5 DEF k

(* One round of the loop of split_cli(), of the character, of whether there is
   a next one and of whether that is not blank.                            *)
RoundOf(c, more, joined) ==
  [s \in SplitState |->
     LET grown == [s EXCEPT !.tokens = Append(Front(@), Append(Last(@), c))]
     IN  IF s.err # NULL THEN s
         ELSE IF s.escaped THEN [grown EXCEPT !.escaped = FALSE]
         ELSE IF c = Blank /\ ~s.quoted
              THEN IF Last(s.tokens) = <<>> THEN s
                   ELSE IF TooMany(Len(s.tokens)) THEN [s EXCEPT !.err = "many"]
                   ELSE [s EXCEPT !.tokens = Append(@, <<>>)]
         ELSE IF c = Escape THEN [grown EXCEPT !.escaped = TRUE]
         ELSE IF c # Quote THEN grown
         ELSE IF s.quoted /\ more /\ joined
              THEN [s EXCEPT !.err = "quote"]
         ELSE [grown EXCEPT !.quoted = ~@]]

LEMMA RoundsAgree ==
  ASSUME NEW s, NEW t, NEW i, s[i] = t[i], s[i + 1] = t[i + 1], i < Len(s), i < Len(t)
  PROVE  SplitStep(s, i) = SplitStep(t, i)
<1>1. ASSUME NEW x, i < Len(x)
      PROVE  SplitStep(x, i) = RoundOf(x[i], TRUE, x[i + 1] # Blank)
  BY <1>1 DEF SplitStep, RoundOf
<1> QED
  BY <1>1

(* Texts that are the same up to a word are split the same up to there.    *)
LEMMA SplitsAgree ==
  ASSUME NEW a, NEW b, NEW l, NEW w, NEW k, Completes(b, w, a, l, k)
  PROVE  SplitAfter(a)[k] = SplitAfter(b)[k]
<1>1. /\ Len(a) \in Nat /\ Len(b) \in Nat /\ Len(l) \in Nat /\ Len(w) \in Nat
      /\ 1 <= Len(l) /\ Len(l) <= Len(w) /\ a[k + 1] = b[k + 1]
  BY CompletesFacts
<1>2. /\ a \in Seq(Char) /\ b \in Seq(Char) /\ k \in Nat /\ Len(a) = k + Len(l)
      /\ \A i \in 1 .. k : a[i] = b[i]
  BY DEF Completes
<1>3. Len(b) >= k + Len(w)
  BY <1>1, <1>2 DEF Completes, EndsWith
<1> DEFINE T == {n \in Nat : n <= k => SplitAfter(a)[n] = SplitAfter(b)[n]}
<1>4. 0 \in T
  <2>1. SplitAfter(a)[0] = SplitAfter(b)[0]
    BY <1>2, SplitAfterSound
  <2> QED
    BY <2>1
<1>5. ASSUME NEW n \in Nat, n \in T
      PROVE  n + 1 \in T
  <2> SUFFICES ASSUME n + 1 <= k
               PROVE  SplitAfter(a)[n + 1] = SplitAfter(b)[n + 1]
    OBVIOUS
  <2> DEFINE i == n + 1
  <2>1. /\ i \in 1 .. k /\ (i + 1 \in 1 .. k \/ i + 1 = k + 1) /\ i - 1 = n /\ n <= k
        /\ i \in 1 .. Len(a) /\ i \in 1 .. Len(b) /\ i < Len(a) /\ i < Len(b)
    BY <1>1, <1>2, <1>3
  <2> HIDE DEF i
  <2>2. a[i] = b[i] /\ a[i + 1] = b[i + 1]
    BY <1>1, <1>2, <2>1
  <2>3. SplitStep(a, i) = SplitStep(b, i)
    BY <2>1, <2>2, RoundsAgree
  <2>4. SplitAfter(a)[n] = SplitAfter(b)[n]
    BY <1>5, <2>1
  <2>5. /\ SplitAfter(a)[i] = SplitStep(a, i)[SplitAfter(a)[i - 1]]
        /\ SplitAfter(b)[i] = SplitStep(b, i)[SplitAfter(b)[i - 1]]
    BY <1>2, <2>1, SplitAfterSound
  <2>6. SplitAfter(a)[i] = SplitAfter(b)[i]
    BY <2>1, <2>3, <2>4, <2>5
  <2> QED
    BY <2>6 DEF i
<1> HIDE DEF T
<1>6. \A n \in Nat : n \in T
  BY <1>4, <1>5, NatSetInduction
<1> QED
  BY <1>2, <1>6 DEF T

(* A plain character is added to the last token.                           *)
LEMMA CharAdds ==
  ASSUME NEW text \in Seq(Char), NEW i \in 1 .. Len(text), NEW s \in SplitState,
         text[i] \notin {Blank, Quote, Escape}, SplitStep(text, i)[s].err = NULL
  PROVE  /\ s.err = NULL
         /\ Last(SplitStep(text, i)[s].tokens) = Append(Last(s.tokens), text[i])
         /\ Last(s.tokens) \in Seq(Char)
<1> DEFINE c == text[i]
           t == Append(Front(s.tokens), Append(Last(s.tokens), c))
           grown == [s EXCEPT !.tokens = t]
           r == SplitStep(text, i)[s]
<1>1. c \in Char
  BY ElementOfSeq
<1>2. /\ s.tokens \in Seq(Seq(Char)) \ {<<>>}
      /\ s = [tokens |-> s.tokens, quoted |-> s.quoted, escaped |-> s.escaped, err |-> s.err]
  BY DEF SplitState
<1>3. Last(t) = Append(Last(s.tokens), c) /\ Last(s.tokens) \in Seq(Char)
  BY <1>1, <1>2, GrownToken
<1>4. grown.tokens = t /\ [grown EXCEPT !.escaped = FALSE].tokens = t
  BY <1>2
<1> HIDE DEF t, c
<1>5. r = IF s.err # NULL THEN s
          ELSE IF s.escaped THEN [grown EXCEPT !.escaped = FALSE] ELSE grown
  BY DEF SplitStep, c, t
<1> HIDE DEF grown, r
<1>6. s.err = NULL
  BY <1>5 DEF r
<1>7. r.tokens = t
  BY <1>4, <1>5, <1>6
<1> QED
  BY <1>3, <1>6, <1>7 DEF r, c

(* If a plain word l is all there is of the last token, it began empty.    *)
LEMMA WordBegan ==
  ASSUME NEW text \in Seq(Char), NEW k \in Nat, NEW l \in Seq(Char), Plain(l),
         Len(text) = k + Len(l), \A i \in 1 .. Len(l) : text[k + i] = l[i],
         SplitAfter(text)[Len(text)].err = NULL,
         Len(Last(SplitAfter(text)[Len(text)].tokens)) = Len(l)
  PROVE  \E f \in Seq(Seq(Char)) : SplitAfter(text)[k] = Between(Append(f, <<>>))
<1> DEFINE n == Len(l)
           S(p) == SplitAfter(text)[k + n - p]
           T == {p \in Nat : p <= n => S(p).err = NULL /\ Len(Last(S(p).tokens)) = n - p}
<1>1. n \in Nat /\ Len(text) = k + n
  BY LenProperties
<1>2. 0 \in T
  <2>1. k + n - 0 = Len(text) /\ n - 0 = n
    BY <1>1
  <2> QED
    BY <2>1
<1>3. ASSUME NEW p \in Nat, p \in T
      PROVE  p + 1 \in T
  <2> SUFFICES ASSUME p + 1 <= n
               PROVE  S(p + 1).err = NULL /\ Len(Last(S(p + 1).tokens)) = n - (p + 1)
    OBVIOUS
  <2> DEFINE i == k + n - p
             s == SplitAfter(text)[i - 1]
  <2>1. i \in 1 .. Len(text) /\ i - 1 \in 0 .. Len(text) /\ k + n - (p + 1) = i - 1
    BY <1>1
  <2>2. text[i] \notin {Blank, Quote, Escape}
    <3>1. n - p \in 1 .. Len(l) /\ i = k + (n - p)
      BY <1>1
    <3>2. text[k + (n - p)] = l[n - p]
      BY <3>1
    <3> QED
      BY <3>1, <3>2 DEF Plain
  <2>3. SplitAfter(text)[i].err = NULL /\ Len(Last(SplitAfter(text)[i].tokens)) = n - p
    BY <1>3, <1>1
  <2> HIDE DEF i, s
  <2>4. SplitAfter(text)[i] = SplitStep(text, i)[s]
    BY <2>1, SplitAfterSound DEF s
  <2>5. s \in SplitState
    BY <2>1, SplitAfterSound DEF s, SplitSound
  <2>6. /\ s.err = NULL /\ Last(s.tokens) \in Seq(Char)
        /\ Last(SplitAfter(text)[i].tokens) = Append(Last(s.tokens), text[i])
    BY <2>1, <2>2, <2>3, <2>4, <2>5, CharAdds
  <2>7. Len(Append(Last(s.tokens), text[i])) = Len(Last(s.tokens)) + 1
        /\ Len(Last(s.tokens)) \in Nat
    BY <2>1, <2>6, ElementOfSeq, AppendProperties, LenProperties
  <2>8. Len(Last(s.tokens)) = n - (p + 1)
    BY <1>1, <2>3, <2>6, <2>7
  <2>9. S(p + 1) = s
    BY <2>1 DEF s
  <2> QED
    BY <2>6, <2>8, <2>9
<1> HIDE DEF T
<1>4. \A p \in Nat : p \in T
  BY <1>2, <1>3, NatSetInduction
<1> DEFINE s == SplitAfter(text)[k]
<1>5. k + n - n = k /\ n - n = 0 /\ k \in 0 .. Len(text)
  BY <1>1
<1>6. s.err = NULL /\ Len(Last(s.tokens)) = 0
  BY <1>1, <1>4, <1>5 DEF T
<1>7. SplitSound(text, k, s)
  BY <1>5, SplitAfterSound
<1> HIDE DEF s
<1>8. s \in SplitState /\ s.tokens \in Seq(Seq(Char)) /\ s.tokens # <<>>
  BY <1>7 DEF SplitSound, SplitState
<1> DEFINE t == s.tokens
           f == Front(t)
<1>9. Len(t) \in Nat /\ Len(t) >= 1
  <2>1. Len(t) \in Nat /\ Len(t) # 0
    BY <1>8, LenProperties, EmptySeq
  <2> QED
    BY <2>1
<1>10. Last(t) = <<>>
  <2>1. Len(t) \in 1 .. Len(t)
    BY <1>9
  <2>2. Last(t) \in Seq(Char)
    BY <1>8, <2>1, ElementOfSeq DEF Last
  <2> QED
    BY <1>6, <2>2, EmptySeq
<1>11. ~s.quoted /\ ~s.escaped
  BY <1>7, <1>10 DEF SplitSound
<1>12. f \in Seq(Seq(Char)) /\ Append(f, Last(t)) = t
  BY <1>8, FrontAppends
<1>13. s = Between(t)
  <2>1. s = [tokens |-> t, quoted |-> s.quoted, escaped |-> s.escaped, err |-> s.err]
        /\ s.quoted \in BOOLEAN /\ s.escaped \in BOOLEAN
    BY <1>8 DEF SplitState
  <2>2. s.quoted = FALSE /\ s.escaped = FALSE
    BY <1>11, <2>1
  <2> QED
    BY <1>6, <2>1, <2>2 DEF Between
<1> QED
  BY <1>10, <1>12, <1>13 DEF s

-----------------------------------------------------------------------------
(* The tokens of a end in l, those of b are the same but end in w.         *)
SplitsInto(a, b, l, w) ==
  \E f \in Seq(Seq(Char)) : Split(a).tokens = Append(f, l) /\ Split(b).tokens = Append(f, w)

(* Completed text splits into the same tokens but for the last.            *)
LEMMA TabSplits ==
  ASSUME NEW a, NEW b, NEW l, NEW w, NEW k, Completes(b, w, a, l, k), ~EndsInBlank(SkipDo(a)),
         Split(a).err = NULL, l = Last(Split(a).tokens)
  PROVE  SplitsInto(a, b, l, w)
<1> DEFINE x == Bare(a)
           y == Bare(b)
<1>1. PICK h \in Nat : Completes(y, w, x, l, h) /\ Len(y) = h + Len(w)
  BY BareCompletes
<1> HIDE DEF x, y
<1>2. /\ w # <<>> /\ Len(x) \in Nat /\ Len(y) \in Nat /\ Len(l) \in Nat /\ Len(w) \in Nat
      /\ 1 <= Len(l) /\ Len(l) <= Len(w)
  BY <1>1, CompletesFacts
<1>3. /\ x \in Seq(Char) /\ y \in Seq(Char) /\ l \in Seq(Char) /\ w \in Seq(Char)
      /\ Plain(l) /\ Plain(w) /\ Len(x) = h + Len(l)
      /\ \A i \in 1 .. Len(l) : x[h + i] = l[i]
      /\ \A i \in 1 .. Len(w) : y[h + i] = w[i]
  BY <1>1 DEF Completes, EndsWith
<1> DEFINE s == SplitAfter(x)[Len(x)]
           t == SplitAfter(y)[Len(y)]
<1>4. x # <<>> /\ y # <<>>
  <2>1. Len(x) # 0 /\ Len(y) # 0
    BY <1>1, <1>2, <1>3
  <2> QED
    BY <2>1, EmptySeq
<1>5. /\ Split(a).tokens = s.tokens /\ Split(b).tokens = t.tokens
      /\ Split(a).err = IF s.err = NULL /\ s.quoted THEN "quote" ELSE s.err
  BY <1>3, <1>4 DEF Split, SplitBare, SplitCli, x, y
<1>6. SplitAfter(x)[h] = SplitAfter(y)[h]
  BY <1>1, SplitsAgree
<1> HIDE DEF s, t
<1>7. s.err = NULL
  BY <1>5
<1>8. Last(s.tokens) = l
  BY <1>5
<1>9. PICK f \in Seq(Seq(Char)) : SplitAfter(x)[h] = Between(Append(f, <<>>))
  BY <1>3, <1>7, <1>8, WordBegan DEF s
<1>10. s = Between(Append(f, l))
  <2>1. h + Len(l) <= Len(x)
    BY <1>2, <1>3
  <2>2. SplitAfter(x)[h + Len(l)] = Between(Append(f, l))
    BY <1>3, <1>9, <2>1, WordRead
  <2> QED
    BY <1>3, <2>2 DEF s
<1>11. t = Between(Append(f, w))
  <2>1. h + Len(w) <= Len(y)
    BY <1>1, <1>2
  <2>a. SplitAfter(y)[h] = Between(Append(f, <<>>))
    BY <1>6, <1>9
  <2>2. SplitAfter(y)[h + Len(w)] = Between(Append(f, w))
    BY <1>1, <1>3, <2>1, <2>a, WordRead
  <2> QED
    BY <1>1, <2>2 DEF t
<1>12. Between(Append(f, l)).tokens = Append(f, l) /\ Between(Append(f, w)).tokens = Append(f, w)
  BY DEF Between
<1> QED
  BY <1>5, <1>10, <1>11, <1>12 DEF SplitsInto

LEMMA BlankBehind ==
  ASSUME NEW f \in Seq(Char)
  PROVE  /\ Append(f, Blank) \in Seq(Char) /\ Len(Append(f, Blank)) = Len(f) + 1
         /\ Append(f, Blank)[Len(f) + 1] = Blank
         /\ \A i \in 1 .. Len(f) : Append(f, Blank)[i] = f[i]
<1>1. Blank \in Char
  BY AnswersAreText
<1>2. \A c \in Char : /\ Append(f, c) \in Seq(Char) /\ Len(Append(f, c)) = Len(f) + 1
                      /\ Append(f, c)[Len(f) + 1] = c
                      /\ \A i \in 1 .. Len(f) : Append(f, c)[i] = f[i]
  BY AppendProperties
<1> QED
  BY <1>1, <1>2

(* autofill_cli() completes the command line.                              *)
LEMMA FilledCompletes ==
  ASSUME SessionInv, NEW w \in Seq(Char), Plain(w), cpi.last # <<>>, Plain(cpi.last),
         TokenEnds(cpi.cli_org, Len(cpi.cli_org), cpi.last), Prefixed(cpi.last, w)
  PROVE  \E k \in Nat :
            /\ Completes(Filled(w), w, cpi.cli_org, cpi.last, k)
            /\ Completes(Append(Filled(w), Blank), w, cpi.cli_org, cpi.last, k)
<1> DEFINE text == cpi.cli_org
           l == cpi.last
           n == Len(text)
           m == Len(l)
           k == n - m
           s == SubSeq(text, 1, k)
           f == Filled(w)
           g == Append(f, Blank)
<1>1. text \in Seq(Char) /\ l \in Seq(Char) /\ n \in Nat /\ m \in Nat /\ Len(w) \in Nat
  BY LenProperties DEF SessionInv, ParserTyped, Requests
<1>2. NoBlankIn(l)
  BY DEF Plain, NoBlankIn
<1>3. f = s \o w
  BY <1>1, <1>2, LastBlankAt DEF Filled
<1>4. /\ m <= n /\ (m = n \/ text[k] = Blank)
      /\ \A i \in 1 .. m : text[k + i] = l[i]
  BY DEF TokenEnds
<1>5. k \in Nat /\ k <= n /\ n = k + m /\ (k = 0 \/ text[k] = Blank)
  <2>1. n \in Nat /\ m \in Nat /\ m <= n
    BY <1>1, <1>4
  <2> HIDE DEF n, m
  <2>2. k \in Nat /\ k <= n /\ n = k + m /\ (m = n => k = 0)
    BY <2>1
  <2> QED
    BY <1>4, <2>2
<1> HIDE DEF text, l, n, m, k, f
<1>6. s \in Seq(Char) /\ Len(s) = k /\ \A i \in 1 .. k : s[i] = text[i]
  BY <1>1, <1>5, SubSeqProperties DEF n
<1> HIDE DEF s
<1>7. /\ s \o w \in Seq(Char) /\ Len(s \o w) = k + Len(w)
      /\ \A i \in 1 .. k + Len(w) : (s \o w)[i] = IF i <= k THEN s[i] ELSE w[i - k]
  BY <1>6, ConcatProperties
<1>8. f \in Seq(Char) /\ Len(f) = k + Len(w)
  BY <1>3, <1>7
<1>9. \A i \in 1 .. k : f[i] = text[i]
  <2> TAKE i \in 1 .. k
  <2>1. i \in 1 .. k + Len(w) /\ i <= k
    BY <1>1, <1>5
  <2> QED
    BY <1>3, <1>6, <1>7, <2>1
<1>10. \A i \in 1 .. Len(w) : f[k + i] = w[i]
  <2> TAKE i \in 1 .. Len(w)
  <2>1. k + i \in 1 .. k + Len(w) /\ ~(k + i <= k) /\ (k + i) - k = i
    BY <1>1, <1>5
  <2> QED
    BY <1>3, <1>7, <2>1
<1>11. EndsWith(text, k, l)
  BY <1>1, <1>4, <1>5 DEF EndsWith, n, m
<1>12. k = 0 \/ k \in 1 .. k
  BY <1>5
<1>13. EndsWith(f, k, w) /\ (k = 0 \/ f[k] = Blank)
  <2>1. k = 0 \/ f[k] = Blank
    BY <1>5, <1>9, <1>12
  <2>2. Len(f) # k + Len(w) + 1
    BY <1>1, <1>5, <1>8
  <2> QED
    BY <1>8, <1>10, <2>1, <2>2 DEF EndsWith
<1>14. /\ g \in Seq(Char) /\ Len(g) = Len(f) + 1 /\ g[Len(f) + 1] = Blank
       /\ \A i \in 1 .. Len(f) : g[i] = f[i]
  BY <1>8, BlankBehind
<1> HIDE DEF g
<1>15. \A i \in 1 .. k : g[i] = f[i]
  <2> TAKE i \in 1 .. k
  <2>1. i \in 1 .. Len(f)
    BY <1>1, <1>5, <1>8
  <2> QED
    BY <1>14, <2>1
<1>16. \A i \in 1 .. Len(w) : g[k + i] = w[i]
  <2> TAKE i \in 1 .. Len(w)
  <2>1. k + i \in 1 .. Len(f)
    BY <1>1, <1>5, <1>8
  <2> QED
    BY <1>10, <1>14, <2>1
<1>17. EndsWith(g, k, w)
  <2>1. k = 0 \/ g[k] = Blank
    BY <1>12, <1>13, <1>15
  <2> QED
    BY <1>8, <1>14, <1>16, <2>1 DEF EndsWith
<1>18. l # <<>> /\ Plain(l) /\ Prefixed(l, w) /\ Len(text) = k + Len(l)
  BY <1>5 DEF l, n, m
<1>19. Completes(f, w, text, l, k)
  BY <1>1, <1>5, <1>8, <1>9, <1>11, <1>13, <1>18 DEF Completes
<1>20. Completes(g, w, text, l, k)
  BY <1>1, <1>5, <1>9, <1>11, <1>14, <1>15, <1>17, <1>18 DEF Completes
<1> QED
  BY <1>5, <1>19, <1>20 DEF text, l, f, g

-----------------------------------------------------------------------------
(* w goes on from the last token, and every candidate goes on from w.      *)
Completion(w) ==
  /\ w \in Seq(Char) /\ Plain(w) /\ Prefixed(cpi.last, w)
  /\ \A x \in ToSet(HelpList) : Prefixed(w, Keyword(x))

LEMMA PlainBegins ==
  ASSUME NEW s \in Seq(Char), NEW t \in Seq(Char), Prefixed(s, t), Plain(t)
  PROVE  Plain(s)
<1>1. Len(s) \in Nat /\ Len(t) \in Nat /\ Len(s) <= Len(t)
  BY LenProperties DEF Prefixed
<1>2. \A i \in 1 .. Len(s) : i \in 1 .. Len(t)
  BY <1>1
<1> QED
  BY <1>2 DEF Plain, Prefixed

LEMMA BeginsAgain ==
  ASSUME NEW r \in Seq(Char), NEW s \in Seq(Char), NEW t \in Seq(Char),
         Prefixed(r, s), Prefixed(s, t)
  PROVE  Prefixed(r, t)
<1>1. Len(r) \in Nat /\ Len(s) \in Nat /\ Len(t) \in Nat /\ Len(r) <= Len(s) /\ Len(s) <= Len(t)
  BY LenProperties DEF Prefixed
<1>2. Len(r) <= Len(t) /\ \A i \in 1 .. Len(r) : i \in 1 .. Len(s)
  BY <1>1
<1> QED
  BY <1>2 DEF Prefixed

(* When all alternatives were looked at, a word that begins with the last token
   is in the list of candidates.                                           *)
LEMMA AllCollected ==
  ASSUME SessionInv, \A n \in Node : Type[n] \in EndType => alter[n] = NULL,
         pc = "collect", walk = NULL,
         NEW y \in Elements(cpi.cur, alter), Matches(cpi.last, y)
  PROVE  y \in ToSet(HelpList)
<1> DEFINE s == Level(cpi.cur)
<1>1. PICK k \in 0 .. Len(s), L \in Seq(Node) : Collected(k, L)
  BY DEF SessionInv, CandidatesSound
<1>2. HelpList = L
  BY <1>1, CollectedFacts
<1>3. /\ cpi.cur \in Node /\ alter \in [Node -> Addr] /\ TreeInv
  BY HomeTyped DEF SessionInv, RequestSound, InUse
<1>4. /\ s \in Seq(Node) /\ Len(s) \in Nat
      /\ \A i \in 1 .. Len(s) : s[i] \in Node
  BY <1>3, LevelPlaces
<1>5. ToSet(s) = Elements(cpi.cur, alter)
  BY <1>3, LevelIs DEF Level
<1> HIDE DEF s
<1>6. PICK i \in 1 .. Len(s) : s[i] = y
  <2>1. ToSet(s) = {s[i] : i \in 1 .. Len(s)}
    <3>1. DOMAIN s = 1 .. Len(s)
      BY <1>4
    <3> QED
      BY <3>1 DEF ToSet
  <2> QED
    BY <1>5, <2>1
<1>7. k = Len(s)
  <2>1. k \in 0 .. Len(s) /\ (k < Len(s) => walk = s[k + 1])
    BY <1>1 DEF Collected, s
  <2>2. k < Len(s) => k + 1 \in 1 .. Len(s)
    BY <1>4, <2>1
  <2>3. ~(k < Len(s))
    BY <1>4, <2>1, <2>2, NodeAssumption
  <2> QED
    BY <1>4, <2>1, <2>3
<1>8. IsNodeHelp(y)
  BY DEF IsNodeHelp, Matches, KeywordType
<1>9. \E j \in 1 .. Len(L) : L[j] = y
  BY <1>1, <1>6, <1>7, <1>8 DEF Collected, s
<1>10. DOMAIN L = 1 .. Len(L)
  BY <1>1
<1> QED
  BY <1>2, <1>9, <1>10 DEF ToSet

(* A completion stands for the same alternatives as the last token.        *)
LEMMA StandsForSame ==
  ASSUME SessionInv, Readable(cpi.cur), \A n \in Node : Type[n] \in EndType => alter[n] = NULL,
         pc = "collect", walk = NULL, cpi.last \in Seq(Char), NEW w, Completion(w),
         NEW y \in Elements(cpi.cur, alter), IsWord(y)
  PROVE  StandsFor(cpi.last, Def[y].keyword) <=> StandsFor(w, Def[y].keyword)
<1> DEFINE q == Def[y].keyword
<1>1. y \in Node /\ Type[y] \in KeywordType \cup {"STRING"} /\ (Type[y] = "STRING" <=> q = "WORD")
  BY DEF Readable
<1>2. Spell[q] \in Seq(Char)
  BY <1>1, WordsArePlain
<1>3. w \in Seq(Char) /\ Prefixed(cpi.last, w)
  BY DEF Completion
<1>4. CASE q = "WORD"
  BY <1>4 DEF StandsFor
<1>5. CASE q # "WORD"
  <2>1. Type[y] \in KeywordType /\ Keyword(y) = Spell[q]
    BY <1>1, <1>5 DEF Keyword
  <2>2. ASSUME IsPrefix(cpi.last, Spell[q])
        PROVE  IsPrefix(w, Spell[q])
    <3>1. Matches(cpi.last, y)
      BY <2>1, <2>2 DEF Matches
    <3>2. y \in ToSet(HelpList)
      BY <3>1, AllCollected
    <3>3. Prefixed(w, Spell[q])
      BY <2>1, <3>2 DEF Completion
    <3> QED
      BY <1>2, <1>3, <3>3, PrefixIs
  <2>3. ASSUME IsPrefix(w, Spell[q])
        PROVE  IsPrefix(cpi.last, Spell[q])
    <3>1. Prefixed(w, Spell[q])
      BY <1>2, <1>3, <2>3, PrefixIs
    <3>2. Prefixed(cpi.last, Spell[q])
      BY <1>2, <1>3, <3>1, BeginsAgain
    <3> QED
      BY <1>2, <3>2, PrefixIs
  <2> QED
    BY <1>5, <2>2, <2>3 DEF StandsFor
<1> QED
  BY <1>4, <1>5

(* The commands that begin with some tokens and one more.                  *)
LEMMA OneMore ==
  ASSUME NEW f \in Seq(Seq(Char)), NEW u \in Seq(Char), \A c \in Offered : Len(c) \in Nat
  PROVE  Candidates(Append(f, u)) =
           {c \in Still(cpi.root, f, Len(f)) : /\ Len(f) + 1 < Len(c)
                                               /\ StandsFor(u, c[Len(f) + 1])}
<1> DEFINE t == Append(f, u)
           j == Len(f)
<1>1. /\ t \in Seq(Seq(Char)) /\ Len(t) = j + 1 /\ t[j + 1] = u /\ j \in Nat
      /\ \A i \in 1 .. j : t[i] = f[i]
  <2> DEFINE S == Seq(Char)
  <2>1. f \in Seq(S) /\ u \in S
    OBVIOUS
  <2> HIDE DEF S
  <2>2. /\ Append(f, u) \in Seq(S) /\ Len(Append(f, u)) = Len(f) + 1 /\ Append(f, u)[Len(f) + 1] = u
        /\ \A i \in 1 .. Len(f) : Append(f, u)[i] = f[i]
    BY <2>1, AppendProperties
  <2>3. Len(f) \in Nat
    BY <2>1, LenProperties
  <2> QED
    BY <2>2, <2>3 DEF S
<1>2. DOMAIN t = 1 .. Len(t)
  BY <1>1
<1> HIDE DEF t, j
<1>3. \A c : (\A i \in 1 .. j + 1 : StandsFor(t[i], c[i])) <=>
               (\A i \in 1 .. j : StandsFor(f[i], c[i])) /\ StandsFor(u, c[j + 1])
  <2> TAKE c
  <2>1. /\ j + 1 \in 1 .. j + 1 /\ \A i \in 1 .. j : i \in 1 .. j + 1
        /\ \A i \in 1 .. j + 1 : i = j + 1 \/ i \in 1 .. j
    BY <1>1
  <2> QED
    BY <1>1, <2>1
<1>4. \A c \in Offered : j + 1 < Len(c) => j < Len(c)
  BY <1>1
<1>5. Candidates(t) = {c \in Offered : j + 1 < Len(c) /\ \A i \in 1 .. j + 1 : StandsFor(t[i], c[i])}
  BY <1>1, <1>2 DEF Candidates
<1>6. Still(cpi.root, f, j) = {c \in Offered : j < Len(c) /\ \A i \in 1 .. j : StandsFor(f[i], c[i])}
  BY DEF Still, Offered
<1>7. \A c : c \in Candidates(t) <=>
               c \in Still(cpi.root, f, j) /\ j + 1 < Len(c) /\ StandsFor(u, c[j + 1])
  <2> TAKE c
  <2>1. c \in Candidates(t) <=>
          c \in Offered /\ j + 1 < Len(c) /\ \A i \in 1 .. j + 1 : StandsFor(t[i], c[i])
    BY <1>5
  <2>2. c \in Still(cpi.root, f, j) <=>
          c \in Offered /\ j < Len(c) /\ \A i \in 1 .. j : StandsFor(f[i], c[i])
    BY <1>6
  <2> QED
    BY <1>3, <1>4, <2>1, <2>2, Zenon
<1> QED
  BY <1>7 DEF t, j

(* The tokens that are completed are the first words of the same commands. *)
LEMMA SameCandidates ==
  ASSUME SessionInv, ReadSound, pc = "collect", walk = NULL, cpi.tokens = <<>>,
         cpi.last # <<>>, NEW w, Completion(w),
         NEW f \in Seq(Seq(Char)), Split(cpi.cli_org).tokens = Append(f, cpi.last)
  PROVE  Candidates(Append(f, w)) = Candidates(Append(f, cpi.last))
<1> DEFINE l == cpi.last
           m == RootMode(cpi.cli_org)
           neg == cpi.set_no \/ cpi.set_default
           x == cpi.cur
           j == Len(f)
<1>1. /\ l \in Seq(Char) /\ m \in Mode /\ neg \in BOOLEAN /\ TreeInv
      /\ w \in Seq(Char) /\ cpi.root \in Node
  BY DEF SessionInv, ParserTyped, Requests, RootMode, Mode, Completion, ReadSound
<1>2. PICK T \in SUBSET Chained, first \in [Mode -> Addr], k \in Nat, pre \in Seq(Symbols) :
         Shape(T, first) /\ ReadTo(T, k, pre)
  BY DEF ReadSound
<1>3. ToParse = f
  <2>1. Front(Append(f, l)) = f
    <3> DEFINE S == Seq(Char)
    <3>1. f \in Seq(S) /\ l \in S
      BY <1>1
    <3> HIDE DEF S, l
    <3> QED
      BY <3>1, AppendEnds
  <2> QED
    BY <2>1 DEF ToParse
<1>4. /\ At(T, x, m, k, neg) /\ Reads(cpi.root, f, k, pre, x)
      /\ j \in Nat /\ Len(cpi.tokens) + k = j
  BY <1>2, <1>3 DEF ReadTo
<1>5. k = j
  <2>1. Len(cpi.tokens) = 0 /\ 0 + k = k
    OBVIOUS
  <2> QED
    BY <1>4, <2>1
<1>6. /\ Sound(acc, alter) /\ \A n \in Node : Type[n] \in EndType => alter[n] = NULL
  BY <1>1, <1>2, TreesSound
<1> HIDE DEF m, neg
<1>7. Readable(x)
  BY <1>1, <1>2, <1>4, AtReadable
<1>8. Still(cpi.root, f, j) = {pre \o b : b \in Rest(j, x)} /\ Len(pre) = j
  BY <1>4, <1>5 DEF Reads
<1>9. ASSUME NEW c \in Still(cpi.root, f, j), j + 1 < Len(c)
      PROVE  StandsFor(l, c[j + 1]) <=> StandsFor(w, c[j + 1])
  <2>1. PICK b \in Rest(j, x) : c = pre \o b
    BY <1>8
  <2>2. /\ b \in Seq(Symbols) /\ Len(b) \in Nat
        /\ \E y \in Elements(x, alter) :
             \/ Type[y] = "END" /\ Len(b) = 1
             \/ IsWord(y) /\ Len(b) > 1 /\ b[1] = Def[y].keyword
    BY <1>1, <1>2, <1>4, <1>5, RestBegins
  <2>3. /\ Len(c) = j + Len(b)
        /\ \A i \in 1 .. j + Len(b) : c[i] = IF i <= j THEN pre[i] ELSE b[i - j]
    BY <1>8, <2>1, <2>2, ConcatProperties
  <2> HIDE DEF j, l, x
  <2>4. Len(b) # 1 /\ j + 1 \in 1 .. j + Len(b) /\ ~(j + 1 <= j) /\ (j + 1) - j = 1
    BY <1>4, <1>9, <2>2, <2>3
  <2>5. c[j + 1] = b[1]
    BY <2>3, <2>4
  <2>6. PICK y \in Elements(x, alter) : IsWord(y) /\ b[1] = Def[y].keyword
    BY <2>2, <2>4
  <2> QED
    BY <1>1, <1>6, <1>7, <2>5, <2>6, StandsForSame DEF l, x
<1>10. \A c \in Offered : Len(c) \in Nat
  <2>1. Offered = Sayings(acc, alter)[MaxWords + 1][cpi.root] /\ MaxWords \in Nat
    BY CommandsIs DEF Offered, MaxWords
  <2> QED
    BY <1>1, <1>6, <2>1, SayingsSay
<1>11. /\ Candidates(Append(f, l)) =
             {c \in Still(cpi.root, f, j) : j + 1 < Len(c) /\ StandsFor(l, c[j + 1])}
       /\ Candidates(Append(f, w)) =
             {c \in Still(cpi.root, f, j) : j + 1 < Len(c) /\ StandsFor(w, c[j + 1])}
  BY <1>1, <1>10, OneMore
<1> HIDE DEF j, l, x
<1>12. {c \in Still(cpi.root, f, j) : j + 1 < Len(c) /\ StandsFor(l, c[j + 1])} =
       {c \in Still(cpi.root, f, j) : j + 1 < Len(c) /\ StandsFor(w, c[j + 1])}
  BY <1>9
<1> QED
  BY <1>11, <1>12 DEF l

-----------------------------------------------------------------------------
(* What is filled in is a completion.                                      *)
LEMMA FillsCompletion ==
  ASSUME SessionInv, pc = "collect", head # NULL, cpi.req = "auto_fill"
  PROVE  /\ Completion(MakeLastFillToken)
         /\ help_next[head] = NULL => Completion(Keyword(head))
         /\ cpi.last \in Seq(Char) /\ cpi.last # <<>> /\ Plain(cpi.last)
<1> DEFINE X == ToSet(HelpList)
           K == {Keyword(n) : n \in X}
           l == cpi.last
           p == LongestCommonPrefix(K)
<1>1. /\ l \in Seq(Char) /\ l # <<>> /\ head \in X
      /\ \A x \in X : Keyword(x) \in Seq(Char) /\ Prefixed(l, Keyword(x))
  BY CandidatesExtend
<1>2. PICK L \in Seq(Node) : /\ HelpList = L /\ head = FirstOf(L)
                             /\ Threaded(L, head, help_next, help_prev)
  BY CandidateFacts
<1>3. DOMAIN L = 1 .. Len(L) /\ Len(L) \in Nat /\ L # <<>>
  BY <1>2, LenProperties DEF FirstOf
<1>4. X = {L[i] : i \in 1 .. Len(L)}
  BY <1>2, <1>3 DEF ToSet
<1>5. head = L[1] /\ 1 \in 1 .. Len(L)
  BY <1>2, <1>3, EmptySeq DEF FirstOf
<1>6. head \in Node /\ IsWord(head)
  <2>1. head \in Node
    BY <1>2, <1>5, ElementOfSeq
  <2>2. PICK k \in 0 .. Len(Level(cpi.cur)), M \in Seq(Node) : Collected(k, M)
    BY DEF SessionInv, CandidatesSound
  <2>3. HelpList = M /\ \A i \in 1 .. Len(M) : IsNodeHelp(M[i])
    BY <2>2, CollectedFacts
  <2>4. IsNodeHelp(head)
    BY <1>2, <1>5, <2>3
  <2>5. Type[head] \in KeywordType
    BY <1>1, <2>4 DEF IsNodeHelp, Matches
  <2> QED
    BY <2>1, <2>5 DEF KeywordType, EndType, IsWord
<1>7. Plain(Keyword(head))
  BY <1>6, WordsArePlain DEF Keyword
<1>8. K \subseteq Seq(Char) /\ Keyword(head) \in K /\ K # {} /\ \A t \in K : Prefixed(l, t)
  BY <1>1
<1> HIDE DEF X, l
<1>9. /\ p \in Seq(Char) /\ p \in CommonPrefixes(K) /\ Prefixed(l, p)
  <2> HIDE DEF K
  <2> QED
    BY <1>1, <1>8, LongestIsText, CommonExtends
<1>10. p # <<>>
  BY <1>1, <1>9, EmptySeq, LenProperties DEF Prefixed
<1>11. MakeLastFillToken = p
  BY <1>10 DEF MakeLastFillToken, X
<1> HIDE DEF p
<1>12. \A t \in K : Prefixed(p, t)
  <2>1. \A t \in K : IsPrefix(p, t)
    BY <1>9 DEF CommonPrefixes
  <2> QED
    BY <1>8, <1>9, <2>1, PrefixIs
<1>13. \A x \in X : Keyword(x) \in K
  OBVIOUS
<1> HIDE DEF K
<1>14. Plain(p) /\ Plain(l)
  BY <1>1, <1>7, <1>8, <1>9, <1>12, PlainBegins
<1>15. Completion(p)
  BY <1>9, <1>12, <1>13, <1>14 DEF Completion, X, l
<1>16. ASSUME help_next[head] = NULL
       PROVE  Completion(Keyword(head))
  <2>1. \A i \in 1 .. Len(L) : i = 1
    <3> SUFFICES ASSUME NEW i \in 1 .. Len(L), i # 1
                 PROVE  FALSE
      OBVIOUS
    <3>1. 1 < Len(L) /\ 2 \in 1 .. Len(L) /\ 1 + 1 = 2
      BY <1>3
    <3>2. help_next[L[1]] = L[2]
      BY <1>2, <1>5, <3>1 DEF Threaded, IsChain
    <3>3. L[2] \in Node
      BY <3>1, ElementOfSeq
    <3> QED
      BY <1>5, <1>16, <3>2, <3>3, NodeAssumption
  <2>2. \A x \in X : x = head
    BY <1>4, <1>5, <2>1
  <2>3. Keyword(head) \in Seq(Char) /\ Prefixed(l, Keyword(head))
    BY <1>1
  <2>4. Prefixed(Keyword(head), Keyword(head))
    BY <2>3, LenProperties DEF Prefixed
  <2> QED
    BY <1>7, <2>2, <2>3, <2>4 DEF Completion, X, l
<1> QED
  BY <1>1, <1>11, <1>14, <1>15, <1>16 DEF l

LEMMA CompletesExtends ==
  ASSUME NEW a, NEW b, NEW l, NEW w, NEW k, Completes(b, w, a, l, k)
  PROVE  IsPrefix(a, b)
<1>1. /\ a \in Seq(Char) /\ b \in Seq(Char) /\ k \in Nat /\ Len(a) = k + Len(l)
      /\ \A i \in 1 .. k : a[i] = b[i]
      /\ \A i \in 1 .. Len(l) : a[k + i] = l[i]
      /\ \A i \in 1 .. Len(w) : b[k + i] = w[i]
      /\ \A i \in 1 .. Len(l) : l[i] = w[i]
      /\ Len(b) \in {k + Len(w), k + Len(w) + 1}
  BY DEF Completes, EndsWith, Prefixed
<1>2. Len(l) \in Nat /\ Len(w) \in Nat /\ Len(l) <= Len(w) /\ Len(b) \in Nat
  BY CompletesFacts
<1>3. Len(a) <= Len(b)
  BY <1>1, <1>2
<1>4. ASSUME NEW i \in 1 .. Len(a)
      PROVE  a[i] = b[i]
  <2>1. CASE i \in 1 .. k
    BY <1>1, <2>1
  <2>2. CASE i \notin 1 .. k
    <3> DEFINE j == i - k
    <3>1. j \in 1 .. Len(l) /\ j \in 1 .. Len(w) /\ k + j = i
      BY <1>1, <1>2, <2>2
    <3> HIDE DEF j
    <3> QED
      BY <1>1, <3>1
  <2> QED
    BY <2>1, <2>2
<1>5. Prefixed(a, b)
  BY <1>3, <1>4 DEF Prefixed
<1> QED
  BY <1>1, <1>5, PrefixIs

(* While it completes, the parser has a command line that does not end in a
   blank, whose last token it took; no other one is left when it looks for
   candidates.                                                             *)
TabText ==
  /\ pc \in {"parse", "collect"} /\ cpi.req = "auto_fill" =>
       /\ ~EndsInBlank(SkipDo(cpi.cli_org)) /\ Split(cpi.cli_org).tokens # <<>>
       /\ Split(cpi.cli_org).err = NULL /\ cpi.last = Last(Split(cpi.cli_org).tokens)
  /\ pc = "collect" => cpi.tokens = <<>>

(* What autofill_cli() makes of the command line extends it, and keeps the
   commands that could be meant.                                           *)
LEMMA FilledKeeps ==
  ASSUME SessionInv, ReadSound, TabInv, TabText, pc = "collect", walk = NULL, head # NULL,
         cpi.req = "auto_fill", NEW w, Completion(w),
         NEW o \in {Filled(w), Append(Filled(w), Blank)}
  PROVE  /\ IsPrefix(cpi.cli_org, o)
         /\ Candidates(Split(o).tokens) = Candidates(Split(cpi.cli_org).tokens)
<1> DEFINE a == cpi.cli_org
           l == cpi.last
<1>1. /\ ~EndsInBlank(SkipDo(a)) /\ Split(a).tokens # <<>> /\ Split(a).err = NULL
      /\ l = Last(Split(a).tokens) /\ cpi.tokens = <<>>
  BY DEF TabText
<1>2. l \in Seq(Char) /\ l # <<>> /\ Plain(l)
  BY FillsCompletion
<1>3. w \in Seq(Char) /\ Plain(w) /\ Prefixed(l, w)
  BY DEF Completion
<1>4. TokenEnds(a, Len(a), l)
  <2>1. NoBlankIn(l)
    BY <1>2 DEF Plain, NoBlankIn
  <2> QED
    BY <2>1 DEF TabInv
<1>5. \E k \in Nat : Completes(o, w, a, l, k)
  BY <1>2, <1>3, <1>4, FilledCompletes
<1> HIDE DEF a, l
<1>6. PICK k \in Nat : Completes(o, w, a, l, k)
  BY <1>5
<1>a. Split(a).err = NULL /\ l = Last(Split(a).tokens) /\ ~EndsInBlank(SkipDo(a))
  BY <1>1
<1>b. SplitsInto(a, o, l, w)
  BY <1>a, <1>6, TabSplits
<1>7. PICK f \in Seq(Seq(Char)) : Split(a).tokens = Append(f, l) /\ Split(o).tokens = Append(f, w)
  BY <1>b DEF SplitsInto
<1>8. Candidates(Append(f, w)) = Candidates(Append(f, l))
  BY <1>1, <1>2, <1>7, SameCandidates DEF a, l
<1>9. IsPrefix(a, o)
  BY <1>6, CompletesExtends
<1> QED
  BY <1>7, <1>8, <1>9 DEF a

(* An error message goes on from no command line but itself.               *)
LEMMA LeavingsApart ==
  ASSUME NEW text \in Seq(Char), Split(text).tokens # <<>>, ~EndsInBlank(SkipDo(text)),
         NEW o \in Leavings, IsPrefix(text, o)
  PROVE  text = o
<1>1. o \in Seq(Char) /\ Len(text) \in Nat /\ Len(o) \in Nat
  BY AnswersAreText, LenProperties DEF Leavings
<1>2. Len(text) <= Len(o) /\ \A i \in 1 .. Len(text) : text[i] = o[i]
  BY <1>1, PrefixIs DEF Prefixed
<1>3. text # <<>>
  <2> SUFFICES ASSUME text = <<>>
               PROVE  Split(text).tokens = <<>>
    OBVIOUS
  <2>1. SkipDo(text) = <<>>
    BY SkipDoShape, EmptySeq
  <2>2. Bare(text) = <<>>
    <3>1. \A k \in Nat : SubSeq(<<>>, 1, 0) = <<>>
      OBVIOUS
    <3>2. \A i \in 1 .. Len(<<>>) : FALSE
      OBVIOUS
    <3>3. SelectLastInSeq(<<>>, LAMBDA c : c # Blank) = 0
      BY <3>2 DEF SelectLastInSeq
    <3>4. RemoveTrailingSpaces(<<>>) = <<>>
      BY <3>1, <3>3 DEF RemoveTrailingSpaces
    <3>5. SkipSpaces(<<>>) = <<>>
      <4>1. <<>> \in Seq(Char) /\ Len(<<>>) = 0
        OBVIOUS
      <4>2. PICK k \in 1 .. 0 + 1 : SkipSpaces(<<>>) = SubSeq(<<>>, k, 0)
        BY <4>1, SkipSpacesShape
      <4>3. k = 1
        OBVIOUS
      <4> QED
        BY <3>1, <4>2, <4>3
    <3> QED
      BY <2>1, <3>4, <3>5 DEF Bare, PreprocessCli
  <2> QED
    BY <2>2 DEF Split, SplitBare
<1>4. Len(text) # 0
  BY <1>3, EmptySeq
<1>5. text[Len(text)] # Blank
  <2> SUFFICES ASSUME text[Len(text)] = Blank
               PROVE  EndsInBlank(SkipDo(text))
    OBVIOUS
  <2> DEFINE s == SkipDo(text)
  <2>1. s \in Seq(Char) /\ Len(s) = Len(text) /\ Len(text) \in 1 .. Len(text)
    BY <1>1, <1>4, SkipDoShape
  <2>2. s[Len(text)] = Blank
    BY <2>1, SkipDoShape
  <2> HIDE DEF s
  <2>3. s # <<>> /\ Last(s) = Blank
    BY <1>4, <2>1, <2>2 DEF Last
  <2> QED
    BY <2>3 DEF EndsInBlank, s
<1>6. Len(text) = Len(o)
  <2> SUFFICES ASSUME Len(text) # Len(o)
               PROVE  FALSE
    OBVIOUS
  <2> DEFINE n == Len(text)
             h == Len(o)
  <2>1. n \in Nat /\ h \in Nat /\ n <= h /\ n # 0 /\ n # h
    BY <1>1, <1>2, <1>4
  <2> HIDE DEF n, h
  <2>2. h # 1 /\ h # 0
    BY <2>1
  <2>a. o = MarkFailToken
    <3>1. Len(<<"Invalid command.">>) = 1 /\ Len(<<Blank>>) = 1 /\ Len(<<>>) = 0
      OBVIOUS
    <3> QED
      BY <2>2, <3>1, Zenon DEF Leavings, h
  <2>3. o = <<Blank, "^">>
    BY <2>a DEF MarkFailToken
  <2>4. o[1] = Blank /\ h = 2
    BY <2>3 DEF h
  <2>b. n = 1
    BY <2>1, <2>4
  <2>5. Len(text) = 1 /\ 1 \in 1 .. Len(text)
    BY <2>b DEF n
  <2>6. text[1] = Blank
    BY <1>2, <2>4, <2>5
  <2> QED
    BY <1>5, <2>5, <2>6
<1> QED
  BY <1>1, <1>2, <1>6, SeqEqual

(* The answers that are errors: Tab need not extend the text with these.   *)
Excuses ==
  Refusal \cup {ParserErr("Invalid parameter."), <<<<"Invalid command.">>>>, <<<<Blank>>>>}

-----------------------------------------------------------------------------
(* The request itself answers with an error or with nothing, if at all.    *)
LEMMA RequestKeeps ==
  ASSUME SessionInv, NEW req \in {"exec", "query", "auto_fill"}, NEW text \in Seq(Char),
         Request(req, text)
  PROVE  TabText' /\ TabKeepsCandidates'
<1> DEFINE a == Asked(req, text)
           t == Split(text).tokens
<1>1. InitCliParserInfo(a)
  BY DEF Request, RequestIgnored, RequestInvalid, RequestFaults, RequestParses
<1>2. \/ RequestIgnored(a) \/ RequestInvalid(a)
      \/ RequestFaults(a) \/ RequestParses(a)
  BY DEF Request
<1>3. a.req = req /\ a.split = Split(text) /\ a.open = EndsInBlank(SkipDo(text))
  BY DEF Asked
<1>4. /\ cpi'.req = req /\ cpi'.cli_org = text
      /\ cpi'.last = IF TakesLast(a) THEN Last(t) ELSE <<>>
  BY <1>1, InitialRequest
<1> HIDE DEF a, t
<1>5. ASSUME req = "auto_fill", ~NothingAsked(a)
      PROVE  ~EndsInBlank(SkipDo(text)) /\ Split(text).tokens # <<>>
  BY <1>3, <1>5 DEF NothingAsked
<1>6. TabText'
  <2>1. pc' # "collect"
    BY <1>2 DEF RequestIgnored, RequestInvalid, RequestFaults, RequestParses, Answer
  <2>2. ASSUME pc' = "parse", req = "auto_fill"
        PROVE  /\ ~EndsInBlank(SkipDo(text)) /\ Split(text).tokens # <<>>
               /\ Split(text).err = NULL /\ cpi'.last = Last(Split(text).tokens)
    <3>1. RequestParses(a)
      BY <1>2, <2>2 DEF RequestIgnored, RequestInvalid, RequestFaults, Answer
    <3>2. ~NothingAsked(a) /\ Split(text).err = NULL
      BY <1>3, <3>1 DEF RequestParses
    <3>3. ~EndsInBlank(SkipDo(text)) /\ Split(text).tokens # <<>>
      BY <1>5, <2>2, <3>2
    <3>4. TakesLast(a)
      BY <1>3, <2>2, <3>3 DEF TakesLast
    <3> QED
      BY <1>4, <3>2, <3>3, <3>4 DEF t
  <2> QED
    BY <1>4, <2>1, <2>2 DEF TabText
<1>7. TabKeepsCandidates'
  <2> SUFFICES ASSUME pc' = "done", req = "auto_fill", output' # <<>>
               PROVE  IF IsPrefix(text, output'[1])
                      THEN Candidates(Split(output[1]).tokens)' = Candidates(Split(text).tokens)'
                      ELSE output' \in Excuses \/ output'[1] = <<>>
    BY <1>4 DEF TabKeepsCandidates, Excuses
  <2>1. RequestInvalid(a)
    BY <1>2 DEF RequestIgnored, RequestFaults, RequestParses, Answer
  <2>2. ~EndsInBlank(SkipDo(text)) /\ Split(text).tokens # <<>>
    BY <1>5, <2>1 DEF RequestInvalid
  <2>3. output' \in {<<<<"Invalid command.">>>>, ParserErr("Invalid command.")}
    BY <2>1 DEF RequestInvalid, Answer
  <2>4. output' \in Excuses
    BY <2>3, Zenon DEF Excuses, Refusal
  <2>5. output'[1] \in Leavings
    <3>1. <<<<"Invalid command.">>>>[1] = <<"Invalid command.">>
      OBVIOUS
    <3>2. ParserErr("Invalid command.")[1] = MarkFailToken
      BY DEF ParserErr
    <3> QED
      BY <2>3, <3>1, <3>2, Zenon DEF Leavings
  <2>6. IsPrefix(text, output'[1]) => text = output'[1]
    BY <2>2, <2>5, LeavingsApart
  <2> QED
    BY <2>4, <2>6
<1> QED
  BY <1>6, <1>7

(* A step of the parser keeps what it completes.                           *)
LEMMA ParseKeepsText ==
  ASSUME SessionInv, TabText, ParserStep
  PROVE  TabText'
<1>1. CASE TokenMatches
  <2>1. cpi \in Requests
    BY DEF SessionInv, ParserTyped
  <2>2. /\ cpi'.req = cpi.req /\ cpi'.cli_org = cpi.cli_org /\ cpi'.last = cpi.last
        /\ pc = "parse" /\ pc' = "parse"
    BY <1>1, <2>1 DEF TokenMatches, Requests
  <2> QED
    BY <2>2 DEF TabText
<1>2. CASE StartCollect \/ CollectHelpNode
  <2>1. /\ cpi' = cpi /\ pc \in {"parse", "collect"} /\ pc' = "collect"
        /\ pc = "parse" => cpi.tokens = <<>>
    BY <1>2 DEF StartCollect, CollectHelpNode
  <2> QED
    BY <2>1 DEF TabText
<1>3. CASE ~(TokenMatches \/ StartCollect \/ CollectHelpNode)
  <2>1. pc' = "done"
    BY <1>3 DEF ParserStep, TokenFails, ParamFails, ExecIncomplete, ExecCli, NoCandidate, PrintHelp,
                AutoFillOne, AutoFillCommon, AutoFillFails, Answer
  <2> QED
    BY <2>1 DEF TabText
<1> QED
  BY <1>1, <1>2, <1>3

(* The answer of the parser to Tab.                                        *)
LEMMA ParseKeeps ==
  ASSUME SessionInv, ReadSound, TabInv, TabText, UNCHANGED treeVars, ParserStep
  PROVE  TabKeepsCandidates'
<1>1. cpi \in Requests /\ cpi.cli_org \in Seq(Char)
  BY DEF SessionInv, ParserTyped, Requests
<1>2. CASE TokenMatches \/ StartCollect \/ CollectHelpNode
  <2>1. pc' # "done"
    BY <1>2 DEF TokenMatches, StartCollect, CollectHelpNode
  <2> QED
    BY <2>1 DEF TabKeepsCandidates
<1>3. CASE ~(TokenMatches \/ StartCollect \/ CollectHelpNode)
  <2>1. cpi' = cpi /\ pc \in {"parse", "collect"}
    BY <1>3 DEF ParserStep, TokenFails, ParamFails, ExecIncomplete, ExecCli, NoCandidate, PrintHelp,
                AutoFillOne, AutoFillCommon, AutoFillFails
  <2>2. \A s : Candidates(s)' = Candidates(s)
    BY <2>1 DEF Candidates, Offered, treeVars
  <2> DEFINE text == cpi.cli_org
             o == output'[1]
             Kept == IF IsPrefix(text, o)
                     THEN Candidates(Split(o).tokens) = Candidates(Split(text).tokens)
                     ELSE output' \in Excuses \/ o = <<>>
  <2>3. ASSUME cpi.req = "auto_fill", output' # <<>>
        PROVE  Kept
    <3>1. ~EndsInBlank(SkipDo(text)) /\ Split(text).tokens # <<>>
      BY <2>1, <2>3 DEF TabText
    <3>2. ASSUME o \in Leavings, output' \in Excuses \/ o = <<>>
          PROVE  Kept
      <4>1. IsPrefix(text, o) => text = o
        BY <1>1, <3>1, <3>2, LeavingsApart
      <4> QED
        BY <3>2, <4>1
    <3>3. ASSUME pc = "collect", walk = NULL, head # NULL, NEW w, Completion(w),
                 o \in {Filled(w), Append(Filled(w), Blank)}
          PROVE  Kept
      <4>1. /\ IsPrefix(text, o)
            /\ Candidates(Split(o).tokens) = Candidates(Split(text).tokens)
        BY <2>3, <3>3, FilledKeeps
      <4> QED
        BY <4>1
    <3> HIDE DEF Kept
    <3>4. CASE TokenFails \/ ParamFails
      <4>1. PICK m \in {"Unrecognized command.", "Ambiguous command.", "Invalid parameter."} :
              output' = ParserErr(m)
        BY <3>4 DEF TokenFails, ParamFails, Answer
      <4>2. ParserErr(m)[1] = MarkFailToken
        BY DEF ParserErr
      <4>3. o \in Leavings
        BY <4>1, <4>2, Zenon DEF Leavings
      <4>4. ParserErr(m) \in Excuses
        BY Zenon DEF Excuses, Refusal
      <4> QED
        BY <3>2, <4>1, <4>3, <4>4
    <3>5. CASE AutoFillOne
      <4>1. /\ pc = "collect" /\ walk = NULL /\ head # NULL /\ help_next[head] = NULL
            /\ output' = <<Append(Filled(Keyword(head)), Blank)>> \/ output' = <<<<Blank>>>>
        BY <3>5 DEF AutoFillOne, Answer
      <4>2. Completion(Keyword(head))
        BY <2>3, <4>1, FillsCompletion
      <4>3. CASE output' = <<Append(Filled(Keyword(head)), Blank)>>
        <5>1. o = Append(Filled(Keyword(head)), Blank)
          BY <4>3
        <5> QED
          BY <3>3, <4>1, <4>2, <5>1
      <4>4. CASE output' = <<<<Blank>>>>
        <5>1. o = <<Blank>>
          BY <4>4
        <5>2. o \in Leavings /\ output' \in Excuses
          BY <4>4, <5>1, Zenon DEF Leavings, Excuses
        <5> QED
          BY <3>2, <5>2
      <4> QED
        BY <4>1, <4>3, <4>4
    <3>6. CASE AutoFillCommon
      <4>1. /\ pc = "collect" /\ walk = NULL /\ head # NULL
            /\ output' = <<Filled(MakeLastFillToken), Listed>> \/ output' = <<<<>>, Listed>>
        BY <3>6 DEF AutoFillCommon, Answer
      <4>2. Completion(MakeLastFillToken)
        BY <2>3, <4>1, FillsCompletion
      <4>3. CASE output' = <<Filled(MakeLastFillToken), Listed>>
        <5>1. o = Filled(MakeLastFillToken)
          BY <4>3
        <5> QED
          BY <3>3, <4>1, <4>2, <5>1
      <4>4. CASE output' = <<<<>>, Listed>>
        <5>1. o = <<>>
          BY <4>4
        <5>2. o \in Leavings
          BY <5>1, Zenon DEF Leavings
        <5> QED
          BY <3>2, <5>1, <5>2
      <4> QED
        BY <4>1, <4>3, <4>4
    <3>7. TokenFails \/ ParamFails \/ AutoFillOne \/ AutoFillCommon
      BY <1>3, <2>3 DEF ParserStep, ExecIncomplete, ExecCli, NoCandidate, PrintHelp, AutoFillFails,
                        Answer
    <3> QED
      BY <3>4, <3>5, <3>6, <3>7
  <2> QED
    BY <2>1, <2>2, <2>3 DEF TabKeepsCandidates, Excuses
<1> QED
  BY <1>2, <1>3

(* Every step keeps both.                                                  *)
LEMMA TabNext ==
  ASSUME SessionInv, ReadSound, TabInv, TabText, TabKeepsCandidates, [Next]_sessionVars
  PROVE  TabText' /\ TabKeepsCandidates'
<1>1. ASSUME pc' = "idle"
      PROVE  TabText' /\ TabKeepsCandidates'
  BY <1>1 DEF TabText, TabKeepsCandidates
<1>2. CASE StartUp \/ InputProcessCtrlZ
  <2>1. CASE StartUp
    <3>1. stage # "ready"
      <4>1. stack # <<>> => stage = "links"
        BY DEF SessionInv, TreeInv, MergesStatic
      <4> QED
        BY <2>1, <4>1 DEF StartUp, TreeNext, InitCliMode, LinkRoot, LinkMerge, MergeReturns,
                          MergeAdds, MergeDescends, LinksDone, AddBuildinNodes,
                          SkipBuildinNodes, InitCliTreeReturns
    <3>2. pc' = "idle"
      BY <2>1, <3>1 DEF StartUp, parserVars, SessionInv, BuiltFirst
    <3> QED
      BY <1>1, <3>2
  <2>2. CASE InputProcessCtrlZ
    BY <1>1, <2>2 DEF InputProcessCtrlZ
  <2> QED
    BY <1>2, <2>1, <2>2
<1>3. CASE \/ AutotestReadChar \/ InputProcessCtrlC \/ \E text \in Typed : InputProcessText(text)
           \/ UNCHANGED sessionVars
  <2>1. UNCHANGED <<cpi, pc, output, acc, alter>>
    BY <1>3 DEF AutotestReadChar, InputProcessCtrlC, InputProcessText, parserVars, sessionVars,
                treeVars
  <2> QED
    BY <2>1 DEF TabText, TabKeepsCandidates, Candidates, Offered
<1>4. CASE AutotestRunLine \/ \E req \in {"exec", "query", "auto_fill"} : Ask(req)
  <2>1. PICK req \in {"exec", "query", "auto_fill"} : Request(req, cmd)
    BY <1>4 DEF AutotestRunLine, Ask
  <2>2. cmd \in Seq(Char)
    BY DEF SessionInv, TextSound
  <2> QED
    BY <2>1, <2>2, RequestKeeps
<1>5. CASE ExecReturns \/ QueryReturns \/ AutoFillReturns
  <2>1. pc' = "idle"
    BY <1>5 DEF ExecReturns, QueryReturns, AutoFillReturns, CleanCliParserInfo
  <2> QED
    BY <1>1, <2>1
<1>6. CASE Parse
  <2>1. UNCHANGED treeVars /\ ParserStep
    BY <1>6 DEF Parse
  <2> QED
    BY <2>1, ParseKeepsText, ParseKeeps
<1> QED
  BY <1>2, <1>3, <1>4, <1>5, <1>6 DEF Next, Computes

(* autofill_cli() and make_last_fill_token(): where no command is the
   beginning of another and parameters stand alone, whatever is typed, Tab
   excludes no command that could be meant and allows no other, unless its
   answer is an error or calloc() failed.                                  *)
THEOREM TabKeepsCandidatesAlways == Spec => []TabKeepsCandidates
<1>1. Init => TabInv /\ TabText /\ TabKeepsCandidates
  BY DEF Init, ParserInit, TabInv, TabText, TabKeepsCandidates, NoRequest
<1>2. SessionInv /\ ReadInv /\ TabInv /\ TabText /\ TabKeepsCandidates /\ [Next]_sessionVars =>
        TabInv' /\ TabText' /\ TabKeepsCandidates'
  BY TabStep, TabNext DEF ReadInv
<1> QED
  BY ReadInvAlways, <1>1, <1>2, PTL DEF Spec
=============================================================================
