--------------------------- MODULE ClockFeedProofs ---------------------------
(***************************************************************************)
(* What ClockFeed promises, for rings, windows, gaps and ages of every     *)
(* size, in five invariants, each resting on those before it.              *)
(*   PInv: rows are of the past, however torn, lost, repeated or late.     *)
(*   SInv: until a row is overwritten under a poll, a row is forgotten     *)
(*         only when neither the log nor the poll can show it again.       *)
(*   WInv: the samples in the window are of one relation of the clocks.    *)
(*   AInv: while nothing goes wrong, a reading of the reference clock's    *)
(*         present life is there, or the anchor is growing old.            *)
(*   FInv: while nothing goes wrong, the window fills with the latest      *)
(*         beacons.                                                        *)
(* Which rows Kept leaves is a recursive function of the number of rows    *)
(* looked at; what it leaves is proved by its least counterexample.        *)
(***************************************************************************)
EXTENDS ClockFeed, TLAPS, FiniteSetTheorems, WellFoundedInduction

---------------------------------------------------------------------------
(* Sequences: what Kept, Newest, Lines and Unread leave.                   *)

\* A set of naturals that is not empty has a least one.
LEMMA NatMinimal ==
    ASSUME NEW P, P \subseteq Nat, P # {}
    PROVE  \E n \in P : \A m \in P : n <= m
<1> DEFINE R == OpToRel(<, Nat)
<1>1. IsWellFoundedOn(R, Nat)
  BY NatLessThanWellFounded
<1>2. \A x, y \in Nat : <<y, x>> \in R <=> y < x
  BY DEF OpToRel
<1> HIDE DEF R
<1>3. \E x \in P : \A y \in P : ~ (<<y, x>> \in R)
  BY <1>1, WFMin
<1>4. PICK x \in P : \A y \in P : ~ (<<y, x>> \in R)
  BY <1>3
<1>5. ASSUME NEW y \in P PROVE x <= y
  <2>1. ~(y < x) BY <1>2, <1>4
  <2> QED BY <2>1
<1> QED BY <1>5

\* g holds what Kept leaves of the first n of s, for each n up to m.
Step(g, s, I, n) == IF n \in I THEN Append(g[n - 1], s[n]) ELSE g[n - 1]
Prefixes(g, s, I, m) ==
    DOMAIN g = 0 .. m /\ g[0] = <<>> /\ \A n \in 1 .. m : g[n] = Step(g, s, I, n)

\* The recursion of Kept has a solution.
LEMMA PrefixesExist ==
  ASSUME NEW S, NEW s \in Seq(S), NEW I
  PROVE  \E g : Prefixes(g, s, I, Len(s))
<1> DEFINE Bad == {m \in 0 .. Len(s) : ~ \E g : Prefixes(g, s, I, m)}
<1>0. Len(s) \in Nat OBVIOUS
<1>1. Bad = {}
  <2> SUFFICES ASSUME Bad # {} PROVE FALSE OBVIOUS
  <2>0. Bad \subseteq Nat OBVIOUS
  <2>1. PICK m \in Bad : \A n \in Bad : m <= n
    <3> HIDE DEF Bad
    <3> QED BY NatMinimal, <2>0
  <2>a. m \in 0 .. Len(s) /\ ~ \E g : Prefixes(g, s, I, m) OBVIOUS
  <2>2. m # 0
    <3>1. Prefixes([i \in 0 .. 0 |-> <<>>], s, I, 0)
      BY DEF Prefixes
    <3> QED BY <3>1, <2>a
  <2>3. m - 1 \in 0 .. Len(s) /\ m \in 1 .. Len(s)
    BY <2>2, <2>a
  <2>4. PICK g : Prefixes(g, s, I, m - 1)
    BY <2>1, <2>3
  <2> DEFINE h == [i \in 0 .. m |-> IF i = m THEN Step(g, s, I, m) ELSE g[i]]
  <2>5. Prefixes(h, s, I, m)
     <3>1. DOMAIN h = 0 .. m /\ h[0] = <<>>
        BY <2>3, <2>4 DEF Prefixes
     <3>2. ASSUME NEW n \in 1 .. m PROVE h[n] = Step(h, s, I, n)
        <4>1. h[n-1] = g[n-1] BY <2>3
        <4>2. CASE n = m BY <4>1, <4>2, <2>3 DEF Step
        <4>3. CASE n # m 
           <5>1. n \in 1 .. m-1 /\ h[n] = g[n] BY <4>3, <2>3
           <5> QED BY <4>1, <5>1, <2>4 DEF Step, Prefixes
        <4> QED BY <4>2, <4>3
     <3> QED BY <3>1, <3>2 DEF Prefixes
  <2> QED BY <2>5, <2>a
<1> QED BY <1>0, <1>1

\* The recursion, one step at a time.
LEMMA KeptUnfolds ==
  ASSUME NEW S, NEW s \in Seq(S), NEW I
  PROVE  \E g : Prefixes(g, s, I, Len(s)) /\ Kept(s, I) = g[Len(s)]
<1>0. Len(s) \in Nat OBVIOUS
<1>2. PICK g : Prefixes(g, s, I, Len(s))
  BY PrefixesExist
<1> DEFINE w == [n \in 0 .. Len(s) |-> g[n]]
<1> DEFINE Body(x, n) == IF n = 0 THEN <<>> ELSE IF n \in I THEN Append(x[n-1], s[n]) ELSE x[n-1]
<1> DEFINE Eq(x) == x = [n \in 0 .. Len(s) |-> Body(x, n)]
<1>3. Eq(w)
  <2>1. ASSUME NEW n \in 0 .. Len(s) PROVE w[n] = Body(w, n)
    <3>1. CASE n = 0 BY <1>2, <3>1 DEF Prefixes
    <3>2. CASE n # 0
      <4>1. n \in 1 .. Len(s) /\ n - 1 \in 0 .. Len(s) BY <1>0, <3>2
      <4>2. w[n] = g[n] /\ w[n-1] = g[n-1] BY <4>1
      <4>3. g[n] = Step(g, s, I, n) BY <4>1, <1>2 DEF Prefixes
      <4> QED BY <4>2, <4>3, <3>2 DEF Step
    <3> QED BY <3>1, <3>2
  <2> HIDE DEF Body
  <2> QED BY <2>1
<1> DEFINE f == CHOOSE x : Eq(x)
<1> HIDE DEF Eq
<1>4. Eq(f) BY <1>3
<1> HIDE DEF f, w
<1>5. Prefixes(f, s, I, Len(s))
  <2>0. f = [n \in 0 .. Len(s) |-> Body(f, n)] BY <1>4 DEF Eq
  <2> HIDE DEF Body
  <2>1. DOMAIN f = 0 .. Len(s) /\ \A n \in 0 .. Len(s) : f[n] = Body(f, n) BY <2>0
  <2>2. f[0] = <<>> BY <1>0, <2>1 DEF Body
  <2>3. ASSUME NEW n \in 1 .. Len(s) PROVE f[n] = Step(f, s, I, n)
    <3>1. n \in 0 .. Len(s) /\ n # 0 BY <1>0
    <3>2. f[n] = Body(f, n) BY <2>1, <3>1
    <3> QED BY <3>1, <3>2 DEF Body, Step
  <2> QED BY <2>1, <2>2, <2>3 DEF Prefixes
<1>8. Kept(s, I) = f[Len(s)] BY DEF Kept, f, Eq, Body
<1> QED BY <1>5, <1>8

\* The places in s, up to m, of the elements of t: those in I, in order.
Places(at, t, s, I, m) ==
    /\ at \in [1 .. Len(t) -> 1 .. m]
    /\ \A k \in 1 .. Len(t) : at[k] \in I /\ t[k] = s[at[k]]
    /\ \A j, k \in 1 .. Len(t) : j < k => at[j] < at[k]
    /\ \A i \in 1 .. m : i \in I => \E k \in 1 .. Len(t) : at[k] = i

LEMMA KeptPlaces ==
  ASSUME NEW S, NEW s \in Seq(S), NEW I
  PROVE  Kept(s, I) \in Seq(S) /\ \E at : Places(at, Kept(s, I), s, I, Len(s))
<1> PICK g : Prefixes(g, s, I, Len(s)) /\ Kept(s, I) = g[Len(s)]
  BY KeptUnfolds
<1> DEFINE Fine(m) == g[m] \in Seq(S) /\ \E at : Places(at, g[m], s, I, m)
<1> DEFINE Bad == {m \in 0 .. Len(s) : ~Fine(m)}
<1>0. Len(s) \in Nat OBVIOUS
<1>1. Bad = {}
  <2> SUFFICES ASSUME Bad # {} PROVE FALSE OBVIOUS
  <2>0. Bad \subseteq Nat OBVIOUS
  <2>1. PICK m \in Bad : \A n \in Bad : m <= n
    <3> HIDE DEF Bad
    <3> QED BY NatMinimal, <2>0
  <2>a. m \in 0 .. Len(s) /\ ~Fine(m) OBVIOUS
  <2>2. m # 0
    <3>1. g[0] = <<>> BY DEF Prefixes
    <3>2. Places(<<>>, <<>>, s, I, 0) BY DEF Places
    <3>3. Fine(0) BY <3>1, <3>2
    <3> QED BY <3>3, <2>a
  <2>3. m - 1 \in 0 .. Len(s) /\ m \in 1 .. Len(s)
    BY <2>2, <2>a
  <2>4. Fine(m - 1)
    <3>1. m - 1 \notin Bad
      <4> HIDE DEF Bad
      <4> QED BY <2>1, <2>3
    <3> HIDE DEF Fine
    <3> QED BY <3>1, <2>3
  <2>5. PICK at : Places(at, g[m-1], s, I, m - 1)
    BY <2>4
  <2>6. g[m] = Step(g, s, I, m)
    BY <2>3 DEF Prefixes
  <2> DEFINE t == g[m-1]
  <2>t. t \in Seq(S) /\ s[m] \in S /\ Len(t) \in Nat
    BY <2>4, <2>3
  <2>7. CASE m \notin I
    <3>1. g[m] = t BY <2>6, <2>7 DEF Step
    <3>2. Places(at, t, s, I, m)
      BY <2>5, <2>3, <2>7 DEF Places
    <3> QED BY <3>1, <3>2, <2>t, <2>a
  <2>8. CASE m \in I
    <3> DEFINE u == Append(t, s[m])
    <3>1. g[m] = u BY <2>6, <2>8 DEF Step
    <3>2. u \in Seq(S) /\ Len(u) = Len(t) + 1 /\ u[Len(t) + 1] = s[m]
          /\ \A k \in 1 .. Len(t) : u[k] = t[k]
      BY <2>t
    <3> DEFINE b == [k \in 1 .. Len(t) + 1 |-> IF k = Len(t) + 1 THEN m ELSE at[k]]
    <3>3. Places(b, u, s, I, m)
      <4>1. b \in [1 .. Len(u) -> 1 .. m]
        BY <3>2, <2>5, <2>3, <2>t DEF Places
      <4>2. \A k \in 1 .. Len(u) : b[k] \in I /\ u[k] = s[b[k]]
        BY <3>2, <2>5, <2>3, <2>t, <2>8 DEF Places
      <4>3. \A j, k \in 1 .. Len(u) : j < k => b[j] < b[k]
        BY <3>2, <2>5, <2>3, <2>t DEF Places
      <4>4. ASSUME NEW i \in 1 .. m, i \in I PROVE \E k \in 1 .. Len(u) : b[k] = i
        <5>1. CASE i = m BY <5>1, <3>2, <2>t
        <5>2. CASE i # m
          <6>1. PICK k \in 1 .. Len(t) : at[k] = i
            BY <5>2, <4>4, <2>3, <2>5 DEF Places
          <6>2. k \in 1 .. Len(u) /\ b[k] = i BY <6>1, <2>t, <3>2
          <6> QED BY <6>2
        <5> QED BY <5>1, <5>2
      <4> HIDE DEF b, u
      <4> QED BY <4>1, <4>2, <4>3, <4>4 DEF Places
    <3> QED BY <3>1, <3>2, <3>3, <2>a
  <2> QED BY <2>7, <2>8
<1>2. Fine(Len(s)) BY <1>0, <1>1
<1> QED BY <1>2

\* What is in I at the end stays at the end, in its order.
LEMMA KeptSuffix ==
  ASSUME NEW S, NEW s \in Seq(S), NEW I, NEW n \in Nat, n <= Len(s),
         \A i \in 0 .. n - 1 : Len(s) - i \in I
  PROVE  Len(Kept(s, I)) >= n /\ \A i \in 0 .. n - 1 : Kept(s, I)[Len(Kept(s, I)) - i] = s[Len(s) - i]
<1> DEFINE t == Kept(s, I)
<1>1. t \in Seq(S) /\ Len(t) \in Nat /\ Len(s) \in Nat BY KeptPlaces
<1>2. PICK at : Places(at, t, s, I, Len(s)) BY KeptPlaces
<1> HIDE DEF t
<1> DEFINE Right(i) == i < Len(t) /\ at[Len(t) - i] = Len(s) - i
           Bad == {i \in 0 .. n - 1 : ~Right(i)}
<1>3. Bad = {}
  <2> SUFFICES ASSUME Bad # {} PROVE FALSE OBVIOUS
  <2>0. Bad \subseteq Nat OBVIOUS
  <2>1. PICK i \in Bad : \A j \in Bad : i <= j
    <3> HIDE DEF Bad
    <3> QED BY NatMinimal, <2>0
  <2>2. i \in 0 .. n - 1 /\ ~Right(i) OBVIOUS
  <2>3. Len(s) - i \in 1 .. Len(s) /\ Len(s) - i \in I BY <2>2, <1>1
  <2>4. PICK p \in 1 .. Len(t) : at[p] = Len(s) - i
    BY <2>3, <1>2 DEF Places
  <2>5. CASE i = 0
    <3>1. p = Len(t)
      <4> SUFFICES ASSUME p < Len(t) PROVE FALSE BY <1>1
      <4>1. at[p] < at[Len(t)] /\ at[Len(t)] \in 1 .. Len(s) BY <1>1, <1>2 DEF Places
      <4> QED BY <4>1, <2>4, <2>5, <1>1
    <3> QED BY <3>1, <2>2, <2>4, <2>5, <1>1
  <2>6. CASE i # 0
    <3>1. i - 1 \in 0 .. n - 1 /\ Right(i - 1)
      <4>1. i - 1 \in 0 .. n - 1 /\ ~(i <= i - 1) BY <2>6, <2>2
      <4>2. i - 1 \notin Bad
        <5> HIDE DEF Bad
        <5> QED BY <2>1, <4>1
      <4> HIDE DEF Right
      <4> QED BY <4>1, <4>2
    <3> DEFINE q == Len(t) - (i - 1)
    <3>2. q \in 1 .. Len(t) /\ at[q] = Len(s) - (i - 1) BY <3>1, <1>1
    <3>3. p < q
      <4> SUFFICES ASSUME ~(p < q) PROVE FALSE OBVIOUS
      <4>1. p = q \/ q < p BY <3>2
      <4>2. CASE p = q BY <4>2, <3>2, <2>4, <1>1
      <4>3. CASE q < p
        <5>1. at[q] < at[p] BY <4>3, <3>2, <1>2 DEF Places
        <5> QED BY <5>1, <3>2, <2>4, <1>1
      <4> QED BY <4>1, <4>2, <4>3
    <3>4. p = q - 1
      <4> SUFFICES ASSUME p < q - 1 PROVE FALSE BY <3>2, <3>3
      <4>0. q \in 1 .. Len(t) /\ p \in 1 .. Len(t) BY <3>2
      <4> HIDE DEF q
      <4>1. q - 1 \in 1 .. Len(t) /\ q - 1 < q BY <4>0
      <4>2. at[p] < at[q - 1] /\ at[q - 1] < at[q] /\ at[q - 1] \in 1 .. Len(s)
        BY <4>0, <4>1, <1>2 DEF Places
      <4> QED BY <4>2, <3>2, <2>4, <1>1
    <3> QED BY <3>4, <3>2, <2>4, <2>2, <1>1
  <2> QED BY <2>5, <2>6
<1>4. \A i \in 0 .. n - 1 : Right(i) BY <1>3
<1>5. Len(t) >= n
  <2>1. CASE n = 0 BY <2>1, <1>1
  <2>2. CASE n # 0
    <3>1. Right(n - 1) BY <2>2, <1>4
    <3> QED BY <3>1, <1>1
  <2> QED BY <2>1, <2>2
<1>6. ASSUME NEW i \in 0 .. n - 1 PROVE t[Len(t) - i] = s[Len(s) - i]
  <2>1. Right(i) BY <1>4
  <2>2. Len(t) - i \in 1 .. Len(t) BY <2>1, <1>1
  <2> QED BY <2>1, <2>2, <1>2 DEF Places
<1> QED BY <1>5, <1>6 DEF t

---------------------------------------------------------------------------
(* Rows and where they come from. *)

Row == [x : Nat, y : Nat, life : Int, whole : BOOLEAN]
Times(k) == k[1] + k[2]

LEMMA SeqWidens ==
    ASSUME NEW G, NEW H, G \subseteq H, NEW s \in Seq(G)
    PROVE  s \in Seq(H)
OBVIOUS

\* t is s with r at its end, and perhaps without its first.
Shifted(t, s, r) ==
    \E d \in {0, 1} :
        /\ Len(t) = Len(s) + 1 - d
        /\ \A i \in 1 .. Len(t) : t[i] = IF i + d = Len(s) + 1 THEN r ELSE s[i + d]

\* The newest n once r is appended: r is last, and at most the first is gone.
LEMMA NewestAppend ==
    ASSUME NEW G, NEW s \in Seq(G), NEW r \in G, NEW n \in Nat \ {0}, Len(s) <= n
    PROVE  LET t == Newest(Append(s, r), n)
           IN  t \in Seq(G) /\ Len(t) \in 1 .. n /\ Shifted(t, s, r)
<1> DEFINE u == Append(s, r)
<1>1. u \in Seq(G) /\ Len(u) = Len(s) + 1 /\ Len(s) \in Nat
      /\ \A i \in 1 .. Len(u) : u[i] = IF i = Len(s) + 1 THEN r ELSE s[i]
  OBVIOUS
<1> HIDE DEF u
<1>2. CASE Len(u) <= n
  <2>1. Newest(u, n) = u
    <3>1. ~(Len(u) > n) BY <1>2, <1>1
    <3>2. Newest(u, n) = SubSeq(u, 1, Len(u)) BY <3>1, Zenon DEF Newest
    <3> QED BY <3>2, <1>1
  <2>2. Len(u) = Len(s) + 1 - 0 /\ \A i \in 1 .. Len(u) : i + 0 = i BY <1>1
  <2> QED BY <2>1, <2>2, <1>1, <1>2 DEF u, Shifted
<1>3. CASE Len(u) > n
  <2>1. Len(s) = n BY <1>1, <1>3
  <2>2. Newest(u, n) = SubSeq(u, 2, n + 1)
    <3>1. Len(u) > n /\ Len(u) - n + 1 = 2 /\ Len(u) = n + 1 BY <2>1, <1>1, <1>3
    <3> QED BY <3>1 DEF Newest
  <2>3. SubSeq(u, 2, n + 1) \in Seq(G) /\ Len(SubSeq(u, 2, n + 1)) = n
        /\ \A i \in 1 .. n : SubSeq(u, 2, n + 1)[i] = u[i + 1]
    BY <2>1, <1>1
  <2> QED BY <2>1, <2>2, <2>3, <1>1 DEF u, Shifted
<1> QED BY <1>1, <1>2, <1>3

\* Nothing is cut while there is room.
LEMMA NewestFits ==
    ASSUME NEW G, NEW s \in Seq(G), NEW r \in G, NEW n \in Nat \ {0}, Len(s) < n
    PROVE  LET t == Newest(Append(s, r), n)
           IN  Len(t) = Len(s) + 1 /\ \A i \in 1 .. Len(s) : t[i] = s[i]
<1> DEFINE u == Append(s, r)
<1>1. u \in Seq(G) /\ Len(u) = Len(s) + 1 /\ Len(s) \in Nat
      /\ \A i \in 1 .. Len(s) : u[i] = s[i]
  OBVIOUS
<1> HIDE DEF u
<1>2. ~(Len(u) > n) BY <1>1
<1>3. Newest(u, n) = SubSeq(u, 1, Len(u)) BY <1>2, Zenon DEF Newest
<1>4. SubSeq(u, 1, Len(u)) = u BY <1>1
<1> QED BY <1>1, <1>3, <1>4 DEF u

\* The driver prints each row as two halves.
LEMMA TextOf ==
    ASSUME NEW G, log \in Seq(G)
    PROVE  Text \in Seq(G) /\ Len(Text) = 2 * Len(log)
           /\ \A j \in 1 .. 2 * Len(log) : Text[j] = log[(j + 1) \div 2]
<1>1. Len(log) \in Nat OBVIOUS
<1>2. \A j \in 1 .. 2 * Len(log) : (j + 1) \div 2 \in 1 .. Len(log) BY <1>1
<1> QED BY <1>1, <1>2 DEF Text

\* A line is of two halves of what was read.
LEMMA LinesOf ==
    ASSUME text \in Seq(Row)
    PROVE  Lines \in Seq(Row) /\ Len(Lines) = Len(text) \div 2
           /\ \A i \in 1 .. Len(text) \div 2 :
                /\ 2 * i \in 1 .. Len(text) /\ 2 * i - 1 \in 1 .. Len(text)
                /\ Key(Lines[i]) = Key(text[2 * i])
                /\ text[2 * i] = text[2 * i - 1] /\ text[2 * i].whole => Lines[i] = text[2 * i]
<1> DEFINE n == Len(text) \div 2
<1>1. Len(text) \in Nat /\ n \in Nat OBVIOUS
<1>2. \A i \in 1 .. n : 2 * i \in 1 .. Len(text) /\ 2 * i - 1 \in 1 .. Len(text) BY <1>1
<1>3. ASSUME NEW i \in 1 .. n
      PROVE  /\ Lines[i] \in Row
             /\ Key(Lines[i]) = Key(text[2 * i])
             /\ text[2 * i] = text[2 * i - 1] /\ text[2 * i].whole => Lines[i] = text[2 * i]
  <2> DEFINE a == text[2 * i]
             b == text[2 * i - 1]
  <2>1. a \in Row /\ b \in Row BY <1>2
  <2>2. Lines[i] = [a EXCEPT !.y = b.y, !.whole = a = b] BY DEF Lines
  <2> HIDE DEF a, b
  <2>3. Lines[i] \in Row BY <2>1, <2>2 DEF Row
  <2>4. Lines[i].x = a.x /\ Lines[i].life = a.life BY <2>1, <2>2 DEF Row
  <2>5. a = b /\ a.whole => Lines[i] = a BY <2>1, <2>2 DEF Row
  <2> QED BY <2>3, <2>4, <2>5 DEF Key, a, b
<1>4. Lines = [i \in 1 .. n |-> Lines[i]] /\ Lines \in [1 .. n -> Row] BY <1>3 DEF Lines
<1>5. Lines \in Seq(Row) /\ Len(Lines) = n BY <1>1, <1>4
<1> QED BY <1>2, <1>3, <1>5

\* What is new of a poll: rows of it, of every key that was not seen.
LEMMA UnreadOf ==
    ASSUME NEW G, NEW rows \in Seq(G)
    PROVE  LET fresh == Unread(rows)
           IN  /\ fresh \in Seq(G)
               /\ \A i \in DOMAIN fresh : \E j \in DOMAIN rows :
                     fresh[i] = rows[j] /\ Key(rows[j]) \notin seen
               /\ \A j \in DOMAIN rows : Key(rows[j]) \notin seen =>
                     \E i \in DOMAIN fresh : fresh[i] = rows[j]
               /\ Keys(fresh) = Keys(rows) \ seen
<1> DEFINE I == {i \in DOMAIN rows : Key(rows[i]) \notin seen}
           fresh == Kept(rows, I)
<1>1. Unread(rows) = fresh BY DEF Unread
<1>2. fresh \in Seq(G) /\ \E at : Places(at, fresh, rows, I, Len(rows))
  BY KeptPlaces
<1>3. PICK at : Places(at, fresh, rows, I, Len(rows)) BY <1>2
<1>a. DOMAIN fresh = 1 .. Len(fresh) /\ DOMAIN rows = 1 .. Len(rows) BY <1>2
<1> HIDE DEF fresh
<1>4. \A i \in DOMAIN fresh : \E j \in DOMAIN rows :
         fresh[i] = rows[j] /\ Key(rows[j]) \notin seen
  BY <1>a, <1>3 DEF Places
<1>5. \A j \in DOMAIN rows : Key(rows[j]) \notin seen =>
         \E i \in DOMAIN fresh : fresh[i] = rows[j]
  BY <1>a, <1>3 DEF Places
<1>6. Keys(fresh) = Keys(rows) \ seen
  BY <1>4, <1>5 DEF Keys
<1> QED BY <1>1, <1>2, <1>4, <1>5, <1>6

LEMMA AddedOf ==
    ASSUME NEW G, samples \in Seq(G), NEW r \in G
    PROVE  Added(r) \in Seq(G)
<1> DEFINE all == Append(samples, r)
<1>1. all \in Seq(G) /\ <<r>> \in Seq(G) OBVIOUS
<1>2. InWindow(all, r.x) \in Seq(G) BY <1>1, KeptPlaces DEF InWindow
<1> QED BY <1>1, <1>2 DEF Added

\* A read appends what the driver prints from the offset reached.
LEMMA ReadMore ==
    ASSUME NEW G, log \in Seq(G), text \in Seq(G), Read
    PROVE  /\ text' \in Seq(G) /\ Len(text') \in Len(text) + 1 .. Len(Text)
           /\ Len(text') = Len(Text) \/ Len(text') = Len(text) + Chunk
           /\ \A j \in 1 .. Len(text') :
                 text'[j] = IF j <= Len(text) THEN text[j] ELSE log[(j + 1) \div 2]
<1> DEFINE m == Len(text)
           n == IF m + Chunk < Len(Text) THEN m + Chunk ELSE Len(Text)
           more == SubSeq(Text, m + 1, n)
<1>1. Text \in Seq(G) /\ Len(Text) = 2 * Len(log) /\ Len(log) \in Nat /\ m \in Nat
      /\ \A j \in 1 .. 2 * Len(log) : Text[j] = log[(j + 1) \div 2]
  BY TextOf
<1>2. n \in m + 1 .. Len(Text) /\ (n = Len(Text) \/ n = m + Chunk)
  BY <1>1, FeedAssumption DEF Read
<1>3. text' = text \o more BY DEF Read
<1> HIDE DEF n
<1>4. more \in Seq(G) /\ Len(more) = n - m
      /\ \A j \in 1 .. n - m : more[j] = Text[m + j]
  <2> DEFINE t == Text
  <2>1. t \in Seq(G) /\ n \in m + 1 .. Len(t) /\ m \in Nat /\ n \in Nat BY <1>1, <1>2
  <2> HIDE DEF t
  <2>2. SubSeq(t, m + 1, n) \in Seq(G) /\ Len(SubSeq(t, m + 1, n)) = n - m
        /\ \A j \in 1 .. n - m : SubSeq(t, m + 1, n)[j] = t[m + j]
    BY <2>1
  <2> QED BY <2>2 DEF t
<1> HIDE DEF more
<1>5. Len(text') = n /\ text' \in Seq(G) BY <1>3, <1>4, <1>1, <1>2
<1>6. ASSUME NEW j \in 1 .. n
      PROVE  text'[j] = IF j <= m THEN text[j] ELSE log[(j + 1) \div 2]
  <2>1. CASE j <= m BY <2>1, <1>3, <1>4, <1>1, <1>2
  <2>2. CASE j > m
    <3>1. text'[j] = more[j - m] BY <2>2, <1>3, <1>4, <1>1, <1>2
    <3>2. j - m \in 1 .. n - m /\ m + (j - m) = j BY <2>2, <1>1, <1>2
    <3>3. more[j - m] = Text[j] BY <3>2, <1>4
    <3> QED BY <3>1, <3>3, <2>2, <1>1, <1>2
  <2> QED BY <2>1, <2>2, <1>1
<1> QED BY <1>1, <1>2, <1>5, <1>6

\* What every row has, if what is heard has it and a line read has it, every
\* row has after a step.
LEMMA RowsFlow ==
    ASSUME NEW G,
           log \in Seq(G), text \in Seq(G), bus \in Seq(G), samples \in Seq(G),
           Lines \in Seq(G), Len(log) <= LogMax,
           \A heard \in BOOLEAN : Tick(heard) /\ heard => Heard(now + 1) \in G,
           [Next]_vars
    PROVE  log' \in Seq(G) /\ text' \in Seq(G) /\ bus' \in Seq(G) /\ samples' \in Seq(G)
<1>0. <<>> \in Seq(G) OBVIOUS
<1>1. ASSUME NEW heard \in BOOLEAN, Tick(heard) PROVE log' \in Seq(G) /\ UNCHANGED <<text, bus, samples>>
  <2>1. UNCHANGED <<text, bus, samples>> BY <1>1 DEF Tick, agentVars
  <2>2. CASE heard
    <3>1. log' = Newest(Append(log, Heard(now + 1)), LogMax) BY <1>1, <2>2 DEF Tick
    <3> QED BY <3>1, <2>1, <2>2, <1>1, NewestAppend, FeedAssumption
  <2>3. CASE ~heard BY <2>1, <2>3, <1>1 DEF Tick
  <2> QED BY <2>2, <2>3
<1>2. ASSUME NEW c \in Clocks, ClockReset(c) PROVE UNCHANGED <<log, text, bus, samples>>
  BY <1>2 DEF ClockReset, agentVars
<1>3. CASE Read
  <2>1. UNCHANGED <<log, bus, samples>> BY <1>3 DEF Read
  <2> QED BY <1>3, <2>1, ReadMore
<1>4. CASE Forward
  <2>1. Rows \in Seq(G) BY DEF Rows
  <2>2. Unread(Rows) \in Seq(G) BY <2>1, UnreadOf
  <2> DEFINE fresh == Unread(Rows)
  <2>3. bus' = bus \/ bus' = bus \o fresh BY <1>4 DEF Forward
  <2> HIDE DEF fresh
  <2>a. fresh \in Seq(G) BY <2>2 DEF fresh
  <2>b. bus \o fresh \in Seq(G) BY <2>a
  <2>4. bus' \in Seq(G) BY <2>b, <2>3
  <2>5. text' = <<>> /\ (log' = <<>> \/ log' = log) /\ samples' = samples
    BY <1>4 DEF Forward
  <2> QED BY <2>4, <2>5, <1>0
<1>5. CASE AgentRestart BY <1>5, <1>0 DEF AgentRestart
<1>6. CASE Observe
  <2>1. Head(bus) \in G /\ Tail(bus) \in Seq(G) BY <1>6 DEF Observe
  <2>2. Added(Head(bus)) \in Seq(G) BY <2>1, AddedOf
  <2> QED BY <2>1, <2>2, <1>6 DEF Observe, Arrives, agentVars
<1>7. CASE UNCHANGED vars BY <1>7 DEF vars, agentVars
<1> QED BY <1>1, <1>2, <1>3, <1>4, <1>5, <1>6, <1>7 DEF Next

---------------------------------------------------------------------------
(* What needs no premise: whatever is torn, lost, repeated or delayed.     *)

Past(n) == {r \in Row : HeardAt(r) \in 0 .. n}
PastKeys(n) == {k \in Nat \X Int : Times(k) \in 0 .. n}
Readings == [value : Nat, at : Nat, born : Int]

ClocksPast ==
    /\ now \in 0 .. MaxNow
    /\ born \in [Clocks -> Int] /\ \A c \in Clocks : born[c] <= now
    /\ drains \in BOOLEAN /\ reference \in Clocks
    /\ calm \in 0 .. now /\ resets \in 0 .. MaxResets /\ faults \in 0 .. MaxFaults

RowsPast ==
    /\ log \in Seq(Past(now)) /\ text \in Seq(Past(now))
    /\ bus \in Seq(Past(now)) /\ samples \in Seq(Past(now))
    /\ Len(log) <= LogMax /\ Len(text) <= 2 * LogMax

KeysPast ==
    /\ seen \subseteq sent /\ sent \subseteq PastKeys(now)
    /\ IsFiniteSet(seen) /\ Cardinality(seen) <= SeenMax

AnchorPast ==
    anchor # NoAnchor =>
        anchor \in Readings /\ anchor.value + anchor.born <= anchor.at /\ anchor.at <= now

PInv == ClocksPast /\ RowsPast /\ KeysPast /\ AnchorPast

LEMMA KeysOf ==
    ASSUME NEW n \in Nat, NEW s \in Seq(Past(n))
    PROVE  /\ Keys(s) \subseteq PastKeys(n)
           /\ IsFiniteSet(Keys(s)) /\ Cardinality(Keys(s)) \in Nat
           /\ Cardinality(Keys(s)) <= Len(s)
<1>1. \A i \in DOMAIN s : s[i] \in Past(n) OBVIOUS
<1>2. Keys(s) \subseteq PastKeys(n)
  BY <1>1 DEF Keys, Key, PastKeys, Past, Row, HeardAt, Times
<1>3. DOMAIN s = 1 .. Len(s) /\ Len(s) \in Nat OBVIOUS
<1>4. IsFiniteSet(DOMAIN s) /\ Cardinality(DOMAIN s) = Len(s)
  <2> DEFINE m == Len(s)
  <2>1. m \in Nat /\ DOMAIN s = 1 .. m BY <1>3
  <2> HIDE DEF m
  <2>2. IsFiniteSet(1 .. m) /\ Cardinality(1 .. m) = IF 1 > m THEN 0 ELSE m - 1 + 1
    BY <2>1, FS_Interval
  <2>3. Cardinality(1 .. m) = m BY <2>1, <2>2
  <2> QED BY <2>1, <2>2, <2>3 DEF m
<1> DEFINE f == [i \in DOMAIN s |-> Key(s[i])]
<1>5. f \in Surjection(DOMAIN s, Keys(s)) BY DEF Surjection, Keys
<1>6. IsFiniteSet(Keys(s)) /\ Cardinality(Keys(s)) <= Cardinality(DOMAIN s)
  BY <1>4, <1>5, FS_Surjection
<1>7. Cardinality(Keys(s)) \in Nat BY <1>6, FS_CardinalityType
<1> QED BY <1>2, <1>4, <1>6, <1>7

LEMMA HeardRow ==
    ASSUME ClocksPast, NEW t \in Nat, t >= now
    PROVE  Heard(t) \in Row /\ HeardAt(Heard(t)) = t /\ Relation(Heard(t)) = born["hearer"] - born["sender"]
  BY DEF ClocksPast, Heard, Row, HeardAt, Relation, Clocks

\* A line is dated as its second half.
LEMMA LinesPast ==
    ASSUME NEW n \in Nat, text \in Seq(Past(n))
    PROVE  Lines \in Seq(Past(n)) /\ Len(Lines) = Len(text) \div 2
<1>1. text \in Seq(Row) BY DEF Past
<1>2. Lines \in Seq(Row) /\ Len(Lines) = Len(text) \div 2 BY <1>1, LinesOf
<1>3. ASSUME NEW i \in 1 .. Len(Lines) PROVE HeardAt(Lines[i]) \in 0 .. n
  <2>1. 2 * i \in 1 .. Len(text) /\ Key(Lines[i]) = Key(text[2 * i]) BY <1>1, <1>2, <1>3, LinesOf
  <2>2. text[2 * i] \in Past(n) BY <2>1
  <2>3. Lines[i].x = text[2 * i].x /\ Lines[i].life = text[2 * i].life BY <2>1 DEF Key
  <2> QED BY <2>2, <2>3 DEF Past, HeardAt
<1>4. \A i \in 1 .. Len(Lines) : Lines[i] \in Past(n) BY <1>2, <1>3 DEF Past
<1> QED BY <1>2, <1>4

LEMMA ClocksPastKept == ASSUME PInv, [Next]_vars PROVE ClocksPast'
<1> USE FeedAssumption DEF PInv, ClocksPast
<1>1. ASSUME NEW heard \in BOOLEAN, Tick(heard) PROVE ClocksPast'
  BY <1>1 DEF Tick, setting, agentVars
<1>2. ASSUME NEW c \in Clocks, ClockReset(c) PROVE ClocksPast'
  BY <1>2 DEF ClockReset, setting, agentVars, Clocks
<1>3. CASE Read BY <1>3 DEF Read, clockVars, setting
<1>4. CASE Forward
  <2>1. UNCHANGED <<now, born, drains, reference, resets>> BY <1>4 DEF Forward, setting
  <2>2. (calm' = calm /\ faults' = faults) \/ (calm' = 0 /\ faults' = faults + 1 /\ faults < MaxFaults)
    BY <1>4 DEF Forward
  <2> QED BY <2>1, <2>2
<1>5. CASE AgentRestart BY <1>5 DEF AgentRestart, setting
<1>6. CASE Observe BY <1>6 DEF Observe, clockVars, setting, agentVars
<1>7. CASE UNCHANGED vars BY <1>7 DEF vars, clockVars, setting, agentVars
<1> QED BY <1>1, <1>2, <1>3, <1>4, <1>5, <1>6, <1>7 DEF Next

LEMMA NowGrows == ASSUME PInv, [Next]_vars PROVE now' \in Nat /\ now <= now' /\ now \in Nat
<1>0. now \in Nat BY FeedAssumption DEF PInv, ClocksPast
<1>1. now' = now \/ now' = now + 1
  BY DEF Next, Tick, ClockReset, Read, Forward, AgentRestart, Observe, vars, clockVars
<1> QED BY <1>0, <1>1

LEMMA RowsPastKept == ASSUME PInv, [Next]_vars PROVE RowsPast'
<1> DEFINE G == Past(now')
<1>0. now' \in Nat /\ now <= now' /\ now \in Nat BY NowGrows
<1>1. Past(now) \subseteq G BY <1>0 DEF Past
<1>2. log \in Seq(G) /\ text \in Seq(G) /\ bus \in Seq(G) /\ samples \in Seq(G)
  <2> HIDE DEF G
  <2> QED BY <1>1, SeqWidens DEF PInv, RowsPast
<1>3. Lines \in Seq(G) BY <1>0, <1>2, LinesPast
<1>4. ASSUME NEW heard \in BOOLEAN, Tick(heard) PROVE Heard(now + 1) \in G
  <2>1. now' = now + 1 BY <1>4 DEF Tick
  <2>2. Heard(now + 1) \in Row /\ HeardAt(Heard(now + 1)) = now + 1
    BY <1>0, HeardRow DEF PInv
  <2> QED BY <1>0, <2>1, <2>2 DEF Past
<1>5. log' \in Seq(G) /\ text' \in Seq(G) /\ bus' \in Seq(G) /\ samples' \in Seq(G)
  <2> HIDE DEF G
  <2> QED BY <1>2, <1>3, <1>4, RowsFlow DEF PInv, RowsPast
<1>6. Len(log') <= LogMax
  <2> USE FeedAssumption
  <2>1. ASSUME NEW heard \in BOOLEAN, Tick(heard) PROVE Len(log') <= LogMax
    <3>1. CASE heard
      <4>1. log' = Newest(Append(log, Heard(now + 1)), LogMax) BY <2>1, <3>1 DEF Tick
      <4>2. Heard(now + 1) \in G /\ LogMax \in Nat \ {0} /\ Len(log) <= LogMax
        BY <1>4, <2>1 DEF PInv, RowsPast
      <4>3. Len(log') \in 1 .. LogMax
        <5> HIDE DEF G
        <5> QED BY <4>1, <4>2, <1>2, NewestAppend
      <4> QED BY <4>3
    <3>2. CASE ~heard BY <2>1, <3>2 DEF Tick, PInv, RowsPast
    <3> QED BY <3>1, <3>2
  <2>2. CASE UNCHANGED log BY <2>2 DEF PInv, RowsPast
  <2>3. CASE log' = <<>> BY <2>3
  <2>4. (\E heard \in BOOLEAN : Tick(heard)) \/ UNCHANGED log \/ log' = <<>>
    BY DEF Next, ClockReset, Read, Forward, AgentRestart, Observe, vars
  <2> QED BY <2>1, <2>2, <2>3, <2>4
<1>7. Len(text') <= 2 * LogMax
  <2>1. CASE Read
    <3>1. Len(text') <= Len(Text) /\ Len(Text) = 2 * Len(log)
      BY <2>1, <1>2, ReadMore, TextOf
    <3> QED BY <3>1, FeedAssumption DEF PInv, RowsPast
  <2>2. CASE UNCHANGED text BY <2>2 DEF PInv, RowsPast
  <2>3. CASE text' = <<>> BY <2>3, FeedAssumption
  <2>4. Read \/ UNCHANGED text \/ text' = <<>>
    BY DEF Next, ClockReset, Tick, Forward, AgentRestart, Observe, vars, agentVars
  <2> QED BY <2>1, <2>2, <2>3, <2>4
<1> QED BY <1>5, <1>6, <1>7 DEF RowsPast

LEMMA RowsAreWhole ==
    ASSUME PInv PROVE Rows \in Seq(Past(now)) /\ Len(Rows) <= LogMax
<1>1. now \in Nat BY FeedAssumption DEF PInv, ClocksPast
<1>2. Lines \in Seq(Past(now)) /\ Len(Lines) = Len(text) \div 2
  BY <1>1, LinesPast DEF PInv, RowsPast
<1>3. Len(text) \in Nat BY DEF PInv, RowsPast
<1>4. Len(Lines) <= LogMax BY <1>2, <1>3, FeedAssumption DEF PInv, RowsPast
<1> QED BY <1>2, <1>4 DEF Rows, PInv, RowsPast

\* What is marked was seen or is in this poll, and all of this poll is.
LEMMA MarkedOf ==
    ASSUME PInv
    PROVE  /\ Marked(Rows) = seen \cup Keys(Rows) \/ Marked(Rows) = Keys(Rows)
           /\ IsFiniteSet(Marked(Rows)) /\ Cardinality(Marked(Rows)) <= SeenMax
<1> DEFINE K == Keys(Rows)
           all == seen \cup K
<1>1. now \in Nat BY FeedAssumption DEF PInv, ClocksPast
<1>2. IsFiniteSet(K) /\ Cardinality(K) \in Nat /\ Cardinality(K) <= Len(Rows)
      /\ Len(Rows) <= LogMax /\ Len(Rows) \in Nat
  BY <1>1, RowsAreWhole, KeysOf
<1>3. IsFiniteSet(all) BY <1>2, FS_Union DEF PInv, KeysPast
<1>4. Cardinality(all) \in Nat BY <1>3, FS_CardinalityType
<1>5. Marked(Rows) = IF Cardinality(all) > SeenMax THEN K ELSE all
  BY DEF Marked
<1> HIDE DEF K, all
<1>6. CASE Cardinality(all) > SeenMax
  BY <1>5, <1>6, <1>2, FeedAssumption DEF K
<1>7. CASE ~(Cardinality(all) > SeenMax)
  BY <1>5, <1>7, <1>3, <1>4, FeedAssumption DEF K, all
<1> QED BY <1>6, <1>7

LEMMA KeysPastKept == ASSUME PInv, [Next]_vars PROVE KeysPast'
<1>0. now' \in Nat /\ now <= now' /\ now \in Nat BY NowGrows
<1>1. PastKeys(now) \subseteq PastKeys(now') BY <1>0 DEF PastKeys
<1>2. CASE UNCHANGED <<seen, sent>> BY <1>1, <1>2 DEF PInv, KeysPast
<1>3. CASE AgentRestart
  BY <1>3, FS_EmptySet, FeedAssumption DEF AgentRestart, KeysPast
<1>4. CASE Forward
  <2> DEFINE fresh == Unread(Rows)
             M == Marked(Rows)
  <2>1. Rows \in Seq(Past(now)) BY RowsAreWhole
  <2>2. Keys(Rows) \subseteq PastKeys(now) BY <2>1, <1>0, KeysOf
  <2>3. Keys(fresh) = Keys(Rows) \ seen BY <2>1, UnreadOf
  <2>4. (M = seen \cup Keys(Rows) \/ M = Keys(Rows)) /\ IsFiniteSet(M) /\ Cardinality(M) <= SeenMax
    BY MarkedOf
  <2>5. now' = now BY <1>4 DEF Forward
  <2>6. \/ seen' = M /\ sent' = sent \cup Keys(fresh)
        \/ seen' = M \ Keys(fresh) /\ sent' = sent
    BY <1>4 DEF Forward, Forget
  <2> HIDE DEF fresh, M
  <2>7. CASE seen' = M /\ sent' = sent \cup Keys(fresh)
    BY <2>7, <2>2, <2>3, <2>4, <2>5 DEF PInv, KeysPast
  <2>8. CASE seen' = M \ Keys(fresh) /\ sent' = sent
    <3>1. IsFiniteSet(seen') /\ Cardinality(seen') <= Cardinality(M)
      BY <2>4, <2>8, FS_Subset
    <3>2. Cardinality(seen') \in Nat /\ Cardinality(M) \in Nat BY <3>1, <2>4, FS_CardinalityType
    <3>3. Cardinality(seen') <= SeenMax BY <3>1, <3>2, <2>4, FeedAssumption
    <3>4. seen' \subseteq sent' BY <2>8, <2>3, <2>4 DEF PInv, KeysPast
    <3> QED BY <3>1, <3>3, <3>4, <2>5, <2>8 DEF PInv, KeysPast
  <2> QED BY <2>6, <2>7, <2>8
<1>5. UNCHANGED <<seen, sent>> \/ AgentRestart \/ Forward
  BY DEF Next, ClockReset, Tick, Read, Observe, vars, agentVars
<1> QED BY <1>2, <1>3, <1>4, <1>5

LEMMA NoneTold == \A a \in Readings : "none" \notin DOMAIN a
  BY DEF Readings

\* A reading is later than what it reads.
LEMMA NoteOf ==
    ASSUME PInv, NEW r \in Past(now)
    PROVE  LET new == [value |-> RefValue(r), at |-> now, born |-> HeardAt(r) - RefValue(r)]
           IN  /\ new \in Readings /\ new.value + new.born = HeardAt(r)
               /\ Note(r) = new \/ (Note(r) = anchor /\ anchor # NoAnchor)
               /\ Note(r) # NoAnchor
<1> DEFINE v == RefValue(r)
           new == [value |-> v, at |-> now, born |-> HeardAt(r) - v]
<1>1. v \in Nat /\ HeardAt(r) \in Int /\ now \in Nat
  BY FeedAssumption DEF PInv, ClocksPast, Past, Row, HeardAt, RefValue
<1>2. new \in Readings /\ new.value + new.born = HeardAt(r) BY <1>1 DEF Readings
<1>3. new # NoAnchor BY <1>2, NoneTold DEF NoAnchor
<1>4. Note(r) = new \/ (Note(r) = anchor /\ "none" \notin DOMAIN anchor) BY DEF Note
<1>5. "none" \in DOMAIN NoAnchor BY DEF NoAnchor
<1> QED BY <1>2, <1>3, <1>4, <1>5

LEMMA AnchorPastKept == ASSUME PInv, [Next]_vars PROVE AnchorPast'
<1>0. now' \in Nat /\ now <= now' /\ now \in Nat BY NowGrows
<1>1. CASE UNCHANGED anchor BY <1>0, <1>1 DEF PInv, AnchorPast, Readings
<1>2. CASE Observe
  <2> DEFINE r == Head(bus)
             new == [value |-> RefValue(r), at |-> now, born |-> HeardAt(r) - RefValue(r)]
  <2>1. r \in Past(now) BY <1>2 DEF Observe, PInv, RowsPast
  <2>2. anchor' = Note(r) /\ now' = now BY <1>2 DEF Observe, Arrives, clockVars
  <2> HIDE DEF r
  <2>3. new \in Readings /\ new.value + new.born = HeardAt(r) /\ new.at = now
        /\ (anchor' = new \/ anchor' = anchor)
    BY <2>1, <2>2, NoteOf
  <2>4. HeardAt(r) <= now BY <2>1, <1>0 DEF Past
  <2> HIDE DEF new
  <2>5. CASE anchor' = new BY <2>5, <2>2, <2>3, <2>4, <1>0 DEF AnchorPast
  <2>6. CASE anchor' = anchor BY <2>6, <2>2 DEF PInv, AnchorPast
  <2> QED BY <2>3, <2>5, <2>6
<1>3. UNCHANGED anchor \/ Observe
  BY DEF Next, ClockReset, Tick, Read, Forward, AgentRestart, vars
<1> QED BY <1>1, <1>2, <1>3

LEMMA InitPInv == Init => PInv
<1> SUFFICES ASSUME Init PROVE PInv OBVIOUS
<1>1. ClocksPast
  <2>1. PICK f \in [Clocks -> {-a : a \in Ages}] : born = f BY DEF Init
  <2>2. \A c \in Clocks : born[c] \in Int /\ born[c] <= 0
    BY <2>1, FeedAssumption DEF Clocks
  <2>3. born \in [Clocks -> Int] BY <2>1, <2>2
  <2>4. reference \in Clocks /\ drains \in BOOLEAN BY FeedAssumption DEF Init
  <2> QED BY <2>2, <2>3, <2>4, FeedAssumption DEF Init, ClocksPast
<1>2. RowsPast BY FeedAssumption DEF Init, RowsPast
<1>3. KeysPast BY FS_EmptySet, FeedAssumption DEF Init, KeysPast
<1>4. AnchorPast BY DEF Init, AnchorPast
<1> QED BY <1>1, <1>2, <1>3, <1>4 DEF PInv

LEMMA NextPInv == PInv /\ [Next]_vars => PInv'
  BY ClocksPastKept, RowsPastKept, KeysPastKept, AnchorPastKept DEF PInv

\* PInv is inductive: clocks, rows, keys and the anchor's reading are of the
\* past, and of what the driver's ring holds the agent takes for forwarded only
\* what it handed over (agent.py:598-636, clockd.py:157-171).
THEOREM PInvHolds == Spec => []PInv
  BY InitPInv, NextPInv, PTL DEF Spec

\* Rows are pairs of readings taken in the past, and ring, memory and counters
\* keep their bounds (driver.diff:76-97, agent.py:607-615).
THEOREM FeedTypeCorrect == Spec => []TypeOK
<1>1. PInv => TypeOK
  <2> SUFFICES ASSUME PInv PROVE TypeOK OBVIOUS
  <2>1. now \in Nat BY FeedAssumption DEF PInv, ClocksPast
  <2>2. \A r \in Past(now) : IsRow(r) BY DEF Past, Row, IsRow
  <2>3. \A s \in {log, text, bus, samples} : s \in Seq(Past(now)) BY DEF PInv, RowsPast
  <2>4. \A s \in {log, text, bus, samples} : \A i \in DOMAIN s : IsRow(s[i])
    BY <2>2, <2>3
  <2>5. \A c \in Clocks : Reading(c) \in Nat BY <2>1 DEF PInv, ClocksPast, Reading
  <2>6. calm \in 0 .. MaxNow BY <2>1, FeedAssumption DEF PInv, ClocksPast
  <2> QED BY <2>4, <2>5, <2>6 DEF TypeOK, PInv, ClocksPast, RowsPast, KeysPast
<1> QED BY <1>1, PInvHolds, PTL

\* A row of the driver's ring whose publish raised is offered again as long as
\* the ring holds it: what the agent takes for forwarded was handed to the
\* connection (agent.py:624-636).
THEOREM UnsentIsOfferedHolds == Spec => []UnsentIsOffered
<1>1. PInv => UnsentIsOffered BY DEF PInv, KeysPast, UnsentIsOffered
<1> QED BY <1>1, PInvHolds, PTL

---------------------------------------------------------------------------
(* What needs a ring that is not overwritten under a poll: its text takes  *)
(* several reads, each of the ring as it then is.                          *)

Older(k, s) == \A i \in DOMAIN s : Times(k) < HeardAt(s[i])

\* Rows as the driver logged them.
Logged(n) == {r \in Past(n) : r.whole}

LogAscends ==
    /\ log \in Seq(Logged(now)) /\ bus \in Seq(Logged(now))
    /\ \A i, j \in DOMAIN log : i < j => HeardAt(log[i]) < HeardAt(log[j])

\* What was read so far is how the log prints now.
Showing ==
    /\ Len(text) <= 2 * Len(log)
    /\ \A j \in 1 .. Len(text) : text[j] = log[(j + 1) \div 2]

\* Both halves of each line are of one row.
Paired ==
    \E n \in Nat : /\ Len(text) = 2 * n
                   /\ \A i \in 1 .. n : text[2 * i] = text[2 * i - 1] /\ text[2 * i].whole

\* Nothing that was handed over or read comes back into the log.
NothingReturns ==
    /\ \A k \in sent : k \in Keys(log) \/ Older(k, log)
    /\ \A j \in DOMAIN text : Key(text[j]) \in Keys(log) \/ Older(Key(text[j]), log)

\* What was handed over and is no longer remembered is out of reach.
ForgottenIsGone == \A k \in sent \ seen : Older(k, log) /\ Older(k, text)

\* A poll that was read to its end shows all that was handed over and is not
\* out of reach, though the ring has moved on since.
Shown ==
    /\ Len(text) = 2 * LogMax /\ Len(log) = LogMax /\ Paired
    /\ \A k \in sent : k \in Keys(Lines) \/ (Older(k, log) /\ Older(k, text))

SInv == PInv /\ LogAscends /\ (Showing \/ Shown) /\ NothingReturns /\ ForgottenIsGone

\* Nothing mends what was torn, and while nothing is torn no beacon came under
\* a poll of a full ring.
LEMMA TornStays ==
    ASSUME [Next]_vars, ~torn'
    PROVE  ~torn /\ \A heard \in BOOLEAN : Tick(heard) => ~(heard /\ InTheRing)
<1>1. ASSUME NEW heard \in BOOLEAN, Tick(heard) PROVE ~torn /\ ~(heard /\ InTheRing)
  BY <1>1 DEF Tick
<1>2. (\E heard \in BOOLEAN : Tick(heard)) \/ torn' = torn
  BY DEF Next, ClockReset, Read, Forward, AgentRestart, Observe, vars, clockVars
<1> QED BY <1>1, <1>2

LEMMA TimeOfKey == \A r : Times(Key(r)) = HeardAt(r)
  BY DEF Times, Key, HeardAt

LEMMA KeyIsPast == ASSUME NEW n \in Nat, NEW r \in Past(n) PROVE Key(r) \in PastKeys(n)
  BY DEF Past, Row, Key, PastKeys, HeardAt, Times

\* Until a poll is torn its lines are rows the driver logged.
LEMMA PairedLines ==
    ASSUME SInv
    PROVE  /\ Lines \in Seq(Logged(now)) /\ Len(Lines) = Len(text) \div 2
           /\ Len(Lines) \in Nat /\ DOMAIN Lines = 1 .. Len(Lines)
           /\ \A i \in 1 .. Len(Lines) : 2 * i \in DOMAIN text /\ Lines[i] = text[2 * i]
           /\ Showing => \A i \in 1 .. Len(Lines) : i \in DOMAIN log /\ Lines[i] = log[i]
<1>0. text \in Seq(Past(now)) /\ log \in Seq(Logged(now)) BY DEF SInv, PInv, RowsPast, LogAscends
<1>a. text \in Seq(Row) /\ Len(text) \in Nat /\ DOMAIN text = 1 .. Len(text)
  BY <1>0 DEF Past
<1>b. Len(log) \in Nat /\ DOMAIN log = 1 .. Len(log) BY <1>0
<1>1. /\ Lines \in Seq(Row) /\ Len(Lines) = Len(text) \div 2
      /\ \A i \in 1 .. Len(text) \div 2 :
           /\ 2 * i \in 1 .. Len(text) /\ 2 * i - 1 \in 1 .. Len(text)
           /\ text[2 * i] = text[2 * i - 1] /\ text[2 * i].whole => Lines[i] = text[2 * i]
  BY <1>a, LinesOf
<1>2. ASSUME Showing, NEW i \in 1 .. Len(text) \div 2
      PROVE  i \in DOMAIN log /\ text[2 * i] = log[i] /\ text[2 * i - 1] = log[i]
  <2>1. 2 * i \in 1 .. Len(text) /\ 2 * i - 1 \in 1 .. Len(text) BY <1>1
  <2>2. (2 * i + 1) \div 2 = i /\ ((2 * i - 1) + 1) \div 2 = i OBVIOUS
  <2>3. 2 * i <= 2 * Len(log) BY <2>1, <1>a, <1>b, <1>2 DEF Showing
  <2>4. i \in DOMAIN log BY <2>3, <1>b
  <2>5. text[2 * i] = log[(2 * i + 1) \div 2] /\ text[2 * i - 1] = log[((2 * i - 1) + 1) \div 2]
    BY <2>1, <1>2 DEF Showing
  <2> QED BY <2>2, <2>4, <2>5
<1>3. \A i \in DOMAIN log : log[i].whole BY <1>0 DEF Logged
<1>4. ASSUME NEW i \in 1 .. Len(text) \div 2
      PROVE  text[2 * i] = text[2 * i - 1] /\ text[2 * i].whole
  <2>1. CASE Showing BY <2>1, <1>2, <1>3
  <2>2. CASE Shown
    <3>1. PICK n \in Nat : /\ Len(text) = 2 * n
                           /\ \A m \in 1 .. n : text[2 * m] = text[2 * m - 1] /\ text[2 * m].whole
      BY <2>2 DEF Shown, Paired
    <3>2. i \in 1 .. n BY <3>1
    <3> QED BY <3>1, <3>2
  <2> QED BY <2>1, <2>2 DEF SInv
<1>5. \A i \in 1 .. Len(text) \div 2 : Lines[i] = text[2 * i] /\ Lines[i].whole BY <1>1, <1>4
<1>6. Len(Lines) \in Nat /\ DOMAIN Lines = 1 .. Len(Lines) BY <1>1
<1>7. \A i \in 1 .. Len(Lines) : 2 * i \in DOMAIN text /\ Lines[i] = text[2 * i] /\ Lines[i].whole
  BY <1>1, <1>5, <1>a
<1>8. \A i \in 1 .. Len(Lines) : Lines[i] \in Logged(now) BY <1>0, <1>7 DEF Logged
<1>9. Lines \in Seq(Logged(now)) BY <1>1, <1>6, <1>8
<1> QED BY <1>1, <1>2, <1>6, <1>7, <1>9

\* A poll that has shown the log to its end shows all of its keys.
LEMMA AllShown ==
    ASSUME SInv, Showing, Len(text) = 2 * Len(log)
    PROVE  Len(Lines) = Len(log) /\ Keys(log) \subseteq Keys(Lines)
<1>0. Len(log) \in Nat /\ DOMAIN log = 1 .. Len(log) BY DEF SInv, PInv, RowsPast
<1>1. /\ Len(Lines) = Len(text) \div 2 /\ DOMAIN Lines = 1 .. Len(Lines)
      /\ \A i \in 1 .. Len(Lines) : Lines[i] = log[i]
  BY PairedLines
<1>2. Len(text) \div 2 = Len(log)
  <2>1. PICK n \in Nat : n = Len(log) BY <1>0
  <2>2. (2 * n) \div 2 = n OBVIOUS
  <2> QED BY <2>1, <2>2
<1>3. Len(Lines) = Len(log) BY <1>1, <1>2
<1> QED BY <1>0, <1>1, <1>3 DEF Keys

LEMMA TickLog ==
    ASSUME PInv, LogAscends, NEW heard \in BOOLEAN, Tick(heard)
    PROVE  /\ LogAscends'
           /\ \A k \in PastKeys(now) : Older(k, log) => Older(k, log')
           /\ \A k \in PastKeys(now) :
                 k \in Keys(log) \/ Older(k, log) => k \in Keys(log') \/ Older(k, log')
<1>0. now \in Nat /\ now' = now + 1 BY FeedAssumption DEF PInv, ClocksPast, Tick
<1>1. Logged(now) \subseteq Logged(now') BY <1>0 DEF Logged, Past
<1>2. log \in Seq(Logged(now')) /\ bus' \in Seq(Logged(now'))
  <2>1. bus' = bus BY DEF Tick
  <2> QED BY <1>1, <2>1, SeqWidens DEF LogAscends
<1>3. CASE ~heard BY <1>2, <1>3 DEF Tick, LogAscends
<1>4. CASE heard
  <2> DEFINE r == Heard(now + 1)
  <2>1. r \in Row /\ HeardAt(r) = now + 1 /\ r.whole
    BY <1>0, HeardRow DEF PInv, Heard
  <2>2. r \in Logged(now') BY <1>0, <2>1 DEF Logged, Past
  <2>3. log' = Newest(Append(log, r), LogMax) BY <1>4 DEF Tick
  <2> HIDE DEF r
  <2>4. log' \in Seq(Logged(now')) /\ Len(log') \in 1 .. LogMax /\ Shifted(log', log, r)
    <3> DEFINE G == Logged(now')
    <3>1. log \in Seq(G) /\ r \in G /\ LogMax \in Nat \ {0} /\ Len(log) <= LogMax
      BY <1>2, <2>2, FeedAssumption DEF PInv, RowsPast
    <3> HIDE DEF G
    <3>2. log' \in Seq(G) /\ Len(log') \in 1 .. LogMax /\ Shifted(log', log, r)
      BY <2>3, <3>1, NewestAppend
    <3> QED BY <3>2 DEF G
  <2>5. PICK d \in {0, 1} :
             /\ Len(log') = Len(log) + 1 - d
             /\ \A i \in 1 .. Len(log') :
                  log'[i] = IF i + d = Len(log) + 1 THEN r ELSE log[i + d]
    BY <2>4 DEF Shifted
  <2>6. DOMAIN log = 1 .. Len(log) /\ DOMAIN log' = 1 .. Len(log') /\ Len(log) \in Nat
    BY <1>2, <2>4
  <2>7. \A i \in DOMAIN log : HeardAt(log[i]) \in 0 .. now BY DEF LogAscends, Logged, Past
  <2>8. \A i \in DOMAIN log' : IF i + d = Len(log) + 1 THEN log'[i] = r
                               ELSE i + d \in DOMAIN log /\ log'[i] = log[i + d]
    BY <2>5, <2>6
  <2>9. ASSUME NEW i \in DOMAIN log', NEW j \in DOMAIN log', i < j
        PROVE  HeardAt(log'[i]) < HeardAt(log'[j])
    <3>1. i + d \in DOMAIN log /\ log'[i] = log[i + d]
      BY <2>8, <2>9, <2>6, <2>5
    <3>2. CASE j + d = Len(log) + 1
      BY <3>1, <3>2, <2>8, <2>7, <2>1, <1>0
    <3>3. CASE j + d # Len(log) + 1
      <4>1. j + d \in DOMAIN log /\ log'[j] = log[j + d] BY <3>3, <2>8
      <4>2. i + d < j + d BY <2>9, <2>6
      <4> QED BY <3>1, <4>1, <4>2 DEF LogAscends
    <3> QED BY <3>2, <3>3
  <2>10. ASSUME NEW k \in PastKeys(now), Older(k, log) PROVE Older(k, log')
    <3>1. Times(k) \in 0 .. now BY DEF PastKeys
    <3>2. \A i \in DOMAIN log' : Times(k) < HeardAt(log'[i])
      BY <3>1, <2>10, <2>8, <2>1, <1>0 DEF Older
    <3> QED BY <3>2 DEF Older
  <2>11. ASSUME NEW k \in PastKeys(now), k \in Keys(log) PROVE k \in Keys(log') \/ Older(k, log')
    <3>1. PICK i \in DOMAIN log : k = Key(log[i]) BY <2>11 DEF Keys
    <3>2. CASE i - d \in DOMAIN log'
      <4>1. log'[i - d] = log[i] BY <3>2, <2>8, <2>6, <2>5
      <4> QED BY <3>1, <3>2, <4>1 DEF Keys
    <3>3. CASE i - d \notin DOMAIN log'
      <4>1. i = 1 /\ d = 1 BY <3>3, <2>5, <2>6
      <4>2. ASSUME NEW j \in DOMAIN log' PROVE Times(k) < HeardAt(log'[j])
        <5>1. Times(k) = HeardAt(log[i]) /\ Times(k) \in 0 .. now
          BY <3>1, TimeOfKey DEF PastKeys
        <5>2. CASE j + d = Len(log) + 1 BY <5>1, <5>2, <2>8, <2>1, <1>0
        <5>3. CASE j + d # Len(log) + 1
          <6>1. j + d \in DOMAIN log /\ log'[j] = log[j + d] /\ i < j + d
            BY <5>3, <2>8, <2>6, <4>1
          <6> QED BY <5>1, <6>1 DEF LogAscends
        <5> QED BY <5>2, <5>3
      <4> QED BY <4>2 DEF Older
    <3> QED BY <3>2, <3>3
  <2>12. LogAscends' BY <1>2, <2>4, <2>9 DEF LogAscends
  <2> QED BY <2>10, <2>11, <2>12
<1> QED BY <1>3, <1>4

\* A beacon leaves what was read as the log prints, or read to its end.
LEMMA TickShows ==
    ASSUME SInv, NEW heard \in BOOLEAN, Tick(heard), ~(heard /\ InTheRing)
    PROVE  (Showing \/ Shown)'
<1>0. UNCHANGED <<text, sent>> /\ Lines' = Lines BY DEF Tick, agentVars, Lines
<1>1. /\ log \in Seq(Row) /\ Len(log) \in Nat /\ Len(log) <= LogMax /\ LogMax \in Nat \ {0}
      /\ text \in Seq(Row) /\ Len(text) \in Nat /\ Len(text) <= 2 * LogMax
  BY FeedAssumption DEF SInv, PInv, RowsPast, Past
<1>2. CASE ~heard
  <2>1. log' = log BY <1>2 DEF Tick
  <2> QED BY <1>0, <2>1 DEF SInv, Showing, Shown, Paired
<1>3. CASE heard
  <2> DEFINE r == Heard(now + 1)
  <2>1. log' = Newest(Append(log, r), LogMax) BY <1>3 DEF Tick
  <2>2. now \in Nat BY FeedAssumption DEF SInv, PInv, ClocksPast
  <2>3. r \in Row BY <2>2, HeardRow DEF SInv, PInv
  <2> HIDE DEF r
  <2>4. CASE Len(log) < LogMax
    <3>1. Showing BY <2>4, <1>1 DEF SInv, Shown
    <3>2. Len(log') = Len(log) + 1 /\ \A i \in 1 .. Len(log) : log'[i] = log[i]
      BY <2>1, <2>3, <2>4, <1>1, NewestFits
    <3>3. Len(text) <= 2 * Len(log) BY <3>1 DEF Showing
    <3>4. ASSUME NEW j \in 1 .. Len(text) PROVE text[j] = log'[(j + 1) \div 2]
      <4>1. (j + 1) \div 2 \in 1 .. Len(log) BY <3>3, <1>1
      <4> QED BY <3>1, <3>2, <4>1 DEF Showing
    <3>5. Len(text) <= 2 * Len(log') BY <3>2, <3>3, <1>1
    <3> QED BY <1>0, <3>4, <3>5 DEF Showing
  <2>5. CASE ~(Len(log) < LogMax)
    <3>1. Len(log) = LogMax BY <2>5, <1>1
    <3>2. Len(log') \in 1 .. LogMax /\ Shifted(log', log, r)
      BY <2>1, <2>3, <1>1, NewestAppend
    <3>3. Len(log') = LogMax BY <3>1, <3>2, <1>1 DEF Shifted
    <3>4. Len(Text) = 2 * Len(log) BY <1>1, TextOf
    <3>5. Len(text) = 0 \/ Len(text) = 2 * LogMax BY <3>1, <3>4, <1>1, <1>3 DEF InTheRing
    <3>6. CASE Len(text) = 0
      <4>1. 1 .. Len(text) = {} /\ Len(text) <= 2 * Len(log') BY <3>3, <3>6, <1>1
      <4> QED BY <4>1, <1>0 DEF Showing
    <3>7. CASE Len(text) = 2 * LogMax
      <4>1. Paired /\ \A k \in sent : k \in Keys(Lines) \/ (Older(k, log) /\ Older(k, text))
        <5>1. CASE Shown BY <5>1 DEF Shown
        <5>2. CASE Showing
          <6>1. Len(text) = 2 * Len(log) BY <3>1, <3>7
          <6>2. Keys(log) \subseteq Keys(Lines) BY <5>2, <6>1, AllShown
          <6>3. ASSUME NEW j \in DOMAIN text
                PROVE  (j + 1) \div 2 \in DOMAIN log /\ text[j] = log[(j + 1) \div 2]
            <7>1. j \in 1 .. Len(text) BY <1>1
            <7>2. (j + 1) \div 2 \in 1 .. Len(log) BY <7>1, <6>1, <1>1
            <7> QED BY <7>1, <7>2, <5>2, <1>1 DEF Showing
          <6>4. \A k \in sent : k \in Keys(Lines) \/ (Older(k, log) /\ Older(k, text))
            BY <6>2, <6>3 DEF SInv, NothingReturns, Older
          <6>5. ASSUME NEW i \in 1 .. LogMax
                PROVE  text[2 * i] = text[2 * i - 1] /\ text[2 * i].whole
            <7>1. 2 * i \in DOMAIN text /\ 2 * i - 1 \in DOMAIN text BY <3>7, <1>1
            <7>2. (2 * i + 1) \div 2 = i /\ ((2 * i - 1) + 1) \div 2 = i OBVIOUS
            <7>3. text[2 * i] = log[i] /\ text[2 * i - 1] = log[i]
              BY <7>1, <7>2, <6>3
            <7>4. log[i].whole BY <3>1, <1>1 DEF SInv, LogAscends, Logged
            <7> QED BY <7>3, <7>4
          <6>6. LogMax \in Nat BY <1>1
          <6>7. Paired BY <3>7, <6>5, <6>6 DEF Paired
          <6> QED BY <6>4, <6>7
        <5> QED BY <5>1, <5>2 DEF SInv
      <4>2. \A k \in PastKeys(now) : Older(k, log) => Older(k, log') BY TickLog DEF SInv
      <4>3. sent \subseteq PastKeys(now) BY DEF SInv, PInv, KeysPast
      <4>4. \A k \in sent : k \in Keys(Lines) \/ (Older(k, log') /\ Older(k, text))
        BY <4>1, <4>2, <4>3
      <4> QED BY <1>0, <3>3, <3>7, <4>1, <4>4 DEF Shown, Paired
    <3> QED BY <3>5, <3>6, <3>7
  <2> QED BY <2>4, <2>5
<1> QED BY <1>2, <1>3

LEMMA TickSInv ==
    ASSUME SInv, PInv', NEW heard \in BOOLEAN, Tick(heard), ~(heard /\ InTheRing)
    PROVE  SInv'
<1>1. UNCHANGED <<text, seen, sent>> BY DEF Tick, agentVars
<1>2. sent \subseteq PastKeys(now) BY DEF SInv, PInv, KeysPast
<1>3. ASSUME NEW j \in DOMAIN text PROVE Key(text[j]) \in PastKeys(now)
  BY FeedAssumption, KeyIsPast DEF SInv, PInv, RowsPast, ClocksPast
<1>4. LogAscends' /\ (\A k \in PastKeys(now) : Older(k, log) => Older(k, log'))
      /\ \A k \in PastKeys(now) :
                 k \in Keys(log) \/ Older(k, log) => k \in Keys(log') \/ Older(k, log')
  BY TickLog DEF SInv
<1>5. (Showing \/ Shown)' BY TickShows
<1>6. NothingReturns' BY <1>1, <1>2, <1>3, <1>4 DEF SInv, NothingReturns
<1>7. ForgottenIsGone' BY <1>1, <1>2, <1>4 DEF SInv, ForgottenIsGone
<1> QED BY <1>4, <1>5, <1>6, <1>7 DEF SInv

\* A read goes on where the poll has come to, in the log as it is.
LEMMA ReadShows ==
    ASSUME SInv, Read
    PROVE  Showing' /\ \A j \in DOMAIN text' : \E i \in DOMAIN log : text'[j] = log[i]
<1>1. log \in Seq(Row) /\ text \in Seq(Row) BY DEF SInv, PInv, RowsPast, Past
<1>2. /\ text' \in Seq(Row) /\ Len(text') \in Len(text) + 1 .. Len(Text)
      /\ \A j \in 1 .. Len(text') :
            text'[j] = IF j <= Len(text) THEN text[j] ELSE log[(j + 1) \div 2]
  BY <1>1, ReadMore
<1>3. Len(Text) = 2 * Len(log) /\ Len(log) \in Nat /\ Len(text) \in Nat BY <1>1, TextOf
<1>4. Showing BY <1>3, FeedAssumption DEF Read, SInv, Shown
<1>5. log' = log BY DEF Read
<1>6. ASSUME NEW j \in 1 .. Len(text') PROVE text'[j] = log[(j + 1) \div 2]
  <2>1. CASE j <= Len(text)
    <3>1. j \in 1 .. Len(text) BY <2>1, <1>2, <1>3
    <3> QED BY <2>1, <3>1, <1>2, <1>4 DEF Showing
  <2>2. CASE ~(j <= Len(text)) BY <2>2, <1>2
  <2> QED BY <2>1, <2>2
<1>7. Len(text') <= 2 * Len(log) BY <1>2, <1>3
<1>8. ASSUME NEW j \in DOMAIN text' PROVE \E i \in DOMAIN log : text'[j] = log[i]
  <2>1. j \in 1 .. Len(text') BY <1>2
  <2>2. (j + 1) \div 2 \in DOMAIN log BY <2>1, <1>1, <1>2, <1>3
  <2> QED BY <2>1, <2>2, <1>6
<1> QED BY <1>5, <1>6, <1>7, <1>8 DEF Showing

LEMMA ReadSInv == ASSUME SInv, PInv', Read PROVE SInv'
<1>1. UNCHANGED <<log, bus, now, seen, sent>> BY DEF Read, clockVars
<1>2. Showing' /\ \A j \in DOMAIN text' : \E i \in DOMAIN log : text'[j] = log[i]
  BY ReadShows
<1>3. LogAscends' BY <1>1 DEF SInv, LogAscends
<1>4. NothingReturns'
  <2>1. \A i \in DOMAIN log : Key(log[i]) \in Keys(log) BY DEF Keys
  <2> QED BY <1>1, <1>2, <2>1 DEF SInv, NothingReturns
<1>5. \A k : Older(k, log) => Older(k, text') BY <1>2 DEF Older
<1>6. ForgottenIsGone' BY <1>1, <1>5 DEF SInv, ForgottenIsGone
<1> QED BY <1>2, <1>3, <1>4, <1>6 DEF SInv

LEMMA OtherSInv ==
    ASSUME SInv, PInv', UNCHANGED <<log, text, seen, sent>>, now' = now,
           bus' \in Seq(Logged(now))
    PROVE  SInv'
<1>1. LogAscends' BY DEF SInv, LogAscends
<1>2. Lines' = Lines BY DEF Lines
<1> QED BY <1>1, <1>2 DEF SInv, Showing, Shown, Paired, NothingReturns, ForgottenIsGone

\* Between polls, and with the log as it was or emptied.
LEMMA PollOver ==
    ASSUME SInv, PInv', text' = <<>>, log' = log \/ log' = <<>>, now' = now,
           bus' \in Seq(Logged(now)),
           \A k \in sent' : k \in Keys(log') \/ Older(k, log'),
           \A k \in sent' \ seen' : Older(k, log')
    PROVE  SInv'
<1>1. LogAscends'
  <2>1. log' \in Seq(Logged(now))
    <3>1. log \in Seq(Logged(now)) BY DEF SInv, LogAscends
    <3>2. <<>> \in Seq(Logged(now)) OBVIOUS
    <3> QED BY <3>1, <3>2
  <2>2. CASE log' = log BY <2>2 DEF SInv, LogAscends
  <2>3. CASE log' = <<>> BY <2>1, <2>3 DEF LogAscends
  <2> QED BY <2>2, <2>3
<1>2. Showing'
  <2>1. Len(text') = 0 /\ 1 .. 0 = {} OBVIOUS
  <2>2. Len(log') \in Nat BY DEF SInv, PInv, RowsPast
  <2> QED BY <2>1, <2>2 DEF Showing
<1>3. DOMAIN text' = {} OBVIOUS
<1>4. NothingReturns' BY <1>3 DEF NothingReturns
<1>5. ForgottenIsGone' BY <1>3 DEF ForgottenIsGone, Older
<1> QED BY <1>1, <1>2, <1>4, <1>5 DEF SInv

\* What a poll shows: rows of the log, or out of the log's reach; and all that
\* was handed over, unless it is out of reach.
LEMMA PollOf ==
    ASSUME SInv, Forward
    PROVE  /\ Rows \in Seq(Logged(now))
           /\ \A k \in Keys(Rows) : k \in Keys(log) \/ Older(k, log)
           /\ \A k \in sent : k \in Keys(Rows) \/ Older(k, log)
           /\ \A k \in sent \ seen : k \notin Keys(Rows)
<1>1. CASE drains
  <2>1. Rows = log BY <1>1 DEF Rows
  <2>2. ASSUME NEW k \in sent \ seen, k \in Keys(Rows) PROVE FALSE
    <3>1. PICK i \in DOMAIN log : k = Key(log[i]) BY <2>1, <2>2 DEF Keys
    <3>2. Times(k) < HeardAt(log[i]) BY <2>2 DEF SInv, ForgottenIsGone, Older
    <3>3. HeardAt(log[i]) \in Int
      BY DEF SInv, PInv, RowsPast, Past
    <3> QED BY <3>1, <3>2, <3>3, TimeOfKey
  <2> QED BY <2>1, <2>2 DEF SInv, LogAscends, NothingReturns
<1>2. CASE ~drains
  <2>1. Rows = Lines /\ text # <<>> BY <1>2 DEF Rows, Forward
  <2>2. text \in Seq(Past(now)) /\ log \in Seq(Past(now)) BY DEF SInv, PInv, RowsPast
  <2>3. /\ Lines \in Seq(Logged(now)) /\ DOMAIN Lines = 1 .. Len(Lines)
        /\ \A i \in 1 .. Len(Lines) : 2 * i \in DOMAIN text /\ Lines[i] = text[2 * i]
    BY PairedLines
  <2>6. ASSUME NEW k \in Keys(Lines) PROVE \E j \in DOMAIN text : k = Key(text[j])
    BY <2>3 DEF Keys
  <2>7. \A k \in Keys(Lines) : k \in Keys(log) \/ Older(k, log)
    BY <2>6 DEF SInv, NothingReturns
  <2>8. \A k \in sent : k \in Keys(Lines) \/ Older(k, log)
    <3>1. CASE Shown BY <3>1 DEF Shown
    <3>2. CASE Showing
      <4>1. Len(Text) = 2 * Len(log) /\ Len(log) \in Nat /\ Len(text) \in Nat BY <2>2, TextOf
      <4>2. Len(text) = 2 * Len(log) BY <1>2, <3>2, <4>1 DEF Forward, Showing
      <4> QED BY <3>2, <4>2, AllShown DEF SInv, NothingReturns
    <3> QED BY <3>1, <3>2 DEF SInv
  <2>9. ASSUME NEW k \in sent \ seen, k \in Keys(Lines) PROVE FALSE
    <3>1. PICK j \in DOMAIN text : k = Key(text[j]) BY <2>6, <2>9
    <3>2. Times(k) < HeardAt(text[j]) BY <2>9 DEF SInv, ForgottenIsGone, Older
    <3>3. HeardAt(text[j]) \in Int BY <2>2 DEF Past
    <3> QED BY <3>1, <3>2, <3>3, TimeOfKey
  <2> QED BY <2>1, <2>3, <2>7, <2>8, <2>9
<1> QED BY <1>1, <1>2

LEMMA ForwardSInv == ASSUME SInv, PInv', Forward PROVE SInv'
<1> DEFINE fresh == Unread(Rows)
           M == Marked(Rows)
<1>1. /\ Rows \in Seq(Logged(now))
      /\ \A k \in Keys(Rows) : k \in Keys(log) \/ Older(k, log)
      /\ \A k \in sent : k \in Keys(Rows) \/ Older(k, log)
      /\ \A k \in sent \ seen : k \notin Keys(Rows)
  BY PollOf
<1>2. fresh \in Seq(Logged(now)) /\ Keys(fresh) = Keys(Rows) \ seen BY <1>1, UnreadOf
<1>3. M = seen \cup Keys(Rows) \/ M = Keys(Rows) BY MarkedOf DEF SInv
<1>4. text' = <<>> /\ (log' = log \/ log' = <<>>) /\ now' = now BY DEF Forward
<1>5. \/ bus' = bus \o fresh /\ seen' = M /\ sent' = sent \cup Keys(fresh)
      \/ bus' = bus /\ seen' = M \ Keys(fresh) /\ sent' = sent
      \/ bus' = bus /\ seen' = M /\ sent' = sent \cup Keys(fresh)
  BY DEF Forward, Forget
<1> HIDE DEF fresh, M
<1>6. bus' \in Seq(Logged(now))
  <2>1. bus \in Seq(Logged(now)) BY DEF SInv, LogAscends
  <2>2. bus \o fresh \in Seq(Logged(now)) BY <2>1, <1>2
  <2> QED BY <2>1, <2>2, <1>5
<1>7. \A k \in sent' : k \in Keys(log) \/ Older(k, log)
  BY <1>1, <1>2, <1>5 DEF SInv, NothingReturns
<1>8. \A k \in sent' \ seen' : Older(k, log)
  <2> SUFFICES ASSUME NEW k \in sent' \ seen' PROVE Older(k, log) OBVIOUS
  <2>1. CASE k \in sent \ seen BY <2>1 DEF SInv, ForgottenIsGone
  <2>2. CASE k \in sent /\ k \in seen /\ k \notin Keys(Rows) BY <2>2, <1>1
  <2>3. CASE k \in sent /\ k \in seen /\ k \in Keys(Rows) BY <2>3, <1>2, <1>3, <1>5
  <2>4. CASE k \notin sent BY <2>4, <1>2, <1>3, <1>5
  <2> QED BY <2>1, <2>2, <2>3, <2>4
<1>9. \A k : (k \in Keys(log) \/ Older(k, log) => k \in Keys(log') \/ Older(k, log'))
             /\ (Older(k, log) => Older(k, log'))
  BY <1>4 DEF Older
<1> QED BY <1>4, <1>6, <1>7, <1>8, <1>9, PollOver

LEMMA RestartSInv == ASSUME SInv, PInv', AgentRestart PROVE SInv'
<1>1. text' = <<>> /\ (log' = log \/ log' = <<>>) /\ now' = now /\ bus' = bus /\ sent' = {}
  BY DEF AgentRestart
<1>2. bus' \in Seq(Logged(now)) BY <1>1 DEF SInv, LogAscends
<1> QED BY <1>1, <1>2, PollOver

LEMMA NextSInv == ASSUME SInv, ~torn', [Next]_vars PROVE SInv'
<1>0. PInv' BY NextPInv DEF SInv
<1>1. ASSUME NEW heard \in BOOLEAN, Tick(heard) PROVE SInv' BY <1>0, <1>1, TornStays, TickSInv
<1>2. ASSUME NEW c \in Clocks, ClockReset(c) PROVE SInv'
  <2>1. UNCHANGED <<log, text, seen, sent, now, bus>> BY <1>2 DEF ClockReset, agentVars
  <2> QED BY <2>1, <1>0, OtherSInv DEF SInv, LogAscends
<1>3. CASE Read BY <1>0, <1>3, ReadSInv
<1>4. CASE Forward BY <1>0, <1>4, ForwardSInv
<1>5. CASE AgentRestart BY <1>0, <1>5, RestartSInv
<1>6. CASE Observe
  <2>1. UNCHANGED <<log, text, seen, sent, now>> /\ bus # <<>> /\ bus' = Tail(bus)
    BY <1>6 DEF Observe, agentVars, clockVars
  <2>2. bus' \in Seq(Logged(now)) BY <2>1 DEF SInv, LogAscends
  <2> QED BY <2>1, <2>2, <1>0, OtherSInv
<1>7. CASE UNCHANGED vars
  <2>1. UNCHANGED <<log, text, seen, sent, now, bus>> BY <1>7 DEF vars, agentVars, clockVars
  <2> QED BY <2>1, <1>0, OtherSInv DEF SInv, LogAscends
<1> QED BY <1>1, <1>2, <1>3, <1>4, <1>5, <1>6, <1>7 DEF Next

LEMMA InitSInv == Init => SInv
<1> SUFFICES ASSUME Init PROVE SInv OBVIOUS
<1>1. PInv BY InitPInv
<1>2. LogAscends BY DEF Init, LogAscends
<1>3. Showing
  <2>1. Len(text) = 0 /\ Len(log) = 0 /\ 1 .. 0 = {} BY DEF Init
  <2> QED BY <2>1 DEF Showing
<1>4. NothingReturns /\ ForgottenIsGone
  BY DEF Init, NothingReturns, ForgottenIsGone
<1> QED BY <1>1, <1>2, <1>3, <1>4 DEF SInv

\* SInv is inductive until a poll is torn: what was handed over is remembered
\* until neither the ring nor the poll under way can show it again
\* (agent.py:598-625), however many reads a poll takes.
THEOREM SInvHolds == Spec => [](~torn => SInv)
<1>1. Init => (~torn => SInv) BY InitSInv
<1>2. (~torn => SInv) /\ [Next]_vars => (~torn => SInv)' BY NextSInv, TornStays
<1> QED BY <1>1, <1>2, PTL DEF Spec

\* Every row on the bus is one the driver logged (driver.diff:99-137), unless
\* a beacon overwrote a row of the ring under a poll that was reading it.
THEOREM RowsWereHeardHolds == Spec => [](~torn => RowsWereHeard)
<1>1. SInv => RowsWereHeard BY DEF SInv, LogAscends, Logged, RowsWereHeard
<1> QED BY <1>1, SInvHolds, PTL

\* Until a poll is torn no row is handed to the connection twice in one life
\* of the agent, though what was seen is pruned (agent.py:606-615).
THEOREM NeverSentTwiceHolds == Spec => NeverSentTwice
<1> DEFINE Anew == \A i \in (Len(bus) + 1) .. Len(bus') : Key(bus'[i]) \notin sent
<1>1. ASSUME SInv, Next PROVE Anew
  <2>1. CASE bus' = bus
    <3>1. Len(bus') \in Nat /\ Len(bus) = Len(bus') BY <2>1 DEF SInv, LogAscends
    <3> QED BY <3>1
  <2>2. CASE Observe
    <3>1. bus # <<>> /\ bus' = Tail(bus) /\ bus \in Seq(Logged(now))
      BY <2>2, <1>1 DEF Observe, SInv, LogAscends
    <3>2. Len(bus) \in Nat /\ Len(bus') = Len(bus) - 1 BY <3>1
    <3> QED BY <3>2
  <2>3. CASE Forward /\ bus' # bus
    <3> DEFINE fresh == Unread(Rows)
    <3>1. bus' = bus \o fresh BY <2>3 DEF Forward
    <3>2. /\ Rows \in Seq(Logged(now))
          /\ \A k \in sent \ seen : k \notin Keys(Rows)
      BY <2>3, <1>1, PollOf
    <3>3. fresh \in Seq(Logged(now)) /\ Keys(fresh) = Keys(Rows) \ seen BY <3>2, UnreadOf
    <3> HIDE DEF fresh
    <3>4. bus \in Seq(Logged(now)) BY <1>1 DEF SInv, LogAscends
    <3>5. ASSUME NEW i \in (Len(bus) + 1) .. Len(bus') PROVE Key(bus'[i]) \in Keys(fresh)
      <4>1. i - Len(bus) \in DOMAIN fresh /\ bus'[i] = fresh[i - Len(bus)]
        BY <3>1, <3>3, <3>4
      <4> QED BY <4>1 DEF Keys
    <3> QED BY <3>2, <3>3, <3>5
  <2> QED BY <2>1, <2>2, <2>3, <1>1 DEF Next, Tick, ClockReset, Read, AgentRestart
<1>2. (~torn => SInv) /\ [Next]_vars => [~torn => Anew]_vars BY <1>1
<1> QED BY <1>2, SInvHolds, PTL DEF Spec, NeverSentTwice

---------------------------------------------------------------------------
(* The window of samples, where the clocks are reset at most twice: each   *)
(* reset alone exceeds MaxSkew, two together may come to less.             *)

\* Samples advance and span no more than the window.
Spaced(s) ==
    \A i, j \in DOMAIN s : i < j => s[i].x < s[j].x /\ s[j].x - s[i].x <= Window

\* No step of a clock lies between any two samples.
Kin(s) == \A i, j \in DOMAIN s : Apart(Relation(s[i]), Relation(s[j])) <= MaxSkew

\* A sample is added alone, or not at all, or after those still in the window.
LEMMA AddedCases ==
    ASSUME NEW r, samples \in Seq(Row)
    PROVE  \/ Added(r) = <<r>>
           \/ Added(r) = samples /\ samples # <<>> /\ Again(r)
           \/ /\ samples # <<>> /\ ~Again(r) /\ ~Far(r) /\ ~Stepped(r)
              /\ Added(r) = InWindow(Append(samples, r), r.x)
  BY DEF Added

\* The third of these cases: what is left are samples in their order and the
\* new one, all in the window.
LEMMA AddedPlaces ==
    ASSUME NEW r \in Row, samples \in Seq(Row), samples # <<>>, Spaced(samples),
           ~Again(r), ~Far(r)
    PROVE  LET t == InWindow(Append(samples, r), r.x)
           IN  /\ t \in Seq(Row) /\ Spaced(t)
               /\ \A k \in DOMAIN t : t[k] = r \/ \E i \in DOMAIN samples : t[k] = samples[i]
<1> DEFINE t == InWindow(Append(samples, r), r.x)
           all == Append(samples, r)
           I == {i \in DOMAIN all : all[i].x >= r.x - Window}
<1>1. /\ all \in Seq(Row) /\ Len(all) = Len(samples) + 1 /\ Len(samples) \in Nat
      /\ \A i \in 1 .. Len(all) : all[i] = IF i = Len(samples) + 1 THEN r ELSE samples[i]
      /\ DOMAIN all = 1 .. Len(all) /\ DOMAIN samples = 1 .. Len(samples)
  OBVIOUS
<1>2. t \in Seq(Row) /\ \E at : Places(at, t, all, I, Len(all)) BY <1>1, KeptPlaces DEF InWindow
<1>3. PICK at : Places(at, t, all, I, Len(all)) BY <1>2
<1> HIDE DEF t, all, I
<1>4. Len(samples) \in DOMAIN samples BY <1>1
<1>5. LastSample.x < r.x
  <2>1. LastSample \in Row BY <1>4 DEF LastSample
  <2> QED BY <2>1 DEF Again, Row
<1>6. \A i \in DOMAIN samples : samples[i].x < r.x /\ samples[i].x \in Nat
  <2> SUFFICES ASSUME NEW i \in DOMAIN samples PROVE samples[i].x < r.x /\ samples[i].x \in Nat
    OBVIOUS
  <2>1. samples[i] \in Row /\ LastSample \in Row BY <1>4 DEF LastSample
  <2>2. i = Len(samples) \/ i < Len(samples) BY <1>1
  <2>3. CASE i = Len(samples) BY <2>1, <2>3, <1>5 DEF LastSample, Row
  <2>4. CASE i < Len(samples)
    <3>1. samples[i].x < LastSample.x BY <2>4, <1>4 DEF Spaced, LastSample
    <3> QED BY <3>1, <2>1, <1>5 DEF Row
  <2> QED BY <2>2, <2>3, <2>4
<1>7. \A i \in 1 .. Len(all) : all[i].x <= r.x /\ all[i].x \in Nat
  <2> SUFFICES ASSUME NEW i \in 1 .. Len(all) PROVE all[i].x <= r.x /\ all[i].x \in Nat
    OBVIOUS
  <2>1. r.x \in Nat BY DEF Row
  <2>2. CASE i = Len(samples) + 1 BY <2>1, <2>2, <1>1
  <2>3. CASE i # Len(samples) + 1
    <3>1. i \in DOMAIN samples /\ all[i] = samples[i] BY <2>3, <1>1
    <3> QED BY <3>1, <2>1, <1>6
  <2> QED BY <2>2, <2>3
<1>8. \A i, j \in 1 .. Len(all) : i < j => all[i].x < all[j].x
  <2> SUFFICES ASSUME NEW i \in 1 .. Len(all), NEW j \in 1 .. Len(all), i < j
               PROVE  all[i].x < all[j].x
    OBVIOUS
  <2>1. i \in DOMAIN samples /\ all[i] = samples[i] BY <1>1
  <2>2. CASE j = Len(samples) + 1 BY <2>1, <2>2, <1>1, <1>6
  <2>3. CASE j # Len(samples) + 1
    <3>1. j \in DOMAIN samples /\ all[j] = samples[j] BY <2>3, <1>1
    <3> QED BY <2>1, <3>1 DEF Spaced
  <2> QED BY <2>2, <2>3
<1>d. DOMAIN t = 1 .. Len(t) BY <1>2
<1>9. \A k \in DOMAIN t : at[k] \in 1 .. Len(all) /\ t[k] = all[at[k]] /\ all[at[k]].x >= r.x - Window
  <2> SUFFICES ASSUME NEW k \in DOMAIN t
               PROVE  at[k] \in 1 .. Len(all) /\ t[k] = all[at[k]] /\ all[at[k]].x >= r.x - Window
    OBVIOUS
  <2>1. at[k] \in 1 .. Len(all) /\ at[k] \in I /\ t[k] = all[at[k]] BY <1>3, <1>d DEF Places
  <2> QED BY <2>1 DEF I
<1>10. \A j, k \in DOMAIN t : j < k => at[j] < at[k] BY <1>3, <1>d DEF Places
<1>11. Spaced(t)
  <2> SUFFICES ASSUME NEW j \in DOMAIN t, NEW k \in DOMAIN t, j < k
               PROVE  t[j].x < t[k].x /\ t[k].x - t[j].x <= Window
    BY DEF Spaced
  <2>1. t[j].x < t[k].x BY <1>8, <1>9, <1>10
  <2>2. t[j].x >= r.x - Window /\ t[k].x <= r.x /\ t[j].x \in Nat /\ t[k].x \in Nat
    BY <1>7, <1>9
  <2>3. r.x \in Nat /\ Window \in Nat BY FeedAssumption DEF Row
  <2> DEFINE a == t[j].x
             b == t[k].x
             c == r.x
  <2>4. a >= c - Window /\ b <= c /\ a \in Nat /\ b \in Nat /\ c \in Nat BY <2>2, <2>3
  <2> HIDE DEF a, b, c
  <2>5. b - a <= Window BY <2>4, <2>3
  <2> QED BY <2>1, <2>5 DEF a, b
<1>12. ASSUME NEW k \in DOMAIN t PROVE t[k] = r \/ \E i \in DOMAIN samples : t[k] = samples[i]
  <2>1. at[k] \in 1 .. Len(all) /\ t[k] = all[at[k]] BY <1>9
  <2>2. all[at[k]] = IF at[k] = Len(samples) + 1 THEN r ELSE samples[at[k]] BY <2>1, <1>1
  <2>3. CASE at[k] = Len(samples) + 1 BY <2>1, <2>2, <2>3
  <2>4. CASE at[k] # Len(samples) + 1
    <3>1. at[k] \in DOMAIN samples BY <2>1, <2>4, <1>1
    <3> QED BY <2>1, <2>2, <2>4, <3>1
  <2> QED BY <2>3, <2>4
<1> QED BY <1>2, <1>11, <1>12 DEF t

LEMMA SpacedKept ==
    ASSUME NEW r \in Row, samples \in Seq(Row), Spaced(samples)
    PROVE  Spaced(Added(r))
<1>1. CASE Added(r) = <<r>>
  <2>1. DOMAIN <<r>> = {1} OBVIOUS
  <2> QED BY <1>1, <2>1 DEF Spaced
<1>2. CASE Added(r) = samples BY <1>2
<1>3. CASE samples # <<>> /\ ~Again(r) /\ ~Far(r) /\ Added(r) = InWindow(Append(samples, r), r.x)
  BY <1>3, AddedPlaces
<1> QED BY <1>1, <1>2, <1>3, AddedCases

FewResets == MaxResets <= 2

Rel == born["hearer"] - born["sender"]

\* What the relation is and was, where it was reset at most twice.
Relations(r0, r1) ==
    IF resets = 0 THEN {Rel} ELSE IF resets = 1 THEN {r1, Rel} ELSE {r0, r1, Rel}

OfRelations(R) == {r \in Row : Relation(r) \in R}

KnownRelations ==
    \E r0, r1 \in Int :
        /\ resets >= 1 => Apart(r1, Rel) > MaxSkew
        /\ resets >= 2 => Apart(r0, r1) > MaxSkew
        /\ log \in Seq(OfRelations(Relations(r0, r1)))
        /\ text \in Seq(OfRelations(Relations(r0, r1)))
        /\ bus \in Seq(OfRelations(Relations(r0, r1)))
        /\ samples \in Seq(OfRelations(Relations(r0, r1)))

WInv == SInv /\ Spaced(samples) /\ Kin(samples) /\ KnownRelations

LEMMA RelInt == PInv => Rel \in Int BY DEF PInv, ClocksPast, Rel, Clocks

\* Of three relations, each set apart from the one before, near is transitive.
LEMMA NearIsTransitive ==
    ASSUME PInv, FewResets, NEW r0 \in Int, NEW r1 \in Int,
           resets >= 1 => Apart(r1, Rel) > MaxSkew,
           resets >= 2 => Apart(r0, r1) > MaxSkew,
           NEW a \in Relations(r0, r1), NEW b \in Relations(r0, r1), NEW c \in Relations(r0, r1),
           Apart(a, b) <= MaxSkew, Apart(b, c) <= MaxSkew
    PROVE  Apart(a, c) <= MaxSkew
<1>1. Rel \in Int /\ resets \in 0 .. 2 /\ MaxSkew \in Nat
  BY RelInt, FeedAssumption DEF FewResets, PInv, ClocksPast
<1>2. CASE resets = 0 BY <1>1, <1>2 DEF Relations, Apart
<1>3. CASE resets = 1 BY <1>1, <1>3 DEF Relations, Apart
<1>4. CASE resets = 2 BY <1>1, <1>4 DEF Relations, Apart
<1> QED BY <1>1, <1>2, <1>3, <1>4

LEMMA ApartSymmetric == \A a, b \in Int : Apart(a, b) = Apart(b, a) /\ Apart(a, a) = 0
  BY DEF Apart

LEMMA KinKept ==
    ASSUME WInv, FewResets, Observe
    PROVE  Kin(samples')
<1> DEFINE r == Head(bus)
<1>1. PICK r0, r1 \in Int :
        /\ resets >= 1 => Apart(r1, Rel) > MaxSkew
        /\ resets >= 2 => Apart(r0, r1) > MaxSkew
        /\ bus \in Seq(OfRelations(Relations(r0, r1)))
        /\ samples \in Seq(OfRelations(Relations(r0, r1)))
  BY DEF WInv, KnownRelations
<1> DEFINE R == Relations(r0, r1)
<1>2. r \in OfRelations(R) BY <1>1 DEF Observe
<1>3. r \in Row /\ Relation(r) \in R /\ samples' = Added(r)
  BY <1>2 DEF OfRelations, Observe, Arrives
<1> HIDE DEF r
<1>4. samples \in Seq(Row) BY <1>1 DEF OfRelations
<1>5. \A i \in DOMAIN samples : Relation(samples[i]) \in R /\ samples[i] \in Row
  BY <1>1 DEF OfRelations
<1>6. \A a \in Row : Relation(a) \in Int BY DEF Row, Relation
<1>7. CASE Added(r) = <<r>>
  <2>1. DOMAIN <<r>> = {1} /\ <<r>>[1] = r OBVIOUS
  <2>2. Apart(Relation(r), Relation(r)) = 0 BY <1>3, <1>6, ApartSymmetric
  <2> QED BY <1>3, <1>7, <2>1, <2>2, FeedAssumption DEF Kin
<1>8. CASE Added(r) = samples BY <1>3, <1>8 DEF WInv
<1>9. CASE /\ samples # <<>> /\ ~Again(r) /\ ~Far(r) /\ ~Stepped(r)
           /\ Added(r) = InWindow(Append(samples, r), r.x)
  <2> DEFINE t == Added(r)
  <2>0. t = InWindow(Append(samples, r), r.x) BY <1>9
  <2> HIDE DEF t
  <2>1. \A k \in DOMAIN t : t[k] = r \/ \E i \in DOMAIN samples : t[k] = samples[i]
    <3>1. Spaced(samples) /\ r \in Row /\ samples # <<>> /\ ~Again(r) /\ ~Far(r)
      BY <1>3, <1>9 DEF WInv
    <3> QED BY <3>1, <1>4, <2>0, AddedPlaces
  <2>2. Len(samples) \in DOMAIN samples BY <1>4, <1>9
  <2>3. Apart(Relation(r), Relation(LastSample)) <= MaxSkew
    <3>1. LastSample \in Row /\ r \in Row BY <1>3, <1>5, <2>2 DEF LastSample
    <3> QED BY <3>1, <1>9, FeedAssumption DEF Stepped, Apart, Relation, Row
  <2>4. ASSUME NEW i \in DOMAIN samples PROVE Apart(Relation(r), Relation(samples[i])) <= MaxSkew
    <3>1. Apart(Relation(LastSample), Relation(samples[i])) <= MaxSkew
      BY <2>2 DEF WInv, Kin, LastSample
    <3>2. Relation(LastSample) \in R /\ Relation(samples[i]) \in R
      BY <2>2, <1>5 DEF LastSample
    <3> HIDE DEF R
    <3> QED BY <1>1, <1>3, <2>3, <3>1, <3>2, NearIsTransitive DEF WInv, SInv, R
  <2>5. \A i \in DOMAIN samples : Apart(Relation(samples[i]), Relation(r)) <= MaxSkew
    BY <2>4, <1>3, <1>5, <1>6, ApartSymmetric
  <2>6. Apart(Relation(r), Relation(r)) <= MaxSkew
    BY <1>3, <1>6, ApartSymmetric, FeedAssumption
  <2>7. \A i, j \in DOMAIN t : Apart(Relation(t[i]), Relation(t[j])) <= MaxSkew
    BY <2>1, <2>4, <2>5, <2>6 DEF WInv, Kin
  <2> QED BY <1>3, <2>7 DEF Kin, t
<1> QED BY <1>4, <1>7, <1>8, <1>9, AddedCases

\* While no clock is reset, what rows there are have the relations there were.
LEMMA RelationsFlow ==
    ASSUME WInv, [Next]_vars, UNCHANGED <<born, resets>>
    PROVE  KnownRelations'
<1>1. PICK r0, r1 \in Int :
        /\ resets >= 1 => Apart(r1, Rel) > MaxSkew
        /\ resets >= 2 => Apart(r0, r1) > MaxSkew
        /\ log \in Seq(OfRelations(Relations(r0, r1)))
        /\ text \in Seq(OfRelations(Relations(r0, r1)))
        /\ bus \in Seq(OfRelations(Relations(r0, r1)))
        /\ samples \in Seq(OfRelations(Relations(r0, r1)))
  BY DEF WInv, KnownRelations
<1> DEFINE G == OfRelations(Relations(r0, r1))
<1>2. Rel' = Rel /\ resets' = resets /\ Relations(r0, r1)' = Relations(r0, r1)
  BY DEF Rel, Relations
<1>3. Lines \in Seq(G)
  <2>2. /\ Lines \in Seq(Logged(now))
        /\ \A i \in 1 .. Len(Lines) : 2 * i \in DOMAIN text /\ Lines[i] = text[2 * i]
    BY PairedLines DEF WInv
  <2> HIDE DEF G
  <2>3. \A i \in 1 .. Len(Lines) : Lines[i] \in G BY <1>1, <2>2 DEF G
  <2> QED BY <2>2, <2>3
<1>4. Heard(now + 1) \in G
  <2>1. now \in Nat BY FeedAssumption DEF WInv, SInv, PInv, ClocksPast
  <2>2. Heard(now + 1) \in Row /\ Relation(Heard(now + 1)) = Rel
    BY <2>1, HeardRow DEF WInv, SInv, PInv, Rel
  <2>3. Rel \in Relations(r0, r1) BY DEF Relations
  <2> QED BY <2>2, <2>3 DEF OfRelations
<1>5. Len(log) <= LogMax BY DEF WInv, SInv, PInv, RowsPast
<1> HIDE DEF G
<1>6. log' \in Seq(G) /\ text' \in Seq(G) /\ bus' \in Seq(G) /\ samples' \in Seq(G)
  BY <1>1, <1>3, <1>4, <1>5, RowsFlow DEF G
<1>7. OfRelations(Relations(r0, r1)') = G BY <1>2 DEF G
<1> QED BY <1>1, <1>2, <1>6, <1>7 DEF KnownRelations

LEMMA RelationsReset ==
    ASSUME WInv, FewResets, NEW c \in Clocks, ClockReset(c)
    PROVE  KnownRelations'
<1>1. PICK r0, r1 \in Int :
        /\ resets >= 1 => Apart(r1, Rel) > MaxSkew
        /\ resets >= 2 => Apart(r0, r1) > MaxSkew
        /\ log \in Seq(OfRelations(Relations(r0, r1)))
        /\ text \in Seq(OfRelations(Relations(r0, r1)))
        /\ bus \in Seq(OfRelations(Relations(r0, r1)))
        /\ samples \in Seq(OfRelations(Relations(r0, r1)))
  BY DEF WInv, KnownRelations
<1>2. resets \in 0 .. 1 /\ resets' = resets + 1
  BY FeedAssumption DEF FewResets, ClockReset, WInv, SInv, PInv, ClocksPast
<1>3. Rel \in Int /\ Rel' \in Int /\ Apart(Rel, Rel') > MaxSkew
  <2>1. now \in Nat /\ born \in [Clocks -> Int] /\ now - born[c] > MaxSkew
        /\ born' = [born EXCEPT ![c] = now]
    BY FeedAssumption DEF WInv, SInv, PInv, ClocksPast, ClockReset, Reading
  <2>2. CASE c = "hearer"
    <3>1. born'["hearer"] = now /\ born'["sender"] = born["sender"]
      BY <2>1, <2>2 DEF Clocks
    <3> QED BY <2>1, <2>2, <3>1, FeedAssumption DEF Rel, Apart, Clocks
  <2>3. CASE c = "sender"
    <3>1. born'["sender"] = now /\ born'["hearer"] = born["hearer"]
      BY <2>1, <2>3 DEF Clocks
    <3> QED BY <2>1, <2>3, <3>1, FeedAssumption DEF Rel, Apart, Clocks
  <2> QED BY <2>2, <2>3 DEF Clocks
<1> DEFINE R == Relations(r0, r1)
           S == Relations(r1, Rel)'
<1>4. Relations(r1, Rel)' = IF resets' = 0 THEN {Rel'} ELSE IF resets' = 1 THEN {Rel', Rel'} ELSE {r1, Rel', Rel'}
  BY DEF Relations
<1> DEFINE N == IF resets' = 1 THEN {Rel, Rel'} ELSE {r1, Rel, Rel'}
<1>5. R \subseteq N BY <1>2 DEF Relations
<1>6. OfRelations(R) \subseteq OfRelations(N) BY <1>5 DEF OfRelations
<1>7. UNCHANGED <<log, text, bus, samples>> BY DEF ClockReset, agentVars
<1> HIDE DEF R, N
<1>8. log' \in Seq(OfRelations(N)) /\ text' \in Seq(OfRelations(N))
      /\ bus' \in Seq(OfRelations(N)) /\ samples' \in Seq(OfRelations(N))
  BY <1>1, <1>6, <1>7, SeqWidens DEF R
<1>9. PICK q \in Int : q = Rel BY <1>3
<1>10. Relations(r1, q)' = N BY <1>2, <1>9 DEF Relations, N
<1>11. resets' >= 2 => Apart(r1, q) > MaxSkew BY <1>1, <1>2, <1>9
<1>12. Apart(q, Rel') > MaxSkew BY <1>3, <1>9
<1>13. OfRelations(Relations(r1, q)') = OfRelations(N) BY <1>10
<1> QED BY <1>8, <1>11, <1>12, <1>13 DEF KnownRelations

LEMMA NextWInv == ASSUME WInv, ~torn', FewResets, [Next]_vars PROVE WInv'
<1>1. SInv' BY NextSInv DEF WInv
<1>2. KnownRelations'
  <2>1. ASSUME NEW c \in Clocks, ClockReset(c) PROVE KnownRelations'
    BY <2>1, RelationsReset
  <2>2. CASE UNCHANGED <<born, resets>> BY <2>2, RelationsFlow
  <2>3. (\E c \in Clocks : ClockReset(c)) \/ UNCHANGED <<born, resets>>
    BY DEF Next, Tick, Read, Forward, AgentRestart, Observe, vars, clockVars
  <2> QED BY <2>1, <2>2, <2>3
<1>3. Spaced(samples') /\ Kin(samples')
  <2>1. CASE Observe
    <3>1. Head(bus) \in Row /\ samples \in Seq(Row)
      BY <2>1 DEF Observe, WInv, SInv, PInv, RowsPast, Past
    <3>2. samples' = Added(Head(bus)) BY <2>1 DEF Observe, Arrives
    <3>3. Spaced(samples') BY <3>1, <3>2, SpacedKept DEF WInv
    <3> QED BY <2>1, <3>3, KinKept
  <2>2. CASE UNCHANGED samples BY <2>2 DEF WInv
  <2>3. Observe \/ UNCHANGED samples
    BY DEF Next, Tick, ClockReset, Read, Forward, AgentRestart, vars
  <2> QED BY <2>1, <2>2, <2>3
<1> QED BY <1>1, <1>2, <1>3 DEF WInv

LEMMA InitWInv == Init => WInv
<1> SUFFICES ASSUME Init PROVE WInv OBVIOUS
<1>1. SInv BY InitSInv
<1>2. Spaced(samples) /\ Kin(samples) BY DEF Init, Spaced, Kin
<1>3. KnownRelations BY DEF Init, KnownRelations
<1> QED BY <1>1, <1>2, <1>3 DEF WInv

\* WInv is inductive: rows are of the relations the clocks had, and the window
\* is of relations near to one another (clockd.py:52-76).
THEOREM WInvHolds == ASSUME FewResets PROVE Spec => [](~torn => WInv)
<1>1. Init => (~torn => WInv) BY InitWInv
<1>2. (~torn => WInv) /\ [Next]_vars => (~torn => WInv)' BY NextWInv, TornStays
<1> QED BY <1>1, <1>2, PTL DEF Spec

\* The window is fit for a line: its samples advance, span no more than the
\* window, and no step of a clock lies between any two (clockd.py:52-76).
THEOREM WindowSoundHolds == ASSUME FewResets PROVE Spec => [](~torn => WindowSound)
<1>1. WInv => WindowSound BY DEF WInv, Spaced, Kin, WindowSound
<1> QED BY <1>1, WInvHolds, PTL

---------------------------------------------------------------------------
(* Undisturbed: beacons are heard every tick, and each is taken up before  *)
(* the next.                                                               *)

\* The latest beacon has not been taken up by the controller.
Pending ==
    \/ \E i \in DOMAIN log : log[i] = Heard(now) /\ Key(log[i]) \notin seen
    \/ \E i \in DOMAIN bus : bus[i] = Heard(now)

\* Only the latest beacon is under way, and it tells of the clocks as they are.
Quiet ==
    /\ \A i \in DOMAIN bus : bus[i] = Heard(now)
    /\ \A i \in DOMAIN log : Key(log[i]) \in seen \/ log[i] = Heard(now)
    /\ Showing

QInv == SInv /\ (calm >= 1 => Quiet)

LEMMA TickElements ==
    ASSUME PInv, Tick(TRUE)
    PROVE  /\ \A i \in DOMAIN log' : log'[i] = Heard(now + 1)
                                     \/ \E j \in DOMAIN log : log'[i] = log[j]
           /\ \E i \in DOMAIN log' : log'[i] = Heard(now + 1)
<1> DEFINE r == Heard(now + 1)
           t == Newest(Append(log, r), LogMax)
<1>1. now \in Nat BY FeedAssumption DEF PInv, ClocksPast
<1>2. r \in Row BY <1>1, HeardRow DEF PInv
<1>3. log \in Seq(Row) /\ Len(log) <= LogMax /\ LogMax \in Nat \ {0}
  BY FeedAssumption DEF PInv, RowsPast, Past
<1>4. log' = t BY DEF Tick
<1> HIDE DEF r
<1>5. t \in Seq(Row) /\ Len(t) \in 1 .. LogMax /\ Shifted(t, log, r)
  BY <1>2, <1>3, NewestAppend
<1> HIDE DEF t
<1>7. PICK d \in {0, 1} :
         /\ Len(t) = Len(log) + 1 - d
         /\ \A i \in 1 .. Len(t) : t[i] = IF i + d = Len(log) + 1 THEN r ELSE log[i + d]
  BY <1>5 DEF Shifted
<1>8. DOMAIN t = 1 .. Len(t) /\ DOMAIN log = 1 .. Len(log) /\ Len(log) \in Nat BY <1>3, <1>5
<1>9. \A i \in DOMAIN t : t[i] = r \/ \E j \in DOMAIN log : t[i] = log[j]
  <2> SUFFICES ASSUME NEW i \in DOMAIN t PROVE t[i] = r \/ \E j \in DOMAIN log : t[i] = log[j]
    OBVIOUS
  <2>1. CASE i + d = Len(log) + 1 BY <2>1, <1>7, <1>8
  <2>2. CASE i + d # Len(log) + 1
    <3>1. i + d \in DOMAIN log BY <2>2, <1>7, <1>8
    <3> QED BY <2>2, <3>1, <1>7, <1>8
  <2> QED BY <2>1, <2>2
<1>10. Len(t) \in DOMAIN t /\ t[Len(t)] = r BY <1>5, <1>7, <1>8
<1> QED BY <1>4, <1>9, <1>10 DEF r

\* An undisturbed poll shows the log.
LEMMA QuietRows ==
    ASSUME SInv, Quiet, Forward
    PROVE  Len(Rows) = Len(log) /\ DOMAIN Rows = DOMAIN log /\ \A i \in DOMAIN log : Rows[i] = log[i]
<1>1. CASE drains BY <1>1 DEF Rows
<1>2. CASE ~drains
  <2>1. Rows = Lines /\ Showing BY <1>2 DEF Rows, Quiet
  <2>2. log \in Seq(Past(now)) /\ text \in Seq(Past(now)) BY DEF SInv, PInv, RowsPast
  <2>3. Len(Text) = 2 * Len(log) /\ Len(log) \in Nat /\ Len(text) \in Nat
        /\ DOMAIN log = 1 .. Len(log)
    BY <2>2, TextOf
  <2>4. Len(text) = 2 * Len(log) BY <1>2, <2>1, <2>3 DEF Forward, Showing
  <2>5. Len(Lines) = Len(log) BY <2>1, <2>4, AllShown
  <2>6. DOMAIN Lines = 1 .. Len(Lines) /\ \A i \in 1 .. Len(Lines) : Lines[i] = log[i]
    BY <2>1, PairedLines
  <2> QED BY <2>1, <2>3, <2>5, <2>6
<1> QED BY <1>1, <1>2

\* A poll that is handed over: whatever was pending still is.
LEMMA QuietForward ==
    ASSUME SInv, Quiet, Forward, calm' # 0
    PROVE  Quiet' /\ (Pending => Pending')
<1> DEFINE fresh == Unread(Rows)
<1>1. Len(Rows) = Len(log) /\ DOMAIN Rows = DOMAIN log /\ \A i \in DOMAIN log : Rows[i] = log[i]
  BY QuietRows
<1>2. Rows \in Seq(Logged(now)) BY PollOf
<1>3. /\ fresh \in Seq(Logged(now))
      /\ \A i \in DOMAIN fresh : \E j \in DOMAIN Rows :
            fresh[i] = Rows[j] /\ Key(Rows[j]) \notin seen
      /\ \A j \in DOMAIN Rows : Key(Rows[j]) \notin seen =>
            \E i \in DOMAIN fresh : fresh[i] = Rows[j]
  BY <1>2, UnreadOf
<1>4. bus' = bus \o fresh /\ seen' = Marked(Rows) BY DEF Forward
<1>5. text' = <<>> /\ (log' = log \/ log' = <<>>) /\ now' = now /\ born' = born BY DEF Forward
<1>6. bus \in Seq(Logged(now)) BY DEF SInv, LogAscends
<1>7. Heard(now)' = Heard(now) BY <1>5 DEF Heard
<1> HIDE DEF fresh
<1>8. \A i \in DOMAIN fresh : fresh[i] = Heard(now) BY <1>1, <1>3 DEF Quiet
<1>9. /\ \A i \in DOMAIN bus : i \in DOMAIN bus' /\ bus'[i] = bus[i]
      /\ \A i \in DOMAIN fresh : Len(bus) + i \in DOMAIN bus' /\ bus'[Len(bus) + i] = fresh[i]
      /\ \A i \in DOMAIN bus' : i \in DOMAIN bus \/ (i - Len(bus) \in DOMAIN fresh /\ bus'[i] = fresh[i - Len(bus)])
  BY <1>3, <1>4, <1>6
<1>10. \A i \in DOMAIN bus' : bus'[i] = Heard(now) BY <1>8, <1>9 DEF Quiet
<1>11. \A i \in DOMAIN log : Key(log[i]) \in seen' \/ log[i] = Heard(now)
  <2>1. Keys(log) \subseteq Keys(Rows) BY <1>1 DEF Keys
  <2>2. \A i \in DOMAIN log : Key(log[i]) \in Keys(log) BY DEF Keys
  <2>3. Marked(Rows) = seen \cup Keys(Rows) \/ Marked(Rows) = Keys(Rows) BY MarkedOf DEF SInv
  <2> QED BY <1>4, <2>1, <2>2, <2>3
<1>s. Showing'
  <2>1. log \in Seq(Past(now)) BY DEF SInv, PInv, RowsPast
  <2>2. Len(log') \in Nat BY <1>5, <2>1
  <2>3. Len(text') = 0 /\ 1 .. 0 = {} BY <1>5
  <2> QED BY <2>2, <2>3 DEF Showing
<1>12. Quiet' BY <1>5, <1>7, <1>10, <1>11, <1>s DEF Quiet
<1>13. ASSUME Pending PROVE Pending'
  <2>1. CASE \E i \in DOMAIN log : log[i] = Heard(now) /\ Key(log[i]) \notin seen
    <3>1. PICK i \in DOMAIN log : log[i] = Heard(now) /\ Key(log[i]) \notin seen BY <2>1
    <3>2. PICK j \in DOMAIN fresh : fresh[j] = Heard(now) BY <3>1, <1>1, <1>3
    <3>3. Len(bus) + j \in DOMAIN bus' /\ bus'[Len(bus) + j] = Heard(now)' BY <3>2, <1>7, <1>9
    <3> QED BY <3>3 DEF Pending
  <2>2. CASE \E i \in DOMAIN bus : bus[i] = Heard(now)
    <3>1. PICK i \in DOMAIN bus : bus[i] = Heard(now) BY <2>2
    <3>2. i \in DOMAIN bus' /\ bus'[i] = Heard(now)' BY <3>1, <1>7, <1>9
    <3> QED BY <3>2 DEF Pending
  <2> QED BY <1>13, <2>1, <2>2 DEF Pending
<1> QED BY <1>12, <1>13

LEMMA QuietRead ==
    ASSUME SInv, Quiet, Read
    PROVE  Quiet' /\ (Pending => Pending')
<1>1. UNCHANGED <<log, bus, now, born, seen>> BY DEF Read, clockVars
<1>2. Heard(now)' = Heard(now) BY <1>1 DEF Heard
<1>3. Showing' BY ReadShows
<1>4. Quiet' BY <1>1, <1>2, <1>3 DEF Quiet
<1>5. Pending => Pending' BY <1>1, <1>2 DEF Pending
<1> QED BY <1>4, <1>5

\* The tick after which all is quiet: the beacon it brings is pending, and
\* nothing was.
LEMMA QuietTick ==
    ASSUME SInv, NEW heard \in BOOLEAN, Tick(heard), calm' # 0
    PROVE  /\ calm' = calm + 1 /\ now' = now + 1 /\ Quiet' /\ Pending' /\ ~Pending
           /\ UNCHANGED <<samples, anchor, born, reference>>
<1>1. /\ heard /\ Forwarded /\ bus = <<>> /\ calm' = calm + 1 /\ now' = now + 1
      /\ UNCHANGED <<samples, anchor, born, reference, text, bus, seen>>
  BY DEF Tick, agentVars, setting
<1>2. now \in Nat BY FeedAssumption DEF SInv, PInv, ClocksPast
<1> DEFINE r == Heard(now + 1)
<1>3. Heard(now)' = r BY <1>1 DEF Heard
<1>4. /\ \A i \in DOMAIN log' : log'[i] = r \/ \E j \in DOMAIN log : log'[i] = log[j]
      /\ \E i \in DOMAIN log' : log'[i] = r
  <2>1. Tick(TRUE) BY <1>1
  <2> QED BY <2>1, TickElements DEF SInv
<1>5. \A j \in DOMAIN log : Key(log[j]) \in seen BY <1>1 DEF Forwarded, Keys
<1>6. Key(r) \notin seen
  <2>1. HeardAt(r) = now + 1 BY <1>2, HeardRow DEF SInv, PInv
  <2>2. \A k \in seen : Times(k) \in 0 .. now BY DEF SInv, PInv, KeysPast, PastKeys
  <2>3. Times(Key(r)) = now + 1 BY <2>1, TimeOfKey
  <2> QED BY <2>2, <2>3, <1>2
<1> HIDE DEF r
<1>s. Showing'
  <2>1. PInv'
    <3>1. Next BY DEF Next
    <3> QED BY <3>1, NextPInv DEF SInv
  <2>2. Len(log') \in Nat BY <2>1 DEF PInv, RowsPast
  <2>3. text' = <<>> BY <1>1 DEF Forwarded
  <2>4. Len(text') = 0 /\ 1 .. 0 = {} BY <2>3
  <2> QED BY <2>2, <2>4 DEF Showing
<1>7. Quiet' BY <1>1, <1>3, <1>4, <1>5, <1>s DEF Quiet
<1>8. Pending' BY <1>1, <1>3, <1>4, <1>6 DEF Pending
<1>9. ~Pending BY <1>1, <1>5 DEF Pending
<1> QED BY <1>1, <1>7, <1>8, <1>9

LEMMA QuietObserve ==
    ASSUME SInv, Quiet, Observe
    PROVE  Quiet' /\ Head(bus) = Heard(now) /\ Heard(now) \in Row
<1>1. bus # <<>> /\ bus' = Tail(bus) /\ UNCHANGED <<log, text, seen, now, born>>
  BY DEF Observe, clockVars, agentVars
<1>2. bus \in Seq(Logged(now)) BY DEF SInv, LogAscends
<1>3. Heard(now)' = Heard(now) BY <1>1 DEF Heard
<1>4. 1 \in DOMAIN bus /\ Head(bus) = bus[1] /\ bus[1] \in Logged(now) BY <1>1, <1>2
<1>5. \A i \in DOMAIN bus' : i + 1 \in DOMAIN bus /\ bus'[i] = bus[i + 1] BY <1>1, <1>2
<1>6. Quiet' BY <1>1, <1>3, <1>5 DEF Quiet, Showing
<1>7. Heard(now) \in Row BY <1>4 DEF Quiet, Logged, Past
<1> QED BY <1>4, <1>6, <1>7 DEF Quiet

\* What a step does while it stays quiet, or begins to be.
LEMMA CalmSteps ==
    ASSUME SInv, [Next]_vars, calm' # 0
    PROVE  \/ \E heard \in BOOLEAN : Tick(heard)
           \/ Observe /\ UNCHANGED <<calm, now, born, reference>>
           \/ (Read \/ Forward) /\ UNCHANGED <<calm, now, born, reference, samples, anchor>>
           \/ UNCHANGED vars
<1>1. ASSUME Forward PROVE UNCHANGED <<calm, now, born, reference, samples, anchor>>
  BY <1>1 DEF Forward, setting
<1>2. ASSUME Read PROVE UNCHANGED <<calm, now, born, reference, samples, anchor>>
  BY <1>2 DEF Read, clockVars, setting
<1>3. ASSUME Observe PROVE UNCHANGED <<calm, now, born, reference>>
  BY <1>3 DEF Observe, clockVars, setting
<1>4. ~AgentRestart /\ \A c \in Clocks : ~ClockReset(c) BY DEF AgentRestart, ClockReset
<1> QED BY <1>1, <1>2, <1>3, <1>4 DEF Next

LEMMA NextQInv == ASSUME QInv, ~torn', [Next]_vars PROVE QInv'
<1>1. SInv' BY NextSInv DEF QInv
<1>2. ASSUME calm' >= 1 PROVE Quiet'
  <2>0. calm' # 0 BY <1>2
  <2>1. ASSUME NEW heard \in BOOLEAN, Tick(heard) PROVE Quiet' BY <2>0, <2>1, QuietTick DEF QInv
  <2>2. CASE Observe /\ UNCHANGED calm BY <1>2, <2>2, QuietObserve DEF QInv
  <2>3. CASE Read /\ UNCHANGED calm BY <1>2, <2>3, QuietRead DEF QInv
  <2>4. CASE Forward /\ UNCHANGED calm BY <1>2, <2>0, <2>4, QuietForward DEF QInv
  <2>5. CASE UNCHANGED vars
    <3>1. UNCHANGED <<log, text, bus, seen, now, born, calm>> BY <2>5 DEF vars, clockVars, agentVars
    <3> QED BY <1>2, <3>1 DEF QInv, Quiet, Heard, Showing
  <2> QED BY <2>0, <2>1, <2>2, <2>3, <2>4, <2>5, CalmSteps DEF QInv
<1> QED BY <1>1, <1>2 DEF QInv

LEMMA InitQInv == Init => QInv
  BY InitSInv DEF Init, QInv

\* The anchor is of the reference clock's present life.
Current == anchor # NoAnchor /\ anchor.born = born[reference]

AnchorOnItsWay ==
    /\ anchor = NoAnchor \/ anchor.at <= now - calm
    /\ \/ Pending /\ calm <= MaxAge + 1
       \/ anchor # NoAnchor /\ calm <= MaxAge

AInv == QInv /\ (calm >= 1 => Current \/ AnchorOnItsWay)

LEMMA AnchorTick ==
    ASSUME AInv, NEW heard \in BOOLEAN, Tick(heard), calm' # 0
    PROVE  Current' \/ AnchorOnItsWay'
<1>1. /\ calm' = calm + 1 /\ now' = now + 1 /\ Pending' /\ ~Pending
      /\ UNCHANGED <<anchor, born, reference>>
  BY QuietTick DEF AInv, QInv
<1>2. now \in Nat /\ calm \in 0 .. now /\ MaxAge \in Nat
  BY FeedAssumption DEF AInv, QInv, SInv, PInv, ClocksPast
<1>3. CASE calm = 0
  <2>1. anchor = NoAnchor \/ anchor.at <= now
    BY DEF AInv, QInv, SInv, PInv, AnchorPast
  <2>2. now' - calm' = now /\ calm' <= MaxAge + 1 BY <1>1, <1>2, <1>3
  <2> QED BY <1>1, <2>1, <2>2 DEF AnchorOnItsWay
<1>4. CASE calm >= 1
  <2>1. CASE Current BY <1>1, <2>1 DEF Current
  <2>2. CASE ~Current
    <3>1. AnchorOnItsWay BY <1>4, <2>2 DEF AInv
    <3>2. calm <= MaxAge BY <3>1, <1>1 DEF AnchorOnItsWay
    <3>3. now' - calm' = now - calm /\ calm' <= MaxAge + 1 BY <1>1, <1>2, <3>2
    <3> QED BY <1>1, <3>1, <3>3 DEF AnchorOnItsWay
  <2> QED BY <2>1, <2>2
<1> QED BY <1>2, <1>3, <1>4

LEMMA AnchorObserve ==
    ASSUME AInv, Observe, UNCHANGED <<calm, now, born, reference>>, calm >= 1
    PROVE  Current' \/ AnchorOnItsWay'
<1> DEFINE r == Heard(now)
           new == [value |-> RefValue(r), at |-> now, born |-> HeardAt(r) - RefValue(r)]
<1>1. Head(bus) = r /\ r \in Row BY QuietObserve DEF AInv, QInv
<1>2. anchor' = Note(r) BY <1>1 DEF Observe, Arrives
<1>3. now \in Nat /\ calm \in 0 .. now /\ MaxAge \in Nat /\ born \in [Clocks -> Int]
      /\ reference \in Clocks
  BY FeedAssumption DEF AInv, QInv, SInv, PInv, ClocksPast
<1>4. r.x = now - born["hearer"] /\ r.y = now - born["sender"] /\ HeardAt(r) = now
      /\ born["hearer"] \in Int /\ born["sender"] \in Int
  BY <1>3 DEF Heard, HeardAt, Clocks
<1>5. new.born = born[reference]
  <2>1. CASE reference = "sender" BY <2>1, <1>3, <1>4 DEF RefValue
  <2>2. CASE reference # "sender"
    <3>1. reference = "hearer" BY <2>2, <1>3 DEF Clocks
    <3> QED BY <2>2, <3>1, <1>3, <1>4 DEF RefValue
  <2> QED BY <2>1, <2>2
<1>6. r \in Past(now) BY <1>1, <1>3, <1>4 DEF Past
<1> HIDE DEF r
<1>7. new # NoAnchor
  <2>1. new \in Readings BY <1>6, NoteOf DEF AInv, QInv, SInv
  <2> HIDE DEF new
  <2>2. "none" \notin DOMAIN new BY <2>1, NoneTold
  <2>3. "none" \in DOMAIN NoAnchor BY DEF NoAnchor
  <2> QED BY <2>2, <2>3
<1>8. \/ Note(r) = new
      \/ Note(r) = anchor /\ anchor # NoAnchor /\ ~(AnchorAge > MaxAge)
  <2>1. "none" \in DOMAIN NoAnchor BY DEF NoAnchor
  <2> QED BY <2>1 DEF Note
<1> HIDE DEF new
<1>9. CASE Note(r) = new BY <1>2, <1>5, <1>7, <1>9 DEF Current
<1>10. CASE Note(r) = anchor /\ anchor # NoAnchor /\ ~(AnchorAge > MaxAge)
  <2>1. anchor' = anchor BY <1>2, <1>10
  <2>2. CASE Current BY <2>1, <2>2 DEF Current
  <2>3. CASE ~Current
    <3>1. AnchorOnItsWay BY <2>3 DEF AInv
    <3>2. anchor.at <= now - calm BY <3>1, <1>10 DEF AnchorOnItsWay
    <3>3. anchor.at \in Nat
      BY <1>10 DEF AInv, QInv, SInv, PInv, AnchorPast, Readings
    <3>4. calm <= MaxAge BY <3>2, <3>3, <1>3, <1>10 DEF AnchorAge
    <3> QED BY <2>1, <3>2, <3>4, <1>10 DEF AnchorOnItsWay
  <2> QED BY <2>2, <2>3
<1> QED BY <1>8, <1>9, <1>10

LEMMA NextAInv == ASSUME AInv, ~torn', [Next]_vars PROVE AInv'
<1>1. QInv' BY NextQInv DEF AInv
<1>2. ASSUME calm' >= 1 PROVE Current' \/ AnchorOnItsWay'
  <2>0. calm' # 0 BY <1>2
  <2>1. ASSUME NEW heard \in BOOLEAN, Tick(heard) PROVE Current' \/ AnchorOnItsWay'
    BY <2>0, <2>1, AnchorTick
  <2>2. CASE Observe /\ UNCHANGED <<calm, now, born, reference>> BY <1>2, <2>2, AnchorObserve
  <2>3. CASE (Read \/ Forward) /\ UNCHANGED <<calm, now, born, reference, samples, anchor>>
    <3>1. Quiet /\ (Current \/ AnchorOnItsWay) BY <1>2, <2>3 DEF AInv, QInv
    <3>2. Pending => Pending' BY <2>0, <2>3, <3>1, QuietRead, QuietForward DEF AInv, QInv
    <3>3. Current => Current' BY <2>3 DEF Current
    <3>4. AnchorOnItsWay => AnchorOnItsWay' BY <2>3, <3>2 DEF AnchorOnItsWay
    <3> QED BY <3>1, <3>3, <3>4
  <2>4. CASE UNCHANGED vars
    <3>1. UNCHANGED <<log, bus, seen, now, born, calm, reference, anchor>>
      BY <2>4 DEF vars, clockVars, setting, agentVars
    <3> QED BY <1>2, <3>1 DEF AInv, Current, AnchorOnItsWay, Pending, Heard
  <2> QED BY <2>0, <2>1, <2>2, <2>3, <2>4, CalmSteps DEF AInv, QInv
<1> QED BY <1>1, <1>2 DEF AInv

\* AInv is inductive: while beacons arrive undisturbed the anchor is of the
\* reference clock's present life, or has not been touched since the
\* disturbance (clockd.py:157-171).
THEOREM AInvHolds == Spec => [](~torn => AInv)
<1>1. Init => (~torn => AInv) BY InitQInv DEF Init, AInv
<1>2. (~torn => AInv) /\ [Next]_vars => (~torn => AInv)' BY NextAInv, TornStays
<1> QED BY <1>1, <1>2, PTL DEF Spec

\* A reset of the reference clock does not leave the anchor on its old life
\* for good (clockd.py:162-169).
THEOREM AnchorRecoversHolds == Spec => [](~torn => AnchorRecovers)
<1>1. AInv => AnchorRecovers
  <2> SUFFICES ASSUME AInv, calm >= MaxAge + 3
               PROVE  "none" \notin DOMAIN anchor /\ anchor.born = born[reference]
    BY DEF AnchorRecovers
  <2>1. MaxAge \in Nat /\ calm \in Nat
    BY FeedAssumption DEF AInv, QInv, SInv, PInv, ClocksPast
  <2>2. ~AnchorOnItsWay BY <2>1 DEF AnchorOnItsWay
  <2>3. Current BY <2>1, <2>2 DEF AInv
  <2>4. anchor \in Readings BY <2>3 DEF Current, AInv, QInv, SInv, PInv, AnchorPast
  <2> QED BY <2>3, <2>4, NoneTold DEF Current
<1> QED BY <1>1, AInvHolds, PTL

\* By a reading of the present life an instant is never placed further ahead
\* than was asked, nor is it by any once beacons have arrived undisturbed for
\* as long as an anchor may live (clockd.py:237-247).
THEOREM NeverTooFarHolds == Spec => [](~torn => NeverTooFar)
<1>1. AInv /\ AnchorRecovers => NeverTooFar
  <2> SUFFICES ASSUME AInv, AnchorRecovers, Offered,
                      anchor.born = born[reference] \/ calm >= MaxAge + 3
               PROVE  SharedInstant(0) <= Reading(reference)
    BY DEF NeverTooFar
  <2>1. anchor # NoAnchor BY DEF Offered, NoAnchor
  <2>2. anchor \in Readings /\ anchor.value + anchor.born <= anchor.at
    BY <2>1 DEF AInv, QInv, SInv, PInv, AnchorPast
  <2>3. anchor.value \in Nat /\ anchor.at \in Nat /\ anchor.born \in Int BY <2>2 DEF Readings
  <2>4. now \in Nat BY FeedAssumption DEF AInv, QInv, SInv, PInv, ClocksPast
  <2>5. anchor.born = born[reference] BY DEF AnchorRecovers
  <2> QED BY <2>2, <2>3, <2>4, <2>5 DEF SharedInstant, AnchorAge, Reading
<1> QED BY <1>1, AInvHolds, AnchorRecoversHolds, PTL

---------------------------------------------------------------------------
(* The window after a disturbance.                                         *)

\* A fit asks for a sample at least and no more than the window holds, and
\* beacons come more often than the gap.
Fitting == MinSamples \in 1 .. Window + 1 /\ MaxGap >= 1

\* The latest k samples are the beacons up to tick a.
Latest(k, a) == \A i \in 0 .. k - 1 : samples[Len(samples) - i] = Heard(a - i)

\* Beacons up to tick a were taken up.  Either nothing was left to compare them
\* with; or all were taken for late ones, since the last sample lies ahead of
\* them by no more than the gap; or they are in the window.
TakenUp(a) ==
    \/ samples = <<>> /\ a = now - calm
    \/ /\ samples # <<>>
       /\ a > now - calm =>
            /\ LastSample.x >= a - born["hearer"]
            /\ LastSample.x - (now - calm + 1 - born["hearer"]) <= MaxGap
    \/ \E k \in 1 .. Len(samples) :
          /\ Latest(k, a)
          /\ k >= Window + 1 \/ k >= a - (now - calm) - MaxGap - 1

\* All beacons were taken up, or all but the latest, which is on its way.
UpToDate == \E a \in {now - 1, now} : TakenUp(a) /\ (Pending \/ a = now)

FInv == QInv /\ WInv /\ (calm >= 1 => UpToDate)

LEMMA TakenUpKept ==
    ASSUME NEW a, UNCHANGED <<samples, born>>, now' - calm' = now - calm
    PROVE  TakenUp(a) => TakenUp(a)'
<1>1. \A t : Heard(t)' = Heard(t) BY DEF Heard
<1>2. \A k : Latest(k, a)' <=> Latest(k, a) BY <1>1 DEF Latest
<1> QED BY <1>2 DEF TakenUp, LastSample

\* The next beacon is on its way.
LEMMA FitTick ==
    ASSUME FInv, NEW heard \in BOOLEAN, Tick(heard), calm' # 0
    PROVE  UpToDate'
<1>1. /\ calm' = calm + 1 /\ now' = now + 1 /\ Pending' /\ ~Pending
      /\ UNCHANGED <<samples, born>>
  BY QuietTick DEF FInv, QInv
<1>2. now \in Nat /\ calm \in 0 .. now
  BY FeedAssumption DEF FInv, QInv, SInv, PInv, ClocksPast
<1>3. now' - 1 = now /\ now' - calm' = now - calm BY <1>1, <1>2
<1>4. PICK a : a = now OBVIOUS
<1>5. TakenUp(a)'
  <2>1. CASE calm = 0
    <3>1. now' - calm' = a BY <1>3, <1>4, <2>1, <1>2
    <3>2. CASE samples = <<>> BY <1>1, <3>1, <3>2 DEF TakenUp
    <3>3. CASE samples # <<>>
      <4>1. ~(a > now' - calm') BY <3>1, <1>2, <1>4
      <4> QED BY <1>1, <3>3, <4>1 DEF TakenUp
    <3> QED BY <3>2, <3>3
  <2>2. CASE calm >= 1
    <3>1. TakenUp(a) BY <1>1, <1>4, <2>2 DEF FInv, UpToDate
    <3> QED BY <1>1, <1>3, <3>1, TakenUpKept
  <2> QED BY <1>2, <2>1, <2>2
<1> QED BY <1>1, <1>3, <1>4, <1>5 DEF UpToDate

\* A window that begins anew with the latest beacon.
LEMMA FitAnew ==
    ASSUME NEW b, b = now, QInv, samples' = <<Heard(now)>>, UNCHANGED <<calm, now, born>>,
           now - (now - calm) - MaxGap - 1 <= 1
    PROVE  TakenUp(b)'
<1>1. now \in Nat BY FeedAssumption DEF QInv, SInv, PInv, ClocksPast
<1>2. Heard(now)' = Heard(now) /\ now - 0 = now BY <1>1 DEF Heard
<1>3. Len(samples') = 1 /\ samples'[1] = Heard(now) OBVIOUS
<1>4. 0 .. 1 - 1 = {0} /\ 1 - 0 = 1 OBVIOUS
<1>5. Latest(1, b)' BY <1>2, <1>3, <1>4 DEF Latest
<1>6. 1 \in 1 .. Len(samples') BY <1>3
<1> QED BY <1>5, <1>6 DEF TakenUp

\* The latest beacon joins those before it.
LEMMA FitJoins ==
    ASSUME NEW b, b = now, QInv, calm >= 1, Heard(now) \in Row, samples \in Seq(Row),
           NEW k \in 1 .. Len(samples), Latest(k, now - 1),
           k >= Window + 1 \/ k >= (now - 1) - (now - calm) - MaxGap - 1,
           samples' = InWindow(Append(samples, Heard(now)), Heard(now).x),
           UNCHANGED <<calm, now, born>>
    PROVE  TakenUp(b)'
<1> DEFINE r == Heard(now)
           all == Append(samples, r)
           I == {i \in DOMAIN all : all[i].x >= r.x - Window}
           n == IF k < Window THEN k ELSE Window
<1>1. /\ now \in Nat /\ calm \in 0 .. now /\ Window \in Nat /\ MaxGap \in Nat
      /\ born["hearer"] \in Int
  BY FeedAssumption DEF QInv, SInv, PInv, ClocksPast, Clocks
<1>2. n \in 0 .. Len(samples) /\ n <= k /\ n <= Window /\ k \in Nat /\ Len(samples) \in Nat
  BY <1>1
<1>n. n + 1 >= Window + 1 \/ n + 1 >= now - (now - calm) - MaxGap - 1 BY <1>1, <1>2
<1> HIDE DEF n
<1>3. /\ all \in Seq(Row) /\ Len(all) = Len(samples) + 1
      /\ \A i \in 1 .. Len(all) : all[i] = IF i = Len(samples) + 1 THEN r ELSE samples[i]
      /\ DOMAIN all = 1 .. Len(all)
  OBVIOUS
<1> HIDE DEF all
<1>4. ASSUME NEW i \in 0 .. n
      PROVE  Len(all) - i \in DOMAIN all /\ all[Len(all) - i] = Heard(now - i)
  <2>1. Len(all) - i \in DOMAIN all BY <1>2, <1>3
  <2>2. CASE i = 0
    <3>1. Len(all) - i = Len(samples) + 1 /\ now - i = now BY <2>2, <1>1, <1>2, <1>3
    <3> QED BY <2>1, <3>1, <1>3
  <2>3. CASE i # 0
    <3>a. i \in Int /\ i <= n /\ i >= 1 BY <2>3, <1>2
    <3>b. i - 1 \in 0 .. k - 1 BY <3>a, <1>2
    <3>c. Len(all) - i = Len(samples) - (i - 1) /\ Len(all) - i # Len(samples) + 1
      BY <3>a, <1>2, <1>3
    <3>1. i - 1 \in 0 .. k - 1 /\ Len(all) - i = Len(samples) - (i - 1)
          /\ (now - 1) - (i - 1) = now - i /\ Len(all) - i # Len(samples) + 1
      BY <3>a, <3>b, <3>c, <1>1
    <3>2. samples[Len(samples) - (i - 1)] = Heard((now - 1) - (i - 1)) BY <3>1 DEF Latest
    <3> QED BY <2>1, <3>1, <3>2, <1>3
  <2> QED BY <2>1, <2>2, <2>3
<1>5a. 0 .. (n + 1) - 1 = 0 .. n BY <1>2
<1>5. ASSUME NEW i \in 0 .. (n + 1) - 1 PROVE Len(all) - i \in I
  <2>1. i \in 0 .. n BY <1>5a
  <2>a. all[Len(all) - i] = Heard(now - i) BY <2>1, <1>4
  <2>2. all[Len(all) - i].x = now - i - born["hearer"] BY <2>a DEF Heard
  <2>3. r.x = now - born["hearer"] BY DEF Heard
  <2>4. now - i - born["hearer"] >= now - born["hearer"] - Window BY <2>1, <1>1, <1>2
  <2> QED BY <2>1, <2>2, <2>3, <2>4, <1>4
<1> DEFINE t == Kept(all, I)
<1>6. samples' = t BY DEF InWindow, all
<1> HIDE DEF I
<1>7. n + 1 \in Nat /\ n + 1 <= Len(all) BY <1>2, <1>3
<1> DEFINE m == n + 1
<1> HIDE DEF r, m
<1>8. m \in Nat /\ m <= Len(all) /\ \A i \in 0 .. m - 1 : Len(all) - i \in I
  BY <1>5, <1>7 DEF m
<1>9. t \in Seq(Row) BY <1>3, KeptPlaces
<1>10. Len(t) >= m /\ \A i \in 0 .. m - 1 : t[Len(t) - i] = all[Len(all) - i]
  BY <1>3, <1>8, KeptSuffix
<1> HIDE DEF t
<1>11. \A x : Heard(x)' = Heard(x) BY DEF Heard
<1>12. Latest(m, b)'
  <2>1. ASSUME NEW i \in 0 .. m - 1 PROVE t[Len(t) - i] = Heard(now - i)
    <3>1. i \in 0 .. n BY <1>2 DEF m
    <3> QED BY <3>1, <1>4, <1>10
  <2> QED BY <2>1, <1>6, <1>11 DEF Latest
<1>13. m \in 1 .. Len(samples') BY <1>2, <1>6, <1>8, <1>9, <1>10 DEF m
<1>14. m >= Window + 1 \/ m >= now' - (now' - calm') - MaxGap - 1 BY <1>n DEF m
<1> QED BY <1>12, <1>13, <1>14 DEF TakenUp

\* A beacon that joins samples which it does not follow: alone it will do.
LEMMA FitLast ==
    ASSUME NEW b, b = now, QInv, calm >= 1, Heard(now) \in Row, samples \in Seq(Row),
           samples' = InWindow(Append(samples, Heard(now)), Heard(now).x),
           now - (now - calm) - MaxGap - 1 <= 1,
           UNCHANGED <<calm, now, born>>
    PROVE  TakenUp(b)'
<1> DEFINE r == Heard(now)
           all == Append(samples, r)
           I == {i \in DOMAIN all : all[i].x >= r.x - Window}
           t == Kept(all, I)
<1>1. now \in Nat /\ Window \in Nat /\ r.x \in Nat
  BY FeedAssumption DEF QInv, SInv, PInv, ClocksPast, Row
<1>2. all \in Seq(Row) /\ Len(all) \in Nat \ {0} /\ Len(all) \in DOMAIN all /\ all[Len(all)] = r
  OBVIOUS
<1>3. samples' = t BY DEF InWindow
<1> HIDE DEF r, all
<1>4. Len(all) \in I BY <1>1, <1>2
<1> HIDE DEF I
<1>5. \A i \in 0 .. 1 - 1 : Len(all) - i \in I
  <2>1. Len(all) - 0 = Len(all) BY <1>2
  <2> QED BY <2>1, <1>4
<1>6. 1 \in Nat /\ 1 <= Len(all) BY <1>2
<1>7. Len(t) >= 1 /\ \A i \in 0 .. 1 - 1 : t[Len(t) - i] = all[Len(all) - i]
  BY <1>2, <1>5, <1>6, KeptSuffix
<1>8. t \in Seq(Row) BY <1>2, KeptPlaces
<1> HIDE DEF t
<1>9. t[Len(t) - 0] = r
  <2>1. Len(all) - 0 = Len(all) /\ 0 \in 0 .. 1 - 1 BY <1>2
  <2> QED BY <2>1, <1>2, <1>7
<1>10. Latest(1, b)'
  <2>1. Heard(now)' = r /\ now - 0 = now BY <1>1 DEF Heard, r
  <2>2. 0 .. 1 - 1 = {0} OBVIOUS
  <2> QED BY <2>1, <2>2, <1>3, <1>9 DEF Latest
<1>11. 1 \in 1 .. Len(samples') BY <1>3, <1>7, <1>8
<1> QED BY <1>10, <1>11 DEF TakenUp

\* The latest beacon is taken up.
LEMMA FitObserve ==
    ASSUME NEW b, b = now, FInv, Fitting, Observe, UNCHANGED <<calm, now, born, reference>>, calm >= 1
    PROVE  TakenUp(b)'
<1> DEFINE r == Heard(now)
           s == now - calm
           bh == born["hearer"]
<1>1. Head(bus) = r /\ r \in Row BY QuietObserve DEF FInv, QInv
<1>2. samples' = Added(r) BY <1>1 DEF Observe, Arrives
<1>3. /\ now \in Nat /\ calm \in 1 .. now /\ Window \in Nat /\ MaxGap \in Nat /\ MaxGap >= 1
      /\ born \in [Clocks -> Int] /\ bh \in Int /\ born["sender"] \in Int /\ MaxSkew \in Nat
  BY FeedAssumption DEF FInv, QInv, SInv, PInv, ClocksPast, Clocks, Fitting
<1>4. samples \in Seq(Row) BY DEF FInv, QInv, SInv, PInv, RowsPast, Past
<1>5. r.x = now - bh /\ r.y = now - born["sender"] BY DEF Heard
<1>6. samples # <<>> => LastSample \in Row /\ Len(samples) \in 1 .. Len(samples)
  BY <1>4 DEF LastSample
<1>7. \/ samples' = <<r>> /\ (samples = <<>> \/ (samples # <<>> /\ ~Again(r) /\ (Far(r) \/ Stepped(r))))
      \/ samples' = samples /\ samples # <<>> /\ Again(r)
      \/ /\ samples # <<>> /\ ~Again(r) /\ ~Far(r) /\ ~Stepped(r)
         /\ samples' = InWindow(Append(samples, r), r.x)
  BY <1>2 DEF Added
<1> HIDE DEF r
<1>8. CASE samples = <<>> /\ now - 1 = s
  <2>1. samples' = <<r>> BY <1>7, <1>8
  <2>2. now - (now - calm) - MaxGap - 1 <= 1 BY <1>3, <1>8
  <2> QED BY <2>1, <2>2, FitAnew DEF FInv, r
<1>9. CASE /\ samples # <<>>
           /\ \E a \in {now - 1, now} : a > s => LastSample.x >= a - bh /\ LastSample.x - (s + 1 - bh) <= MaxGap
  <2> DEFINE L == LastSample.x
  <2>0. PICK a \in {now - 1, now} : a > s => L >= a - bh /\ L - (s + 1 - bh) <= MaxGap BY <1>9
  <2>1. L \in Nat BY <1>6, <1>9 DEF Row
  <2>2. CASE Again(r)
    <3>1. samples' = samples BY <1>7, <2>2, <1>9
    <3>2. L >= r.x /\ L - r.x <= MaxGap
      BY <2>1, <2>2, <1>3, <1>5 DEF Again, Far, Apart
    <3>3. L >= now - bh /\ L - (s + 1 - bh) <= MaxGap
      <4>1. CASE a > s BY <4>1, <2>0, <3>2, <1>5
      <4>2. CASE ~(a > s)
        <5>1. s + 1 = now BY <4>2, <1>3
        <5>2. L >= now - bh /\ L - (now - bh) <= MaxGap BY <3>2, <1>5
        <5>4. s \in Int /\ L \in Int /\ bh \in Int BY <2>1, <1>3
        <5> HIDE DEF s, L, bh
        <5>3. L - (s + 1 - bh) <= MaxGap BY <5>1, <5>2, <5>4, <1>3
        <5> QED BY <5>2, <5>3
      <4> QED BY <4>1, <4>2
    <3>4. LastSample' = LastSample BY <3>1 DEF LastSample
    <3> QED BY <3>1, <3>3, <3>4, <1>9 DEF TakenUp
  <2>3. CASE ~Again(r)
    <3>1. now - s - MaxGap - 1 <= 1
      <4>1. CASE ~(a > s) BY <4>1, <1>3
      <4>2. CASE a > s
        <5>1. L >= a - bh /\ L - (s + 1 - bh) <= MaxGap BY <4>2, <2>0
        <5>2. a \in Int /\ (a = now - 1 \/ a = now) /\ s \in Int BY <1>3
        <5>3. a - s - 1 <= MaxGap BY <5>1, <5>2, <2>1, <1>3
        <5> QED BY <5>2, <5>3, <1>3
      <4> QED BY <4>1, <4>2
    <3>2. now - (now - calm) - MaxGap - 1 <= 1 BY <3>1
    <3>3. CASE samples' = <<r>> BY <3>2, <3>3, FitAnew DEF FInv, r
    <3>4. CASE samples' = InWindow(Append(samples, r), r.x)
      BY <3>2, <3>4, <1>1, <1>4, FitLast DEF FInv, r
    <3> QED BY <3>3, <3>4, <2>3, <1>7
  <2> QED BY <2>2, <2>3
<1>10. ASSUME NEW k \in 1 .. Len(samples), Latest(k, now),
              k >= Window + 1 \/ k >= now - (now - calm) - MaxGap - 1
       PROVE  TakenUp(b)'
  <2>1. samples # <<>> BY <1>10, <1>4
  <2>2. LastSample = r
    <3>1. 0 \in 0 .. k - 1 /\ Len(samples) - 0 = Len(samples) /\ now - 0 = now BY <1>3, <1>4
    <3> QED BY <1>10, <3>1 DEF Latest, LastSample, r
  <2>3. Again(r) BY <2>2, <1>3, <1>5 DEF Again, Far, Apart
  <2>4. samples' = samples BY <2>1, <2>3, <1>7
  <2>5. \A x : Heard(x)' = Heard(x) BY DEF Heard
  <2>6. Latest(k, b)' BY <1>10, <2>4, <2>5 DEF Latest
  <2> QED BY <1>10, <2>4, <2>6 DEF TakenUp
<1>11. ASSUME NEW k \in 1 .. Len(samples), Latest(k, now - 1),
              k >= Window + 1 \/ k >= (now - 1) - (now - calm) - MaxGap - 1
       PROVE  TakenUp(b)'
  <2>1. samples # <<>> BY <1>11, <1>4
  <2>2. LastSample = Heard(now - 1)
    <3>1. 0 \in 0 .. k - 1 /\ Len(samples) - 0 = Len(samples) /\ now - 1 - 0 = now - 1
      BY <1>3, <1>4
    <3> QED BY <1>11, <3>1 DEF Latest, LastSample
  <2>3. LastSample.x = now - 1 - bh /\ LastSample.y = now - 1 - born["sender"]
    BY <2>2 DEF Heard
  <2>4. ~Far(r) /\ ~Again(r) BY <2>3, <1>3, <1>5 DEF Again, Far, Apart
  <2>5. ~Stepped(r) BY <2>3, <1>3, <1>5 DEF Stepped, Apart
  <2>6. samples' = InWindow(Append(samples, r), r.x) BY <2>1, <2>4, <2>5, <1>7
  <2> QED BY <1>1, <1>4, <1>11, <2>6, FitJoins DEF FInv, r
<1>12. TakenUp(now - 1) \/ TakenUp(now) BY DEF FInv, UpToDate
<1>13. ~(samples = <<>> /\ now = s) BY <1>3
<1> QED BY <1>8, <1>9, <1>10, <1>11, <1>12, <1>13 DEF TakenUp

LEMMA NextFInv == ASSUME FInv, ~torn', FewResets, Fitting, [Next]_vars PROVE FInv'
<1>1. QInv' /\ WInv' BY NextQInv, NextWInv DEF FInv
<1>2. ASSUME calm' >= 1 PROVE UpToDate'
  <2>0. calm' # 0 BY <1>2
  <2>1. ASSUME NEW heard \in BOOLEAN, Tick(heard) PROVE UpToDate'
    BY <2>0, <2>1, FitTick
  <2>2. CASE Observe /\ UNCHANGED <<calm, now, born, reference>>
    <3>1. PICK a : a = now OBVIOUS
    <3>2. TakenUp(a)' BY <1>2, <2>2, <3>1, FitObserve
    <3> QED BY <2>2, <3>1, <3>2 DEF UpToDate
  <2>3. ASSUME UNCHANGED <<calm, now, born, samples>>, Pending => Pending'
        PROVE  UpToDate'
    <3>1. now' - calm' = now - calm BY <2>3
    <3>2. PICK a \in {now - 1, now} : TakenUp(a) /\ (Pending \/ a = now)
      BY <1>2, <2>3 DEF FInv, UpToDate
    <3>3. TakenUp(a)' BY <2>3, <3>1, <3>2, TakenUpKept
    <3> QED BY <2>3, <3>2, <3>3 DEF UpToDate
  <2>4. CASE (Read \/ Forward) /\ UNCHANGED <<calm, now, born, reference, samples, anchor>>
    <3>1. Pending => Pending'
      BY <1>2, <2>0, <2>4, QuietRead, QuietForward DEF FInv, QInv
    <3> QED BY <2>3, <2>4, <3>1
  <2>5. CASE UNCHANGED vars
    <3>1. UNCHANGED <<log, text, bus, seen, now, born, calm, reference, drains, samples>>
      BY <2>5 DEF vars, clockVars, setting, agentVars
    <3>2. \A t : Heard(t)' = Heard(t) BY <3>1 DEF Heard
    <3>3. Pending => Pending' BY <3>1, <3>2 DEF Pending
    <3> QED BY <2>3, <3>1, <3>3
  <2> QED BY <2>0, <2>1, <2>2, <2>4, <2>5, CalmSteps DEF FInv, QInv
<1> QED BY <1>1, <1>2 DEF FInv

\* FInv is inductive: since the disturbance each beacon was taken for a late
\* one, or the window holds the latest of them (clockd.py:52-76).
THEOREM FInvHolds == ASSUME FewResets, Fitting PROVE Spec => [](~torn => FInv)
<1>1. Init => (~torn => FInv) BY InitQInv, InitWInv DEF Init, FInv
<1>2. (~torn => FInv) /\ [Next]_vars => (~torn => FInv)' BY NextFInv, TornStays
<1> QED BY <1>1, <1>2, PTL DEF Spec

\* However the clocks were reset, once beacons have arrived undisturbed for the
\* gap and the rows of a fit there are samples enough, and they speak of the
\* clocks as they are (clockd.py:52-99).
THEOREM FitRecoversHolds == ASSUME FewResets, Fitting PROVE Spec => [](~torn => FitRecovers)
<1>1. FInv => FitRecovers
  <2> SUFFICES ASSUME FInv, calm >= MaxGap + MinSamples + 2
               PROVE  /\ Len(samples) >= MinSamples
                      /\ \A i \in DOMAIN samples : Apart(Relation(samples[i]), Rel) <= MaxSkew
    BY DEF FitRecovers, Rel
  <2>1. /\ now \in Nat /\ calm \in 0 .. now /\ MaxGap \in Nat /\ MinSamples \in 1 .. Window + 1
        /\ Window \in Nat /\ born["hearer"] \in Int
    BY FeedAssumption DEF FInv, QInv, SInv, PInv, ClocksPast, Fitting, Clocks
  <2>2. PICK a \in {now - 1, now} : TakenUp(a) BY <2>1 DEF FInv, UpToDate
  <2>3. a \in Int /\ a - (now - calm) >= MaxGap + MinSamples + 1 BY <2>1, <2>2
  <2>4. samples \in Seq(Row) BY DEF FInv, QInv, SInv, PInv, RowsPast, Past
  <2>5. PICK k \in 1 .. Len(samples) :
          Latest(k, a) /\ (k >= Window + 1 \/ k >= a - (now - calm) - MaxGap - 1)
    <3>1. ~(samples = <<>> /\ a = now - calm) BY <2>1, <2>3
    <3>2. ASSUME samples # <<>>,
                 a > now - calm =>
                    /\ LastSample.x >= a - born["hearer"]
                    /\ LastSample.x - (now - calm + 1 - born["hearer"]) <= MaxGap
          PROVE  FALSE
      <4>0. Len(samples) \in DOMAIN samples BY <2>4, <3>2
      <4>a. LastSample \in Row BY <2>4, <4>0 DEF LastSample
      <4>1. LastSample.x \in Nat BY <4>a DEF Row
      <4>2. a > now - calm BY <2>1, <2>3
      <4> QED BY <3>2, <4>1, <4>2, <2>1, <2>3
    <3> QED BY <2>2, <3>1, <3>2 DEF TakenUp
  <2>6. Len(samples) >= MinSamples BY <2>1, <2>3, <2>4, <2>5
  <2>7. LastSample = Heard(a) /\ Len(samples) \in DOMAIN samples
    <3>1. 0 \in 0 .. k - 1 /\ Len(samples) - 0 = Len(samples) /\ a - 0 = a /\ Len(samples) \in DOMAIN samples
      BY <2>3, <2>4
    <3> QED BY <2>5, <3>1 DEF Latest, LastSample
  <2>8. Relation(LastSample) = Rel
    <3>1. born["sender"] \in Int BY DEF FInv, QInv, SInv, PInv, ClocksPast, Clocks
    <3> QED BY <2>1, <2>3, <2>7, <3>1 DEF Heard, Relation, Rel
  <2>9. \A i \in DOMAIN samples : Apart(Relation(samples[i]), Relation(samples[Len(samples)])) <= MaxSkew
    BY <2>7 DEF FInv, WInv, Kin
  <2> QED BY <2>6, <2>8, <2>9 DEF LastSample
<1> QED BY <1>1, FInvHolds, PTL
=============================================================================
