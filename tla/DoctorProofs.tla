---------------------------- MODULE DoctorProofs ----------------------------
(***************************************************************************)
(* Theorems about the clock graph and the health check, for any number of  *)
(* transmitters, stations and observations.                                *)
(*                                                                         *)
(* The first part is about solve_offsets for any edges at all: the search  *)
(* leaves a tree of shortest routes (SolveFindsTree), because the queue    *)
(* stays in the order of distance (Levels) and every clock was found from  *)
(* one before it, by an edge no other was found by (Parents).              *)
(*                                                                         *)
(* From the tree follows what is reached (ReachesAll), and what one wrong  *)
(* edge w does (WrongIsSeen).  A route uses w once at most, so every map   *)
(* is right or wrong by all of w.  Comparing with a tree that lacks an edge*)
(* would mislead if that tree followed w the other way: SameDirection      *)
(* shows, by distances, that to a clock wrong in the first it does not.    *)
(* Then the tree without w gives the whole error, and no other gives more. *)
(*                                                                         *)
(* The last part follows the check through its stages: ReportInv says that *)
(* what is recorded is a prefix of one order of all checks, RoundsInv what *)
(* the verdicts at the end rest on.                                        *)
(***************************************************************************)
EXTENDS Doctor, TLAPS, FiniteSetTheorems, WellFoundedInduction

---------------------------------------------------------------------------
(* Least and greatest elements.                                            *)

\* A set of naturals that is not empty has a least one.
LEMMA NatMinimal ==
    ASSUME NEW P, P \subseteq Nat, P # {}
    PROVE  \E n \in P : \A m \in P : n <= m
<1> DEFINE R == OpToRel(<, Nat)
<1>1. IsWellFoundedOn(R, Nat)
  BY NatLessThanWellFounded
<1>2. \A x, y \in Nat : <<y, x>> \in R <=> y < x
  BY DEF OpToRel
<1> HIDE DEF R
<1>3. \E x \in P : \A y \in P : ~ (<<y, x>> \in R)
  BY <1>1, WFMin
<1>4. PICK x \in P : \A y \in P : ~ (<<y, x>> \in R)
  BY <1>3
<1>5. ASSUME NEW y \in P PROVE x <= y
  <2>1. ~(y < x) BY <1>2, <1>4
  <2> QED BY <2>1
<1> QED BY <1>5

\* ... and, if it is bounded, a greatest.
LEMMA NatMaximal ==
    ASSUME NEW P, P \subseteq Nat, P # {}, NEW B \in Nat, \A n \in P : n <= B
    PROVE  \E n \in P : \A m \in P : n >= m
<1> DEFINE Q == {k \in Nat : \E n \in P : k = B - n}
<1>1. Q \subseteq Nat /\ Q # {}
  <2>1. PICK n \in P : TRUE OBVIOUS
  <2>2. B - n \in Q BY <2>1
  <2> QED BY <2>2
<1>2. PICK k \in Q : \A m \in Q : k <= m
  <2> HIDE DEF Q
  <2> QED BY <1>1, NatMinimal
<1>3. PICK n \in P : k = B - n BY <1>2
<1>4. ASSUME NEW m \in P PROVE n >= m
  <2>1. B - m \in Q BY <1>4
  <2>2. k <= B - m BY <2>1, <1>2
  <2> QED BY <2>2, <1>3
<1> QED BY <1>4

---------------------------------------------------------------------------
(* The search (solve_offsets).                                             *)

\* g holds the search of es after each number of steps up to m.
Searches(es, g, m) ==
    /\ g = [n \in 0 .. m |-> g[n]]
    /\ g[0] = Begin /\ \A n \in 1 .. m : g[n] = Discover(es, g[n - 1])

\* The recursion has a solution, step by step.
LEMMA SearchesExist ==
  ASSUME NEW es, NEW N \in Nat
  PROVE  \E g : Searches(es, g, N)
<1> DEFINE Bad == {m \in 0 .. N : ~ \E g : Searches(es, g, m)}
<1>1. Bad = {}
  <2> SUFFICES ASSUME Bad # {} PROVE FALSE OBVIOUS
  <2>0. Bad \subseteq Nat OBVIOUS
  <2>1. PICK m \in Bad : \A n \in Bad : m <= n
    <3> HIDE DEF Bad
    <3> QED BY NatMinimal, <2>0
  <2>a. m \in 0 .. N /\ ~ \E g : Searches(es, g, m) OBVIOUS
  <2>2. m # 0
    <3>1. Searches(es, [i \in 0 .. 0 |-> Begin], 0)
      BY DEF Searches
    <3> QED BY <3>1, <2>a
  <2>3. m - 1 \in 0 .. N /\ m \in 1 .. N
    BY <2>2, <2>a
  <2>4. PICK g : Searches(es, g, m - 1)
    BY <2>1, <2>3
  <2> DEFINE h == [i \in 0 .. m |-> IF i = m THEN Discover(es, g[m - 1]) ELSE g[i]]
  <2>5. Searches(es, h, m)
     <3>1. h = [i \in 0 .. m |-> h[i]] /\ h[0] = Begin
        BY <2>3, <2>4 DEF Searches
     <3>2. ASSUME NEW n \in 1 .. m PROVE h[n] = Discover(es, h[n - 1])
        <4>1. h[n-1] = g[n-1] BY <2>3
        <4>2. CASE n = m BY <4>1, <4>2, <2>3
        <4>3. CASE n # m
           <5>1. n \in 1 .. m-1 /\ h[n] = g[n] BY <4>3, <2>3
           <5> QED BY <4>1, <5>1, <2>4 DEF Searches
        <4> QED BY <4>2, <4>3
     <3> QED BY <3>1, <3>2 DEF Searches
  <2> QED BY <2>5, <2>a
<1> QED BY <1>1

\* The recursion of Solve, one step at a time.
LEMMA SolveUnfolds ==
  ASSUME NEW es, Cardinality(Clocks) \in Nat
  PROVE  \E g : Searches(es, g, Cardinality(Clocks)) /\ Solve(es) = g[Cardinality(Clocks)].maps
<1> DEFINE N == Cardinality(Clocks)
<1>2. PICK g : Searches(es, g, N)
  BY SearchesExist
<1> DEFINE Body(x, n) == IF n = 0 THEN Begin ELSE Discover(es, x[n - 1])
<1> DEFINE Eq(x) == x = [n \in 0 .. N |-> Body(x, n)]
<1>3. Eq(g)
  <2>1. ASSUME NEW n \in 0 .. N PROVE g[n] = Body(g, n)
    <3>1. CASE n = 0 BY <1>2, <3>1 DEF Searches
    <3>2. CASE n # 0
      <4>1. n \in 1 .. N BY <3>2
      <4> QED BY <4>1, <3>2, <1>2 DEF Searches
    <3> QED BY <3>1, <3>2
  <2>2. g = [n \in 0 .. N |-> g[n]]
    BY <1>2 DEF Searches
  <2> HIDE DEF Body
  <2> QED BY <2>1, <2>2
<1> DEFINE f == CHOOSE x : Eq(x)
<1> HIDE DEF Eq
<1>4. Eq(f) BY <1>3
<1> HIDE DEF f
<1>5. Searches(es, f, N)
  <2>0. f = [n \in 0 .. N |-> Body(f, n)] BY <1>4 DEF Eq
  <2> HIDE DEF Body
  <2>1. f = [n \in 0 .. N |-> f[n]] /\ \A n \in 0 .. N : f[n] = Body(f, n) BY <2>0
  <2>2. f[0] = Begin
    <3>1. 0 \in 0 .. N OBVIOUS
    <3>2. f[0] = Body(f, 0) BY <2>1, <3>1
    <3> QED BY <3>2 DEF Body
  <2>3. ASSUME NEW n \in 1 .. N PROVE f[n] = Discover(es, f[n - 1])
    <3>1. n \in 0 .. N /\ n # 0 OBVIOUS
    <3>2. f[n] = Body(f, n) BY <2>1, <3>1
    <3> QED BY <3>1, <3>2 DEF Body
  <2> QED BY <2>1, <2>2, <2>3 DEF Searches
<1>8. Solve(es) = f[N].maps BY DEF Solve, f, Eq, Body
<1> QED BY <1>5, <1>8

\* Edges of clocks of the deployment, with whole numbers for errors.
Typed(es) ==
    \A e \in es : e.from \in Clocks /\ e.to \in Clocks /\ e.err \in Int /\ e.at \in Nat

\* The clocks in the queue are those with a map.
Queue(b) ==
    /\ b.queue \in Seq(Clocks) /\ b.queue # <<>>
    /\ Found(b) \subseteq Clocks
    /\ \A i \in DOMAIN b.queue : b.queue[i] \in Found(b)
    /\ \A x \in Found(b) : \E i \in DOMAIN b.queue : b.queue[i] = x
    /\ b.maps \in [Found(b) -> Int]
    /\ Ref \in Found(b) /\ b.maps[Ref] = 0

\* L is the number of edges to a clock: the queue is in its order, nobody
\* before the k-th has an edge left, and no edge spans more than one level.
Levels(es, b, L, k) ==
    /\ L \in [Clocks -> Nat] /\ L[Ref] = 0
    /\ \A i, j \in DOMAIN b.queue : i <= j => L[b.queue[i]] <= L[b.queue[j]]
    /\ k \in DOMAIN b.queue
    /\ \A p \in Frontier(es, b) : p[1] >= k
    /\ L[b.queue[Len(b.queue)]] <= L[b.queue[k]] + 1
    /\ \A x \in Found(b), e \in es :
          x \in Ends(e) /\ Across(e, x) \in Found(b) => L[Across(e, x)] <= L[x] + 1

\* Every clock but the reference was found from another, by an edge of its own.
Parents(es, maps, L, up, via) ==
    /\ up \in [Clocks -> Clocks] /\ via \in [Clocks -> es \cup {NoFit}]
    /\ \A v \in DOMAIN maps \ {Ref} :
          /\ up[v] \in DOMAIN maps /\ via[v] \in es
          /\ up[v] \in Ends(via[v]) /\ Across(via[v], up[v]) = v
          /\ L[v] = L[up[v]] + 1
          /\ maps[v] = maps[up[v]] + Along(via[v], up[v])
    /\ \A u, v \in DOMAIN maps \ {Ref} : via[u] = via[v] => u = v

\* What the search finds next is the first there is.
LEMMA NextIsSoonest ==
  ASSUME NEW es, NEW b, Typed(es), Queue(b), Frontier(es, b) # {}
  PROVE  \E p \in Frontier(es, b) :
            /\ \A q \in Frontier(es, b) : p[1] <= q[1]
            /\ Discover(es, b) = Extend(b, b.queue[p[1]], p[2])
<1> DEFINE F == Frontier(es, b)
<1>0. \A p \in F : p[1] \in Nat /\ p[2].at \in Nat
  BY DEF Frontier, Typed, Queue
<1>1. PICK k \in {p[1] : p \in F} : \A m \in {p[1] : p \in F} : k <= m
  <2>1. {p[1] : p \in F} \subseteq Nat /\ {p[1] : p \in F} # {} BY <1>0
  <2> HIDE DEF F
  <2> QED BY <2>1, NatMinimal
<1> DEFINE G == {p \in F : p[1] = k}
<1>2. PICK t \in {p[2].at : p \in G} : \A m \in {p[2].at : p \in G} : t <= m
  <2>1. {p[2].at : p \in G} \subseteq Nat /\ {p[2].at : p \in G} # {} BY <1>0, <1>1
  <2> HIDE DEF G
  <2> QED BY <2>1, NatMinimal
<1>3. PICK p \in G : p[2].at = t BY <1>2
<1>4. ASSUME NEW q \in F PROVE Sooner(p, q)
  <2>1. p[1] = k /\ k <= q[1] /\ q[1] \in Nat /\ k \in Nat BY <1>1, <1>3, <1>0
  <2>2. CASE q[1] = k
    <3>1. q \in G BY <2>2
    <3>2. t <= q[2].at BY <3>1, <1>2
    <3> QED BY <3>2, <1>3, <2>1, <2>2 DEF Sooner
  <2>3. CASE q[1] # k BY <2>1, <2>3 DEF Sooner
  <2> QED BY <2>2, <2>3
<1> DEFINE next == CHOOSE c \in F : \A q \in F : Sooner(c, q)
<1>5. next \in F /\ \A q \in F : Sooner(next, q)
  <2>1. p \in F BY <1>3
  <2> HIDE DEF F
  <2> QED BY <2>1, <1>4
<1>6. \A q \in F : next[1] <= q[1]
  <2> HIDE DEF next, F
  <2> QED BY <1>5, <1>0 DEF Sooner
<1>7. Discover(es, b) = Extend(b, b.queue[next[1]], next[2])
  BY DEF Discover
<1> HIDE DEF next
<1> QED BY <1>5, <1>6, <1>7

\* The two ends of an edge.
LEMMA EndsAre ==
  ASSUME NEW e, NEW x \in Ends(e)
  PROVE  Ends(e) = {x, Across(e, x)} /\ Across(e, x) \in Ends(e) /\ Across(e, Across(e, x)) = x
BY DEF Ends, Across

\* A map more keeps the order of the search.
LEMMA ExtendKeepsQueue ==
  ASSUME NEW es, NEW b, Typed(es), Queue(b), NEW p \in Frontier(es, b)
  PROVE  LET x == b.queue[p[1]]
             v == Across(p[2], x)
             c == Extend(b, x, p[2])
         IN  /\ Queue(c) /\ v \in Clocks \ Found(b) /\ Found(c) = Found(b) \cup {v}
             /\ x \in Found(b) /\ x \in Ends(p[2]) /\ p[2] \in es /\ p[1] \in DOMAIN b.queue
             /\ Len(c.queue) = Len(b.queue) + 1 /\ c.queue[Len(c.queue)] = v
             /\ \A i \in DOMAIN b.queue : i \in DOMAIN c.queue /\ c.queue[i] = b.queue[i]
             /\ c.maps[v] = b.maps[x] + Along(p[2], x)
             /\ \A m \in Found(b) : c.maps[m] = b.maps[m]
<1> DEFINE x == b.queue[p[1]]
           e == p[2]
           v == Across(e, x)
           c == Extend(b, x, e)
<1>1. p[1] \in DOMAIN b.queue /\ e \in es /\ x \in Ends(e) /\ v \notin Found(b)
  BY DEF Frontier
<1>2. x \in Found(b) /\ b.queue \in Seq(Clocks) BY <1>1 DEF Queue
<1>3. v \in Clocks /\ Along(e, x) \in Int
  BY <1>1 DEF Typed, Across, Along
<1>4. /\ c.queue = Append(b.queue, v)
      /\ c.maps = [m \in Found(b) \cup {v} |->
                     IF m \in Found(b) THEN b.maps[m] ELSE b.maps[x] + Along(e, x)]
  BY DEF Extend
<1>5. Found(c) = Found(b) \cup {v} BY <1>4 DEF Found
<1> DEFINE q == b.queue
           r == c.queue
<1>6. /\ r \in Seq(Clocks) /\ Len(r) = Len(q) + 1 /\ r # <<>> /\ Len(q) \in Nat
      /\ DOMAIN q = 1 .. Len(q) /\ DOMAIN r = 1 .. Len(q) + 1
      /\ r[Len(r)] = v /\ \A i \in 1 .. Len(q) : r[i] = q[i]
  BY <1>2, <1>3, <1>4
<1>7. c.maps[v] = b.maps[x] + Along(e, x) /\ \A m \in Found(b) : c.maps[m] = b.maps[m]
  BY <1>4, <1>1
<1>8. c.maps \in [Found(c) -> Int]
  <2>1. b.maps[x] \in Int /\ \A m \in Found(b) : b.maps[m] \in Int BY <1>2 DEF Queue
  <2>2. \A m \in Found(b) \cup {v} : c.maps[m] \in Int BY <2>1, <1>7, <1>3
  <2> QED BY <2>2, <1>4, <1>5
<1>9. \A i \in DOMAIN r : r[i] \in Found(c)
  <2> SUFFICES ASSUME NEW i \in DOMAIN r PROVE r[i] \in Found(c) OBVIOUS
  <2>1. CASE i = Len(q) + 1 BY <2>1, <1>6, <1>5
  <2>2. CASE i \in 1 .. Len(q)
    <3>1. r[i] = q[i] /\ q[i] \in Found(b) BY <2>2, <1>6 DEF Queue
    <3> QED BY <3>1, <1>5
  <2> QED BY <2>1, <2>2, <1>6
<1>10. \A y \in Found(c) : \E i \in DOMAIN r : r[i] = y
  <2> SUFFICES ASSUME NEW y \in Found(c) PROVE \E i \in DOMAIN r : r[i] = y OBVIOUS
  <2>1. CASE y = v BY <2>1, <1>6
  <2>2. CASE y \in Found(b)
    <3>1. PICK i \in DOMAIN q : q[i] = y BY <2>2 DEF Queue
    <3> QED BY <3>1, <1>6
  <2> QED BY <2>1, <2>2, <1>5
<1>11. Ref \in Found(c) /\ c.maps[Ref] = 0 /\ Found(c) \subseteq Clocks
  BY <1>7, <1>5, <1>3 DEF Queue
<1>12. Queue(c)
  <2> HIDE DEF c, x, e, v
  <2> QED BY <1>6, <1>8, <1>9, <1>10, <1>11 DEF Queue
<1>13. \A i \in DOMAIN q : i \in DOMAIN r /\ r[i] = q[i] BY <1>6
<1> HIDE DEF c, x, v, e
<1> QED BY <1>1, <1>2, <1>3, <1>5, <1>6, <1>7, <1>12, <1>13 DEF c, x, v, e

\* ... and the queue stays in the order of distance.
LEMMA ExtendKeepsLevels ==
  ASSUME NEW es, NEW b, Typed(es), Queue(b), NEW L, NEW k, Levels(es, b, L, k),
         NEW p \in Frontier(es, b), \A q \in Frontier(es, b) : p[1] <= q[1]
  PROVE  LET x == b.queue[p[1]]
             v == Across(p[2], x)
         IN  Levels(es, Extend(b, x, p[2]), [L EXCEPT ![v] = L[x] + 1], p[1])
<1> DEFINE x == b.queue[p[1]]
           e == p[2]
           v == Across(e, x)
           c == Extend(b, x, e)
           M == [L EXCEPT ![v] = L[x] + 1]
           q == b.queue
           r == c.queue
<1>1. /\ Queue(c) /\ v \in Clocks \ Found(b) /\ Found(c) = Found(b) \cup {v}
      /\ x \in Found(b) /\ x \in Ends(e) /\ e \in es /\ p[1] \in DOMAIN q
      /\ Len(r) = Len(q) + 1 /\ r[Len(r)] = v
      /\ \A i \in DOMAIN q : i \in DOMAIN r /\ r[i] = q[i]
  BY ExtendKeepsQueue
<1>2. /\ L \in [Clocks -> Nat] /\ L[Ref] = 0 /\ k \in DOMAIN q
      /\ \A i, j \in DOMAIN q : i <= j => L[q[i]] <= L[q[j]]
      /\ \A s \in Frontier(es, b) : s[1] >= k
      /\ L[q[Len(q)]] <= L[q[k]] + 1
      /\ \A y \in Found(b), d \in es :
            y \in Ends(d) /\ Across(d, y) \in Found(b) => L[Across(d, y)] <= L[y] + 1
  BY DEF Levels
<1>3. /\ Len(q) \in Nat /\ DOMAIN q = 1 .. Len(q) /\ DOMAIN r = 1 .. Len(q) + 1
      /\ \A i \in DOMAIN q : q[i] \in Found(b) /\ q[i] \in Clocks
      /\ Found(b) \subseteq Clocks /\ Ref \in Found(b) /\ Len(q) \in DOMAIN q
      /\ \A y \in Found(b) : \E i \in DOMAIN q : q[i] = y
  <2>1. q \in Seq(Clocks) /\ r \in Seq(Clocks) /\ q # <<>>
    BY <1>1 DEF Queue
  <2>2. Len(q) \in Nat /\ DOMAIN q = 1 .. Len(q) /\ DOMAIN r = 1 .. Len(q) + 1 /\ Len(q) # 0
    <3> HIDE DEF c
    <3> QED BY <2>1, <1>1
  <2> QED BY <2>1, <2>2 DEF Queue
<1> HIDE DEF x, v, c, q, r, e
<1>4. M \in [Clocks -> Nat] /\ M[v] = L[x] + 1 /\ \A y \in Found(b) : M[y] = L[y]
  BY <1>1, <1>2, <1>3
<1> HIDE DEF M
<1>5. x = q[p[1]] /\ x \in Clocks /\ v \in Clocks BY <1>1, <1>3 DEF x, q
<1>6. \A i \in DOMAIN q : L[q[i]] <= L[x] + 1
  <2> SUFFICES ASSUME NEW i \in DOMAIN q PROVE L[q[i]] <= L[x] + 1 OBVIOUS
  <2>1. L[q[i]] <= L[q[Len(q)]] BY <1>2, <1>3
  <2>2. L[q[k]] <= L[q[p[1]]] BY <1>2, <1>1, <1>3
  <2>3. /\ L[q[i]] \in Nat /\ L[q[Len(q)]] \in Nat /\ L[q[k]] \in Nat /\ L[x] \in Nat
        /\ L[q[k]] <= L[x]
    BY <1>2, <1>3, <1>5, <2>2
  <2> QED BY <2>1, <2>3, <1>2
<1>7. \A i, j \in DOMAIN r : i <= j => M[r[i]] <= M[r[j]]
  <2> SUFFICES ASSUME NEW i \in DOMAIN r, NEW j \in DOMAIN r, i <= j
               PROVE  M[r[i]] <= M[r[j]]
    OBVIOUS
  <2>1. CASE j \in DOMAIN q
    <3>1. i \in DOMAIN q BY <2>1, <1>3
    <3> QED BY <3>1, <2>1, <1>1, <1>2, <1>3, <1>4
  <2>2. CASE j = Len(q) + 1 /\ i \in DOMAIN q
    <3>1. M[r[i]] = L[q[i]] /\ M[r[j]] = L[x] + 1 BY <2>2, <1>1, <1>3, <1>4
    <3> QED BY <3>1, <2>2, <1>6
  <2>3. CASE j = Len(q) + 1 /\ i = Len(q) + 1
    BY <2>3, <1>1, <1>4, <1>5
  <2> QED BY <2>1, <2>2, <2>3, <1>3
<1>8. \A s \in Frontier(es, c) : s[1] >= p[1]
  <2> SUFFICES ASSUME NEW s \in Frontier(es, c) PROVE s[1] >= p[1] OBVIOUS
  <2>1. s[1] \in DOMAIN r /\ s \in (DOMAIN r) \X es /\ r[s[1]] \in Ends(s[2]) /\ Across(s[2], r[s[1]]) \notin Found(c)
    BY DEF Frontier, r
  <2>2. CASE s[1] \in DOMAIN q
    <3>1. r[s[1]] = q[s[1]] BY <2>2, <1>1
    <3>2. s \in Frontier(es, b) BY <3>1, <2>1, <2>2, <1>1 DEF Frontier, q
    <3>3. p[1] <= s[1] BY <3>2
    <3> QED BY <3>3, <2>2, <1>1, <1>3
  <2>3. CASE s[1] = Len(q) + 1 BY <2>3, <1>1, <1>3
  <2> QED BY <2>1, <2>2, <2>3, <1>3
<1>9. p[1] \in DOMAIN r /\ M[r[Len(r)]] <= M[r[p[1]]] + 1
  BY <1>1, <1>3, <1>4, <1>5, <1>2
<1>10. ASSUME NEW y \in Found(c), NEW d \in es, y \in Ends(d), Across(d, y) \in Found(c)
       PROVE  M[Across(d, y)] <= M[y] + 1
  <2> DEFINE z == Across(d, y)
  <2>0. y \in Clocks /\ z \in Clocks BY <1>10, <1>1, <1>3, <1>5
  <2>1. CASE y \in Found(b) /\ z \in Found(b) BY <2>1, <1>10, <1>2, <1>4
  <2>2. CASE y = z BY <2>2, <2>0, <1>4
  <2>3. CASE y = v /\ z \in Found(b)
    <3>1. PICK i \in DOMAIN q : q[i] = z BY <2>3, <1>3
    <3>2. L[z] <= L[x] + 1 /\ L[z] \in Nat /\ L[x] \in Nat BY <3>1, <1>6, <1>2, <2>0, <1>5
    <3> QED BY <3>2, <2>3, <1>4
  <2>4. CASE z = v /\ y \in Found(b)
    <3>1. PICK i \in DOMAIN q : q[i] = y BY <2>4, <1>3
    <3>2. <<i, d>> \in Frontier(es, b)
      BY <3>1, <2>4, <1>10, <1>1 DEF Frontier, q
    <3>3. p[1] <= i BY <3>2
    <3>4. L[x] <= L[y] BY <3>1, <3>3, <1>2, <1>1, <1>5
    <3>5. L[x] \in Nat /\ L[y] \in Nat BY <1>2, <1>5, <2>0
    <3> QED BY <3>4, <3>5, <2>4, <1>4
  <2> QED BY <2>1, <2>2, <2>3, <2>4, <1>1, <1>10
<1>11. M[Ref] = 0 BY <1>2, <1>3, <1>4
<1>12. Levels(es, c, M, p[1])
  BY <1>4, <1>7, <1>8, <1>9, <1>10, <1>11 DEF Levels, r
<1> QED BY <1>12 DEF c, x, e, M, v

\* ... and what is found has its own edge to where it was found from.
LEMMA ExtendKeepsParents ==
  ASSUME NEW es, NEW b, Typed(es), Queue(b), NEW L \in [Clocks -> Nat],
         NEW up, NEW via, Parents(es, b.maps, L, up, via), NEW p \in Frontier(es, b)
  PROVE  LET x == b.queue[p[1]]
             v == Across(p[2], x)
         IN  Parents(es, Extend(b, x, p[2]).maps, [L EXCEPT ![v] = L[x] + 1],
                     [up EXCEPT ![v] = x], [via EXCEPT ![v] = p[2]])
<1> DEFINE x == b.queue[p[1]]
           e == p[2]
           v == Across(e, x)
           c == Extend(b, x, e)
           M == [L EXCEPT ![v] = L[x] + 1]
           U == [up EXCEPT ![v] = x]
           V == [via EXCEPT ![v] = e]
           F == Found(b)
<1>1. /\ v \in Clocks \ F /\ Found(c) = F \cup {v}
      /\ x \in F /\ x \in Ends(e) /\ e \in es
      /\ c.maps[v] = b.maps[x] + Along(e, x)
      /\ \A m \in F : c.maps[m] = b.maps[m]
  BY ExtendKeepsQueue
<1>2. F \subseteq Clocks /\ Ref \in F BY DEF Queue
<1>3. /\ up \in [Clocks -> Clocks] /\ via \in [Clocks -> es \cup {NoFit}]
      /\ \A w \in F \ {Ref} :
           /\ up[w] \in F /\ via[w] \in es
           /\ up[w] \in Ends(via[w]) /\ Across(via[w], up[w]) = w
           /\ L[w] = L[up[w]] + 1
           /\ b.maps[w] = b.maps[up[w]] + Along(via[w], up[w])
      /\ \A u, w \in F \ {Ref} : via[u] = via[w] => u = w
  BY DEF Parents, Found
<1> HIDE DEF x, v, c, e, F
<1>4. /\ M[v] = L[x] + 1 /\ U[v] = x /\ V[v] = e
      /\ \A w \in F : M[w] = L[w] /\ U[w] = up[w] /\ V[w] = via[w]
      /\ U \in [Clocks -> Clocks] /\ V \in [Clocks -> es \cup {NoFit}]
  BY <1>1, <1>2, <1>3
<1> HIDE DEF M, U, V
<1>5. ASSUME NEW w \in Found(c) \ {Ref}
      PROVE  /\ U[w] \in Found(c) /\ V[w] \in es
             /\ U[w] \in Ends(V[w]) /\ Across(V[w], U[w]) = w
             /\ M[w] = M[U[w]] + 1
             /\ c.maps[w] = c.maps[U[w]] + Along(V[w], U[w])
  <2>1. CASE w = v
    <3>1. Across(e, x) = v BY DEF v
    <3> QED BY <2>1, <3>1, <1>1, <1>4
  <2>2. CASE w \in F \ {Ref}
    <3>1. up[w] \in F BY <2>2, <1>3
    <3> QED BY <2>2, <3>1, <1>1, <1>3, <1>4
  <2> QED BY <2>1, <2>2, <1>1
<1>6. ASSUME NEW w \in F \ {Ref} PROVE V[w] # e
  <2>1. Ends(via[w]) = {up[w], w} BY <1>3, EndsAre
  <2>2. v \in Ends(e) BY <1>1, EndsAre DEF v
  <2> QED BY <2>1, <2>2, <1>1, <1>3, <1>4
<1>7. ASSUME NEW u \in Found(c) \ {Ref}, NEW w \in Found(c) \ {Ref}, V[u] = V[w] PROVE u = w
  BY <1>1, <1>3, <1>4, <1>6, <1>7
<1>8. Parents(es, c.maps, M, U, V)
  BY <1>4, <1>5, <1>7 DEF Parents, Found
<1> QED BY <1>8 DEF c, x, e, M, v, U, V

\* What a search is after n steps, and that none of them is idle before the end.
Grown(es, b, n) ==
    /\ Queue(b)
    /\ \E L, up, via, k : Levels(es, b, L, k) /\ Parents(es, b.maps, L, up, via)
    /\ Frontier(es, b) = {} \/ Cardinality(Found(b)) = n + 1

\* The reference alone (clockgraph.py:148).
LEMMA BeginIsGrown ==
  ASSUME NEW es, Typed(es)
  PROVE  Grown(es, Begin, 0)
<1>1. Begin.queue = <<Ref>> /\ Begin.maps = [m \in {Ref} |-> 0] /\ Found(Begin) = {Ref}
  BY DEF Begin, Found
<1>2. Ref \in Clocks BY GraphAssumption
<1>3. Queue(Begin) BY <1>1, <1>2 DEF Queue
<1> DEFINE L == [c \in Clocks |-> 0]
           up == [c \in Clocks |-> Ref]
           via == [c \in Clocks |-> NoFit]
<1>4. /\ DOMAIN Begin.queue = {1} /\ Begin.queue[1] = Ref /\ Len(Begin.queue) = 1
  BY <1>1
<1>5. Levels(es, Begin, L, 1)
  <2>1. L \in [Clocks -> Nat] /\ L[Ref] = 0 BY <1>2
  <2>2. \A p \in Frontier(es, Begin) : p[1] >= 1 BY <1>4 DEF Frontier
  <2>3. \A x \in Found(Begin), e \in es : Across(e, x) \in Found(Begin) => L[Across(e, x)] <= L[x] + 1
    BY <1>1, <1>2
  <2> QED BY <2>1, <2>2, <2>3, <1>2, <1>4 DEF Levels
<1>6. Parents(es, Begin.maps, L, up, via)
  BY <1>1, <1>2 DEF Parents
<1>7. Cardinality(Found(Begin)) = 0 + 1
  <2>1. Cardinality({Ref}) = 1 BY FS_Singleton
  <2> QED BY <2>1, <1>1
<1> HIDE DEF L, up, via
<1> QED BY <1>3, <1>5, <1>6, <1>7 DEF Grown

\* One clock more, or none is left to find.
LEMMA DiscoverGrows ==
  ASSUME NEW es, NEW b, NEW n \in Nat, Typed(es), Grown(es, b, n)
  PROVE  Grown(es, Discover(es, b), n + 1)
<1>1. PICK L, up, via, k : Levels(es, b, L, k) /\ Parents(es, b.maps, L, up, via)
  BY DEF Grown
<1>2. Queue(b) BY DEF Grown
<1>3. CASE Frontier(es, b) = {}
  <2>1. Discover(es, b) = b BY <1>3 DEF Discover
  <2> QED BY <2>1, <1>1, <1>2, <1>3 DEF Grown
<1>4. CASE Frontier(es, b) # {}
  <2>1. PICK p \in Frontier(es, b) :
           /\ \A q \in Frontier(es, b) : p[1] <= q[1]
           /\ Discover(es, b) = Extend(b, b.queue[p[1]], p[2])
    BY <1>2, <1>4, NextIsSoonest
  <2> DEFINE x == b.queue[p[1]]
             v == Across(p[2], x)
             c == Extend(b, x, p[2])
  <2>2. Queue(c) /\ v \notin Found(b) /\ Found(c) = Found(b) \cup {v}
    BY <1>2, <2>1, ExtendKeepsQueue
  <2>3. Levels(es, c, [L EXCEPT ![v] = L[x] + 1], p[1])
    BY <1>1, <1>2, <2>1, ExtendKeepsLevels
  <2>4. L \in [Clocks -> Nat] BY <1>1 DEF Levels
  <2>5. Parents(es, c.maps, [L EXCEPT ![v] = L[x] + 1], [up EXCEPT ![v] = x], [via EXCEPT ![v] = p[2]])
    BY <1>1, <1>2, <2>1, <2>4, ExtendKeepsParents
  <2>6. Cardinality(Found(c)) = (n + 1) + 1
    <3>1. IsFiniteSet(Found(b)) BY <1>2, FS_Subset, GraphAssumption DEF Queue
    <3>2. Cardinality(Found(b)) = n + 1 BY <1>4 DEF Grown
    <3> HIDE DEF c, v
    <3> QED BY <3>1, <3>2, <2>2, FS_AddElement
  <2>7. Discover(es, b) = c BY <2>1
  <2> HIDE DEF c, v, x
  <2> QED BY <2>2, <2>3, <2>5, <2>6, <2>7 DEF Grown
<1> QED BY <1>3, <1>4

\* The same of every number of steps.
LEMMA SearchGrows ==
  ASSUME NEW es, NEW g, NEW N \in Nat, Typed(es), Searches(es, g, N)
  PROVE  Grown(es, g[N], N)
<1> DEFINE Bad == {n \in 0 .. N : ~ Grown(es, g[n], n)}
<1>1. Bad = {}
  <2> SUFFICES ASSUME Bad # {} PROVE FALSE OBVIOUS
  <2>1. PICK m \in Bad : \A n \in Bad : m <= n
    <3>1. Bad \subseteq Nat OBVIOUS
    <3> HIDE DEF Bad
    <3> QED BY NatMinimal, <3>1
  <2>2. m \in 0 .. N /\ ~ Grown(es, g[m], m) OBVIOUS
  <2>3. m # 0
    <3>1. g[0] = Begin BY DEF Searches
    <3> QED BY <3>1, <2>2, BeginIsGrown
  <2>4. m - 1 \in 0 .. N /\ m \in 1 .. N /\ m - 1 \in Nat /\ (m - 1) + 1 = m /\ ~(m <= m - 1) BY <2>2, <2>3
  <2>5. Grown(es, g[m - 1], m - 1) BY <2>1, <2>4
  <2>6. g[m] = Discover(es, g[m - 1]) BY <2>4 DEF Searches
  <2>7. Grown(es, Discover(es, g[m - 1]), (m - 1) + 1)
    <3> HIDE DEF Bad
    <3> QED BY <2>5, <2>4, DiscoverGrows
  <2> QED BY <2>7, <2>6, <2>4, <2>2
<1>2. N \in 0 .. N OBVIOUS
<1> QED BY <1>1, <1>2

\* What Solve finds is a tree of shortest routes, to everyone there is a
\* route to.
Tree(es, maps, L, up, via) ==
    /\ DOMAIN maps \subseteq Clocks /\ maps \in [DOMAIN maps -> Int]
    /\ Ref \in DOMAIN maps /\ maps[Ref] = 0
    /\ L \in [Clocks -> Nat] /\ L[Ref] = 0
    /\ \A x \in DOMAIN maps, e \in es :
          x \in Ends(e) => /\ Across(e, x) \in DOMAIN maps
                           /\ L[Across(e, x)] <= L[x] + 1
    /\ Parents(es, maps, L, up, via)

\* The search of solve_offsets (clockgraph.py:149), whatever the edges: its
\* routes are a tree, reach all that can be reached and are the shortest.
THEOREM SolveFindsTree ==
  ASSUME NEW es, Typed(es)
  PROVE  \E L, up, via : Tree(es, Solve(es), L, up, via)
<1> DEFINE N == Cardinality(Clocks)
<1>1. N \in Nat BY FS_CardinalityType, GraphAssumption
<1>2. PICK g : Searches(es, g, N) /\ Solve(es) = g[N].maps
  BY <1>1, SolveUnfolds
<1>3. Grown(es, g[N], N) BY <1>1, <1>2, SearchGrows
<1> DEFINE b == g[N]
<1>4. Queue(b) BY <1>3 DEF Grown
<1>5. Frontier(es, b) = {}
  <2>1. Found(b) \subseteq Clocks BY <1>4 DEF Queue
  <2>2. Cardinality(Found(b)) <= N BY <2>1, FS_Subset, GraphAssumption
  <2> HIDE DEF b
  <2>3. Cardinality(Found(b)) # N + 1 BY <2>2, <1>1
  <2> QED BY <2>3, <1>3 DEF Grown, b
<1>6. PICK L, up, via, k : Levels(es, b, L, k) /\ Parents(es, b.maps, L, up, via)
  BY <1>3 DEF Grown
<1> HIDE DEF b
<1>7. Solve(es) = b.maps /\ DOMAIN b.maps = Found(b) BY <1>2 DEF b, Found
<1>8. ASSUME NEW x \in Found(b), NEW e \in es, x \in Ends(e)
      PROVE  Across(e, x) \in Found(b)
  <2> SUFFICES ASSUME Across(e, x) \notin Found(b) PROVE FALSE OBVIOUS
  <2>1. PICK i \in DOMAIN b.queue : b.queue[i] = x BY <1>4, <1>8 DEF Queue
  <2>2. <<i, e>> \in Frontier(es, b) BY <2>1, <1>8 DEF Frontier
  <2> QED BY <2>2, <1>5
<1>9. \A x \in Found(b), e \in es : x \in Ends(e) => Across(e, x) \in Found(b) /\ L[Across(e, x)] <= L[x] + 1
  BY <1>8, <1>6 DEF Levels
<1>10. L \in [Clocks -> Nat] /\ L[Ref] = 0 BY <1>6 DEF Levels
<1>11. Tree(es, b.maps, L, up, via)
  BY <1>4, <1>6, <1>7, <1>9, <1>10 DEF Tree, Queue
<1> QED BY <1>11, <1>7

\* What holds of the reference, and of a clock if it does of the one it was
\* found from, holds of all that was found.
LEMMA TreeInduction ==
  ASSUME NEW es, NEW maps, NEW L, NEW up, NEW via, Tree(es, maps, L, up, via),
         NEW S, Ref \in S,
         \A v \in DOMAIN maps \ {Ref} : up[v] \in S => v \in S
  PROVE  DOMAIN maps \subseteq S
<1> DEFINE D == DOMAIN maps
           Out == {n \in Nat : \E v \in D : v \notin S /\ L[v] = n}
<1>0. D \subseteq Clocks /\ L \in [Clocks -> Nat]
      /\ \A v \in D \ {Ref} : up[v] \in D /\ L[v] = L[up[v]] + 1
  BY DEF Tree, Parents
<1> SUFFICES ASSUME NEW w \in D, w \notin S PROVE FALSE OBVIOUS
<1>1. L[w] \in Out BY <1>0
<1>2. PICK n \in Out : \A m \in Out : n <= m
  <2>1. Out \subseteq Nat OBVIOUS
  <2> HIDE DEF Out
  <2> QED BY <1>1, <2>1, NatMinimal
<1>3. PICK v \in D : v \notin S /\ L[v] = n BY <1>2
<1>4. v # Ref BY <1>3
<1>5. up[v] \in D /\ L[v] = L[up[v]] + 1 /\ L[up[v]] \in Nat BY <1>0, <1>4
<1>6. up[v] \in S
  <2> SUFFICES ASSUME up[v] \notin S PROVE FALSE OBVIOUS
  <2>1. L[up[v]] \in Out BY <1>5
  <2>2. n <= L[up[v]] BY <2>1, <1>2
  <2> QED BY <2>2, <1>5, <1>3
<1> QED BY <1>3, <1>4, <1>6

\* A tree stays within every set that no edge leaves.
LEMMA TreeStaysWithin ==
  ASSUME NEW es, NEW maps, NEW L, NEW up, NEW via, Tree(es, maps, L, up, via),
         NEW S, Ref \in S,
         \A x \in S, e \in es : x \in Ends(e) => Across(e, x) \in S
  PROVE  DOMAIN maps \subseteq S
<1>1. \A v \in DOMAIN maps \ {Ref} :
         via[v] \in es /\ up[v] \in Ends(via[v]) /\ Across(via[v], up[v]) = v
  BY DEF Tree, Parents
<1>2. \A v \in DOMAIN maps \ {Ref} : up[v] \in S => v \in S BY <1>1
<1> QED BY <1>2, TreeInduction

---------------------------------------------------------------------------
(* The edges (ClockD.edges, monitor_edges).                                *)

\* The observations; every window may be thrown away again.
GraphTypes ==
    /\ heard \in Seq(Relations) /\ Len(heard) <= MaxHeard
    /\ fit \in [Relations -> Errors \cup {NoFit}]

\* All that edges() puts, in whatever order.
Puts == PeerEdges \cup MonitorEdges

\* The turns of the places in heard are bounded, so a last one exists.
LEMMA TurnBounded ==
  ASSUME NEW s \in 0 .. MaxHeard, NEW i \in 0 .. MaxHeard, NEW j \in 0 .. MaxHeard
  PROVE  Turn(s, i, j) \in Nat /\ Turn(s, i, j) <= Turn(MaxHeard, MaxHeard, MaxHeard)
<1> DEFINE K == MaxHeard + 1
<1>1. MaxHeard \in Nat /\ K \in Nat BY GraphAssumption
<1>2. \A a, b \in Nat : a <= b => a * K \in Nat /\ a * K <= b * K
  <2> HIDE DEF K
  <2> TAKE a, b \in Nat
  <2> HAVE a <= b
  <2>1. b = a + (b - a) /\ b - a \in Nat OBVIOUS
  <2> DEFINE d == b - a
  <2> HIDE DEF d
  <2>2. b * K = a * K + d * K BY <2>1, <1>1 DEF d
  <2>3. a * K \in Nat /\ d * K \in Nat BY <1>1, <2>1 DEF d
  <2> QED BY <2>2, <2>3
<1> DEFINE a == s * K
           b == MaxHeard * K
<1> HIDE DEF K
<1>3. a \in Nat /\ a <= b /\ b \in Nat BY <1>1, <1>2
<1> DEFINE c == a + i
           d == b + MaxHeard
<1> HIDE DEF a, b
<1>4. c \in Nat /\ d \in Nat /\ c <= d BY <1>3, <1>1
<1> DEFINE e == c * K
           f == d * K
<1>5. e \in Nat /\ f \in Nat /\ e <= f
  <2> HIDE DEF c, d
  <2> QED BY <1>4, <1>2
<1>6. Turn(s, i, j) = e + j /\ Turn(MaxHeard, MaxHeard, MaxHeard) = f + MaxHeard
  BY DEF Turn, a, b, c, d, e, f, K
<1> HIDE DEF e, f
<1> QED BY <1>1, <1>5, <1>6

\* What a place in heard holds.
LEMMA HeardTyped ==
  ASSUME GraphTypes, NEW i \in DOMAIN heard
  PROVE  /\ heard[i] \in Relations /\ heard[i].of \in Clocks /\ heard[i].by # heard[i].of
         /\ i \in 0 .. MaxHeard /\ i \in Nat
         /\ i \in Fitted => fit[heard[i]] \in Errors /\ fit[heard[i]] \in Int
<1>1. heard \in Seq(Relations) /\ Len(heard) <= MaxHeard /\ MaxHeard \in Nat /\ Len(heard) \in Nat
  BY GraphAssumption DEF GraphTypes
<1>2. DOMAIN heard = 1 .. Len(heard) /\ heard[i] \in Relations BY <1>1
<1>3. fit[heard[i]] \in Errors \cup {NoFit} BY <1>2 DEF GraphTypes
<1>4. i \in 0 .. MaxHeard /\ i \in Nat BY <1>1, <1>2
<1>5. heard[i].of \in Clocks /\ heard[i].by # heard[i].of BY <1>2, GraphAssumption
<1>6. i \in Fitted => fit[heard[i]] \in Errors BY <1>3 DEF Fitted
<1>7. Errors \subseteq Int BY GraphAssumption
<1> QED BY <1>2, <1>4, <1>5, <1>6, <1>7

\* A station's place is one of heard's.
LEMMA StationTyped ==
  ASSUME GraphTypes, NEW i \in DOMAIN heard
  PROVE  Station(i) \in 0 .. MaxHeard
<1> DEFINE J == {j \in DOMAIN heard : heard[j].by = heard[i].by}
<1>1. J \subseteq Nat /\ J # {} BY HeardTyped
<1>2. \E j \in J : \A k \in J : j <= k
  <2> HIDE DEF J
  <2> QED BY <1>1, NatMinimal
<1>3. Station(i) \in J BY <1>2 DEF Station, Min
<1> QED BY <1>3, HeardTyped

\* What is put is an edge of two clocks.
LEMMA PutsTyped ==
  ASSUME GraphTypes, NEW d \in Puts
  PROVE  /\ d = Edge(d.from, d.to, d.err, d.at)
         /\ d.from \in Clocks /\ d.to \in Clocks /\ d.err \in Int /\ d.at \in Nat
         /\ d.at <= Turn(MaxHeard, MaxHeard, MaxHeard)
<1>0. 0 \in 0 .. MaxHeard /\ Fitted \subseteq DOMAIN heard BY GraphAssumption DEF Fitted
<1>1. CASE d \in PeerEdges
  <2>1. PICK i \in Fitted : heard[i].by \in Clocks
                            /\ d = Edge(heard[i].by, heard[i].of, fit[heard[i]], Turn(0, 0, i))
    BY <1>1 DEF PeerEdges
  <2>2. Turn(0, 0, i) \in Nat /\ Turn(0, 0, i) <= Turn(MaxHeard, MaxHeard, MaxHeard)
    BY <1>0, HeardTyped, TurnBounded
  <2> QED BY <1>0, <2>1, <2>2, HeardTyped DEF Edge
<1>2. CASE d \in MonitorEdges
  <2>1. PICK p \in Fitted \X Fitted :
           d = Edge(heard[p[1]].of, heard[p[2]].of, fit[heard[p[2]]] - fit[heard[p[1]]],
                    Turn(Station(p[1]), p[1], p[2]))
    BY <1>2 DEF MonitorEdges
  <2>2. p[1] \in Fitted /\ p[2] \in Fitted OBVIOUS
  <2> DEFINE t == Turn(Station(p[1]), p[1], p[2])
  <2>3. t \in Nat /\ t <= Turn(MaxHeard, MaxHeard, MaxHeard)
    BY <1>0, <2>2, HeardTyped, StationTyped, TurnBounded
  <2>4. fit[heard[p[2]]] \in Int /\ fit[heard[p[1]]] \in Int
        /\ heard[p[1]].of \in Clocks /\ heard[p[2]].of \in Clocks
    BY <1>0, <2>2, HeardTyped
  <2> HIDE DEF t
  <2>5. d = Edge(heard[p[1]].of, heard[p[2]].of, fit[heard[p[2]]] - fit[heard[p[1]]], t)
    BY <2>1 DEF t
  <2> QED BY <2>3, <2>4, <2>5 DEF Edge
<1> QED BY <1>1, <1>2 DEF Puts

\* What is put under d's key.
PutsOf(d) == {e \in Puts : SameKey(d, e)}

\* A key's entry is of the place first put and the value last put.
LEMMA EntryIs ==
  ASSUME GraphTypes, NEW d \in Puts
  PROVE  \E first, last \in PutsOf(d) :
            Entry(PutsOf(d)) = Edge(first.from, first.to, last.err, first.at)
<1> DEFINE S == PutsOf(d)
           T == {e.at : e \in S}
           B == Turn(MaxHeard, MaxHeard, MaxHeard)
<1>1. d \in S BY DEF PutsOf, SameKey
<1>2. \A e \in S : e.at \in Nat /\ e.at <= B BY PutsTyped DEF PutsOf
<1>3. T \subseteq Nat /\ T # {} /\ B \in Nat /\ \A t \in T : t <= B
  <2>1. MaxHeard \in 0 .. MaxHeard BY GraphAssumption
  <2>2. B \in Nat BY <2>1, TurnBounded
  <2> HIDE DEF S, B
  <2> QED BY <1>1, <1>2, <2>2
<1> HIDE DEF B, S
<1>4. \E e \in S : \A f \in S : e.at <= f.at
  <2>1. PICK t \in T : \A u \in T : t <= u
    <3> HIDE DEF T
    <3> QED BY <1>3, NatMinimal
  <2> QED BY <2>1
<1>5. \E e \in S : \A f \in S : e.at >= f.at
  <2>1. PICK t \in T : \A u \in T : t >= u
    <3> HIDE DEF T
    <3> QED BY <1>3, NatMaximal
  <2> QED BY <2>1
<1> QED BY <1>4, <1>5 DEF Entry, S

\* One edge for every key put, with the value of one that was.
LEMMA EdgesAre ==
  ASSUME GraphTypes
  PROVE  /\ Typed(Edges)
         /\ \A e \in Edges : \E d \in Puts : SameKey(d, e) /\ e.err = d.err
         /\ \A d \in Puts : \E e \in Edges : SameKey(d, e)
         /\ \A d, e \in Edges : SameKey(d, e) => d = e
<1>1. Edges = {Entry(PutsOf(d)) : d \in Puts} BY DEF Edges, Puts, PutsOf
<1>2. ASSUME NEW d \in Puts
      PROVE  LET e == Entry(PutsOf(d))
             IN  /\ SameKey(d, e)
                 /\ e.from \in Clocks /\ e.to \in Clocks /\ e.err \in Int /\ e.at \in Nat
                 /\ \E f \in Puts : SameKey(f, e) /\ e.err = f.err
  <2>1. PICK first, last \in PutsOf(d) :
            Entry(PutsOf(d)) = Edge(first.from, first.to, last.err, first.at)
    BY EntryIs
  <2>2. /\ first \in Puts /\ last \in Puts
        /\ first.from = d.from /\ first.to = d.to /\ last.from = d.from /\ last.to = d.to
    BY DEF PutsOf, SameKey
  <2>3. /\ first.from \in Clocks /\ first.to \in Clocks /\ first.at \in Nat /\ last.err \in Int
    BY <2>2, PutsTyped
  <2> DEFINE e == Entry(PutsOf(d))
  <2>4. e.from = first.from /\ e.to = first.to /\ e.err = last.err /\ e.at = first.at
    BY <2>1 DEF Edge
  <2> HIDE DEF e
  <2>5. SameKey(d, e) /\ SameKey(last, e) BY <2>2, <2>4 DEF SameKey
  <2> QED BY <2>2, <2>3, <2>4, <2>5 DEF e
<1>3. \A d, e \in Puts : SameKey(d, e) => PutsOf(d) = PutsOf(e) BY DEF PutsOf, SameKey
<1>4. ASSUME NEW x \in Edges, NEW y \in Edges, SameKey(x, y) PROVE x = y
  <2>1. PICK d \in Puts : x = Entry(PutsOf(d)) BY <1>1
  <2>2. PICK f \in Puts : y = Entry(PutsOf(f)) BY <1>1
  <2>3. SameKey(d, x) /\ SameKey(f, y) BY <1>2, <2>1, <2>2
  <2>4. SameKey(d, f) BY <2>3, <1>4 DEF SameKey
  <2> QED BY <2>1, <2>2, <2>4, <1>3
<1>5. Typed(Edges) BY <1>1, <1>2 DEF Typed
<1>6. \A e \in Edges : \E d \in Puts : SameKey(d, e) /\ e.err = d.err BY <1>1, <1>2
<1>7. \A d \in Puts : \E e \in Edges : SameKey(d, e) BY <1>1, <1>2
<1> QED BY <1>4, <1>5, <1>6, <1>7

\* Edges relate, and what is related they join.
LEMMA EdgesRelate ==
  ASSUME GraphTypes, NEW e \in Edges, NEW x \in Ends(e)
  PROVE  Related(x, Across(e, x))
<1>1. PICK d \in Puts : SameKey(d, e) BY EdgesAre
<1>2. {x, Across(e, x)} = {d.from, d.to} BY <1>1, EndsAre DEF SameKey, Ends
<1>3. CASE d \in PeerEdges
  <2>1. PICK i \in Fitted : d.from = heard[i].by /\ d.to = heard[i].of
    BY <1>3 DEF PeerEdges, Edge
  <2> QED BY <2>1, <1>2 DEF Related, Observations
<1>4. CASE d \in MonitorEdges
  <2>1. PICK p \in Fitted \X Fitted : /\ d.from = heard[p[1]].of /\ d.to = heard[p[2]].of
                                      /\ heard[p[1]].by = heard[p[2]].by
    BY <1>4 DEF MonitorEdges, Edge
  <2>2. heard[p[1]] \in Observations /\ heard[p[2]] \in Observations BY DEF Observations
  <2> QED BY <2>1, <2>2, <1>2 DEF Related
<1> QED BY <1>1, <1>3, <1>4 DEF Puts

\* What a set that no edge leaves has one end of, it has both ends of.
LEMMA PutsJoin ==
  ASSUME GraphTypes, NEW D \in SUBSET Clocks,
         \A x \in D, e \in Edges : x \in Ends(e) => Across(e, x) \in D,
         NEW d \in Puts, d.from \in D \/ d.to \in D
  PROVE  d.from \in D /\ d.to \in D
<1>1. PICK e \in Edges : SameKey(d, e) BY EdgesAre
<1>2. Ends(e) = {d.from, d.to} BY <1>1 DEF SameKey, Ends
<1> QED BY <1>2, EndsAre

\* Clocks related by observations are in the same such sets.
LEMMA EdgesJoin ==
  ASSUME GraphTypes, NEW D \in SUBSET Clocks,
         \A x \in D, e \in Edges : x \in Ends(e) => Across(e, x) \in D,
         NEW x \in D, NEW y \in Clocks, Related(x, y)
  PROVE  y \in D
<1>1. ASSUME NEW i \in Fitted, heard[i].by \in Clocks, heard[i].by \in D \/ heard[i].of \in D
      PROVE  heard[i].by \in D /\ heard[i].of \in D
  <2> DEFINE d == Edge(heard[i].by, heard[i].of, fit[heard[i]], Turn(0, 0, i))
  <2>1. d \in Puts BY <1>1 DEF PeerEdges, Puts
  <2>2. d.from = heard[i].by /\ d.to = heard[i].of BY DEF Edge
  <2> HIDE DEF d
  <2> QED BY <2>1, <2>2, <1>1, PutsJoin
<1>2. ASSUME NEW i \in Fitted, NEW j \in Fitted, i < j, heard[i].by \notin Clocks,
             heard[i].by = heard[j].by, heard[i].of \in D \/ heard[j].of \in D
      PROVE  heard[i].of \in D /\ heard[j].of \in D
  <2> DEFINE p == <<i, j>>
             d == Edge(heard[p[1]].of, heard[p[2]].of, fit[heard[p[2]]] - fit[heard[p[1]]],
                       Turn(Station(p[1]), p[1], p[2]))
  <2>1. d \in Puts
    <3>1. p \in {q \in Fitted \X Fitted :
                   q[1] < q[2] /\ heard[q[1]].by \notin Clocks /\ heard[q[1]].by = heard[q[2]].by}
      BY <1>2
    <3> HIDE DEF p
    <3>2. d \in MonitorEdges BY <3>1 DEF MonitorEdges
    <3> QED BY <3>2 DEF Puts
  <2>2. d.from = heard[i].of /\ d.to = heard[j].of BY DEF Edge
  <2> HIDE DEF d
  <2> QED BY <2>1, <2>2, <1>2, PutsJoin
<1>3. PICK r \in Observations, s \in Observations :
         \/ {r.by, r.of} = {x, y}
         \/ r.by = s.by /\ {r.of, s.of} = {x, y}
  BY DEF Related
<1>4. PICK i \in Fitted : r = heard[i] BY DEF Observations
<1>5. PICK j \in Fitted : s = heard[j] BY DEF Observations
<1>6. CASE {r.by, r.of} = {x, y}
  <2>1. heard[i].by \in Clocks /\ (heard[i].by \in D \/ heard[i].of \in D) BY <1>6, <1>4
  <2> QED BY <2>1, <1>1, <1>4, <1>6
<1>7. CASE r.by = s.by /\ {r.of, s.of} = {x, y}
  <2>1. CASE r.by \in Clocks
    <3>1. heard[i].of \in D \/ heard[j].of \in D BY <1>7, <1>4, <1>5
    <3>2. heard[i].by = heard[j].by /\ heard[i].by \in Clocks BY <1>4, <1>5, <1>7, <2>1
    <3>3. heard[i].by \in D BY <3>1, <3>2, <1>1
    <3>4. heard[i].of \in D /\ heard[j].of \in D BY <3>2, <3>3, <1>1
    <3> QED BY <3>4, <1>7, <1>4, <1>5
  <2>2. CASE r.by \notin Clocks
    <3>1. i \in Nat /\ j \in Nat BY HeardTyped DEF Fitted
    <3>2. CASE i = j BY <3>2, <1>4, <1>5, <1>7
    <3>3. CASE i < j BY <3>3, <1>2, <1>4, <1>5, <1>7, <2>2
    <3>4. CASE j < i BY <3>4, <1>2, <1>4, <1>5, <1>7, <2>2
    <3> QED BY <3>1, <3>2, <3>3, <3>4
  <2> QED BY <2>1, <2>2
<1> QED BY <1>3, <1>6, <1>7

\* The maps are those of the clocks connected to the reference.
LEMMA TypesReachAll ==
  GraphTypes => ReachesAll
<1> SUFFICES ASSUME GraphTypes PROVE DOMAIN Solve(Edges) = Closure
  BY DEF ReachesAll
<1>1. Typed(Edges) BY EdgesAre
<1>2. PICK L, up, via : Tree(Edges, Solve(Edges), L, up, via)
  BY <1>1, SolveFindsTree
<1> DEFINE D == DOMAIN Solve(Edges)
           Closed(S) == Ref \in S /\ (\A x \in S, y \in Clocks : Related(x, y) => y \in S)
<1>3. D \subseteq Clocks /\ Ref \in D
      /\ \A x \in D, e \in Edges : x \in Ends(e) => Across(e, x) \in D
  BY <1>2 DEF Tree
<1>4. ASSUME NEW c \in Closure PROVE c \in D
  <2>1. Closed(D) BY <1>3, EdgesJoin
  <2> HIDE DEF D
  <2> QED BY <2>1, <1>3 DEF Closure
<1>5. ASSUME NEW S \in SUBSET Clocks, Closed(S) PROVE D \subseteq S
  <2>1. ASSUME NEW x \in S, NEW e \in Edges, x \in Ends(e) PROVE Across(e, x) \in S
    <3>1. Across(e, x) \in Clocks BY <1>1 DEF Typed, Across
    <3>2. Related(x, Across(e, x)) BY <2>1, EdgesRelate
    <3> QED BY <3>1, <3>2, <1>5
  <2> QED BY <2>1, <1>2, <1>5, TreeStaysWithin
<1>6. D \subseteq Closure
  <2> HIDE DEF D
  <2> QED BY <1>3, <1>5 DEF Closure
<1> QED BY <1>4, <1>6

---------------------------------------------------------------------------
(* One wrong edge (path_disagreement).                                     *)

\* Negation keeps zero.
LEMMA MinusZero ==
  ASSUME NEW n, n = 0
  PROVE  -n = 0
<1>1. \A i \in Int : -i = 0 - i OBVIOUS
<1>2. \A i \in Int : i = 0 => 0 - i = 0 OBVIOUS
<1>3. n \in Int OBVIOUS
<1> QED BY <1>1, <1>2, <1>3, Zenon

\* An edge without an error displaces nobody.
LEMMA AlongZero ==
  ASSUME NEW e, e.err = 0, NEW x
  PROVE  Along(e, x) = 0
BY MinusZero DEF Along

\* The tree uses w once at most; what lies below is displaced by all of it.
UsedOnce(maps, up, via, w, t) ==
    /\ t \in DOMAIN maps \ {Ref} /\ via[t] = w
    /\ maps[up[t]] = 0 /\ maps[t] = Along(w, up[t])
    /\ \A v \in DOMAIN maps : maps[v] \in {0, Along(w, up[t])}

\* If w alone is wrong, a tree is right everywhere, or uses w and below it is
\* wrong by all of it.
LEMMA TreeUsesOnce ==
  ASSUME NEW es, Typed(es), NEW maps, NEW L, NEW up, NEW via, Tree(es, maps, L, up, via),
         NEW w, \A e \in es : e # w => e.err = 0
  PROVE  \/ \A v \in DOMAIN maps : maps[v] = 0
         \/ \E t : UsedOnce(maps, up, via, w, t)
<1> DEFINE D == DOMAIN maps
<1>0. /\ D \subseteq Clocks /\ maps \in [D -> Int] /\ maps[Ref] = 0 /\ Ref \in D
      /\ L \in [Clocks -> Nat]
      /\ \A v \in D \ {Ref} : /\ up[v] \in D /\ via[v] \in es /\ up[v] \in Ends(via[v])
                              /\ L[v] = L[up[v]] + 1
                              /\ maps[v] = maps[up[v]] + Along(via[v], up[v])
      /\ \A u, v \in D \ {Ref} : via[u] = via[v] => u = v
  BY DEF Tree, Parents
<1>1. ASSUME NEW v \in D \ {Ref}, via[v] # w PROVE maps[v] = maps[up[v]]
  <2>1. via[v].err = 0 BY <1>0, <1>1
  <2>3. Along(via[v], up[v]) = 0 BY <2>1, AlongZero
  <2>4. maps[v] = maps[up[v]] + 0 /\ maps[up[v]] \in Int BY <2>3, <1>0
  <2> QED BY <2>4
<1>2. CASE \A v \in D \ {Ref} : via[v] # w
  <2> DEFINE S == {v \in D : maps[v] = 0}
  <2>1. Ref \in S BY <1>0
  <2>2. \A v \in D \ {Ref} : up[v] \in S => v \in S BY <1>1, <1>2
  <2> HIDE DEF S
  <2>3. D \subseteq S BY <2>1, <2>2, TreeInduction
  <2> QED BY <2>3 DEF S
<1>3. CASE \E t \in D \ {Ref} : via[t] = w
  <2>1. PICK t \in D \ {Ref} : via[t] = w BY <1>3
  <2> DEFINE a == Along(w, up[t])
             S == {v \in D : maps[v] = 0 \/ (maps[v] = a /\ L[v] >= L[t])}
  <2>2. a \in Int BY <2>1, <1>0 DEF Typed, Along
  <2> HIDE DEF a
  <2>3. Ref \in S BY <1>0
  <2>4. up[t] \in D /\ L[t] = L[up[t]] + 1 /\ L[up[t]] \in Nat /\ L[t] \in Nat
        /\ maps[t] = maps[up[t]] + a
    BY <1>0, <2>1 DEF a
  <2>5. up[t] \in S => maps[up[t]] = 0 /\ maps[t] = a
    BY <2>2, <2>4
  <2>6. ASSUME NEW v \in D \ {Ref}, up[v] \in S PROVE v \in S
    <3>1. CASE v = t BY <3>1, <2>5, <2>6, <2>4
    <3>2. CASE v # t
      <4>1. via[v] # w BY <3>2, <2>1, <1>0
      <4>2. maps[v] = maps[up[v]] BY <4>1, <1>1
      <4>3. L[v] = L[up[v]] + 1 /\ L[up[v]] \in Nat /\ L[t] \in Nat BY <1>0
      <4> QED BY <4>2, <4>3, <2>6
    <3> QED BY <3>1, <3>2
  <2>7. D \subseteq S
    <3> HIDE DEF S
    <3> QED BY <2>3, <2>6, TreeInduction
  <2>8. maps[up[t]] = 0 /\ maps[t] = a BY <2>4, <2>5, <2>7
  <2>9. \A v \in D : maps[v] \in {0, a} BY <2>7
  <2> QED BY <2>1, <2>8, <2>9 DEF UsedOnce, a
<1> QED BY <1>2, <1>3

\* The tree of all edges and that without f agree on the sign of the error:
\* they cannot follow w in opposite directions to the same clock.
LEMMA SameDirection ==
  ASSUME NEW es, Typed(es), NEW w \in es, NEW f \in es, f # w,
         \A e \in es : e # w => e.err = 0,
         NEW maps, NEW L, NEW up, NEW via, Tree(es, maps, L, up, via),
         NEW maps2, NEW L2, NEW up2, NEW via2, Tree(es \ {f}, maps2, L2, up2, via2),
         NEW m \in DOMAIN maps, m \in DOMAIN maps2, maps[m] # 0
  PROVE  maps2[m] \in {0, maps[m]}
<1> DEFINE D == DOMAIN maps
           D2 == DOMAIN maps2
           fs == es \ {f}
<1>1. PICK t : UsedOnce(maps, up, via, w, t)
  BY TreeUsesOnce
<1>2. SUFFICES ASSUME maps2[m] # 0, maps2[m] # maps[m] PROVE FALSE
  OBVIOUS
<1>a. Typed(fs) BY DEF Typed
<1>b. \A e \in fs : e # w => e.err = 0 OBVIOUS
<1>3. PICK t2 : UsedOnce(maps2, up2, via2, w, t2)
  BY <1>a, <1>b, <1>2, TreeUsesOnce
<1>4. /\ D \subseteq Clocks /\ Ref \in D /\ L \in [Clocks -> Nat] /\ L[Ref] = 0
      /\ \A x \in D, e \in es : x \in Ends(e) => Across(e, x) \in D /\ L[Across(e, x)] <= L[x] + 1
      /\ \A v \in D \ {Ref} : /\ up[v] \in D /\ via[v] \in es /\ up[v] \in Ends(via[v])
                              /\ Across(via[v], up[v]) = v /\ L[v] = L[up[v]] + 1
                              /\ maps[v] = maps[up[v]] + Along(via[v], up[v])
      /\ \A u, v \in D \ {Ref} : via[u] = via[v] => u = v
      /\ maps[Ref] = 0 /\ maps \in [D -> Int]
  BY DEF Tree, Parents
<1>5. /\ D2 \subseteq Clocks /\ Ref \in D2 /\ L2 \in [Clocks -> Nat] /\ L2[Ref] = 0
      /\ \A x \in D2, e \in fs : x \in Ends(e) => Across(e, x) \in D2 /\ L2[Across(e, x)] <= L2[x] + 1
      /\ \A v \in D2 \ {Ref} : /\ up2[v] \in D2 /\ via2[v] \in fs /\ up2[v] \in Ends(via2[v])
                               /\ Across(via2[v], up2[v]) = v /\ L2[v] = L2[up2[v]] + 1
                               /\ maps2[v] = maps2[up2[v]] + Along(via2[v], up2[v])
      /\ \A u, v \in D2 \ {Ref} : via2[u] = via2[v] => u = v
      /\ maps2[Ref] = 0 /\ maps2 \in [D2 -> Int]
  BY DEF Tree, Parents
<1> HIDE DEF D, D2, fs
<1> DEFINE s == up[t]
<1>6. /\ t \in D \ {Ref} /\ via[t] = w /\ s \in D /\ L[t] = L[s] + 1
      /\ maps[s] = 0 /\ maps[t] = Along(w, s) /\ \A v \in D : maps[v] \in {0, Along(w, s)}
      /\ Ends(w) = {s, t}
  <2>1. t \in D \ {Ref} /\ via[t] = w /\ maps[s] = 0 /\ maps[t] = Along(w, s)
        /\ \A v \in D : maps[v] \in {0, Along(w, s)}
    BY <1>1 DEF UsedOnce, D
  <2>2. Ends(w) = {s, t} BY <2>1, <1>4, EndsAre
  <2> QED BY <2>1, <2>2, <1>4
<1>7. t2 = s /\ up2[t2] = t
  <2>1. /\ t2 \in D2 \ {Ref} /\ via2[t2] = w /\ \A v \in D2 : maps2[v] \in {0, Along(w, up2[t2])}
    BY <1>3 DEF UsedOnce, D2
  <2>2. Ends(w) = {up2[t2], t2} BY <2>1, <1>5, EndsAre
  <2>3. maps[m] = Along(w, s) /\ maps2[m] = Along(w, up2[t2])
    BY <2>1, <1>2, <1>6 DEF D, D2
  <2>4. up2[t2] # s BY <2>3, <1>2
  <2> QED BY <2>2, <2>4, <1>6
<1>8. /\ s \in D2 \ {Ref} /\ via2[s] = w /\ up2[s] = t /\ t \in D2 /\ L2[s] = L2[t] + 1
      /\ maps2[t] = 0 /\ maps2[s] = Along(w, t)
  BY <1>3, <1>5, <1>7 DEF UsedOnce, D2
<1> HIDE DEF s
<1>9. /\ \A v \in D \ {Ref} : via[v] # w => maps[v] = maps[up[v]]
      /\ \A v \in D2 \ {Ref} : via2[v] # w => maps2[v] = maps2[up2[v]]
  <2>1. \A e \in es : e # w => \A x : Along(e, x) = 0 BY AlongZero
  <2>2. \A i \in Int : i + 0 = i OBVIOUS
  <2>3. ASSUME NEW v \in D \ {Ref}, via[v] # w PROVE maps[v] = maps[up[v]]
    <3>1. maps[v] = maps[up[v]] + 0 /\ maps[up[v]] \in Int BY <2>1, <2>3, <1>4
    <3> QED BY <3>1, <2>2
  <2>4. ASSUME NEW v \in D2 \ {Ref}, via2[v] # w PROVE maps2[v] = maps2[up2[v]]
    <3>1. maps2[v] = maps2[up2[v]] + 0 /\ maps2[up2[v]] \in Int BY <2>1, <2>4, <1>5 DEF fs
    <3> QED BY <3>1, <2>2
  <2> QED BY <2>3, <2>4
\* Without f no clock is nearer.
<1>10. D2 \subseteq {v \in D : L[v] <= L2[v]}
  <2> DEFINE S == {v \in D : L[v] <= L2[v]}
  <2>1. Ref \in S BY <1>4, <1>5
  <2>2. ASSUME NEW v \in D2 \ {Ref}, up2[v] \in S PROVE v \in S
    <3>1. /\ via2[v] \in es /\ up2[v] \in Ends(via2[v]) /\ Across(via2[v], up2[v]) = v
          /\ L2[v] = L2[up2[v]] + 1
      BY <1>5 DEF fs
    <3>2. v \in D /\ L[v] <= L[up2[v]] + 1 BY <3>1, <2>2, <1>4
    <3>3. L[v] \in Nat /\ L[up2[v]] \in Nat /\ L2[up2[v]] \in Nat BY <1>4, <1>5, <3>2, <2>2
    <3> QED BY <3>1, <3>2, <3>3, <2>2
  <2> HIDE DEF S
  <2> QED BY <2>1, <2>2, TreeInduction DEF D2, S, fs
\* Below s in the tree without f, nobody is further from s with it.
<1>11. D2 \subseteq {v \in D2 : maps2[v] # 0 => L[v] - L[s] <= L2[v] - L2[s]}
  <2> DEFINE S == {v \in D2 : maps2[v] # 0 => L[v] - L[s] <= L2[v] - L2[s]}
  <2>1. Ref \in S BY <1>5
  <2>2. ASSUME NEW v \in D2 \ {Ref}, up2[v] \in S PROVE v \in S
    <3>0. L[v] \in Nat /\ L[s] \in Nat /\ L2[v] \in Nat /\ L2[s] \in Nat
          /\ L[up2[v]] \in Nat /\ L2[up2[v]] \in Nat
      BY <1>4, <1>5, <1>8
    <3>1. CASE via2[v] = w
      <4>1. v = s BY <3>1, <1>5, <1>8
      <4> QED BY <4>1, <3>0, <2>2
    <3>2. CASE via2[v] # w
      <4>1. maps2[v] = maps2[up2[v]] BY <3>2, <1>9
      <4>2. /\ via2[v] \in es /\ up2[v] \in Ends(via2[v]) /\ Across(via2[v], up2[v]) = v
            /\ L2[v] = L2[up2[v]] + 1
        BY <1>5 DEF fs
      <4>3. up2[v] \in D BY <1>10, <1>5
      <4>4. L[v] <= L[up2[v]] + 1 BY <4>2, <4>3, <1>4
      <4> QED BY <4>1, <4>2, <4>4, <3>0, <2>2
    <3> QED BY <3>1, <3>2
  <2> HIDE DEF S
  <2> QED BY <2>1, <2>2, TreeInduction DEF D2, S, fs
<1>12. L[m] - L[s] <= L2[m] - L2[s]
  <2>1. m \in D2 BY DEF D2
  <2> QED BY <2>1, <1>11, <1>2
<1>13. /\ L[m] \in Nat /\ L[s] \in Nat /\ L[t] \in Nat
       /\ L2[m] \in Nat /\ L2[s] \in Nat /\ L2[t] \in Nat /\ L[t] <= L2[t]
  BY <1>4, <1>5, <1>6, <1>8, <1>10 DEF D, D2
<1>14. CASE \A v \in D \ {Ref} : maps[v] # 0 => via[v] # f
  \* Below t, the routes are there without f too.
  <2> DEFINE S == {v \in D : maps[v] # 0 => v \in D2 /\ L2[v] - L2[t] <= L[v] - L[t]}
  <2>1. Ref \in S BY <1>4
  <2>2. ASSUME NEW v \in D \ {Ref}, up[v] \in S PROVE v \in S
    <3>0. L[v] \in Nat /\ L[t] \in Nat /\ L2[v] \in Nat /\ L2[t] \in Nat
          /\ L[up[v]] \in Nat /\ L2[up[v]] \in Nat
      BY <1>4, <1>5, <1>13
    <3>1. CASE via[v] = w
      <4>1. v = t BY <3>1, <1>4, <1>6
      <4> QED BY <4>1, <3>0, <1>8, <2>2
    <3>2. CASE via[v] # w /\ maps[v] # 0
      <4>1. maps[v] = maps[up[v]] BY <3>2, <1>9
      <4>2. up[v] \in D2 /\ L2[up[v]] - L2[t] <= L[up[v]] - L[t] BY <4>1, <3>2, <2>2
      <4>3. /\ via[v] \in fs /\ up[v] \in Ends(via[v]) /\ Across(via[v], up[v]) = v
            /\ L[v] = L[up[v]] + 1
        BY <1>4, <1>14, <3>2 DEF fs
      <4>4. v \in D2 /\ L2[v] <= L2[up[v]] + 1 BY <4>2, <4>3, <1>5
      <4> QED BY <4>2, <4>3, <4>4, <3>0
    <3>3. CASE maps[v] = 0 BY <3>3
    <3> QED BY <3>1, <3>2, <3>3
  <2> HIDE DEF S
  <2>3. D \subseteq S BY <2>1, <2>2, TreeInduction DEF D
  <2>4. L2[m] - L2[t] <= L[m] - L[t]
    <3>1. m \in S BY <2>3 DEF D
    <3> QED BY <3>1 DEF S
  <2> QED BY <2>4, <1>6, <1>8, <1>12, <1>13
<1>15. CASE \E v \in D \ {Ref} : maps[v] # 0 /\ via[v] = f
  \* f is below t, so the route to s does not need it.
  <2>1. PICK v0 \in D \ {Ref} : maps[v0] # 0 /\ via[v0] = f BY <1>15
  <2> DEFINE S == {v \in D : maps[v] = 0 => v \in D2 /\ L2[v] <= L[v]}
  <2>2. Ref \in S BY <1>4, <1>5
  <2>3. ASSUME NEW v \in D \ {Ref}, up[v] \in S PROVE v \in S
    <3>0. L[v] \in Nat /\ L2[v] \in Nat /\ L[up[v]] \in Nat /\ L2[up[v]] \in Nat
      BY <1>4, <1>5
    <3>1. CASE maps[v] # 0 BY <3>1
    <3>2. CASE maps[v] = 0
      <4>1. via[v] # w
        <5> SUFFICES ASSUME via[v] = w PROVE FALSE OBVIOUS
        <5>1. v = t BY <1>4, <1>6
        <5>2. Along(w, s) = 0 BY <5>1, <3>2, <1>6
        <5>3. m \in D /\ maps[m] = 0 BY <5>2, <1>6 DEF D
        <5> QED BY <5>3
      <4>2. via[v] # f BY <2>1, <3>2, <1>4
      <4>3. maps[up[v]] = 0 BY <4>1, <3>2, <1>9
      <4>4. up[v] \in D2 /\ L2[up[v]] <= L[up[v]] BY <4>3, <2>3
      <4>5. /\ via[v] \in fs /\ up[v] \in Ends(via[v]) /\ Across(via[v], up[v]) = v
            /\ L[v] = L[up[v]] + 1
        BY <1>4, <4>2 DEF fs
      <4>6. v \in D2 /\ L2[v] <= L2[up[v]] + 1 BY <4>4, <4>5, <1>5
      <4> QED BY <4>4, <4>5, <4>6, <3>0
    <3> QED BY <3>1, <3>2
  <2> HIDE DEF S
  <2>4. D \subseteq S BY <2>2, <2>3, TreeInduction DEF D
  <2>5. L2[s] <= L[s] BY <2>4, <1>6 DEF S
  <2> QED BY <2>5, <1>6, <1>8, <1>13
<1> QED BY <1>14, <1>15

\* The error of one transmitter's observation of another is in one edge.
LEMMA OneWrongEdge ==
  ASSUME GraphTypes, Cardinality(Wrong) = 1, \A r \in Wrong : r.by \in Clocks,
         NEW d \in Edges, d.err # 0
  PROVE  \A e \in Edges : e # d => e.err = 0
<1>1. PICK r : Wrong = {r}
  <2>1. IsFiniteSet(Wrong)
    <3>1. Wrong \in SUBSET Relations BY DEF Wrong
    <3> QED BY <3>1, GraphAssumption, FS_Subset
  <2> QED BY <2>1, FS_Singleton
<1>2. ASSUME NEW e \in Edges, e.err # 0 PROVE e.from = r.by /\ e.to = r.of
  <2>1. PICK p \in Puts : SameKey(p, e) /\ e.err = p.err BY EdgesAre
  <2>0. \A i \in Fitted : /\ i \in DOMAIN heard /\ fit[heard[i]] # NoFit /\ heard[i] \in Relations
                          /\ fit[heard[i]] \in Int
    BY HeardTyped DEF Fitted
  <2>2. CASE p \in PeerEdges
    <3>1. PICK i \in Fitted : p = Edge(heard[i].by, heard[i].of, fit[heard[i]], Turn(0, 0, i))
      BY <2>2 DEF PeerEdges
    <3>2. p.from = heard[i].by /\ p.to = heard[i].of /\ p.err = fit[heard[i]]
      BY <3>1 DEF Edge
    <3>3. heard[i] \in Wrong BY <3>2, <2>0, <2>1, <1>2 DEF Wrong
    <3> QED BY <3>2, <3>3, <1>1, <2>1 DEF SameKey
  <2>3. CASE p \in MonitorEdges
    <3>1. PICK q \in Fitted \X Fitted :
             /\ heard[q[1]].by \notin Clocks /\ heard[q[1]].by = heard[q[2]].by
             /\ p = Edge(heard[q[1]].of, heard[q[2]].of, fit[heard[q[2]]] - fit[heard[q[1]]],
                         Turn(Station(q[1]), q[1], q[2]))
      BY <2>3 DEF MonitorEdges
    <3>2. heard[q[1]] \notin Wrong /\ heard[q[2]] \notin Wrong BY <3>1
    <3>3. fit[heard[q[1]]] = 0 /\ fit[heard[q[2]]] = 0 BY <3>2, <2>0 DEF Wrong
    <3>4. p.err = 0 - 0 BY <3>1, <3>3 DEF Edge
    <3> QED BY <3>4, <2>1, <1>2
  <2> QED BY <2>1, <2>2, <2>3 DEF Puts
<1>3. ASSUME NEW e \in Edges, e # d, e.err # 0 PROVE FALSE
  <2>1. SameKey(d, e) BY <1>2, <1>3 DEF SameKey
  <2> QED BY <2>1, <1>3, EdgesAre
<1> QED BY <1>3

\* The tree without the wrong edge shows the error, and none shows more.
LEMMA TypesSeeWrong ==
  GraphTypes => WrongIsSeen
<1> DEFINE maps == Solve(Edges)
           others == Without(Edges)
           d == Disagreement(Edges)
<1> SUFFICES ASSUME GraphTypes, Cardinality(Wrong) = 1, \A r \in Wrong : r.by \in Clocks,
                    NEW m \in DOMAIN d, maps[m] # 0, d[m].redundant
             PROVE  d[m].max = Magnitude(maps[m])
  BY DEF WrongIsSeen
<1>1. Typed(Edges) BY EdgesAre
<1>2. PICK L, up, via : Tree(Edges, maps, L, up, via)
  BY <1>1, SolveFindsTree
<1>3. maps \in [DOMAIN maps -> Int] BY <1>2 DEF Tree
<1>4. /\ m \in DOMAIN maps /\ \A o \in others : m \in DOMAIN o
      /\ d[m].max = Max({0} \cup {Magnitude(o[m] - maps[m]) : o \in others})
  <2> HIDE DEF maps, others
  <2>1. DOMAIN d = DOMAIN maps \ {Ref} BY DEF Disagreement, maps
  <2>2. d[m] = LET redundant == \A o \in others : m \in DOMAIN o
               IN  [redundant |-> redundant,
                    max |-> IF redundant
                            THEN Max({0} \cup {Magnitude(o[m] - maps[m]) : o \in others})
                            ELSE 0]
    BY <2>1 DEF Disagreement, maps, others
  <2> QED BY <2>1, <2>2
<1>5. PICK w \in Edges : w.err # 0
  <2> SUFFICES ASSUME \A e \in Edges : e.err = 0 PROVE FALSE OBVIOUS
  <2> DEFINE e0 == CHOOSE e : TRUE
  <2>1. PICK t : UsedOnce(maps, up, via, e0, t)
    BY <1>1, <1>2, <1>4, TreeUsesOnce
  <2>2. via[t] \in Edges /\ via[t] = e0
    BY <1>2, <2>1 DEF Tree, Parents, UsedOnce
  <2>3. Along(e0, up[t]) = 0 BY <2>2, AlongZero
  <2> QED BY <2>1, <2>3, <1>4 DEF UsedOnce
<1>6. \A e \in Edges : e # w => e.err = 0 BY <1>5, OneWrongEdge
<1> HIDE DEF maps, others, d
<1> DEFINE a == maps[m]
<1>7. a \in Int BY <1>3, <1>4
<1>8. ASSUME NEW f \in Edges
      PROVE  Solve(Edges \ {f})[m] \in {0, a} /\ (f = w => Solve(Edges \ {f})[m] = 0)
  <2> DEFINE o == Solve(Edges \ {f})
  <2>0. o \in others BY DEF others, Without
  <2>2. Typed(Edges \ {f}) BY <1>1 DEF Typed
  <2>3. PICK L2, up2, via2 : Tree(Edges \ {f}, o, L2, up2, via2)
    BY <2>2, SolveFindsTree
  <2> HIDE DEF o
  <2>1. m \in DOMAIN o BY <2>0, <1>4
  <2>4. CASE f # w
    <3>1. o[m] \in {0, maps[m]}
      BY <2>1, <2>3, <2>4, <1>1, <1>2, <1>4, <1>5, <1>6, SameDirection
    <3> QED BY <3>1, <2>4 DEF o
  <2>5. CASE f = w
    <3>1. \A e \in Edges \ {f} : e # w => e.err = 0 BY <1>6
    <3>2. \A t : ~ UsedOnce(o, up2, via2, w, t)
      BY <2>3, <2>5 DEF UsedOnce, Tree, Parents
    <3>3. \A v \in DOMAIN o : o[v] = 0
      BY <2>2, <2>3, <3>1, <3>2, TreeUsesOnce
    <3> QED BY <3>3, <2>1 DEF o
  <2> QED BY <2>4, <2>5
<1>9. a # 0 OBVIOUS
<1> HIDE DEF a
<1>10. /\ Magnitude(a) \in Nat \ {0} /\ Magnitude(0 - a) = Magnitude(a) /\ Magnitude(a - a) = 0
  BY <1>7, <1>9 DEF Magnitude
<1> DEFINE M == {0} \cup {Magnitude(o[m] - a) : o \in others}
<1>11. \A x \in M : x \in {0, Magnitude(a)}
  <2> SUFFICES ASSUME NEW o \in others PROVE Magnitude(o[m] - a) \in {0, Magnitude(a)}
    OBVIOUS
  <2>1. PICK f \in Edges : o = Solve(Edges \ {f}) BY DEF others, Without
  <2>2. o[m] \in {0, a} BY <2>1, <1>8
  <2> QED BY <2>2, <1>10
<1>12. Magnitude(a) \in M
  <2> DEFINE o == Solve(Edges \ {w})
  <2>1. o \in others BY DEF others, Without
  <2>2. o[m] = 0 BY <1>8
  <2> HIDE DEF o
  <2> QED BY <2>1, <2>2, <1>10
<1> HIDE DEF M
<1>13. Max(M) = Magnitude(a) BY <1>10, <1>11, <1>12 DEF Max
<1> QED BY <1>13, <1>4 DEF M, a

---------------------------------------------------------------------------
(* The observations while they arrive.                                     *)

\* Before anything is heard.
LEMMA InitGraphTypes == InitGraph => GraphTypes
<1> SUFFICES ASSUME InitGraph PROVE GraphTypes OBVIOUS
<1>1. heard = <<>> /\ fit = [r \in Relations |-> NoFit] BY DEF InitGraph
<1>2. heard \in Seq(Relations) /\ Len(heard) <= MaxHeard BY <1>1, GraphAssumption
<1>3. fit \in [Relations -> Errors \cup {NoFit}] BY <1>1
<1> QED BY <1>2, <1>3 DEF GraphTypes

\* What is heard, settled or thrown away keeps the types.
LEMMA StepGraphTypes == GraphTypes /\ [GraphStep]_graphVars => GraphTypes'
<1> SUFFICES ASSUME GraphTypes, [GraphStep]_graphVars PROVE GraphTypes' OBVIOUS
<1> USE DEF GraphTypes
<1>0. MaxHeard \in Nat BY GraphAssumption
<1>1. ASSUME NEW r \in Relations, Hear(r) PROVE GraphTypes'
  BY <1>0, <1>1 DEF Hear
<1>2. ASSUME NEW r \in Relations, Discard(r) PROVE GraphTypes'
  BY <1>2 DEF Discard
<1>3. ASSUME NEW r \in Relations, NEW e \in Errors, Settle(r, e) PROVE GraphTypes'
  BY <1>3 DEF Settle
<1>4. CASE HearNeighbour BY <1>4 DEF HearNeighbour
<1>5. CASE UNCHANGED graphVars BY <1>5 DEF graphVars
<1> QED BY <1>1, <1>2, <1>3, <1>4, <1>5 DEF GraphStep

\* The observations alone, without a check: every clock connected to the
\* reference has a map and no other does (solve_offsets), and a wrong
\* observation is seen (path_disagreement).
THEOREM GraphSound == GraphSpec => [](ReachesAll /\ WrongIsSeen)
<1>1. GraphSpec => []GraphTypes
  BY InitGraphTypes, StepGraphTypes, PTL DEF GraphSpec
<1>2. GraphTypes => ReachesAll /\ WrongIsSeen BY TypesReachAll, TypesSeeWrong
<1> QED BY <1>1, <1>2, PTL

---------------------------------------------------------------------------
(* The check, stage by stage.                                              *)

\* The order of the records, of one transmitter and of several.
OrderOfOne == <<"agents", "clock_graph", "extrapolation", "path_consistency",
                "coincidence", "divergence", "stability", "fire">>
OrderOfSeveral == <<"agents", "clock_graph", "extrapolation", "path_consistency",
                    "fire", "coincidence", "divergence", "stability">>

\* This session's.
Order == IF Len(plan) >= 2 THEN OrderOfSeveral ELSE OrderOfOne

\* How many verdicts are recorded when a stage begins.
Progress ==
    /\ at \in {"before", "clock_graph", "extrapolation", "path_consistency",
               "round", "judge", "done", "raised"}
    /\ at = "before" => Len(out) = 0
    /\ at = "clock_graph" => Len(out) = 1
    /\ at = "extrapolation" => Len(out) = 2
    /\ at = "path_consistency" => Len(out) = 3
    /\ at \in {"round", "judge"} => Len(out) = IF Len(plan) >= 2 THEN 4 ELSE 7
    /\ at = "done" => \/ Len(out) = 8
                      \/ \E i \in DOMAIN out : out[i].verdict = "FAIL"

\* The verdicts there are.
Said == {"PASS", "FAIL", "SKIP", "NA"}
Records == [stage : Stages, verdict : Said]

\* What is recorded comes in its order, one of each.
ReportInv ==
    /\ plan \in Plans
    /\ out \in Seq(Records) /\ Len(out) <= 8
    /\ \A i \in DOMAIN out : out[i].stage = Order[i]
    /\ Progress

\* The places of the two orders.
LEMMA OrderIs ==
  /\ Len(plan) >= 2 =>
       /\ Order[1] = "agents" /\ Order[2] = "clock_graph" /\ Order[3] = "extrapolation"
       /\ Order[4] = "path_consistency" /\ Order[5] = "fire" /\ Order[6] = "coincidence"
       /\ Order[7] = "divergence" /\ Order[8] = "stability"
  /\ ~(Len(plan) >= 2) =>
       /\ Order[1] = "agents" /\ Order[2] = "clock_graph" /\ Order[3] = "extrapolation"
       /\ Order[4] = "path_consistency" /\ Order[5] = "coincidence" /\ Order[6] = "divergence"
       /\ Order[7] = "stability" /\ Order[8] = "fire"
<1>1. CASE Len(plan) >= 2 BY <1>1 DEF Order, OrderOfSeveral
<1>2. CASE ~(Len(plan) >= 2) BY <1>2 DEF Order, OrderOfOne
<1> QED BY <1>1, <1>2

\* What is recorded goes behind what is.
LEMMA RecordsAppend ==
  ASSUME NEW o \in Seq(Records), NEW rs \in Seq(Records)
  PROVE  /\ o \o rs \in Seq(Records) /\ Len(o \o rs) = Len(o) + Len(rs)
         /\ \A i \in DOMAIN o : i \in DOMAIN (o \o rs) /\ (o \o rs)[i] = o[i]
         /\ \A j \in DOMAIN rs : Len(o) + j \in DOMAIN (o \o rs) /\ (o \o rs)[Len(o) + j] = rs[j]
         /\ \A i \in DOMAIN (o \o rs) :
               i \in DOMAIN o \/ \E j \in DOMAIN rs : i = Len(o) + j
<1>1. o \o rs \in Seq(Records) /\ Len(o \o rs) = Len(o) + Len(rs)
      /\ Len(o) \in Nat /\ Len(rs) \in Nat
      /\ DOMAIN o = 1 .. Len(o) /\ DOMAIN rs = 1 .. Len(rs)
      /\ DOMAIN (o \o rs) = 1 .. Len(o) + Len(rs)
  OBVIOUS
<1>2. \A i \in DOMAIN o : i \in DOMAIN (o \o rs) /\ (o \o rs)[i] = o[i] BY <1>1
<1>3. \A j \in DOMAIN rs : Len(o) + j \in DOMAIN (o \o rs) /\ (o \o rs)[Len(o) + j] = rs[j]
  BY <1>1
<1>4. ASSUME NEW i \in DOMAIN (o \o rs), i \notin DOMAIN o
      PROVE \E j \in DOMAIN rs : i = Len(o) + j
  <2>1. i - Len(o) \in DOMAIN rs /\ i = Len(o) + (i - Len(o)) BY <1>1, <1>4
  <2> QED BY <2>1
<1> QED BY <1>1, <1>2, <1>3, <1>4

\* What may be recorded behind n others.
Recordable(rs, n) ==
    /\ rs \in Seq(Records) /\ n + Len(rs) <= 8
    /\ \A j \in DOMAIN rs : rs[j].stage = Order[n + j]

\* Recording what comes next keeps the report in order.
LEMMA RecordKeeps ==
  ASSUME ReportInv, NEW rs, Recordable(rs, Len(out)), Recorded(rs), plan' = plan
  PROVE  /\ plan' \in Plans /\ out' \in Seq(Records) /\ Len(out') <= 8
         /\ \A i \in DOMAIN out' : out'[i].stage = Order'[i]
         /\ Len(out') = Len(out) + Len(rs)
         /\ \A i \in DOMAIN out : i \in DOMAIN out' /\ out'[i] = out[i]
         /\ \A j \in DOMAIN rs : Len(out) + j \in DOMAIN out' /\ out'[Len(out) + j] = rs[j]
<1>1. out' = out \o rs BY DEF Recorded
<1>2. out \in Seq(Records) /\ rs \in Seq(Records) /\ plan \in Plans BY DEF ReportInv, Recordable
<1>3. Order' = Order BY DEF Order, OrderOfOne, OrderOfSeveral
<1>4. /\ out' \in Seq(Records) /\ Len(out') = Len(out) + Len(rs)
      /\ \A i \in DOMAIN out : i \in DOMAIN out' /\ out'[i] = out[i]
      /\ \A j \in DOMAIN rs : Len(out) + j \in DOMAIN out' /\ out'[Len(out) + j] = rs[j]
      /\ \A i \in DOMAIN out' : i \in DOMAIN out \/ \E j \in DOMAIN rs : i = Len(out) + j
  BY <1>1, <1>2, RecordsAppend
<1>5. ASSUME NEW i \in DOMAIN out' PROVE out'[i].stage = Order[i]
  <2>1. CASE i \in DOMAIN out BY <2>1, <1>4 DEF ReportInv
  <2>2. CASE \E j \in DOMAIN rs : i = Len(out) + j BY <2>2, <1>4 DEF Recordable
  <2> QED BY <2>1, <2>2, <1>4
<1>6. Len(out') <= 8 BY <1>4 DEF Recordable
<1> QED BY <1>2, <1>3, <1>4, <1>5, <1>6

\* One verdict, and the several of a stage that records more.
LEMMA OneRecordable ==
  ASSUME NEW n \in 0 .. 7, NEW stage \in Stages, stage = Order[n + 1], NEW v \in Said
  PROVE  Recordable(<<Verdict(stage, v)>>, n)
<1>1. Verdict(stage, v) \in Records /\ Verdict(stage, v).stage = stage BY DEF Verdict, Records
<1> DEFINE r == Verdict(stage, v)
<1> HIDE DEF r
<1>2. <<r>> \in Seq(Records) /\ Len(<<r>>) = 1 /\ DOMAIN <<r>> = {1} /\ <<r>>[1] = r
  BY <1>1 DEF r
<1> QED BY <1>1, <1>2 DEF Recordable, r

\* ... four of them.
LEMMA FourRecordable ==
  ASSUME NEW n \in 0 .. 4, NEW a \in Records, NEW b \in Records, NEW c \in Records, NEW d \in Records,
         a.stage = Order[n + 1], b.stage = Order[n + 2], c.stage = Order[n + 3], d.stage = Order[n + 4]
  PROVE  Recordable(<<a, b, c, d>>, n)
<1> DEFINE s == <<a, b, c, d>>
<1>1. s \in Seq(Records) /\ Len(s) = 4 /\ DOMAIN s = 1 .. 4
      /\ s[1] = a /\ s[2] = b /\ s[3] = c /\ s[4] = d
  OBVIOUS
<1> HIDE DEF s
<1>2. \A j \in 1 .. 4 : j = 1 \/ j = 2 \/ j = 3 \/ j = 4 OBVIOUS
<1>3. \A j \in DOMAIN s : s[j].stage = Order[n + j] BY <1>1, <1>2
<1> QED BY <1>1, <1>3 DEF Recordable, s

\* How two lists of verdicts are joined.
LEMMA JoinIs ==
  ASSUME NEW v, NEW x, NEW y, NEW z
  PROVE  <<v>> \o <<x, y, z>> = <<v, x, y, z>> /\ <<v>> \o <<>> = <<v>>
<1>1. <<v>> \in Seq({v, x, y, z}) /\ <<x, y, z>> \in Seq({v, x, y, z}) /\ <<>> \in Seq({v, x, y, z})
  OBVIOUS
<1> DEFINE s == <<v>> \o <<x, y, z>>
           t == <<v, x, y, z>>
<1>2. s \in Seq({v, x, y, z}) /\ t \in Seq({v, x, y, z}) /\ Len(s) = 4 /\ Len(t) = 4
      /\ s[1] = v /\ s[2] = x /\ s[3] = y /\ s[4] = z
      /\ t[1] = v /\ t[2] = x /\ t[3] = y /\ t[4] = z
  BY <1>1
<1> HIDE DEF s, t
<1>3. \A i \in 1 .. 4 : i = 1 \/ i = 2 \/ i = 3 \/ i = 4 OBVIOUS
<1>4. DOMAIN s = 1 .. 4 /\ DOMAIN t = 1 .. 4 /\ \A i \in 1 .. 4 : s[i] = t[i]
  BY <1>2, <1>3
<1>5. s = t
  <2>1. s = [i \in 1 .. 4 |-> s[i]] /\ t = [i \in 1 .. 4 |-> t[i]] BY <1>2, <1>4
  <2> QED BY <2>1, <1>4
<1>6. <<v>> \o <<>> = <<v>> BY <1>1
<1> QED BY <1>5, <1>6 DEF s, t

\* The names of checks and verdicts.
LEMMA Named ==
  /\ "agents" \in Stages /\ "clock_graph" \in Stages /\ "extrapolation" \in Stages
  /\ "path_consistency" \in Stages /\ "fire" \in Stages /\ "coincidence" \in Stages
  /\ "divergence" \in Stages /\ "stability" \in Stages
  /\ "PASS" \in Said /\ "FAIL" \in Said /\ "SKIP" \in Said /\ "NA" \in Said
BY DEF Stages, Said

\* The fields of a verdict.
LEMMA VerdictIs ==
  \A stage \in Stages, v \in Said : Verdict(stage, v) \in Records /\ Verdict(stage, v).stage = stage
                           /\ Verdict(stage, v).verdict = v
BY DEF Verdict, Records

\* A plan is not empty, so one transmitter is all that is less than two.
LEMMA PlanLength == plan \in Plans => (Len(plan) = 1 <=> ~(Len(plan) >= 2))
<1> SUFFICES ASSUME plan \in Plans PROVE Len(plan) = 1 <=> ~(Len(plan) >= 2)
  OBVIOUS
<1>1. plan \in Seq(Clocks) /\ plan # <<>> BY DoctorAssumption
<1> DEFINE n == Len(plan)
<1>2. n \in Nat BY <1>1
<1>3. n # 0 BY <1>1
<1> HIDE DEF n
<1>4. n = 1 <=> ~(n >= 2) BY <1>2, <1>3
<1> QED BY <1>4 DEF n

\* The verdict on the agents is the first.
LEMMA AgentsReport == ReportInv /\ Agents => ReportInv'
<1> SUFFICES ASSUME ReportInv, Agents PROVE ReportInv' OBVIOUS
<1>1. plan' = plan /\ Len(out) = 0 BY DEF Agents, ReportInv, Progress
<1>2. PICK v \in Said : /\ Recorded(<<Verdict("agents", v)>>)
                          /\ ((v = "PASS" /\ at' = "clock_graph") \/ (v = "FAIL" /\ at' = "done"))
  BY Named DEF Agents
<1> DEFINE rs == <<Verdict("agents", v)>>
<1>r. Recorded(rs) BY <1>2
<1>3. Recordable(rs, Len(out)) BY <1>1, OrderIs, Named, OneRecordable
<1>4. Len(rs) = 1 /\ rs[1].verdict = v /\ 1 \in DOMAIN rs BY Named, VerdictIs
<1> HIDE DEF rs
<1>5. /\ plan' \in Plans /\ out' \in Seq(Records) /\ Len(out') <= 8
      /\ \A i \in DOMAIN out' : out'[i].stage = Order'[i]
      /\ Len(out') = 1 /\ 1 \in DOMAIN out' /\ out'[1] = rs[1]
  BY <1>1, <1>r, <1>3, <1>4, RecordKeeps
<1>6. Progress' BY <1>2, <1>4, <1>5 DEF Progress
<1> QED BY <1>5, <1>6 DEF ReportInv

\* The verdict on the clock graph is the second; doctor returns if it fails.
LEMMA ClockGraphReport == ReportInv /\ ClockGraphStage => ReportInv'
<1> SUFFICES ASSUME ReportInv, ClockGraphStage PROVE ReportInv' OBVIOUS
<1>1. plan' = plan /\ Len(out) = 1 BY DEF ClockGraphStage, ReportInv, Progress
<1>2. PICK v \in Said : /\ Recorded(<<Verdict("clock_graph", v)>>)
                          /\ (at' = "extrapolation" \/ (v = "FAIL" /\ at' = "done"))
  <2>1. "PASS" \in Said /\ "FAIL" \in Said BY Named
  <2>2. CASE ToSet(plan) \subseteq Reachable /\ Declared BY <2>1, <2>2 DEF ClockGraphStage
  <2>3. CASE ToSet(plan) \subseteq Reachable /\ ~Declared BY <2>1, <2>3 DEF ClockGraphStage
  <2>4. CASE ~(ToSet(plan) \subseteq Reachable) BY <2>1, <2>4 DEF ClockGraphStage
  <2> QED BY <2>2, <2>3, <2>4
<1> DEFINE rs == <<Verdict("clock_graph", v)>>
<1>r. Recorded(rs) BY <1>2
<1>3. Recordable(rs, Len(out)) BY <1>1, OrderIs, Named, OneRecordable
<1>4. Len(rs) = 1 /\ rs[1].verdict = v /\ 1 \in DOMAIN rs BY Named, VerdictIs
<1> HIDE DEF rs
<1>k. /\ plan' \in Plans /\ out' \in Seq(Records) /\ Len(out') <= 8
      /\ \A i \in DOMAIN out' : out'[i].stage = Order'[i]
      /\ Len(out') = Len(out) + Len(rs)
      /\ Len(out) + 1 \in DOMAIN out' /\ out'[Len(out) + 1] = rs[1]
  BY <1>1, <1>r, <1>3, <1>4, RecordKeeps
<1>l. Len(out) + 1 = 2 /\ Len(out) + Len(rs) = 2 BY <1>1, <1>4
<1>5. Len(out') = 2 /\ 2 \in DOMAIN out' /\ out'[2] = rs[1] BY <1>k, <1>l
<1>6. Progress' BY <1>2, <1>4, <1>5 DEF Progress
<1> QED BY <1>k, <1>6 DEF ReportInv

\* The third, on how far the maps reach.
LEMMA ExtrapolationReport == ReportInv /\ Extrapolation => ReportInv'
<1> SUFFICES ASSUME ReportInv, Extrapolation PROVE ReportInv' OBVIOUS
<1>1. plan' = plan /\ Len(out) = 2 /\ at' = "path_consistency"
  BY DEF Extrapolation, ReportInv, Progress
<1>2. PICK v \in Said : Recorded(<<Verdict("extrapolation", v)>>)
  <2>1. PICK v \in {"NA", "PASS", "FAIL"} : Recorded(<<Verdict("extrapolation", v)>>)
    BY DEF Extrapolation
  <2> QED BY <2>1, Named
<1> DEFINE rs == <<Verdict("extrapolation", v)>>
<1>r. Recorded(rs) BY <1>2
<1>3. Recordable(rs, Len(out)) BY <1>1, OrderIs, Named, OneRecordable
<1>4. Len(rs) = 1 OBVIOUS
<1> HIDE DEF rs
<1>k. /\ plan' \in Plans /\ out' \in Seq(Records) /\ Len(out') <= 8
      /\ \A i \in DOMAIN out' : out'[i].stage = Order'[i]
      /\ Len(out') = Len(out) + Len(rs)
  BY <1>1, <1>r, <1>3, RecordKeeps
<1>5. Len(out') = 3 BY <1>1, <1>4, <1>k
<1>6. Progress' BY <1>1, <1>5 DEF Progress
<1> QED BY <1>k, <1>6 DEF ReportInv

\* The fourth, on the routes; of one transmitter three more that say SKIP.
LEMMA PathReport ==
  ReportInv /\ PathStage =>
    /\ ReportInv'
    /\ ~(Len(plan) >= 2) => 5 \in DOMAIN out' /\ out'[5].verdict = "SKIP"
<1> SUFFICES ASSUME ReportInv, PathStage
             PROVE /\ ReportInv'
                   /\ ~(Len(plan) >= 2) => 5 \in DOMAIN out' /\ out'[5].verdict = "SKIP"
  OBVIOUS
<1>1. plan' = plan /\ Len(out) = 3 /\ at' = "round"
  BY DEF PathStage, ReportInv, Progress
<1>2. PathVerdict \in Said BY Named DEF PathVerdict
<1> DEFINE v == Verdict("path_consistency", PathVerdict)
<1>3. v \in Records /\ v.stage = "path_consistency" BY <1>2, Named, VerdictIs
<1>4. Recorded(<<v>> \o IF Len(plan) >= 2 THEN <<>> ELSE NotMeasured)
  BY DEF PathStage
<1> DEFINE c == Verdict("coincidence", "SKIP")
           d == Verdict("divergence", "SKIP")
           s == Verdict("stability", "SKIP")
<1>5. /\ c \in Records /\ c.stage = "coincidence" /\ c.verdict = "SKIP"
      /\ d \in Records /\ d.stage = "divergence" /\ s \in Records /\ s.stage = "stability"
  BY Named, VerdictIs
<1>6. NotMeasured = <<c, d, s>> BY DEF NotMeasured
<1>7. CASE Len(plan) >= 2
  <2>1. Recorded(<<v>>)
    <3> HIDE DEF v
    <3> QED BY <1>4, <1>7, JoinIs
  <2>2. Recordable(<<v>>, Len(out)) BY <1>1, <1>2, <1>7, OrderIs, Named, OneRecordable
  <2>3. Len(<<v>>) = 1 OBVIOUS
  <2> HIDE DEF v
  <2>k. /\ plan' \in Plans /\ out' \in Seq(Records) /\ Len(out') <= 8
        /\ \A i \in DOMAIN out' : out'[i].stage = Order'[i]
        /\ Len(out') = Len(out) + Len(<<v>>)
    BY <1>1, <2>1, <2>2, RecordKeeps
  <2>4. Len(out') = 4 BY <1>1, <2>3, <2>k
  <2>5. Progress' BY <1>1, <1>7, <2>4 DEF Progress
  <2> QED BY <2>k, <2>5, <1>7 DEF ReportInv
<1>8. CASE ~(Len(plan) >= 2)
  <2> HIDE DEF v, c, d, s
  <2>1. Recorded(<<v, c, d, s>>)
    BY <1>4, <1>6, <1>8, JoinIs
  <2>2. Recordable(<<v, c, d, s>>, Len(out))
    BY <1>1, <1>3, <1>5, <1>8, OrderIs, FourRecordable
  <2> DEFINE rs == <<v, c, d, s>>
  <2>3. Len(rs) = 4 /\ 2 \in DOMAIN rs /\ rs[2] = c OBVIOUS
  <2>r. Recorded(rs) /\ Recordable(rs, Len(out)) BY <2>1, <2>2
  <2> HIDE DEF rs
  <2>4. /\ plan' \in Plans /\ out' \in Seq(Records) /\ Len(out') <= 8
        /\ \A i \in DOMAIN out' : out'[i].stage = Order'[i]
        /\ Len(out') = Len(out) + Len(rs)
        /\ Len(out) + 2 \in DOMAIN out' /\ out'[Len(out) + 2] = rs[2]
    BY <1>1, <2>r, <2>3, RecordKeeps
  <2>l. Len(out) + 2 = 5 /\ Len(out) + Len(rs) = 7 BY <1>1, <2>3
  <2>m. Len(out') = 7 /\ 5 \in DOMAIN out' /\ out'[5] = c BY <2>4, <2>l, <2>3
  <2>5. Progress' BY <1>1, <1>8, <2>m DEF Progress
  <2> QED BY <2>4, <2>m, <2>5, <1>5, <1>8 DEF ReportInv
<1> QED BY <1>7, <1>8

\* A round that could not be fired is a FAIL; the rest is recorded as SKIP.
LEMMA ImpossibleReport ==
  ReportInv /\ Impossible =>
    /\ ReportInv'
    /\ Len(plan) >= 2 => 5 \in DOMAIN out' /\ out'[5].verdict = "FAIL"
    /\ ~(Len(plan) >= 2) => \A i \in DOMAIN out : i \in DOMAIN out' /\ out'[i] = out[i]
<1> SUFFICES ASSUME ReportInv, Impossible
             PROVE /\ ReportInv'
                   /\ Len(plan) >= 2 => 5 \in DOMAIN out' /\ out'[5].verdict = "FAIL"
                   /\ ~(Len(plan) >= 2) => \A i \in DOMAIN out : i \in DOMAIN out' /\ out'[i] = out[i]
  OBVIOUS
<1>1. plan' = plan /\ at' = "done" /\ Len(out) = IF Len(plan) >= 2 THEN 4 ELSE 7
  BY DEF Impossible, ReportInv, Progress
<1> DEFINE v == Verdict("fire", "FAIL")
           c == Verdict("coincidence", "SKIP")
           d == Verdict("divergence", "SKIP")
           s == Verdict("stability", "SKIP")
<1>3. /\ v \in Records /\ v.stage = "fire" /\ v.verdict = "FAIL"
      /\ c \in Records /\ c.stage = "coincidence"
      /\ d \in Records /\ d.stage = "divergence" /\ s \in Records /\ s.stage = "stability"
  BY Named, VerdictIs
<1>4. Recorded(<<v>> \o IF Len(plan) >= 2 THEN NotMeasured ELSE <<>>)
  BY DEF Impossible
<1>6. NotMeasured = <<c, d, s>> BY DEF NotMeasured
<1>7. CASE Len(plan) >= 2
  <2> HIDE DEF v, c, d, s
  <2>1. Recorded(<<v, c, d, s>>)
    BY <1>4, <1>6, <1>7, JoinIs
  <2>2. Recordable(<<v, c, d, s>>, Len(out))
    BY <1>1, <1>3, <1>7, OrderIs, FourRecordable
  <2> DEFINE rs == <<v, c, d, s>>
  <2>3. Len(rs) = 4 /\ 1 \in DOMAIN rs /\ rs[1] = v OBVIOUS
  <2>r. Recorded(rs) /\ Recordable(rs, Len(out)) BY <2>1, <2>2
  <2> HIDE DEF rs
  <2>4. /\ plan' \in Plans /\ out' \in Seq(Records) /\ Len(out') <= 8
        /\ \A i \in DOMAIN out' : out'[i].stage = Order'[i]
        /\ Len(out') = Len(out) + Len(rs)
        /\ Len(out) + 1 \in DOMAIN out' /\ out'[Len(out) + 1] = rs[1]
    BY <1>1, <2>r, <2>3, RecordKeeps
  <2>l. Len(out) + 1 = 5 /\ Len(out) + Len(rs) = 8 BY <1>1, <1>7, <2>3
  <2>m. Len(out') = 8 /\ 5 \in DOMAIN out' /\ out'[5] = v BY <2>4, <2>l, <2>3
  <2>5. Progress' BY <1>1, <2>m DEF Progress
  <2> QED BY <2>4, <2>m, <2>5, <1>3, <1>7 DEF ReportInv
<1>8. CASE ~(Len(plan) >= 2)
  <2>1. Recorded(<<v>>)
    <3> HIDE DEF v
    <3> QED BY <1>4, <1>8, JoinIs
  <2>2. Recordable(<<v>>, Len(out)) BY <1>1, <1>8, OrderIs, Named, OneRecordable
  <2>3. Len(<<v>>) = 1 OBVIOUS
  <2> HIDE DEF v
  <2>4. /\ plan' \in Plans /\ out' \in Seq(Records) /\ Len(out') <= 8
        /\ \A i \in DOMAIN out' : out'[i].stage = Order'[i]
        /\ Len(out') = Len(out) + Len(<<v>>)
        /\ \A i \in DOMAIN out : i \in DOMAIN out' /\ out'[i] = out[i]
    BY <1>1, <2>1, <2>2, <2>3, RecordKeeps
  <2>m. Len(out') = 8 BY <1>1, <1>8, <2>3, <2>4
  <2>5. Progress' BY <1>1, <2>m DEF Progress
  <2> QED BY <2>4, <2>5, <1>8 DEF ReportInv
<1> QED BY <1>7, <1>8

\* The last verdicts, with the figures of the rounds.
LEMMA JudgeReport ==
  ReportInv /\ Judge =>
    /\ ReportInv'
    /\ Len(plan) >= 2 => /\ 6 \in DOMAIN out' /\ out'[6].verdict \in CoincidenceVerdicts
                         /\ 8 \in DOMAIN out' /\ out'[8].verdict = StabilityVerdict
    /\ ~(Len(plan) >= 2) => \A i \in DOMAIN out : i \in DOMAIN out' /\ out'[i] = out[i]
<1> SUFFICES ASSUME ReportInv, Judge
             PROVE /\ ReportInv'
                   /\ Len(plan) >= 2 => /\ 6 \in DOMAIN out' /\ out'[6].verdict \in CoincidenceVerdicts
                                        /\ 8 \in DOMAIN out' /\ out'[8].verdict = StabilityVerdict
                   /\ ~(Len(plan) >= 2) => \A i \in DOMAIN out : i \in DOMAIN out' /\ out'[i] = out[i]
  OBVIOUS
<1>1. plan' = plan /\ at' = "done" /\ Len(out) = IF Len(plan) >= 2 THEN 4 ELSE 7
  BY DEF Judge, ReportInv, Progress
<1>0. Len(plan) = 1 <=> ~(Len(plan) >= 2) BY PlanLength DEF ReportInv
<1>2. PICK gate \in Said :
         IF Len(plan) = 1 THEN Recorded(<<Verdict("fire", gate)>>)
         ELSE \E c \in CoincidenceVerdicts, d \in DivergenceVerdicts :
                 Recorded(<<Verdict("fire", gate), Verdict("coincidence", c),
                            Verdict("divergence", d), Verdict("stability", StabilityVerdict)>>)
  <2>1. PICK gate \in {"PASS", "FAIL"} :
         IF Len(plan) = 1 THEN Recorded(<<Verdict("fire", gate)>>)
         ELSE \E c \in CoincidenceVerdicts, d \in DivergenceVerdicts :
                 Recorded(<<Verdict("fire", gate), Verdict("coincidence", c),
                            Verdict("divergence", d), Verdict("stability", StabilityVerdict)>>)
    BY DEF Judge
  <2>2. gate \in Said BY Named
  <2> QED BY <2>1, <2>2
<1> DEFINE v == Verdict("fire", gate)
<1>3. v \in Records /\ v.stage = "fire" BY Named, VerdictIs
<1>7. CASE Len(plan) >= 2
  <2>0. ~(Len(plan) = 1) BY <1>7, <1>0
  <2>1. PICK cv \in CoincidenceVerdicts, dv \in DivergenceVerdicts :
           Recorded(<<v, Verdict("coincidence", cv), Verdict("divergence", dv),
                      Verdict("stability", StabilityVerdict)>>)
    BY <1>2, <2>0
  <2> DEFINE c == Verdict("coincidence", cv)
             d == Verdict("divergence", dv)
             s == Verdict("stability", StabilityVerdict)
  <2>2. cv \in Said /\ dv \in Said /\ StabilityVerdict \in Said
    BY Named DEF CoincidenceVerdicts, DivergenceVerdicts, StabilityVerdict
  <2>3. /\ c \in Records /\ c.stage = "coincidence" /\ c.verdict = cv
        /\ d \in Records /\ d.stage = "divergence"
        /\ s \in Records /\ s.stage = "stability" /\ s.verdict = StabilityVerdict
    BY <2>2, Named, VerdictIs
  <2>4. Recorded(<<v, c, d, s>>) BY <2>1
  <2> HIDE DEF v, c, d, s
  <2>5. Recordable(<<v, c, d, s>>, Len(out))
    BY <1>1, <1>3, <2>3, <1>7, OrderIs, FourRecordable
  <2> DEFINE rs == <<v, c, d, s>>
  <2>6. Len(rs) = 4 /\ 2 \in DOMAIN rs /\ rs[2] = c /\ 4 \in DOMAIN rs /\ rs[4] = s OBVIOUS
  <2>r. Recorded(rs) /\ Recordable(rs, Len(out)) BY <2>4, <2>5
  <2> HIDE DEF rs
  <2>7. /\ plan' \in Plans /\ out' \in Seq(Records) /\ Len(out') <= 8
        /\ \A i \in DOMAIN out' : out'[i].stage = Order'[i]
        /\ Len(out') = Len(out) + Len(rs)
        /\ Len(out) + 2 \in DOMAIN out' /\ out'[Len(out) + 2] = rs[2]
        /\ Len(out) + 4 \in DOMAIN out' /\ out'[Len(out) + 4] = rs[4]
    BY <1>1, <2>r, <2>6, RecordKeeps
  <2>l. Len(out) + 2 = 6 /\ Len(out) + 4 = 8 /\ Len(out) + Len(rs) = 8 BY <1>1, <1>7, <2>6
  <2>m. /\ Len(out') = 8 /\ 6 \in DOMAIN out' /\ out'[6] = c /\ 8 \in DOMAIN out' /\ out'[8] = s
    BY <2>7, <2>l, <2>6
  <2>8. Progress' BY <1>1, <2>m DEF Progress
  <2> QED BY <2>7, <2>m, <2>8, <2>3, <1>7 DEF ReportInv
<1>8. CASE ~(Len(plan) >= 2)
  <2>0. Len(plan) = 1 BY <1>8, <1>0
  <2>1. Recorded(<<v>>) BY <1>2, <2>0
  <2>2. Recordable(<<v>>, Len(out)) BY <2>0, <1>1, <1>8, OrderIs, Named, OneRecordable
  <2>3. Len(<<v>>) = 1 OBVIOUS
  <2> HIDE DEF v
  <2>4. /\ plan' \in Plans /\ out' \in Seq(Records) /\ Len(out') <= 8
        /\ \A i \in DOMAIN out' : out'[i].stage = Order'[i]
        /\ Len(out') = Len(out) + Len(<<v>>)
        /\ \A i \in DOMAIN out : i \in DOMAIN out' /\ out'[i] = out[i]
    BY <1>1, <2>1, <2>2, <2>3, RecordKeeps
  <2>m. Len(out') = 8 BY <1>1, <1>8, <2>3, <2>4
  <2>5. Progress' BY <1>1, <2>m DEF Progress
  <2> QED BY <2>4, <2>5, <1>8 DEF ReportInv
<1> QED BY <1>7, <1>8

---------------------------------------------------------------------------
(* The whole check, with what arrives during it.                           *)

\* A timing round's displacements, of those received.
Displacements == UNION {[received -> Int] : received \in SUBSET Clocks}

\* Nobody to compare with, so no figure: one transmitter's report says so.
NotCompared == 5 \in DOMAIN out /\ out[5].verdict = "SKIP"

\* The verdicts are those of both rounds.
Compared ==
    /\ Len(plan) >= 2 /\ Len(rounds) = 2
    /\ 6 \in DOMAIN out /\ out[6].verdict \in CoincidenceVerdicts
    /\ 8 \in DOMAIN out /\ out[8].verdict = StabilityVerdict

\* A check of the report failed.
Failed == \E i \in DOMAIN out : out[i].verdict = "FAIL"

\* What a stage finds of the rounds, and what the report rests on at the end.
RoundsInv ==
    /\ at \in {"before", "clock_graph", "extrapolation", "path_consistency"} => Len(rounds) = 0
    /\ at = "round" => Len(rounds) < Enough
    /\ at = "judge" => Len(rounds) = Enough
    /\ at \in {"round", "judge"} /\ ~(Len(plan) >= 2) => NotCompared
    /\ at = "done" => Failed \/ NotCompared \/ Compared

\* The inductive invariant.
DoctorInv == GraphTypes /\ ReportInv /\ rounds \in Seq(Displacements) /\ RoundsInv

\* Of the steps only Observe touches the graph.
LEMMA StepKeepsGraph == [NextDoctor]_allVars => [GraphStep]_graphVars
<1> SUFFICES ASSUME [NextDoctor]_allVars PROVE [GraphStep]_graphVars OBVIOUS
<1>1. CASE UNCHANGED allVars BY <1>1 DEF allVars
<1>2. CASE Observe BY <1>2 DEF Observe
<1>3. CASE ~ Observe /\ ~ UNCHANGED allVars
  <2>1. UNCHANGED graphVars
    BY <1>3 DEF NextDoctor, Agents, ClockGraphStage, Extrapolation, PathStage, Command, Impossible, Judge, Raise
  <2> QED BY <2>1
<1> QED BY <1>1, <1>2, <1>3

\* What arrives meanwhile leaves the report alone.
LEMMA ObserveReport == ReportInv /\ UNCHANGED checkVars => ReportInv'
<1> SUFFICES ASSUME ReportInv, UNCHANGED checkVars PROVE ReportInv' OBVIOUS
<1>1. plan' = plan /\ at' = at /\ out' = out BY DEF checkVars
<1>2. Order' = Order BY <1>1 DEF Order, OrderOfOne, OrderOfSeveral
<1> QED BY <1>1, <1>2 DEF ReportInv, Progress

\* A round records nothing yet.
LEMMA CommandReport == ReportInv /\ Command => ReportInv'
<1> SUFFICES ASSUME ReportInv, Command PROVE ReportInv' OBVIOUS
<1>1. plan' = plan /\ out' = out /\ at = "round" /\ at' \in {"round", "judge"} BY DEF Command
<1>2. Order' = Order BY <1>1 DEF Order, OrderOfOne, OrderOfSeveral
<1> QED BY <1>1, <1>2 DEF ReportInv, Progress

\* Nor does what ends it without a report.
LEMMA RaiseReport == ReportInv /\ Raise => ReportInv'
<1> SUFFICES ASSUME ReportInv, Raise PROVE ReportInv' OBVIOUS
<1>1. plan' = plan /\ out' = out /\ at' = "raised" BY DEF Raise
<1>2. Order' = Order BY <1>1 DEF Order, OrderOfOne, OrderOfSeveral
<1> QED BY <1>1, <1>2 DEF ReportInv, Progress

\* Every step records the next verdicts of the report, and nothing else.
LEMMA StepReport == ReportInv /\ [NextDoctor]_allVars => ReportInv'
<1> SUFFICES ASSUME ReportInv, [NextDoctor]_allVars PROVE ReportInv' OBVIOUS
<1>1. CASE UNCHANGED allVars BY <1>1, ObserveReport DEF allVars, checkVars
<1>2. CASE Observe BY <1>2, ObserveReport DEF Observe
<1>3. CASE Agents BY <1>3, AgentsReport
<1>4. CASE ClockGraphStage BY <1>4, ClockGraphReport
<1>5. CASE Extrapolation BY <1>5, ExtrapolationReport
<1>6. CASE PathStage BY <1>6, PathReport
<1>7. CASE Command BY <1>7, CommandReport
<1>8. CASE Impossible BY <1>8, ImpossibleReport
<1>9. CASE Judge BY <1>9, JudgeReport
<1>10. CASE Raise BY <1>10, RaiseReport
<1> QED BY <1>1, <1>2, <1>3, <1>4, <1>5, <1>6, <1>7, <1>8, <1>9, <1>10 DEF NextDoctor

\* Two verdicts of one stage would be at two places of the order.
LEMMA ReportIsComplete == ReportInv => ReportComplete
<1> SUFFICES ASSUME ReportInv, at = "done"
             PROVE /\ \A i, j \in DOMAIN out : out[i].stage = out[j].stage => i = j
                   /\ Overall # "FAIL" => {out[i].stage : i \in DOMAIN out} = Stages
  BY DEF ReportComplete
<1>1. /\ DOMAIN out = 1 .. Len(out) /\ Len(out) \in Nat /\ Len(out) <= 8
      /\ \A i \in DOMAIN out : out[i].stage = Order[i]
  BY DEF ReportInv
<1>2. \A i, j \in 1 .. 8 : Order[i] = Order[j] => i = j
  <2>1. \A i \in 1 .. 8 : i = 1 \/ i = 2 \/ i = 3 \/ i = 4 \/ i = 5 \/ i = 6 \/ i = 7 \/ i = 8
    OBVIOUS
  <2>2. CASE Len(plan) >= 2 BY <2>1, <2>2, OrderIs
  <2>3. CASE ~(Len(plan) >= 2) BY <2>1, <2>3, OrderIs
  <2> QED BY <2>2, <2>3
<1>3. DOMAIN out \subseteq 1 .. 8 BY <1>1
<1>4. \A i, j \in DOMAIN out : out[i].stage = out[j].stage => i = j BY <1>1, <1>2, <1>3
<1>5. ASSUME Overall # "FAIL" PROVE {out[i].stage : i \in DOMAIN out} = Stages
  <2>1. "FAIL" \notin Verdicts BY <1>5 DEF Overall
  <2>2. Len(out) = 8 BY <2>1 DEF ReportInv, Progress, Verdicts
  <2>3. 1 .. 8 = DOMAIN out BY <2>2, <1>1
  <2>4. {out[i].stage : i \in DOMAIN out} = {Order[i] : i \in 1 .. 8} BY <2>3, <1>1
  <2>5. {Order[i] : i \in 1 .. 8} \subseteq Stages
    <3>1. \A i \in 1 .. 8 : i = 1 \/ i = 2 \/ i = 3 \/ i = 4 \/ i = 5 \/ i = 6 \/ i = 7 \/ i = 8
      OBVIOUS
    <3>2. CASE Len(plan) >= 2 BY <3>1, <3>2, OrderIs, Named
    <3>3. CASE ~(Len(plan) >= 2) BY <3>1, <3>3, OrderIs, Named
    <3> QED BY <3>2, <3>3
  <2>6. Stages \subseteq {Order[i] : i \in 1 .. 8}
    <3>1. 1 \in 1 .. 8 /\ 2 \in 1 .. 8 /\ 3 \in 1 .. 8 /\ 4 \in 1 .. 8
          /\ 5 \in 1 .. 8 /\ 6 \in 1 .. 8 /\ 7 \in 1 .. 8 /\ 8 \in 1 .. 8
      OBVIOUS
    <3>2. CASE Len(plan) >= 2 BY <3>1, <3>2, OrderIs DEF Stages
    <3>3. CASE ~(Len(plan) >= 2) BY <3>1, <3>3, OrderIs DEF Stages
    <3> QED BY <3>2, <3>3
  <2> QED BY <2>4, <2>5, <2>6
<1> QED BY <1>4, <1>5

\* A map is an instant: an integer for every clock that is reached.
LEMMA MapsAreInstants ==
  GraphTypes => DOMAIN Solve(Edges) \subseteq Clocks /\ Solve(Edges) \in [DOMAIN Solve(Edges) -> Int]
<1> SUFFICES ASSUME GraphTypes
             PROVE DOMAIN Solve(Edges) \subseteq Clocks /\ Solve(Edges) \in [DOMAIN Solve(Edges) -> Int]
  OBVIOUS
<1>1. Typed(Edges) BY EdgesAre
<1> DEFINE maps == Solve(Edges)
<1>2. PICK L, up, via : Tree(Edges, maps, L, up, via) BY <1>1, SolveFindsTree
<1> HIDE DEF maps
<1>3. DOMAIN maps \subseteq Clocks /\ maps \in [DOMAIN maps -> Int] BY <1>2 DEF Tree
<1> QED BY <1>3 DEF maps

\* The part of the invariant that speaks of no round is kept while the
\* stages before the rounds go on.
LEMMA EarlyRounds ==
  ASSUME rounds \in Seq(Displacements), Len(rounds) = 0, UNCHANGED <<plan, rounds>>,
         at' \in {"clock_graph", "extrapolation", "path_consistency", "round", "done"},
         at' = "round" /\ ~(Len(plan) >= 2) => NotCompared',
         at' = "done" => Failed'
  PROVE  rounds' \in Seq(Displacements) /\ RoundsInv'
<1>1. Enough' \in {1, 2} BY DEF Enough
<1>2. Len(rounds') = 0 BY SMT
<1>3. rounds' \in Seq(Displacements) OBVIOUS
<1>4. RoundsInv' BY <1>1, <1>2 DEF RoundsInv
<1> QED BY <1>3, <1>4

\* A round commanded is one more, with whole displacements.
LEMMA CommandRounds ==
  ASSUME DoctorInv, Command
  PROVE  rounds' \in Seq(Displacements) /\ RoundsInv'
<1>1. /\ at = "round" /\ ToSet(plan) \subseteq Reachable
      /\ plan' = plan /\ out' = out
      /\ at' = IF Len(rounds') = Enough THEN "judge" ELSE "round"
  BY DEF Command, CanCommand
<1>2. PICK received \in SUBSET ToSet(plan) :
         rounds' = Append(rounds, [ap \in received |-> Solve(Edges)[ap]])
  BY DEF Command
<1>3. GraphTypes /\ rounds \in Seq(Displacements) /\ Len(rounds) < Enough
      /\ (~(Len(plan) >= 2) => NotCompared)
  BY <1>1 DEF DoctorInv, RoundsInv
<1> DEFINE maps == Solve(Edges)
           new == [ap \in received |-> maps[ap]]
<1>4. received \subseteq DOMAIN maps /\ DOMAIN maps \subseteq Clocks /\ maps \in [DOMAIN maps -> Int]
  BY <1>1, <1>3, MapsAreInstants DEF Reachable
<1> HIDE DEF maps
<1>5. new \in [received -> Int] BY <1>4
<1>6. new \in Displacements BY <1>4, <1>5 DEF Displacements
<1>7. rounds' = Append(rounds, new) BY <1>2 DEF maps
<1> HIDE DEF new
<1>8. rounds' \in Seq(Displacements) /\ Len(rounds') = Len(rounds) + 1 /\ Len(rounds) \in Nat
  BY <1>3, <1>6, <1>7
<1>9. Enough' = Enough /\ Enough \in {1, 2} BY <1>1 DEF Enough
<1>10. at' = "round" => Len(rounds') < Enough' BY <1>1, <1>3, <1>8, <1>9
<1>11. at' = "judge" => Len(rounds') = Enough' BY <1>1, <1>9
<1>12. NotCompared' = NotCompared BY <1>1 DEF NotCompared
<1>13. at' \in {"round", "judge"} BY <1>1
<1> QED BY <1>1, <1>3, <1>8, <1>10, <1>11, <1>12, <1>13 DEF RoundsInv

\* Every step keeps what the verdicts rest on.
LEMMA StepRounds ==
  DoctorInv /\ [NextDoctor]_allVars => rounds' \in Seq(Displacements) /\ RoundsInv'
<1> SUFFICES ASSUME DoctorInv, [NextDoctor]_allVars
             PROVE  rounds' \in Seq(Displacements) /\ RoundsInv'
  OBVIOUS
<1>0. ReportInv /\ RoundsInv /\ rounds \in Seq(Displacements) BY DEF DoctorInv
<1>r. ReportInv' BY <1>0, StepReport
<1>1. CASE UNCHANGED checkVars
  <2>1. plan' = plan /\ at' = at /\ rounds' = rounds /\ out' = out BY <1>1 DEF checkVars
  <2> USE DEF Enough, NotCompared, Failed, Compared, CoincidenceVerdicts, StabilityVerdict,
              Pairs, Others, Paired, Bias
  <2> QED BY <1>0, <2>1 DEF RoundsInv
<1>2. CASE Agents
  <2>1. /\ Len(rounds) = 0 /\ UNCHANGED <<plan, rounds>> /\ at' \in {"clock_graph", "done"}
    BY <1>0, <1>2 DEF Agents, RoundsInv
  <2>2. at' = "done" => Failed'
    <3> SUFFICES ASSUME at' = "done" PROVE Failed' OBVIOUS
    <3>1. Len(out) = 0 /\ out \in Seq(Records) BY <1>0, <1>2 DEF ReportInv, Progress, Agents
    <3>2. out' = out \o <<Verdict("agents", "FAIL")>> BY <1>2 DEF Agents, Recorded
    <3> DEFINE v == Verdict("agents", "FAIL")
    <3>3. v.verdict = "FAIL" /\ v \in Records BY Named, VerdictIs
    <3> HIDE DEF v
    <3>4. 1 \in DOMAIN out' /\ out'[1] = v BY <3>1, <3>2, <3>3 DEF v
    <3> QED BY <3>3, <3>4 DEF Failed
  <2> QED BY <1>0, <2>1, <2>2, EarlyRounds
<1>3. CASE ClockGraphStage
  <2>1. /\ Len(rounds) = 0 /\ UNCHANGED <<plan, rounds>> /\ at' \in {"extrapolation", "done"}
    BY <1>0, <1>3 DEF ClockGraphStage, RoundsInv
  <2>2. at' = "done" => Failed'
    <3> SUFFICES ASSUME at' = "done" PROVE Failed' OBVIOUS
    <3>1. Len(out) = 1 /\ out \in Seq(Records)
      BY <1>0, <1>3 DEF ReportInv, Progress, ClockGraphStage
    <3>2. out' = out \o <<Verdict("clock_graph", "FAIL")>> BY <1>3 DEF ClockGraphStage, Recorded
    <3> DEFINE v == Verdict("clock_graph", "FAIL")
    <3>3. v.verdict = "FAIL" /\ v \in Records BY Named, VerdictIs
    <3> HIDE DEF v
    <3>4. out' = out \o <<v>> BY <3>2 DEF v
    <3>a. v \in Records /\ out \in Seq(Records) BY <3>1, <3>3 DEF v
    <3>b. <<v>> \in Seq(Records) /\ 1 \in DOMAIN <<v>> /\ <<v>>[1] = v BY <3>a
    <3>5. Len(out) + 1 \in DOMAIN out' /\ out'[Len(out) + 1] = v
      BY <3>a, <3>b, <3>4, RecordsAppend
    <3>6. Len(out) + 1 = 2 BY <3>1
    <3>7. 2 \in DOMAIN out' /\ out'[2] = v BY <3>5, <3>6
    <3> QED BY <3>3, <3>7 DEF Failed
  <2> QED BY <1>0, <2>1, <2>2, EarlyRounds
<1>4. CASE Extrapolation
  <2>1. /\ Len(rounds) = 0 /\ UNCHANGED <<plan, rounds>> /\ at' = "path_consistency"
    BY <1>0, <1>4 DEF Extrapolation, RoundsInv
  <2> QED BY <1>0, <2>1, EarlyRounds
<1>5. CASE PathStage
  <2>1. /\ Len(rounds) = 0 /\ UNCHANGED <<plan, rounds>> /\ at' = "round"
    BY <1>0, <1>5 DEF PathStage, RoundsInv
  <2>2. ~(Len(plan) >= 2) => NotCompared' BY <1>0, <1>5, PathReport DEF NotCompared
  <2> QED BY <1>0, <2>1, <2>2, EarlyRounds
<1>6. CASE Command BY <1>6, CommandRounds
<1>7. CASE Impossible
  <2>1. UNCHANGED <<plan, rounds>> /\ at = "round" /\ at' = "done" BY <1>7 DEF Impossible
  <2>2. Failed' \/ NotCompared'
    <3>1. CASE Len(plan) >= 2 BY <3>1, <1>0, <1>7, ImpossibleReport DEF Failed
    <3>2. CASE ~(Len(plan) >= 2)
      <4>1. NotCompared BY <3>2, <2>1, <1>0 DEF RoundsInv
      <4> QED BY <4>1, <3>2, <1>0, <1>7, ImpossibleReport DEF NotCompared
    <3> QED BY <3>1, <3>2
  <2> QED BY <1>0, <2>1, <2>2 DEF RoundsInv
<1>8. CASE Judge
  <2>1. UNCHANGED <<plan, rounds>> /\ at = "judge" /\ at' = "done" BY <1>8 DEF Judge
  <2>2. NotCompared' \/ Compared'
    <3>1. CASE Len(plan) >= 2
      <4>1. Len(rounds) = 2 BY <3>1, <2>1, <1>0 DEF RoundsInv, Enough
      <4>2. /\ 6 \in DOMAIN out' /\ out'[6].verdict \in CoincidenceVerdicts
            /\ 8 \in DOMAIN out' /\ out'[8].verdict = StabilityVerdict
        BY <3>1, <1>0, <1>8, JudgeReport
      <4>3. CoincidenceVerdicts' = CoincidenceVerdicts /\ StabilityVerdict' = StabilityVerdict
        BY <2>1 DEF CoincidenceVerdicts, StabilityVerdict, Pairs, Others, Paired, Bias
      <4> QED BY <3>1, <2>1, <4>1, <4>2, <4>3 DEF Compared
    <3>2. CASE ~(Len(plan) >= 2)
      <4>1. NotCompared BY <3>2, <2>1, <1>0 DEF RoundsInv
      <4> QED BY <4>1, <3>2, <1>0, <1>8, JudgeReport DEF NotCompared
    <3> QED BY <3>1, <3>2
  <2> QED BY <1>0, <2>1, <2>2 DEF RoundsInv
<1>9. CASE Raise
  <2>1. UNCHANGED <<plan, rounds>> /\ at' = "raised" BY <1>9 DEF Raise
  <2> QED BY <1>0, <2>1 DEF RoundsInv
<1> QED BY <1>1, <1>2, <1>3, <1>4, <1>5, <1>6, <1>7, <1>8, <1>9
        DEF NextDoctor, Observe, allVars, checkVars

\* The check before it begins.
LEMMA InitDoctorInv == InitDoctor => DoctorInv
<1> SUFFICES ASSUME InitDoctor PROVE DoctorInv OBVIOUS
<1>1. GraphTypes BY InitGraphTypes DEF InitDoctor
<1>2. plan \in Plans /\ at = "before" /\ rounds = <<>> /\ out = <<>> BY DEF InitDoctor
<1>3. /\ out \in Seq(Records) /\ Len(out) = 0 /\ DOMAIN out = {}
      /\ rounds \in Seq(Displacements) /\ Len(rounds) = 0
  BY <1>2
<1>4. ReportInv BY <1>2, <1>3 DEF ReportInv, Progress
<1>5. RoundsInv BY <1>2, <1>3 DEF RoundsInv
<1> QED BY <1>1, <1>3, <1>4, <1>5 DEF DoctorInv

\* The invariant is inductive.
LEMMA StepDoctorInv == DoctorInv /\ [NextDoctor]_allVars => DoctorInv'
BY StepKeepsGraph, StepGraphTypes, StepReport, StepRounds DEF DoctorInv

\* The displacement of a transmitter in a round, from the reference.
Within(ap) ==
    \A i \in {1, 2} :
        /\ {Ref, ap} \subseteq DOMAIN rounds[i]
        /\ Magnitude(Bias(i, ap)) <= BiasLimit + (i - 1) * StabilityLimit

\* A change of at most so much adds at most so much.
LEMMA Triangle ==
  ASSUME NEW x \in Int, NEW y \in Int
  PROVE  Magnitude(x) \in Nat /\ Magnitude(y) <= Magnitude(x) + Magnitude(y - x)
BY DEF Magnitude

\* Of two transmitters, one is the reference and the other the rest.
LEMMA LastOf ==
  Len(plan) >= 2 /\ plan \in Plans =>
    /\ Ref \in ToSet(plan) /\ Others \subseteq ToSet(plan)
    /\ Len(plan) <= 2 => \A ap \in Others : ToSet(plan) = {Ref, ap}
<1> SUFFICES ASSUME Len(plan) >= 2, plan \in Plans
             PROVE  /\ Ref \in ToSet(plan) /\ Others \subseteq ToSet(plan)
                    /\ Len(plan) <= 2 => \A ap \in Others : ToSet(plan) = {Ref, ap}
  OBVIOUS
<1> DEFINE n == Len(plan)
<1>1. plan \in Seq(Clocks) /\ plan # <<>> /\ plan[1] = Ref BY DoctorAssumption
<1>2. n \in Nat /\ n >= 2 /\ DOMAIN plan = 1 .. n BY <1>1
<1> DEFINE rest == Tail(plan)
<1>3. /\ rest \in Seq(Clocks) /\ Len(rest) = n - 1
      /\ \A i \in 1 .. n - 1 : rest[i] = plan[i + 1]
  BY <1>1
<1>4. DOMAIN rest = 1 .. n - 1 BY <1>3
<1>5. Others = {rest[i] : i \in DOMAIN rest} BY DEF Others, ToSet
<1>6. ToSet(plan) = {plan[i] : i \in DOMAIN plan} BY DEF ToSet
<1> HIDE DEF rest, n
<1>7. 1 \in DOMAIN plan /\ Ref \in ToSet(plan) BY <1>1, <1>2, <1>6
<1>8. Others \subseteq ToSet(plan)
  <2> SUFFICES ASSUME NEW i \in 1 .. n - 1 PROVE rest[i] \in ToSet(plan)
    BY <1>4, <1>5
  <2>1. i + 1 \in DOMAIN plan BY <1>2
  <2> QED BY <2>1, <1>3, <1>6
<1>9. ASSUME n <= 2, NEW ap \in Others PROVE ToSet(plan) = {Ref, ap}
  <2>1. n = 2 BY <1>2, <1>9, SMT
  <2>2. DOMAIN rest = {1} /\ DOMAIN plan = {1, 2} BY <2>1, <1>2, <1>4
  <2>3. rest[1] = plan[2]
    <3>1. 1 \in 1 .. n - 1 /\ 1 + 1 = 2 BY <2>1
    <3> QED BY <3>1, <1>3
  <2>4. ap = plan[2] BY <2>2, <2>3, <1>5
  <2> QED BY <2>2, <2>4, <1>1, <1>6
<1> QED BY <1>7, <1>8, <1>9 DEF n

\* A PASS rests on one transmitter within the limits in both rounds.
LEMMA PassRestsOn ==
  DoctorInv /\ at = "done" /\ Overall = "PASS" =>
    Len(plan) >= 2 /\ \E ap \in Others : Within(Ref) /\ Within(ap)
<1> SUFFICES ASSUME DoctorInv, at = "done", Overall = "PASS"
             PROVE  Len(plan) >= 2 /\ \E ap \in Others : Within(Ref) /\ Within(ap)
  OBVIOUS
<1>1. RoundsInv /\ rounds \in Seq(Displacements) BY DEF DoctorInv
<1>2. \A i \in DOMAIN out : out[i].verdict # "FAIL" /\ out[i].verdict # "SKIP"
  BY DEF Overall, Verdicts
<1>3. Compared BY <1>1, <1>2 DEF RoundsInv, Failed, NotCompared
<1>4. CoincidenceVerdicts # {"FAIL"} BY <1>2, <1>3 DEF Compared
<1>5. \A ap \in Pairs : ~(Magnitude(Bias(1, ap)) > BiasLimit)
  BY <1>4 DEF CoincidenceVerdicts
<1> DEFINE both == {ap \in Pairs : Paired(2, ap)}
<1>6. StabilityVerdict \notin {"FAIL", "SKIP"} BY <1>2, <1>3 DEF Compared
<1>7. both # {} /\ \A ap \in both : ~(Magnitude(Bias(2, ap) - Bias(1, ap)) > StabilityLimit)
  BY <1>6 DEF StabilityVerdict
<1>8. PICK ap \in both : TRUE BY <1>7
<1>9. ap \in Others /\ ap \in Pairs /\ Paired(1, ap) /\ Paired(2, ap) BY <1>8 DEF Pairs
<1>10. {Ref, ap} \subseteq DOMAIN rounds[1] /\ {Ref, ap} \subseteq DOMAIN rounds[2]
  BY <1>9 DEF Paired
<1>11. \A i \in {1, 2} : \A x \in DOMAIN rounds[i] : rounds[i][x] \in Int
  <2>1. ASSUME NEW i \in {1, 2} PROVE rounds[i] \in Displacements
    <3>1. Len(rounds) = 2 BY <1>3 DEF Compared
    <3>2. DOMAIN rounds = {1, 2} BY <3>1, <1>1
    <3> QED BY <3>2, <1>1
  <2>2. \A d \in Displacements : \A x \in DOMAIN d : d[x] \in Int BY DEF Displacements
  <2> QED BY <2>1, <2>2
<1>12. /\ Bias(1, ap) \in Int /\ Bias(2, ap) \in Int
       /\ Bias(1, Ref) = 0 /\ Bias(2, Ref) = 0
  <2>1. \A i \in Int : i - i = 0 OBVIOUS
  <2>2. /\ rounds[1][ap] \in Int /\ rounds[1][Ref] \in Int
        /\ rounds[2][ap] \in Int /\ rounds[2][Ref] \in Int
    BY <1>10, <1>11
  <2> QED BY <2>1, <2>2 DEF Bias
<1>13. BiasLimit \in Nat /\ StabilityLimit \in Nat BY DoctorAssumption
<1>14. Magnitude(Bias(1, ap)) <= BiasLimit
  <2>1. Magnitude(Bias(1, ap)) \in Nat BY <1>12, Triangle
  <2>2. ~(Magnitude(Bias(1, ap)) > BiasLimit) BY <1>5, <1>9
  <2> QED BY <2>1, <2>2, <1>13
<1>15. Magnitude(Bias(2, ap)) <= BiasLimit + StabilityLimit
  <2> DEFINE x == Bias(1, ap)
             y == Bias(2, ap)
  <2>1. ~(Magnitude(y - x) > StabilityLimit) BY <1>7, <1>8
  <2>2. x \in Int /\ y \in Int /\ y - x \in Int BY <1>12
  <2>3. Magnitude(x) <= BiasLimit BY <1>14
  <2> HIDE DEF x, y
  <2>4. /\ Magnitude(x) \in Nat /\ Magnitude(y) \in Nat /\ Magnitude(y - x) \in Nat
        /\ Magnitude(y) <= Magnitude(x) + Magnitude(y - x)
    BY <2>2, Triangle
  <2>5. Magnitude(y) <= BiasLimit + StabilityLimit BY <2>1, <2>3, <2>4, <1>13
  <2> QED BY <2>5 DEF y
<1>16. Magnitude(0) = 0 BY DEF Magnitude
<1>17. BiasLimit + (1 - 1) * StabilityLimit = BiasLimit
       /\ BiasLimit + (2 - 1) * StabilityLimit = BiasLimit + StabilityLimit
       /\ 0 <= BiasLimit /\ 0 <= BiasLimit + StabilityLimit
  BY <1>13
<1>18. Within(ap) BY <1>10, <1>14, <1>15, <1>17 DEF Within
<1>19. Within(Ref) BY <1>10, <1>12, <1>16, <1>17 DEF Within
<1> QED BY <1>3, <1>9, <1>18, <1>19 DEF Compared

\* With one transmitter beside the reference, that one is all there are.
LEMMA PassOfTwo ==
  ASSUME DoctorInv, Len(plan) <= 2
  PROVE  PassMeansCoincided
<1> SUFFICES ASSUME at = "done", Overall = "PASS"
             PROVE  \A ap \in ToSet(plan) : Within(ap)
  BY DEF PassMeansCoincided, Within
<1>1. PICK ap \in Others : Within(Ref) /\ Within(ap) BY PassRestsOn
<1>2. Len(plan) >= 2 /\ plan \in Plans BY PassRestsOn DEF DoctorInv, ReportInv
<1>3. ToSet(plan) = {Ref, ap} BY <1>1, <1>2, LastOf
<1> QED BY <1>1, <1>3

\* The check is in a consistent state whatever is heard, settled or thrown
\* away between and during its stages (doctor's thread and the reader's).
THEOREM DoctorSound == SpecDoctor => []DoctorInv
BY InitDoctorInv, StepDoctorInv, PTL DEF SpecDoctor

\* While the check runs as before it, exactly the clocks connected to the
\* reference have a map (solve_offsets).
THEOREM ReachesAllHolds == SpecDoctor => []ReachesAll
<1>1. DoctorInv => ReachesAll BY TypesReachAll DEF DoctorInv
<1> QED BY <1>1, DoctorSound, PTL

\* One transmitter's wrong observation among right ones leaves no map wrong
\* and called corroborated without the whole of its error being reported
\* (path_disagreement): for every graph, of any number of clocks.
THEOREM WrongIsSeenHolds == SpecDoctor => []WrongIsSeen
<1>1. DoctorInv => WrongIsSeen BY TypesSeeWrong DEF DoctorInv
<1> QED BY <1>1, DoctorSound, PTL

\* Whichever of its returns the check takes, its report records nothing
\* twice and lacks something only if it is a FAIL (doctor, _guarded).
THEOREM ReportCompleteHolds == SpecDoctor => []ReportComplete
<1>1. DoctorInv => ReportComplete BY ReportIsComplete DEF DoctorInv
<1> QED BY <1>1, DoctorSound, PTL

\* What a PASS rests on, for sessions of any size: one transmitter beside
\* the reference was received within the limits in both rounds (the pairs of
\* doctor; the others may have been left out of the figures).
THEOREM PassRestsOnOne ==
  SpecDoctor =>
    [](at = "done" /\ Overall = "PASS" => \E ap \in Others : Within(Ref) /\ Within(ap))
<1>1. DoctorInv => (at = "done" /\ Overall = "PASS" => \E ap \in Others : Within(Ref) /\ Within(ap))
  BY PassRestsOn
<1> QED BY <1>1, DoctorSound, PTL

\* For sessions of up to two transmitters a PASS says every one of them
\* coincided, in both rounds (doctor, timing.stats); of more it does not.
THEOREM PassMeansCoincidedHolds ==
  ASSUME \A p \in Plans : Len(p) <= 2
  PROVE  SpecDoctor => []PassMeansCoincided
<1>1. DoctorInv => PassMeansCoincided
  <2>1. DoctorInv => Len(plan) <= 2 BY DEF DoctorInv, ReportInv
  <2> QED BY <2>1, PassOfTwo
<1> QED BY <1>1, DoctorSound, PTL

===============================================================================
