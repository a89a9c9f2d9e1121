------------------------------ MODULE ClockGraph ------------------------------
(***************************************************************************)
(* How the controller relates the transmitters' clocks (cosr/clockd.py     *)
(* over cosr/clockgraph.py): which relations its observations support, the *)
(* map of every clock those relations reach, and how far independent       *)
(* routes disagree about it.                                               *)
(*                                                                         *)
(* A relation says who observed whom: a transmitter hears the beacons of   *)
(* another (the relation of the two clocks), or a station hears those of a *)
(* transmitter (two of these relate two clocks, the station's own cancels).*)
(* A fit is represented by its error against the true relation at the      *)
(* instant asked for, so composing adds and inverting negates; how a fit   *)
(* comes about is the subject of ClockFeed.  The order in which relations  *)
(* were first heard is kept: it decides the order of every dictionary, and *)
(* with it which of several routes is taken.                               *)
(***************************************************************************)
EXTENDS Integers, Sequences, SequencesExt, FiniteSets, FiniteSetsExt

CONSTANTS
    Clocks,      \* the transmitters of the deployment (participants)
    Ref,         \* the reference clock
    Relations,   \* [by, of]: who can observe whom
    Errors,      \* errors a fit may carry
    NoFit,       \* a relation without a fit
    MaxHeard,    \* bound: relations ever heard
    MaxResets    \* bound: windows thrown away

ASSUME GraphAssumption ==
    /\ Ref \in Clocks /\ IsFiniteSet(Clocks) /\ IsFiniteSet(Relations)
    /\ \A r \in Relations : r.of \in Clocks /\ r.by # r.of
    /\ Errors \subseteq Int /\ NoFit \notin Int
    /\ MaxHeard \in Nat /\ MaxResets \in Nat

VARIABLES
    heard,     \* relations in the order first heard (_peer, _station)
    fit,       \* the error of each relation's fit (_Series.fit)
    anchored,  \* a reading of the reference clock has arrived (_anchor)
    resets     \* bound's counter

graphVars == <<heard, fit, anchored, resets>>

InitGraph ==
    /\ heard = <<>>
    /\ fit = [r \in Relations |-> NoFit]
    /\ anchored = FALSE
    /\ resets = 0

\* The first beacon of a relation; one that concerns the reference reads it.
Hear(r) ==
    /\ ~Contains(heard, r) /\ Len(heard) < MaxHeard
    /\ heard' = Append(heard, r)
    /\ anchored' = (anchored \/ Ref \in {r.by, r.of})
    /\ UNCHANGED <<fit, resets>>

\* The reference hears someone who takes no part.
HearNeighbour ==
    /\ ~anchored /\ anchored' = TRUE
    /\ UNCHANGED <<heard, fit, resets>>

\* Enough observations for a fit, which may be wrong.
Settle(r, e) ==
    /\ Contains(heard, r) /\ fit[r] = NoFit
    /\ fit' = [fit EXCEPT ![r] = e]
    /\ UNCHANGED <<heard, anchored, resets>>

\* A clock restarted, or its beacons left the window: the samples go, the
\* relation keeps its place.
Discard(r) ==
    /\ resets < MaxResets /\ resets' = resets + 1
    /\ fit[r] # NoFit
    /\ fit' = [fit EXCEPT ![r] = NoFit]
    /\ UNCHANGED <<heard, anchored>>

GraphStep ==
    \/ \E r \in Relations : Hear(r) \/ Discard(r) \/ \E e \in Errors : Settle(r, e)
    \/ HearNeighbour

---------------------------------------------------------------------------
(* ClockD.edges: a dictionary from (from, to) to the relation's error, as  *)
(* the set of its entries; `at' numbers them in the order of their keys.   *)

\* The places in heard of the relations that have a fit.
Fitted == {i \in DOMAIN heard : fit[heard[i]] # NoFit}

\* When a key is put: all transmitters' before the stations', those station
\* by station, and one station's pairs (i, j) with i slower than j.
Turn(station, i, j) == (station * (MaxHeard + 1) + i) * (MaxHeard + 1) + j

Edge(x, y, e, at) == [from |-> x, to |-> y, err |-> e, at |-> at]

\* The observer's clock to the sender's.
PeerEdges ==
    {Edge(heard[i].by, heard[i].of, fit[heard[i]], Turn(0, 0, i)) :
        i \in {i \in Fitted : heard[i].by \in Clocks}}

\* A station's turn came with the first it heard, fitted or not.
Station(i) == Min({j \in DOMAIN heard : heard[j].by = heard[i].by})

\* monitor_edges: one edge for every pair a station has fits of.
MonitorEdges ==
    {Edge(heard[p[1]].of, heard[p[2]].of, fit[heard[p[2]]] - fit[heard[p[1]]],
          Turn(Station(p[1]), p[1], p[2])) :
        p \in {p \in Fitted \X Fitted :
                  /\ p[1] < p[2]
                  /\ heard[p[1]].by \notin Clocks /\ heard[p[1]].by = heard[p[2]].by}}

SameKey(d, e) == d.from = e.from /\ d.to = e.to

\* out[key] = val: a key put before keeps its place and takes the new value.
Entry(puts) ==
    LET first == CHOOSE d \in puts : \A e \in puts : d.at <= e.at
        last  == CHOOSE d \in puts : \A e \in puts : d.at >= e.at
    IN  Edge(first.from, first.to, last.err, first.at)

Edges ==
    LET puts == PeerEdges \cup MonitorEdges
    IN  {Entry({e \in puts : SameKey(d, e)}) : d \in puts}

---------------------------------------------------------------------------
(* solve_offsets: breadth first from the reference, every edge both ways.  *)
(* A search b holds the maps found and, in that order, the clocks they are *)
(* of: the queue, with those already taken from it.  One step is the work  *)
(* up to the next map found.                                               *)

Ends(e) == {e.from, e.to}
Across(e, x) == IF e.from = x THEN e.to ELSE e.from
Along(e, x) == IF e.from = x THEN e.err ELSE -e.err

Found(b) == DOMAIN b.maps

\* A plausible slip: an edge is followed only the way it was measured.
FrontierForward(es, b) ==
    {p \in (DOMAIN b.queue) \X es :
        b.queue[p[1]] = p[2].from /\ p[2].to \notin Found(b)}

\* What still leads to a clock without a map, as <<place in the queue, edge>>.
Frontier(es, b) ==
    {p \in (DOMAIN b.queue) \X es :
        /\ b.queue[p[1]] \in Ends(p[2])
        /\ Across(p[2], b.queue[p[1]]) \notin Found(b)}

\* The queue is taken in order, and of each clock the edges in order.
Sooner(p, q) == p[1] < q[1] \/ (p[1] = q[1] /\ p[2].at <= q[2].at)

Extend(b, x, e) ==
    [queue |-> Append(b.queue, Across(e, x)),
     maps  |-> [m \in Found(b) \cup {Across(e, x)} |->
                   IF m \in Found(b) THEN b.maps[m] ELSE b.maps[x] + Along(e, x)]]

Discover(es, b) ==
    LET next == CHOOSE p \in Frontier(es, b) : \A q \in Frontier(es, b) : Sooner(p, q)
    IN  IF Frontier(es, b) = {} THEN b ELSE Extend(b, b.queue[next[1]], next[2])

Begin == [queue |-> <<Ref>>, maps |-> [m \in {Ref} |-> 0]]

Solve(es) ==
    LET search[n \in 0 .. Cardinality(Clocks)] ==
            IF n = 0 THEN Begin ELSE Discover(es, search[n - 1])
    IN  search[Cardinality(Clocks)].maps

---------------------------------------------------------------------------
(* path_disagreement: without each edge in turn.                           *)

Magnitude(n) == IF n < 0 THEN -n ELSE n

\* A plausible slip: the loop misses the first edge.
WithoutLater(es) ==
    {Solve(es \ {e}) : e \in {e \in es : \E d \in es : d.at < e.at}}

Without(es) == {Solve(es \ {e}) : e \in es}

Disagreement(es) ==
    LET base == Solve(es)
        others == Without(es)
    IN  [m \in DOMAIN base \ {Ref} |->
            LET redundant == \A maps \in others : m \in DOMAIN maps
            IN  [redundant |-> redundant,
                 max |-> IF redundant
                         THEN Max({0} \cup {Magnitude(maps[m] - base[m]) : maps \in others})
                         ELSE 0]]

---------------------------------------------------------------------------
(* Properties.                                                             *)

Wrong == {r \in Relations : fit[r] \notin {NoFit, 0}}

Observations == {heard[i] : i \in Fitted}

\* Two clocks one observation, or one station's two, relates.
Related(x, y) ==
    \E r, s \in Observations :
        \/ {r.by, r.of} = {x, y}
        \/ r.by = s.by /\ {r.of, s.of} = {x, y}

\* The least set of clocks with the reference and all related to one of it.
Closure ==
    {c \in Clocks : \A S \in SUBSET Clocks :
        Ref \in S /\ (\A x \in S, y \in Clocks : Related(x, y) => y \in S) => c \in S}

\* A clock has a map exactly if observations connect it to the reference, in
\* whatever order and direction they were made: none is left out for lack of
\* a route, none is guessed at (solve_offsets, monitor_edges, edges).
ReachesAll == DOMAIN Solve(Edges) = Closure

\* If one transmitter's observation of another is wrong and everything else
\* is right, no map is wrong without notice: it is called uncorroborated, or
\* the disagreement reported is the whole of its error (path_disagreement).
WrongIsSeen ==
    (Cardinality(Wrong) = 1 /\ \A r \in Wrong : r.by \in Clocks) =>
        LET maps == Solve(Edges)
            d == Disagreement(Edges)
        IN  \A m \in DOMAIN d :
                maps[m] # 0 /\ d[m].redundant => d[m].max = Magnitude(maps[m])

\* The same of any observation, a station's too.
OneWrongIsSeen ==
    Cardinality(Wrong) = 1 =>
        LET maps == Solve(Edges)
            d == Disagreement(Edges)
        IN  \A m \in DOMAIN d : maps[m] # 0 => ~d[m].redundant \/ d[m].max > 0

\* Observations of the same two clocks by two observers corroborate one
\* another: a clock the reference is so related to is reached redundantly.
TwoObserversCorroborate ==
    LET d == Disagreement(Edges)
        Observers(m) == {o \in {r.by : r \in Observations} :
                            \/ \E r \in Observations : r.by = o /\ {r.by, r.of} = {Ref, m}
                            \/ \E r, s \in Observations :
                                   r.by = o /\ s.by = o /\ r.of = Ref /\ s.of = m}
    IN  \A m \in DOMAIN d : Cardinality(Observers(m)) >= 2 => d[m].redundant

GraphSpec == InitGraph /\ [][GraphStep]_graphVars

===============================================================================
