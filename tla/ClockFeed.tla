------------------------------ MODULE ClockFeed ------------------------------
(***************************************************************************)
(* How a beacon becomes a sample and an anchor: the log of the node that   *)
(* heard it (the driver's ring, or the station's list), the agent that     *)
(* polls the log and forwards what is new, the bus, and the controller's   *)
(* clockd, which keeps a window of samples of the relation between the     *)
(* sender's and the hearer's clocks and the newest reading of the          *)
(* reference clock.                                                        *)
(*                                                                         *)
(* One sender, one hearer.  Both clocks advance by one a tick and may be   *)
(* reset, so their relation is exact and changes only at a reset; the      *)
(* frame's own duration, the same in every row, is left out.  The sender   *)
(* sends one beacon a tick.                                                *)
(***************************************************************************)
EXTENDS Integers, Sequences, FiniteSets

CONSTANTS
    LogMax,      \* COSR_BCN_RING, or BEACON_KEEP of a station
    Stations,    \* whether the hearer may be a station
    Chunk,       \* half rows one read(2) of the driver's file returns
    References,  \* whose clock may be the reference
    MaxGap,      \* MAX_GAP_US
    MaxSkew,     \* MAX_SKEW_US
    Window,      \* WINDOW_US_DEFAULT
    MinSamples,  \* MIN_SAMPLES
    MaxAge,      \* ANCHOR_MAX_AGE_S_DEFAULT
    SeenMax,     \* keys the agent remembers before it prunes them
    Ages,        \* what the clocks may read at the start
    Backlog,     \* bound: rows under way when the next beacon is due
    MaxNow,      \* bound: ticks
    MaxResets,   \* bound: resets of the clocks
    MaxFaults    \* bound: restarts of the agent, and publishes that fail

Clocks == {"sender", "hearer"}

ASSUME FeedAssumption ==
    /\ LogMax \in Nat \ {0} /\ Chunk \in Nat \ {0}
    /\ SeenMax \in Nat /\ SeenMax >= LogMax
    /\ Stations \subseteq BOOLEAN /\ References \subseteq Clocks /\ Backlog \in Nat
    /\ MaxGap \in Nat /\ MaxSkew \in Nat /\ Window \in Nat
    /\ MinSamples \in Nat /\ MaxAge \in Nat
    /\ Ages \subseteq Nat /\ MaxNow \in Nat /\ MaxResets \in Nat /\ MaxFaults \in Nat

VARIABLES
    drains,    \* the hearer is a station: reading its log empties it
    reference, \* ClockD.reference: whose clock anchors
    now,      \* ticks
    born,     \* [Clocks -> when the clock read zero]
    log,      \* rows the hearer holds, oldest first
    text,     \* half rows the agent has read so far in this poll
    seen,     \* keys of the rows the agent has forwarded
    bus,      \* rows published and not yet taken up, oldest first
    samples,  \* _Series.samples
    anchor,   \* ClockD._anchor, and when its clock read zero
    sent,     \* history: keys this agent handed to the connection
    calm,     \* history: ticks since something last went wrong
    torn,     \* history: a row was overwritten between two reads of a poll
    resets, faults   \* bounds' counters

setting == <<drains, reference>>
clockVars == <<setting, now, born, calm, torn, resets>>
agentVars == <<text, seen, sent, faults>>
vars == <<clockVars, log, agentVars, bus, samples, anchor>>

NoAnchor == [none |-> TRUE]

Init ==
    /\ drains \in Stations
    /\ reference \in (IF drains THEN References \ {"hearer"} ELSE References)
    /\ now = 0 /\ born \in [Clocks -> {-a : a \in Ages}]
    /\ log = <<>> /\ text = <<>> /\ seen = {} /\ bus = <<>>
    /\ samples = <<>> /\ anchor = NoAnchor
    /\ sent = {} /\ calm = 0 /\ torn = FALSE /\ resets = 0 /\ faults = 0

Reading(c) == now - born[c]

\* A row: the hearer's reading, the sender's, and of which life of the
\* hearer's clock (a microsecond reading does not recur after a reset).
Heard(t) == [x |-> t - born["hearer"], y |-> t - born["sender"],
             life |-> born["hearer"], whole |-> TRUE]
Key(r) == <<r.x, r.life>>
Keys(rows) == {Key(rows[i]) : i \in DOMAIN rows}
HeardAt(r) == r.x + r.life

\* Those of s whose places are in I, in their order.
Kept(s, I) ==
    LET kept[n \in 0 .. Len(s)] == IF n = 0 THEN <<>>
                                   ELSE IF n \in I THEN Append(kept[n - 1], s[n])
                                   ELSE kept[n - 1]
    IN  kept[Len(s)]

Newest(s, n) == SubSeq(s, IF Len(s) > n THEN Len(s) - n + 1 ELSE 1, Len(s))

---------------------------------------------------------------------------
(* The agent: Agent._beacon_loop and the implementation's beacon_rows.     *)

\* The file as the driver prints it at this moment: two halves to a row.
Text == [j \in 1..(2 * Len(log)) |-> log[(j + 1) \div 2]]

\* The lines of what was read.  A line whose halves came from different rows
\* cannot be told from a row.
Lines == [i \in 1..(Len(text) \div 2) |->
            [text[2 * i] EXCEPT !.y = text[2 * i - 1].y,
                                !.whole = text[2 * i] = text[2 * i - 1]]]

Rows == IF drains THEN log ELSE Lines

Forwarded == Keys(log) \subseteq seen /\ text = <<>>

\* One read(2): the driver prints its ring anew and returns the bytes at the
\* offset reached.
Read ==
    /\ ~drains /\ Len(text) < Len(Text)
    /\ text' = text \o SubSeq(Text, Len(text) + 1,
                              IF Len(text) + Chunk < Len(Text) THEN Len(text) + Chunk
                              ELSE Len(Text))
    /\ UNCHANGED <<clockVars, log, seen, sent, faults, bus, samples, anchor>>

Unread(rows) == Kept(rows, {i \in DOMAIN rows : Key(rows[i]) \notin seen})

\* A plausible slip: pruning keeps only what is being published.
MarkedFresh(rows) ==
    LET all == seen \cup Keys(rows)
    IN  IF Cardinality(all) > SeenMax THEN Keys(Unread(rows)) ELSE all

\* `seen` once `fresh` is marked: pruned to this poll's rows when it grows.
Marked(rows) ==
    LET all == seen \cup Keys(rows)
    IN  IF Cardinality(all) > SeenMax THEN Keys(rows) ELSE all

\* A plausible slip: rows stay marked although they were not delivered.
ForgetNone(marked, keys) == marked

\* _forget, after a publish that raised.
Forget(marked, keys) == marked \ keys

\* The end of the file: what is new is published, or the publish raises and
\* the rows are un-marked, or the connection dies with them on the way.
Forward ==
    LET fresh == Unread(Rows)
    IN  /\ IF drains THEN log # <<>> ELSE text # <<>> /\ Len(text) >= Len(Text)
        /\ \/ /\ bus' = bus \o fresh
              /\ seen' = Marked(Rows) /\ sent' = sent \cup Keys(fresh)
              /\ UNCHANGED <<faults, calm>>
           \/ /\ fresh # <<>> /\ faults < MaxFaults
              /\ faults' = faults + 1 /\ calm' = 0
              /\ seen' = Forget(Marked(Rows), Keys(fresh))
              /\ UNCHANGED <<bus, sent>>
           \/ /\ fresh # <<>> /\ faults < MaxFaults
              /\ faults' = faults + 1 /\ calm' = 0
              /\ seen' = Marked(Rows) /\ sent' = sent \cup Keys(fresh)
              /\ UNCHANGED bus
        /\ text' = <<>>
        /\ log' = IF drains THEN <<>> ELSE log
        /\ UNCHANGED <<setting, now, born, torn, resets, samples, anchor>>

AgentRestart ==
    /\ faults < MaxFaults
    /\ faults' = faults + 1 /\ calm' = 0
    /\ text' = <<>> /\ seen' = {} /\ sent' = {}
    /\ log' = IF drains THEN <<>> ELSE log
    /\ UNCHANGED <<setting, now, born, torn, resets, bus, samples, anchor>>

---------------------------------------------------------------------------
(* The controller: ClockD.observe_peer_beacon, observe_station_beacon.     *)

Apart(a, b) == IF a > b THEN a - b ELSE b - a

LastSample == samples[Len(samples)]

\* A plausible slip: a far reading is taken for a late one.
FarAheadOnly(r) == r.x - LastSample.x > MaxGap

\* The hearer's clock restarted, or was not heard for long.
Far(r) == Apart(r.x, LastSample.x) > MaxGap

\* Seen already: published again, or read twice.
Again(r) == ~Far(r) /\ r.x <= LastSample.x

\* A plausible slip: only a clock that jumps ahead is noticed.
SteppedAhead(r) == (r.y - LastSample.y) - (r.x - LastSample.x) > MaxSkew

\* One of the two clocks was set: they did not advance alike.
Stepped(r) == Apart(r.y - LastSample.y, r.x - LastSample.x) > MaxSkew

\* The cut-off: what lies further back than the window is dropped.
InWindow(s, x) == Kept(s, {i \in DOMAIN s : s[i].x >= x - Window})

\* _Series.add: the samples once `r` has arrived.
Added(r) ==
    IF samples = <<>> THEN <<r>>
    ELSE IF Again(r) THEN samples
    ELSE IF Far(r) \/ Stepped(r) THEN <<r>>
    ELSE InWindow(Append(samples, r), r.x)

RefValue(r) == IF reference = "sender" THEN r.y ELSE r.x
AnchorAge == now - anchor.at

\* A plausible slip: the reading is replaced and its time is not.
NoteKeepsTime(r) ==
    LET v == RefValue(r)
    IN  IF "none" \in DOMAIN anchor
           THEN [value |-> v, at |-> now, born |-> HeardAt(r) - v]
        ELSE IF v > anchor.value \/ AnchorAge > MaxAge
           THEN [anchor EXCEPT !.value = v, !.born = HeardAt(r) - v]
        ELSE anchor

\* A plausible slip: a lower reading is always an old one.
NoteNewestOnly(r) ==
    LET v == RefValue(r)
    IN  IF "none" \in DOMAIN anchor \/ v > anchor.value
           THEN [value |-> v, at |-> now, born |-> HeardAt(r) - v]
        ELSE anchor

\* _note_reference: the newest reading, or any once it has grown too old.
Note(r) ==
    LET v == RefValue(r)
    IN  IF "none" \in DOMAIN anchor \/ v > anchor.value \/ AnchorAge > MaxAge
           THEN [value |-> v, at |-> now, born |-> HeardAt(r) - v]
        ELSE anchor

Arrives(r) == samples' = Added(r) /\ anchor' = Note(r)

\* One row of a message, in the order they were published.
Observe ==
    /\ bus # <<>>
    /\ Arrives(Head(bus))
    /\ bus' = Tail(bus)
    /\ UNCHANGED <<clockVars, log, agentVars>>

\* shared_instant: what it answers, and whether it answers at all.
Offered == "none" \notin DOMAIN anchor /\ AnchorAge <= MaxAge
SharedInstant(lead) == anchor.value + AnchorAge + lead

---------------------------------------------------------------------------
(* The air and the clocks.                                                 *)

\* A poll has read some of a full ring: the next beacon moves its rows up
\* under the offset reached.
InTheRing == 0 < Len(text) /\ Len(text) < Len(Text) /\ Len(log) = LogMax

\* A beacon is heard, or is not.
Tick(heard) ==
    /\ now < MaxNow
    /\ Len(bus) + Cardinality(Keys(log) \ seen) <= Backlog
    /\ now' = now + 1
    /\ log' = IF heard THEN Newest(Append(log, Heard(now + 1)), LogMax) ELSE log
    /\ calm' = IF heard /\ Forwarded /\ bus = <<>> THEN calm + 1 ELSE 0
    /\ torn' = IF heard /\ InTheRing THEN TRUE ELSE torn
    /\ UNCHANGED <<setting, born, resets, agentVars, bus, samples, anchor>>

\* A clock that has run for longer than the tolerated skew starts again.
ClockReset(c) ==
    /\ resets < MaxResets /\ Reading(c) > MaxSkew
    /\ resets' = resets + 1 /\ calm' = 0
    /\ born' = [born EXCEPT ![c] = now]
    /\ UNCHANGED <<setting, now, log, torn, agentVars, bus, samples, anchor>>

Next ==
    \/ \E heard \in BOOLEAN : Tick(heard)
    \/ \E c \in Clocks : ClockReset(c)
    \/ Read \/ Forward \/ AgentRestart
    \/ Observe

Spec == Init /\ [][Next]_vars

---------------------------------------------------------------------------
(* Properties.                                                             *)

IsRow(r) == /\ DOMAIN r = {"x", "y", "life", "whole"}
            /\ r.x \in Nat /\ r.y \in Nat /\ HeardAt(r) \in 0..now

\* Every row is a pair of readings taken in the past, and the logs keep their
\* bounds (driver.diff:76-97, counter.py:126-129).
TypeOK ==
    /\ now \in 0..MaxNow /\ \A c \in Clocks : Reading(c) \in Nat
    /\ Len(log) <= LogMax /\ Cardinality(seen) <= SeenMax
    /\ \A s \in {log, text, bus, samples} : \A i \in DOMAIN s : IsRow(s[i])
    /\ calm \in 0..MaxNow /\ resets \in 0..MaxResets /\ faults \in 0..MaxFaults

Relation(s) == s.y - s.x

\* The window is fit for a line: its samples advance, span no more than the
\* window, and no step of a clock lies between any two of them
\* (clockd.py:52-76), however rows are repeated, lost or delayed.
WindowSound ==
    \A i, j \in DOMAIN samples : i < j =>
        /\ samples[i].x < samples[j].x /\ samples[j].x - samples[i].x <= Window
        /\ Apart(Relation(samples[i]), Relation(samples[j])) <= MaxSkew

\* However the clocks were reset, once beacons arrive undisturbed for the gap,
\* the rows that make a fit and one tick on either side, there are enough
\* samples for a fit and they speak of the clocks as they now are.
FitRecovers ==
    calm >= MaxGap + MinSamples + 2 =>
        /\ Len(samples) >= MinSamples
        /\ \A i \in DOMAIN samples :
              Apart(Relation(samples[i]), born["hearer"] - born["sender"]) <= MaxSkew

\* A reset of the reference clock does not leave the anchor on its old life
\* for good (clockd.py:162-169).
AnchorRecovers ==
    calm >= MaxAge + 3 =>
        "none" \notin DOMAIN anchor /\ anchor.born = born[reference]

\* A reading counts from when it arrived, later than it was taken: by one of
\* the reference clock's present life an instant is never placed further ahead
\* than was asked (clockd.py:237-247), and so it is, whatever was reset, once
\* beacons have arrived undisturbed for as long as an anchor may live.
NeverTooFar ==
    Offered /\ (anchor.born = born[reference] \/ calm >= MaxAge + 3) =>
        SharedInstant(0) <= Reading(reference)

\* A row of the driver's ring whose publish raised is new to the agent as long
\* as the ring holds it (agent.py:624-636): what it takes for forwarded was
\* handed to the connection.  A station's list is emptied as it is read: see
\* DrainedIsSent.
UnsentIsOffered ==
    ~drains => \A i \in DOMAIN log : Key(log[i]) \in seen => Key(log[i]) \in sent

\* While no row is overwritten under a poll that reads the ring, no row is
\* handed to the connection twice in one life of the agent, though the ring
\* shows it at every poll and what was seen is pruned (agent.py:606-615).
NeverSentTwice ==
    [][~torn => \A i \in (Len(bus) + 1)..Len(bus') : Key(bus'[i]) \notin sent]_vars

\* Every row on the bus is one the driver logged (driver.diff:99-137), which
\* holds while no poll is torn.
RowsWereHeard == \A i \in DOMAIN bus : bus[i].whole

\* What a station's agent takes from its list it hands to the connection
\* (agent.py:634): rows whose publish raised are sent by the next attempt.
DrainedIsSent ==
    [][drains /\ now' = now /\ sent \subseteq sent' =>
          Keys(log) \subseteq Keys(log') \cup sent']_vars

\* An instant is never placed further ahead than was asked (clockd.py:238),
\* right after the reference clock was reset included.
NeverAhead == Offered => SharedInstant(0) <= Reading(reference)

\* An instant rests on a reading no older than is allowed, give or take the
\* tick it travels (clockd.py:241-246).
AnchorAgeTrue ==
    Offered => now - (anchor.born + anchor.value) <= MaxAge + 1
=============================================================================
