-------------------------------- MODULE Gate --------------------------------
(***************************************************************************)
(* The gate in the radio: ath_cosr_gated_tx of firmware.diff, with the     *)
(* clock it waits on, the transmit queue, the completion interrupt and the *)
(* buffer pool.                                                            *)
(*                                                                         *)
(* One trigger at a time: the host's command interface waits for the       *)
(* answer and the handler runs to its end before another command is taken  *)
(* up.  The radio is stuck for as long as the handler does not return, so  *)
(* every wait in it must end, and every way out must leave the registers   *)
(* and the pool as they were.  How a frame is laid out is left out.        *)
(***************************************************************************)
EXTENDS Integers

CONSTANTS
    Targets,      \* instants commanded; zero fires at once
    LeadMax,      \* COSR_LEAD_MAX_US
    Fine,         \* COSR_FINE_US: the final approach
    DrainMax,     \* COSR_DRAIN_MAX_US
    Pool,         \* buffers of POOL_ID_ATTACKS
    MayStop,      \* the clock may stop for good
    MaxTsf,       \* bound: the clock
    MaxTriggers,  \* bound: triggers
    MaxResets     \* bound: resets of the clock

ASSUME GateAssumption ==
    /\ Targets \subseteq Nat /\ \A t \in Targets : t = 0 \/ t >= Fine
    /\ LeadMax \in Nat /\ Fine \in Nat /\ DrainMax \in Nat /\ Pool \in Nat
    /\ Fine <= LeadMax
    /\ MayStop \in BOOLEAN
    /\ MaxTsf \in Nat /\ MaxTriggers \in Nat /\ MaxResets \in Nat

VARIABLES
    pc,        \* where the handler is; "idle" between triggers
    target,    \* the instant commanded
    want,      \* subframes commanded
    status,    \* resp.status
    prev,      \* the wait's previous reading of the clock; local to the wait
    held,      \* buffers built and not handed to the queue (bf)
    queued,    \* buffers the queue owns
    pending,   \* ah_numTxPending: the queue still transmits
    free,      \* buffers in the pool
    irq,       \* interrupts on
    relaxed,   \* carrier sense ignored and backoff zeroed
    tsf,       \* the clock
    running,   \* it advances
    triggers, resets,   \* bounds' counters
    handed,    \* history: what the last trigger handed to the queue, and when
    unseen     \* history: the clock went back during it while no wait looked

gateVars == <<pc, target, want, status, prev, held, irq, relaxed, triggers>>
queueVars == <<queued, pending, free>>
clockVars == <<tsf, running, resets>>
history == <<handed, unseen>>
vars == <<gateVars, queueVars, clockVars, history>>

Statuses == {"FIRED", "NOBF", "LATE", "TOOFAR", "CLKLOST", "DRAIN"}

Nothing == [frames |-> 0, at |-> 0, alone |-> TRUE]

Init ==
    /\ pc = "idle" /\ target = 0 /\ want = 0 /\ status = "FIRED" /\ prev = 0
    /\ held = 0 /\ queued = 0 /\ pending = FALSE /\ free = Pool
    /\ irq = TRUE /\ relaxed = FALSE
    /\ tsf = 0 /\ running = TRUE
    /\ triggers = 0 /\ resets = 0
    /\ handed = Nothing /\ unseen = FALSE

Gated == target # 0

Goto(l) == pc' = l

\* The way out through `drop`, with what it answers.
Abandon(s) == status' = s /\ Goto("drop")

---------------------------------------------------------------------------
(* The handler.                                                            *)

\* Entry: an instant that has passed or lies too far ahead is refused before
\* anything is built.
Trigger(t, n) ==
    /\ pc = "idle" /\ triggers < MaxTriggers
    /\ triggers' = triggers + 1
    /\ target' = t /\ want' = n /\ handed' = Nothing
    /\ IF t # 0 /\ tsf >= t THEN Abandon("LATE")
       ELSE IF t # 0 /\ t - tsf > LeadMax THEN Abandon("TOOFAR")
       ELSE status' = "FIRED" /\ Goto("build")
    /\ UNCHANGED <<prev, held, irq, relaxed, queueVars, clockVars, unseen>>

\* cosr_build_frame: one more frame, built in a buffer of the pool.
BuildFrame ==
    /\ pc = "build" /\ free > 0
    /\ held' = held + 1 /\ free' = free - 1
    /\ Goto(IF held + 1 = want THEN "clear" ELSE "build")
    /\ UNCHANGED <<target, want, status, prev, irq, relaxed, triggers, queued, pending,
                   clockVars, history>>

\* A plausible slip: the frames built so far are dropped, not returned.
BuildFailsLeaks ==
    /\ pc = "build" /\ Abandon("NOBF")
    /\ held' = 0
    /\ UNCHANGED <<target, want, prev, irq, relaxed, triggers, queueVars, clockVars, history>>

\* A frame cannot be built (no buffer, no descriptor, an unknown rate, no
\* station): cosr_build_ampdu returns those built before it.
BuildFails ==
    /\ pc = "build" /\ Abandon("NOBF")
    /\ held' = 0 /\ free' = free + held
    /\ UNCHANGED <<target, want, prev, irq, relaxed, triggers, queued, pending, clockVars,
                   history>>

\* A plausible slip: whatever the queue holds is left there.
ClearNothing ==
    /\ pc = "clear"
    /\ Goto("cleared")
    /\ UNCHANGED <<target, want, status, prev, held, irq, relaxed, triggers, queueVars,
                   clockVars, history>>

\* The queue is emptied, and what it held goes back to the pool.
Clear ==
    /\ pc = "clear"
    /\ queued' = 0 /\ pending' = FALSE /\ free' = free + queued
    /\ Goto("cleared")
    /\ UNCHANGED <<target, want, status, prev, held, irq, relaxed, triggers, clockVars, history>>

\* Emptying it takes time: the instant may have passed.
Recheck ==
    /\ pc = "cleared"
    /\ IF ~Gated THEN Goto("fire") /\ UNCHANGED status
       ELSE IF tsf >= target THEN Abandon("LATE")
       ELSE Goto("approach") /\ UNCHANGED status
    /\ UNCHANGED <<target, want, prev, held, irq, relaxed, triggers, queueVars, clockVars,
                   history>>

\* cosr_wait_tsf is entered, for the coarse or for the fine wait: a first
\* reading of its own, which is compared with nothing read before.
EnterWait ==
    /\ pc \in {"approach", "closing"}
    /\ prev' = tsf
    /\ Goto(IF pc = "approach" THEN "coarse" ELSE "fine")
    /\ UNCHANGED <<target, want, status, held, irq, relaxed, triggers, queueVars, clockVars,
                   history>>

\* One more reading of the clock, in the wait until `deadline`.
Arrived(deadline) == tsf >= deadline
WentBack(deadline) == ~Arrived(deadline) /\ tsf < prev
KeepWaiting(deadline) == ~Arrived(deadline) /\ ~WentBack(deadline) /\ tsf # prev

\* A plausible slip: any reading that differs from the last is progress.
CoarseAnyChange ==
    /\ pc = "coarse"
    /\ \/ /\ Arrived(target - Fine)
          /\ irq' = FALSE /\ relaxed' = TRUE
          /\ prev' = 0
          /\ Goto("closing") /\ UNCHANGED status
       \/ /\ ~Arrived(target - Fine) /\ tsf # prev
          /\ prev' = tsf /\ UNCHANGED <<pc, status, irq, relaxed>>
    /\ UNCHANGED <<target, want, held, triggers, queueVars, clockVars, history>>

\* The coarse wait, interrupts on; then they go off and medium access is
\* relaxed, before the fine wait is entered.
Coarse ==
    /\ pc = "coarse"
    /\ \/ /\ Arrived(target - Fine)
          /\ irq' = FALSE /\ relaxed' = TRUE
          /\ prev' = 0
          /\ Goto("closing") /\ UNCHANGED status
       \/ /\ WentBack(target - Fine) /\ Abandon("CLKLOST")
          /\ prev' = 0
          /\ UNCHANGED <<irq, relaxed>>
       \/ KeepWaiting(target - Fine) /\ prev' = tsf /\ UNCHANGED <<pc, status, irq, relaxed>>
    /\ UNCHANGED <<target, want, held, triggers, queueVars, clockVars, history>>

\* A plausible slip: giving up in the fine wait leaves the radio as it is.
FineLeftRelaxed ==
    /\ pc = "fine"
    /\ \/ Arrived(target) /\ Goto("fire") /\ prev' = 0 /\ UNCHANGED <<status, irq, relaxed>>
       \/ WentBack(target) /\ Abandon("CLKLOST") /\ prev' = 0 /\ UNCHANGED <<irq, relaxed>>
       \/ KeepWaiting(target) /\ prev' = tsf /\ UNCHANGED <<pc, status, irq, relaxed>>
    /\ UNCHANGED <<target, want, held, triggers, queueVars, clockVars, history>>

\* The fine wait, interrupts off; giving up restores what was changed.
FineWait ==
    /\ pc = "fine"
    /\ \/ Arrived(target) /\ Goto("fire") /\ prev' = 0 /\ UNCHANGED <<status, irq, relaxed>>
       \/ /\ WentBack(target) /\ Abandon("CLKLOST")
          /\ irq' = TRUE /\ relaxed' = FALSE
          /\ prev' = 0
       \/ KeepWaiting(target) /\ prev' = tsf /\ UNCHANGED <<pc, status, irq, relaxed>>
    /\ UNCHANGED <<target, want, held, triggers, queueVars, clockVars, history>>

\* ath_tgt_txqaddbuf: the queue owns the frame from here on.
Fire ==
    /\ pc = "fire"
    /\ queued' = queued + held /\ held' = 0 /\ pending' = TRUE
    /\ handed' = [frames |-> held, at |-> tsf, alone |-> queued = 0]
    /\ Goto(IF Gated THEN "drain" ELSE "drop")
    /\ UNCHANGED <<target, want, status, prev, irq, relaxed, triggers, free, clockVars, unseen>>

\* A plausible slip: the wait for the queue has no deadline.
DrainForever ==
    /\ pc = "drain"
    /\ ~pending
    /\ irq' = TRUE /\ relaxed' = FALSE
    /\ Goto("drop")
    /\ UNCHANGED <<target, want, status, prev, held, triggers, queueVars, clockVars, history>>

\* The relaxed configuration is held until the queue has drained, or until it
\* has had long enough; then everything is restored.
DrainWait ==
    /\ pc = "drain"
    /\ \/ ~pending /\ UNCHANGED status
       \/ pending /\ Arrived(target + DrainMax) /\ status' = "DRAIN"
    /\ irq' = TRUE /\ relaxed' = FALSE
    /\ Goto("drop")
    /\ UNCHANGED <<target, want, prev, held, triggers, queueVars, clockVars, history>>

\* A frame still held goes back to the pool; the answer is sent.
Drop ==
    /\ pc = "drop"
    /\ held' = 0 /\ free' = free + held
    /\ unseen' = FALSE
    /\ Goto("idle")
    /\ UNCHANGED <<target, want, status, prev, irq, relaxed, triggers, queued, pending, clockVars,
                   handed>>

Handler ==
    \/ BuildFrame \/ BuildFails
    \/ Clear \/ Recheck \/ EnterWait \/ Coarse \/ FineWait \/ Fire \/ DrainWait \/ Drop

---------------------------------------------------------------------------
(* The radio around it.                                                    *)

\* The last frame of the queue has left, or the queue stays stuck.
Transmitted ==
    /\ pending /\ pending' = FALSE
    /\ UNCHANGED <<gateVars, queued, free, clockVars, history>>

\* The completion interrupt returns the buffers.
Completion ==
    /\ irq /\ ~pending /\ queued > 0
    /\ queued' = 0 /\ free' = free + queued
    /\ UNCHANGED <<gateVars, pending, clockVars, history>>

Tick ==
    /\ running /\ tsf < MaxTsf
    /\ tsf' = tsf + 1
    /\ UNCHANGED <<gateVars, queueVars, running, resets, history>>

\* Between the reading at the entry and the hand-over, the places at which no
\* wait compares two readings.
Unlooked == {"build", "clear", "cleared", "approach", "closing"}

\* A MAC reset or a restart of the access point moves the clock back, at any
\* time but in the few instructions between the reading that ends the wait and
\* the hand-over of the frame.
ClockReset(t) ==
    /\ resets < MaxResets /\ t < tsf
    /\ pc # "fire"
    /\ resets' = resets + 1
    /\ tsf' = t
    /\ unseen' = (unseen \/ (Gated /\ pc \in Unlooked))
    /\ UNCHANGED <<gateVars, queueVars, running, handed>>

ClockStops ==
    /\ MayStop /\ running
    /\ running' = FALSE
    /\ UNCHANGED <<gateVars, queueVars, tsf, resets, history>>

Next ==
    \/ \E t \in Targets, n \in 1 .. Pool : Trigger(t, n)
    \/ Handler
    \/ Transmitted
    \/ Completion
    \/ Tick
    \/ \E t \in 0 .. MaxTsf : ClockReset(t)
    \/ ClockStops

Spec == Init /\ [][Next]_vars

\* The processor runs the handler, and a clock that has not stopped advances.
\* Nothing is assumed of the queue.
FairSpec == Spec /\ WF_vars(Handler) /\ WF_vars(Tick)

---------------------------------------------------------------------------
(* Properties.                                                             *)

TypeOK ==
    /\ pc \in {"idle", "build", "clear", "cleared", "approach", "coarse", "closing", "fine",
              "fire", "drain", "drop"}
    /\ target \in Targets \cup {0} /\ want \in 0 .. Pool /\ status \in Statuses
    /\ prev \in 0 .. MaxTsf /\ tsf \in 0 .. MaxTsf
    /\ held \in 0 .. Pool /\ queued \in 0 .. Pool /\ free \in 0 .. Pool
    /\ irq \in BOOLEAN /\ relaxed \in BOOLEAN /\ pending \in BOOLEAN /\ running \in BOOLEAN
    /\ unseen \in BOOLEAN

\* Whichever way the handler leaves, interrupts are on again, carrier sense
\* and backoff are what they were, and no frame is left in its hands
\* (firmware.diff:337-344, 371-381).
RadioRestored == pc = "idle" => irq /\ ~relaxed /\ held = 0

\* A buffer is in the pool, with the handler or with the queue, and in one of
\* them only: none is lost to an abandoned shot and none freed twice
\* (firmware.diff:351-353, 377-381, 433-442).
PoolConserved == free + held + queued = Pool

\* What the answer says is what happened: FIRED and DRAIN mean the whole frame
\* was handed over, not before its instant and with nothing ahead of it in the
\* queue; any other answer means that nothing was (firmware.diff:299-314,
\* 347-353).
AnswerHonest ==
    pc = "idle" /\ triggers > 0 =>
        IF status \in {"FIRED", "DRAIN"}
        THEN handed.frames = want /\ handed.alone /\ handed.at >= target
        ELSE handed = Nothing

\* A reset of the clock does not leave the handler waiting for an instant that
\* is further away than any it accepts: in either wait the instant is within
\* the lead, or the clock is behind the last reading and the next one gives
\* up.  What escapes is a reset while no wait looks: between the entry and the
\* coarse wait's first reading, and between the two waits
\* (firmware.diff:206-222, 274-283, 311, 319-337).
LeadKept ==
    pc \in {"coarse", "fine"} /\ ~unseen => target - tsf <= LeadMax \/ tsf < prev

\* Every trigger is answered while the clock advances: no wait of the handler
\* goes on for ever, even if the clock is reset or the queue
\* is stuck (firmware.diff:206-222, 361-370).
AnsweredWhileClockRuns == pc # "idle" ~> pc = "idle" \/ ~running

\* The same without the proviso: the wait detects a clock that ceases to
\* advance as well (docs/ARCHITECTURE.md:124-126).
EveryTriggerAnswered == pc # "idle" ~> pc = "idle"

\* While the queue is awaited the deadline is never further off than the drain
\* is allowed to take (firmware.diff:198-201, 361-370).
DrainBounded == pc = "drain" /\ pending => (target + DrainMax) - tsf <= DrainMax

\* LeadKept without its proviso: no reset of the clock goes unnoticed by the
\* wait (docs/ARCHITECTURE.md:124-126).
LeadAlwaysKept == pc \in {"coarse", "fine"} => target - tsf <= LeadMax \/ tsf < prev
=============================================================================
