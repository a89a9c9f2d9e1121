----------------------------- MODULE GateProofs -----------------------------
(***************************************************************************)
(* What Gate promises of registers, pool and answers, for every pool, lead *)
(* and clock.  The invariant says, for each place the handler can be at,   *)
(* what it holds, what the queue holds and what has been changed.          *)
(***************************************************************************)
EXTENDS Gate, TLAPS

HandedOver == handed.frames = want /\ handed.alone /\ handed.at >= target

\* Interrupts and medium access are touched only between the end of the
\* coarse wait and the end of the drain wait, and only for a gated frame.
RegistersByPlace ==
    /\ pc \notin {"closing", "fine", "fire", "drain"} => irq /\ ~relaxed
    /\ pc = "fire" /\ ~Gated => irq /\ ~relaxed
    /\ pc \in {"approach", "coarse", "closing", "fine"} => Gated

FramesByPlace ==
    /\ pc \in {"idle", "drain"} => held = 0
    /\ pc = "build" => held < want
    /\ pc \in {"clear", "cleared", "approach", "coarse", "closing", "fine", "fire"} => held = want
    /\ pc \in {"cleared", "approach", "coarse", "closing", "fine", "fire"} => queued = 0

AnswerByPlace ==
    /\ pc \in {"build", "clear", "cleared", "approach", "coarse", "closing", "fine", "fire"} =>
          status = "FIRED" /\ handed = Nothing
    /\ pc = "fire" => tsf >= target
    /\ pc = "drain" => status = "FIRED" /\ HandedOver
    /\ pc = "drop" => IF status \in {"FIRED", "DRAIN"} THEN HandedOver ELSE handed = Nothing

\* A reset that no wait looks for is a reset unseen; where a wait looks, its
\* last reading was within the lead, wherever the clock is now.
LeadByPlace ==
    ~unseen =>
        /\ Gated /\ pc \in Unlooked => target - tsf <= LeadMax
        /\ pc \in {"coarse", "fine"} => target - prev <= LeadMax

IInv ==
    /\ TypeOK /\ PoolConserved /\ RegistersByPlace /\ FramesByPlace /\ AnswerByPlace
    /\ AnswerHonest /\ LeadByPlace

LEMMA InitInv == Init => IInv
<1> SUFFICES ASSUME Init PROVE IInv
    OBVIOUS
<1> USE GateAssumption
<1>0. Pool \in Nat /\ MaxTsf \in Nat /\ 0 \in 0 .. Pool /\ Pool \in 0 .. Pool /\ 0 \in 0 .. MaxTsf
    OBVIOUS
<1>1. TypeOK
    BY <1>0 DEF Init, TypeOK, Statuses
<1>5. PoolConserved
    BY <1>0 DEF Init, PoolConserved
<1>2. RegistersByPlace /\ FramesByPlace
    BY DEF Init, RegistersByPlace, FramesByPlace
<1>3. AnswerByPlace /\ AnswerHonest /\ LeadByPlace
    BY DEF Init, AnswerByPlace, AnswerHonest, LeadByPlace, Unlooked
<1>4. QED
    BY <1>1, <1>2, <1>3, <1>5 DEF IInv

LEMMA TriggerInv == IInv /\ (\E t \in Targets, n \in 1 .. Pool : Trigger(t, n)) => IInv'
<1> SUFFICES ASSUME IInv, NEW t \in Targets, NEW n \in 1 .. Pool, Trigger(t, n)
             PROVE  IInv'
    OBVIOUS
<1> USE DEF IInv, Trigger, queueVars, clockVars, Abandon, Goto
<1>1. TypeOK' /\ PoolConserved'
    BY GateAssumption DEF TypeOK, Statuses, PoolConserved
<1>2. RegistersByPlace'
    BY DEF RegistersByPlace
<1>3. FramesByPlace'
    BY DEF FramesByPlace
<1>4. AnswerByPlace' /\ AnswerHonest'
    BY DEF AnswerByPlace, AnswerHonest
<1>6. LeadByPlace'
    BY GateAssumption DEF TypeOK, LeadByPlace, Unlooked, Gated
<1>5. QED
    BY <1>1, <1>2, <1>3, <1>4, <1>6

LEMMA HandlerInv == IInv /\ Handler => IInv'
<1> SUFFICES ASSUME IInv, Handler PROVE IInv'
    OBVIOUS
<1> USE GateAssumption DEF queueVars, clockVars, history, Abandon, Goto
<1>1. CASE BuildFrame
  <2>1. TypeOK' /\ PoolConserved'
    <3>1. free \in 0 .. Pool /\ held \in 0 .. Pool /\ queued \in Nat /\ want \in 0 .. Pool
          /\ held < want /\ free > 0 /\ free + held + queued = Pool
        BY <1>1 DEF IInv, TypeOK, PoolConserved, FramesByPlace, BuildFrame
    <3>2. held + 1 \in 0 .. Pool /\ free - 1 \in 0 .. Pool /\ (free - 1) + (held + 1) + queued = Pool
        BY <3>1
    <3>3. QED
        BY <1>1, <3>2 DEF IInv, TypeOK, PoolConserved, BuildFrame
  <2>3. RegistersByPlace'
      BY <1>1 DEF IInv, RegistersByPlace, Gated, BuildFrame
  <2>4. FramesByPlace'
      BY <1>1 DEF IInv, TypeOK, FramesByPlace, BuildFrame
  <2>5. AnswerByPlace' /\ AnswerHonest'
      BY <1>1 DEF IInv, TypeOK, AnswerByPlace, AnswerHonest, HandedOver, Gated, BuildFrame
  <2>6. LeadByPlace'
      BY <1>1 DEF IInv, TypeOK, LeadByPlace, Unlooked, Gated, BuildFrame
  <2>7. QED
      BY <2>1, <2>3, <2>4, <2>5, <2>6 DEF IInv
<1>0. CASE BuildFails
  <2>1. TypeOK' /\ PoolConserved'
    <3>1. free \in Nat /\ held \in Nat /\ queued \in Nat /\ free + held + queued = Pool
        BY <1>0 DEF IInv, TypeOK, PoolConserved
    <3>2. free + held \in 0 .. Pool /\ 0 \in 0 .. Pool /\ (free + held) + 0 + queued = Pool
        BY <3>1
    <3>3. QED
        BY <1>0, <3>2 DEF IInv, TypeOK, Statuses, PoolConserved, BuildFails
  <2>3. RegistersByPlace'
      BY <1>0 DEF IInv, RegistersByPlace, Gated, BuildFails
  <2>4. FramesByPlace'
      BY <1>0 DEF IInv, TypeOK, FramesByPlace, BuildFails
  <2>5. AnswerByPlace' /\ AnswerHonest'
      BY <1>0 DEF IInv, TypeOK, AnswerByPlace, AnswerHonest, HandedOver, Gated, BuildFails
  <2>6. LeadByPlace'
      BY <1>0 DEF IInv, TypeOK, LeadByPlace, Unlooked, Gated, BuildFails
  <2>7. QED
      BY <2>1, <2>3, <2>4, <2>5, <2>6 DEF IInv
<1>2. CASE Clear
  <2>1. TypeOK'
    <3>1. free \in Nat /\ held \in Nat /\ queued \in Nat /\ free + held + queued = Pool
        BY <1>2 DEF IInv, TypeOK, PoolConserved
    <3>2. free + queued \in 0 .. Pool /\ 0 \in 0 .. Pool
        BY <3>1
    <3>3. QED
        BY <1>2, <3>2 DEF IInv, TypeOK, Clear
  <2>2. PoolConserved'
      BY <1>2 DEF IInv, TypeOK, PoolConserved, Clear
  <2>3. RegistersByPlace'
      BY <1>2 DEF IInv, RegistersByPlace, Gated, Clear
  <2>4. FramesByPlace'
      BY <1>2 DEF IInv, TypeOK, FramesByPlace, Clear
  <2>5. AnswerByPlace'
      BY <1>2 DEF IInv, TypeOK, FramesByPlace, AnswerByPlace, HandedOver, Gated, Clear
  <2>6. AnswerHonest'
      BY <1>2 DEF IInv, AnswerByPlace, AnswerHonest, HandedOver, Clear
  <2>8. LeadByPlace'
      BY <1>2 DEF IInv, TypeOK, LeadByPlace, Unlooked, Gated, Clear
  <2>7. QED
      BY <2>1, <2>2, <2>3, <2>4, <2>5, <2>6, <2>8 DEF IInv
<1>3. CASE Recheck
  <2>1. TypeOK'
      BY <1>3 DEF IInv, TypeOK, Statuses, PoolConserved, Recheck
  <2>2. PoolConserved'
      BY <1>3 DEF IInv, TypeOK, PoolConserved, Recheck
  <2>3. RegistersByPlace'
      BY <1>3 DEF IInv, RegistersByPlace, Gated, Recheck
  <2>4. FramesByPlace'
      BY <1>3 DEF IInv, TypeOK, FramesByPlace, Recheck
  <2>5. AnswerByPlace'
      BY <1>3 DEF IInv, TypeOK, FramesByPlace, AnswerByPlace, HandedOver, Gated, Recheck
  <2>6. AnswerHonest'
      BY <1>3 DEF IInv, AnswerByPlace, AnswerHonest, HandedOver, Recheck
  <2>8. LeadByPlace'
      BY <1>3 DEF IInv, TypeOK, LeadByPlace, Unlooked, Gated, Recheck
  <2>7. QED
      BY <2>1, <2>2, <2>3, <2>4, <2>5, <2>6, <2>8 DEF IInv
<1>10. CASE EnterWait
  <2>1. TypeOK'
      BY <1>10 DEF IInv, TypeOK, Statuses, PoolConserved, EnterWait
  <2>2. PoolConserved'
      BY <1>10 DEF IInv, TypeOK, PoolConserved, EnterWait
  <2>3. RegistersByPlace'
      BY <1>10 DEF IInv, RegistersByPlace, Gated, EnterWait
  <2>4. FramesByPlace'
      BY <1>10 DEF IInv, TypeOK, FramesByPlace, EnterWait
  <2>5. AnswerByPlace'
      BY <1>10 DEF IInv, TypeOK, FramesByPlace, AnswerByPlace, HandedOver, Gated, EnterWait
  <2>6. AnswerHonest'
      BY <1>10 DEF IInv, AnswerByPlace, AnswerHonest, HandedOver, EnterWait
  <2>8. LeadByPlace'
      BY <1>10 DEF IInv, TypeOK, RegistersByPlace, LeadByPlace, Unlooked, Gated, EnterWait
  <2>7. QED
      BY <2>1, <2>2, <2>3, <2>4, <2>5, <2>6, <2>8 DEF IInv
<1>4. CASE Coarse
  <2>1. TypeOK'
    <3>1. prev' \in {0, tsf, prev} /\ status' \in {status, "CLKLOST"}
          /\ pc' \in {pc, "closing", "drop"}
        BY <1>4 DEF Coarse
    <3>2. irq' \in {TRUE, FALSE, irq} /\ relaxed' \in {TRUE, FALSE, relaxed}
        BY <1>4, Zenon DEF Coarse
    <3>3. UNCHANGED <<target, want, held, queued, free, tsf>>
        BY <1>4 DEF Coarse
    <3>4. UNCHANGED <<pending, running, unseen>>
        BY <1>4, Zenon DEF Coarse
    <3>5. 0 \in 0 .. MaxTsf
        OBVIOUS
    <3>6. irq' \in BOOLEAN /\ relaxed' \in BOOLEAN /\ pending' \in BOOLEAN /\ running' \in BOOLEAN
          /\ unseen' \in BOOLEAN
        BY <3>2, <3>4, Zenon DEF IInv, TypeOK
    <3> QED BY <3>1, <3>3, <3>5, <3>6 DEF IInv, TypeOK, Statuses
  <2>2. PoolConserved'
      BY <1>4 DEF IInv, TypeOK, PoolConserved, Coarse, Arrived, WentBack, KeepWaiting
  <2>3. RegistersByPlace'
    <3>1. pc = "coarse" /\ irq /\ ~relaxed /\ target # 0 /\ target' = target
        BY <1>4 DEF IInv, RegistersByPlace, Gated, Coarse
    <3>2. CASE pc' = "closing"
        BY <3>1, <3>2 DEF RegistersByPlace, Gated
    <3>3. CASE pc' # "fire" /\ irq' = irq /\ relaxed' = relaxed
      <4>1. irq' /\ ~relaxed'
          BY <3>1, <3>3, Zenon
      <4>2. Gated'
          BY <3>1 DEF Gated
      <4>3. QED
          BY <4>1, <4>2, Zenon DEF RegistersByPlace
    <3>4. pc' = "closing" \/ (pc' # "fire" /\ irq' = irq /\ relaxed' = relaxed)
      <4>1. CASE Arrived(target - Fine) /\ Goto("closing")
          BY <4>1
      <4>2. CASE Abandon("CLKLOST") /\ UNCHANGED <<irq, relaxed>>
          BY <4>2
      <4>3. CASE UNCHANGED <<pc, irq, relaxed>>
          BY <3>1, <4>3
      <4>4. QED
          BY <1>4, <4>1, <4>2, <4>3 DEF Coarse
    <3>5. QED
        BY <3>2, <3>3, <3>4
  <2>4. FramesByPlace'
      BY <1>4 DEF IInv, TypeOK, FramesByPlace, Coarse, Arrived, WentBack, KeepWaiting
  <2>5. AnswerByPlace'
      BY <1>4 DEF IInv, TypeOK, FramesByPlace, AnswerByPlace, HandedOver, Gated, Coarse, Arrived, WentBack, KeepWaiting
  <2>6. AnswerHonest'
      BY <1>4 DEF IInv, AnswerByPlace, AnswerHonest, HandedOver, Coarse, Arrived, WentBack, KeepWaiting
  <2>8. LeadByPlace'
      BY <1>4 DEF IInv, TypeOK, LeadByPlace, Unlooked, Gated, Coarse, Arrived, WentBack, KeepWaiting
  <2>7. QED
      BY <2>1, <2>2, <2>3, <2>4, <2>5, <2>6, <2>8 DEF IInv
<1>5. CASE FineWait
  <2>1. TypeOK'
    <3>1. prev' \in {0, tsf, prev} /\ status' \in {status, "CLKLOST"}
          /\ pc' \in {pc, "fire", "drop"}
        BY <1>5 DEF FineWait
    <3>2. irq' \in {TRUE, FALSE, irq} /\ relaxed' \in {TRUE, FALSE, relaxed}
        BY <1>5, Zenon DEF FineWait
    <3>3. UNCHANGED <<target, want, held, queued, free, tsf>>
        BY <1>5 DEF FineWait
    <3>4. UNCHANGED <<pending, running, unseen>>
        BY <1>5, Zenon DEF FineWait
    <3>5. 0 \in 0 .. MaxTsf
        OBVIOUS
    <3>6. irq' \in BOOLEAN /\ relaxed' \in BOOLEAN /\ pending' \in BOOLEAN /\ running' \in BOOLEAN
          /\ unseen' \in BOOLEAN
        BY <3>2, <3>4, Zenon DEF IInv, TypeOK
    <3> QED BY <3>1, <3>3, <3>5, <3>6 DEF IInv, TypeOK, Statuses
  <2>2. PoolConserved'
      BY <1>5 DEF IInv, TypeOK, PoolConserved, FineWait, Arrived, WentBack, KeepWaiting
  <2>3. RegistersByPlace'
    <3>1. pc = "fine" /\ target # 0 /\ target' = target
        BY <1>5 DEF IInv, RegistersByPlace, Gated, FineWait
    <3>2. CASE pc' \in {"fire", "fine"}
        BY <3>1, <3>2 DEF RegistersByPlace, Gated
    <3>3. CASE pc' = "drop" /\ irq' = TRUE /\ relaxed' = FALSE
        BY <3>3 DEF RegistersByPlace
    <3>4. pc' \in {"fire", "fine"} \/ (pc' = "drop" /\ irq' = TRUE /\ relaxed' = FALSE)
        BY <1>5, <3>1 DEF FineWait
    <3>5. QED
        BY <3>2, <3>3, <3>4
  <2>4. FramesByPlace'
      BY <1>5 DEF IInv, TypeOK, FramesByPlace, FineWait, Arrived, WentBack, KeepWaiting
  <2>5. AnswerByPlace'
      BY <1>5 DEF IInv, TypeOK, FramesByPlace, AnswerByPlace, HandedOver, Gated, FineWait, Arrived, WentBack, KeepWaiting
  <2>6. AnswerHonest'
      BY <1>5 DEF IInv, AnswerByPlace, AnswerHonest, HandedOver, FineWait, Arrived, WentBack, KeepWaiting
  <2>8. LeadByPlace'
      BY <1>5 DEF IInv, TypeOK, LeadByPlace, Unlooked, Gated, FineWait, Arrived, WentBack, KeepWaiting
  <2>7. QED
      BY <2>1, <2>2, <2>3, <2>4, <2>5, <2>6, <2>8 DEF IInv
<1>6. CASE Fire
  <2>1. TypeOK'
      BY <1>6 DEF IInv, TypeOK, Statuses, PoolConserved, Fire
  <2>2. PoolConserved'
      BY <1>6 DEF IInv, TypeOK, PoolConserved, Fire
  <2>3. RegistersByPlace'
      BY <1>6 DEF IInv, RegistersByPlace, Gated, Fire
  <2>4. FramesByPlace'
      BY <1>6 DEF IInv, TypeOK, FramesByPlace, Fire
  <2>5. AnswerByPlace'
      BY <1>6 DEF IInv, TypeOK, FramesByPlace, AnswerByPlace, HandedOver, Gated, Fire
  <2>6. AnswerHonest'
      BY <1>6 DEF IInv, AnswerByPlace, AnswerHonest, HandedOver, Fire
  <2>8. LeadByPlace'
      BY <1>6 DEF IInv, TypeOK, LeadByPlace, Unlooked, Gated, Fire
  <2>7. QED
      BY <2>1, <2>2, <2>3, <2>4, <2>5, <2>6, <2>8 DEF IInv
<1>7. CASE DrainWait
  <2>1. TypeOK'
      BY <1>7 DEF IInv, TypeOK, Statuses, PoolConserved, DrainWait, Arrived
  <2>2. PoolConserved'
      BY <1>7 DEF IInv, TypeOK, PoolConserved, DrainWait, Arrived
  <2>3. RegistersByPlace'
      BY <1>7 DEF IInv, RegistersByPlace, Gated, DrainWait, Arrived
  <2>4. FramesByPlace'
      BY <1>7 DEF IInv, TypeOK, FramesByPlace, DrainWait, Arrived
  <2>5. AnswerByPlace'
      BY <1>7 DEF IInv, TypeOK, FramesByPlace, AnswerByPlace, HandedOver, Gated, DrainWait, Arrived
  <2>6. AnswerHonest'
      BY <1>7 DEF IInv, AnswerByPlace, AnswerHonest, HandedOver, DrainWait, Arrived
  <2>8. LeadByPlace'
      BY <1>7 DEF IInv, TypeOK, LeadByPlace, Unlooked, Gated, DrainWait, Arrived
  <2>7. QED
      BY <2>1, <2>2, <2>3, <2>4, <2>5, <2>6, <2>8 DEF IInv
<1>8. CASE Drop
  <2>1. TypeOK'
    <3>1. free + held \in 0 .. Pool /\ 0 \in 0 .. Pool
        BY DEF IInv, TypeOK, PoolConserved
    <3>2. unseen' \in BOOLEAN /\ irq' \in BOOLEAN /\ relaxed' \in BOOLEAN /\ pending' \in BOOLEAN
          /\ running' \in BOOLEAN
        BY <1>8, Zenon DEF IInv, TypeOK, Drop
    <3> QED BY <1>8, <3>1, <3>2 DEF IInv, TypeOK, Drop
  <2>2. PoolConserved'
      BY <1>8 DEF IInv, TypeOK, PoolConserved, Drop
  <2>3. RegistersByPlace'
      BY <1>8 DEF IInv, RegistersByPlace, Gated, Drop
  <2>4. FramesByPlace'
      BY <1>8 DEF IInv, TypeOK, FramesByPlace, Drop
  <2>5. AnswerByPlace'
      BY <1>8 DEF IInv, TypeOK, FramesByPlace, AnswerByPlace, HandedOver, Gated, Drop
  <2>6. AnswerHonest'
      BY <1>8 DEF IInv, AnswerByPlace, AnswerHonest, HandedOver, Drop
  <2>8. LeadByPlace'
      BY <1>8 DEF IInv, TypeOK, LeadByPlace, Unlooked, Gated, Drop
  <2>7. QED
      BY <2>1, <2>2, <2>3, <2>4, <2>5, <2>6, <2>8 DEF IInv
<1>9. QED
    BY <1>0, <1>1, <1>2, <1>3, <1>4, <1>5, <1>6, <1>7, <1>8, <1>10 DEF Handler

LEMMA RadioInv ==
    IInv /\ (Transmitted \/ Completion \/ Tick \/ (\E t \in 0 .. MaxTsf : ClockReset(t))
             \/ ClockStops \/ UNCHANGED vars) => IInv'
<1> SUFFICES ASSUME IInv,
                    Transmitted \/ Completion \/ Tick \/ (\E t \in 0 .. MaxTsf : ClockReset(t))
                    \/ ClockStops \/ UNCHANGED vars
             PROVE  IInv'
    OBVIOUS
<1> USE GateAssumption DEF gateVars, queueVars, clockVars, history
<1>1. CASE Transmitted
  <2>1. TypeOK'
      BY <1>1 DEF IInv, TypeOK, Statuses, PoolConserved, Transmitted
  <2>2. PoolConserved'
      BY <1>1 DEF IInv, TypeOK, PoolConserved, Transmitted
  <2>3. RegistersByPlace'
      BY <1>1 DEF IInv, RegistersByPlace, Gated, Transmitted
  <2>4. FramesByPlace'
      BY <1>1 DEF IInv, TypeOK, FramesByPlace, Transmitted
  <2>5. AnswerByPlace'
      BY <1>1 DEF IInv, TypeOK, FramesByPlace, AnswerByPlace, HandedOver, Gated, Transmitted
  <2>6. AnswerHonest'
      BY <1>1 DEF IInv, AnswerByPlace, AnswerHonest, HandedOver, Transmitted
  <2>8. LeadByPlace'
      BY <1>1 DEF IInv, TypeOK, LeadByPlace, Unlooked, Gated, Transmitted
  <2>7. QED
      BY <2>1, <2>2, <2>3, <2>4, <2>5, <2>6, <2>8 DEF IInv
<1>2. CASE Completion
  <2>1. TypeOK'
      BY <1>2 DEF IInv, TypeOK, Statuses, PoolConserved, Completion
  <2>2. PoolConserved'
      BY <1>2 DEF IInv, TypeOK, PoolConserved, Completion
  <2>3. RegistersByPlace'
      BY <1>2 DEF IInv, RegistersByPlace, Gated, Completion
  <2>4. FramesByPlace'
      BY <1>2 DEF IInv, TypeOK, FramesByPlace, Completion
  <2>5. AnswerByPlace'
      BY <1>2 DEF IInv, TypeOK, FramesByPlace, AnswerByPlace, HandedOver, Gated, Completion
  <2>6. AnswerHonest'
      BY <1>2 DEF IInv, AnswerByPlace, AnswerHonest, HandedOver, Completion
  <2>8. LeadByPlace'
      BY <1>2 DEF IInv, TypeOK, LeadByPlace, Unlooked, Gated, Completion
  <2>7. QED
      BY <2>1, <2>2, <2>3, <2>4, <2>5, <2>6, <2>8 DEF IInv
<1>3. CASE Tick
  <2>1. TypeOK'
      BY <1>3 DEF IInv, TypeOK, Statuses, PoolConserved, Tick
  <2>2. PoolConserved'
      BY <1>3 DEF IInv, TypeOK, PoolConserved, Tick
  <2>3. RegistersByPlace'
      BY <1>3 DEF IInv, RegistersByPlace, Gated, Tick
  <2>4. FramesByPlace'
      BY <1>3 DEF IInv, TypeOK, FramesByPlace, Tick
  <2>5. AnswerByPlace'
      BY <1>3 DEF IInv, TypeOK, FramesByPlace, AnswerByPlace, HandedOver, Gated, Tick
  <2>6. AnswerHonest'
      BY <1>3 DEF IInv, AnswerByPlace, AnswerHonest, HandedOver, Tick
  <2>8. LeadByPlace'
      BY <1>3 DEF IInv, TypeOK, LeadByPlace, Unlooked, Gated, Tick
  <2>7. QED
      BY <2>1, <2>2, <2>3, <2>4, <2>5, <2>6, <2>8 DEF IInv
<1>4. CASE \E t \in 0 .. MaxTsf : ClockReset(t)
  <2>1. TypeOK'
      BY <1>4 DEF IInv, TypeOK, Statuses, PoolConserved, ClockReset
  <2>2. PoolConserved'
      BY <1>4 DEF IInv, TypeOK, PoolConserved, ClockReset
  <2>3. RegistersByPlace'
      BY <1>4 DEF IInv, RegistersByPlace, Gated, ClockReset
  <2>4. FramesByPlace'
      BY <1>4 DEF IInv, TypeOK, FramesByPlace, ClockReset
  <2>5. AnswerByPlace'
      BY <1>4 DEF IInv, TypeOK, FramesByPlace, AnswerByPlace, HandedOver, Gated, ClockReset
  <2>6. AnswerHonest'
      BY <1>4 DEF IInv, AnswerByPlace, AnswerHonest, HandedOver, ClockReset
  <2>8. LeadByPlace'
      BY <1>4 DEF IInv, TypeOK, LeadByPlace, Unlooked, Gated, ClockReset
  <2>7. QED
      BY <2>1, <2>2, <2>3, <2>4, <2>5, <2>6, <2>8 DEF IInv
<1>5. CASE ClockStops
  <2>1. TypeOK'
      BY <1>5 DEF IInv, TypeOK, Statuses, PoolConserved, ClockStops
  <2>2. PoolConserved'
      BY <1>5 DEF IInv, TypeOK, PoolConserved, ClockStops
  <2>3. RegistersByPlace'
      BY <1>5 DEF IInv, RegistersByPlace, Gated, ClockStops
  <2>4. FramesByPlace'
      BY <1>5 DEF IInv, TypeOK, FramesByPlace, ClockStops
  <2>5. AnswerByPlace'
      BY <1>5 DEF IInv, TypeOK, FramesByPlace, AnswerByPlace, HandedOver, Gated, ClockStops
  <2>6. AnswerHonest'
      BY <1>5 DEF IInv, AnswerByPlace, AnswerHonest, HandedOver, ClockStops
  <2>8. LeadByPlace'
      BY <1>5 DEF IInv, TypeOK, LeadByPlace, Unlooked, Gated, ClockStops
  <2>7. QED
      BY <2>1, <2>2, <2>3, <2>4, <2>5, <2>6, <2>8 DEF IInv
<1>6. CASE UNCHANGED vars
  <2>1. TypeOK'
      BY <1>6 DEF IInv, TypeOK, Statuses, PoolConserved, vars
  <2>2. PoolConserved'
      BY <1>6 DEF IInv, TypeOK, PoolConserved, vars
  <2>3. RegistersByPlace'
      BY <1>6 DEF IInv, RegistersByPlace, Gated, vars
  <2>4. FramesByPlace'
      BY <1>6 DEF IInv, TypeOK, FramesByPlace, vars
  <2>5. AnswerByPlace'
      BY <1>6 DEF IInv, TypeOK, FramesByPlace, AnswerByPlace, HandedOver, Gated, vars
  <2>6. AnswerHonest'
      BY <1>6 DEF IInv, AnswerByPlace, AnswerHonest, HandedOver, vars
  <2>8. LeadByPlace'
      BY <1>6 DEF IInv, TypeOK, LeadByPlace, Unlooked, Gated, vars
  <2>7. QED
      BY <2>1, <2>2, <2>3, <2>4, <2>5, <2>6, <2>8 DEF IInv
<1>7. QED
    BY <1>1, <1>2, <1>3, <1>4, <1>5, <1>6

\* The inductive invariant of the gate.
THEOREM GateInductive == Spec => []IInv
<1>1. IInv /\ [Next]_vars => IInv'
    BY TriggerInv, HandlerInv, RadioInv DEF Next
<1>2. QED
    BY InitInv, <1>1, PTL DEF Spec

\* Every variable keeps its type: readings of the clock within its range, and
\* no more buffers anywhere than the pool has.
THEOREM GateTypeCorrect == Spec => []TypeOK
BY GateInductive, PTL DEF IInv

\* Whichever way the handler leaves, interrupts and medium access are restored
\* and no frame is left in its hands.
THEOREM RadioRestoredHolds == Spec => []RadioRestored
<1>1. IInv => RadioRestored
    BY DEF IInv, RegistersByPlace, FramesByPlace, RadioRestored
<1>2. QED
    BY GateInductive, <1>1, PTL

\* No buffer is lost and none is freed twice, however many shots are refused,
\* abandoned or left stuck in the queue.
THEOREM PoolConservedHolds == Spec => []PoolConserved
BY GateInductive, PTL DEF IInv

\* The answer says what happened: a shot reported refused or abandoned was
\* never handed over, one reported FIRED went at its instant and alone.
THEOREM AnswerHonestHolds == Spec => []AnswerHonest
BY GateInductive, PTL DEF IInv

\* A wait whose trigger saw no reset while no wait looked is for an instant
\* within the lead, or for one the next reading gives up: what a wait's last
\* reading says is kept through every reset after it.
THEOREM LeadKeptHolds == Spec => []LeadKept
<1>1. IInv => LeadKept
    BY GateAssumption DEF IInv, TypeOK, LeadByPlace, LeadKept
<1>2. QED
    BY GateInductive, <1>1, PTL
=============================================================================
