---------------------------- MODULE ApAgentProofs ----------------------------
(***************************************************************************)
(* What a transmitter's agent promises about rounds, for any set of        *)
(* rounds, shots and memory, whatever fails and whenever the process dies. *)
(*                                                                         *)
(* The argument: a round is in the record exactly while it is in the       *)
(* record's order, so what is pushed out is never the round just entered;  *)
(* what is not in the record has nothing on air to be repeated; and while  *)
(* a round fires, its outcomes so far agree with what went on air and the  *)
(* shots to come have not.                                                 *)
(***************************************************************************)
EXTENDS ApAgent, SequenceTheorems, TLAPS

TypesHold ==
    /\ inbox \in Seq(Commands)
    /\ batches \in [Keys -> Entries]
    /\ batchOrder \in Seq(Keys)
    /\ job \in Jobs \cup {NoJob}
    /\ log \in Seq(Gate)
    /\ onAir \in [Keys -> [1 .. Shots -> Nat]]

\* A round that is not known has left no trace, one in progress no answer.
NoTrace ==
    \A k \in Keys :
        /\ batches[k].state = "unknown" => batches[k] = Absent /\ onAir[k] = Silence
        /\ batches[k].state = "firing" => batches[k].status = Empty

\* The outcomes of the round being fired agree with what it put on air.
SoFarHonest ==
    job.active =>
        /\ Len(job.shots) <= Shots
        /\ \A s \in 1 .. Len(job.shots) :
              /\ job.shots[s] \in {"FIRED", "DRAIN"} => onAir[job.key][s] = 1
              /\ job.shots[s] \in {"REFUSED", "SKIPPED"} => onAir[job.key][s] = 0
        /\ ~job.failed => \A s \in 1 .. Shots : s > Len(job.shots) => onAir[job.key][s] = 0

\* The radio is found to be lost by a shot of the round, never before it.
LostByAShot == job.active /\ wedged => Len(job.shots) > 0

IInv == TypesHold /\ RecordInStep /\ NoTrace /\ SoFarHonest /\ LostByAShot

Step == [Promise!Next]_(Promise!promise)

\* What the abstract round's state is made of.
Same == UNCHANGED <<batches, onAir>>

LEMMA JobFields ==
    ASSUME TypesHold, job.active
    PROVE  /\ job \in Jobs /\ job.key \in Keys /\ job.shots \in Seq(Outcomes)
           /\ job.failed \in BOOLEAN /\ Len(job.shots) \in Nat
<1>1. job \in Jobs
    BY DEF TypesHold, NoJob
<1>2. job.key \in Keys /\ job.shots \in Seq(Outcomes)
      /\ job.failed \in BOOLEAN
    BY <1>1 DEF Jobs
<1> QED BY <1>1, <1>2, LenProperties

LEMMA EntryTypes ==
    /\ Empty \in Statuses /\ WedgedAnswer \in Statuses
    /\ Absent \in Entries /\ InProgress \in Entries
    /\ \A st \in Statuses : Done(st) \in Entries /\ Done(st).state = "answered"
                            /\ Done(st).status = st
    /\ Absent.state = "unknown" /\ Absent.status = Empty
    /\ InProgress.state = "firing" /\ InProgress.status = Empty
    /\ Silence \in [1 .. Shots -> Nat]
<1>1. <<>> \in Seq(Outcomes)
    BY EmptySeq
<1>2. Empty \in Statuses /\ WedgedAnswer \in Statuses
    BY <1>1 DEF Empty, WedgedAnswer, Statuses
<1>3. Silence \in [1 .. Shots -> Nat]
    BY DEF Silence
<1> QED BY <1>2, <1>3 DEF Absent, InProgress, Done, Entries

LEMMA SameIsStep == Same => Step
BY DEF Same, Step, Promise!promise

---------------------------------------------------------------------------
(* Entering a round in the record.                                         *)

LEMMA Entering ==
    ASSUME TypesHold, RecordInStep, NEW k \in Keys, NEW e \in Entries,
           batches[k].state = "unknown", Remember(k, e)
    PROVE  \E K \in SUBSET Keys :
              /\ k \notin K
              /\ batches' = [j \in Keys |-> IF j = k THEN e
                                            ELSE IF j \in K THEN Absent ELSE batches[j]]
              /\ onAir' = [j \in Keys |-> IF j \in K THEN Silence ELSE onAir[j]]
              /\ batchOrder' \in Seq(Keys) /\ IsInjective(batchOrder')
              /\ Len(batchOrder') <= Memory
              /\ \A j \in Keys : j \in Range(batchOrder')
                                   <=> j = k \/ (j \in Range(batchOrder) /\ j \notin K)
<1> DEFINE order == Append(batchOrder, k)
           n == Len(batchOrder)
           first == IF Len(order) > Memory THEN Len(order) - Memory + 1 ELSE 1
           gone == {order[i] : i \in 1 .. first - 1}
<1> USE ApAssumption
<1>1. /\ batchOrder \in Seq(Keys) /\ n \in Nat /\ n <= Memory
      /\ DOMAIN batchOrder = 1 .. n /\ IsInjective(batchOrder)
    BY LenProperties DEF TypesHold, RecordInStep
<1>2. /\ order \in Seq(Keys) /\ Len(order) = n + 1 /\ order[n + 1] = k
      /\ \A i \in 1 .. n : order[i] = batchOrder[i]
    BY <1>1, AppendProperties
<1>3. \A i \in 1 .. n + 1 : order[i] \in Keys
    BY <1>2, ElementOfSeq
<1>4. k \notin Range(batchOrder)
    BY DEF RecordInStep
<1>5. \A i \in 1 .. n : order[i] # k
    BY <1>1, <1>2, <1>4 DEF Range
<1>6. \A i, j \in 1 .. n + 1 : order[i] = order[j] => i = j
    <2> SUFFICES ASSUME NEW i \in 1 .. n + 1, NEW j \in 1 .. n + 1, order[i] = order[j]
                 PROVE  i = j
        OBVIOUS
    <2>1. CASE i \in 1 .. n /\ j \in 1 .. n
        BY <1>1, <1>2, <2>1 DEF IsInjective
    <2>2. CASE ~(i \in 1 .. n /\ j \in 1 .. n)
        BY <1>1, <1>2, <1>5, <2>2
    <2> QED BY <2>1, <2>2
<1>7. first \in 1 .. n + 1 /\ first \in {1, 2} /\ n + 1 - first + 1 <= Memory /\ Len(order) - first + 1 = n + 1 - first + 1
    BY <1>1, <1>2
<1>8. /\ batchOrder' = SubSeq(order, first, n + 1)
      /\ batches' = [j \in Keys |-> IF j = k THEN e ELSE IF j \in gone THEN Absent ELSE batches[j]]
      /\ onAir' = [j \in Keys |-> IF j \in gone THEN Silence ELSE onAir[j]]
    BY <1>2 DEF Remember
<1> HIDE DEF order, n, first
<1>9. n \in Nat /\ first \in Nat
    BY <1>1, <1>7
<1>10. /\ batchOrder' \in Seq(Keys) /\ Len(batchOrder') = n + 1 - first + 1
       /\ \A i \in 1 .. n + 1 - first + 1 : batchOrder'[i] = order[first + i - 1]
    <2>1. CASE first = 1
        <3>1. batchOrder' = order
            BY <1>2, <1>8, <2>1, SubSeqFull
        <3> QED BY <1>2, <1>9, <2>1, <3>1
    <2>2. CASE first = 2
        <3>1. order # <<>>
            BY <1>2, <1>9, EmptySeq
        <3>2. batchOrder' = Tail(order)
            BY <1>2, <1>8, <2>2, <3>1, TailIsSubSeq
        <3>3. /\ Tail(order) \in Seq(Keys) /\ Len(Tail(order)) = n
              /\ \A i \in 1 .. n : Tail(order)[i] = order[i + 1]
            BY <1>2, <1>9, <3>1, HeadTailProperties
        <3> QED BY <1>9, <2>2, <3>2, <3>3
    <2> QED BY <1>7, <2>1, <2>2
<1>11. DOMAIN batchOrder' = 1 .. n + 1 - first + 1
    BY <1>10, LenProperties
<1>12. IsInjective(batchOrder')
    <2> SUFFICES ASSUME NEW i \in 1 .. n + 1 - first + 1, NEW j \in 1 .. n + 1 - first + 1,
                        batchOrder'[i] = batchOrder'[j]
                 PROVE  i = j
        BY <1>11 DEF IsInjective
    <2>1. first + i - 1 \in 1 .. n + 1 /\ first + j - 1 \in 1 .. n + 1
        BY <1>7, <1>9
    <2>2. order[first + i - 1] = order[first + j - 1]
        BY <1>10
    <2>3. first + i - 1 = first + j - 1
        BY <1>6, <2>1, <2>2
    <2> QED BY <1>9, <2>3
<1>13. gone \in SUBSET Keys /\ k \notin gone
    <2>1. \A i \in 1 .. first - 1 : i \in 1 .. n
        BY <1>7, <1>9
    <2> QED BY <1>3, <1>5, <1>9, <2>1
<1>14. \A j \in Keys : j \in Range(batchOrder') <=> \E i \in first .. n + 1 : j = order[i]
    <2>1. \A i \in first .. n + 1 : /\ i - first + 1 \in 1 .. n + 1 - first + 1
                                    /\ first + (i - first + 1) - 1 = i
        BY <1>7, <1>9
    <2>2. \A i \in 1 .. n + 1 - first + 1 : first + i - 1 \in first .. n + 1
        BY <1>7, <1>9
    <2>3. \A i \in first .. n + 1 : batchOrder'[i - first + 1] = order[i]
        BY <1>10, <2>1
    <2>4. \A j : j \in Range(batchOrder') <=> \E i \in 1 .. n + 1 - first + 1 : j = batchOrder'[i]
        BY <1>11 DEF Range
    <2> QED BY <1>10, <2>1, <2>2, <2>3, <2>4
<1>15. \A j \in Keys : j \in Range(batchOrder) <=> \E i \in 1 .. n : j = order[i]
    BY <1>1, <1>2 DEF Range
<1>16. \A j \in Keys : j \in Range(batchOrder')
                          <=> j = k \/ (j \in Range(batchOrder) /\ j \notin gone)
    <2> SUFFICES ASSUME NEW j \in Keys
                 PROVE  j \in Range(batchOrder')
                          <=> j = k \/ (j \in Range(batchOrder) /\ j \notin gone)
        OBVIOUS
    <2>1. ASSUME NEW i \in first .. n + 1, j = order[i]
          PROVE  j = k \/ (j \in Range(batchOrder) /\ j \notin gone)
        <3>1. i \in 1 .. n + 1 /\ (i = n + 1 \/ i \in 1 .. n)
            BY <1>7, <1>9
        <3>2. \A m \in 1 .. first - 1 : m \in 1 .. n + 1 /\ m # i
            BY <1>7, <1>9
        <3>3. j \notin gone
            BY <1>6, <2>1, <3>1, <3>2
        <3> QED BY <1>2, <1>15, <2>1, <3>1, <3>3
    <2>2. ASSUME j = k
          PROVE  \E i \in first .. n + 1 : j = order[i]
        <3>1. n + 1 \in first .. n + 1
            BY <1>7, <1>9
        <3> QED BY <1>2, <2>2, <3>1
    <2>3. ASSUME j \in Range(batchOrder), j \notin gone
          PROVE  \E i \in first .. n + 1 : j = order[i]
        <3>1. PICK i \in 1 .. n : j = order[i]
            BY <1>15, <2>3
        <3>2. i \notin 1 .. first - 1
            BY <2>3, <3>1
        <3>3. i \in first .. n + 1
            BY <1>7, <1>9, <3>2
        <3> QED BY <3>1, <3>3
    <2> QED BY <1>14, <2>1, <2>2, <2>3
<1>17. Len(batchOrder') <= Memory
    BY <1>7, <1>10
<1> HIDE DEF gone
<1> QED BY <1>8, <1>10, <1>12, <1>13, <1>16, <1>17

---------------------------------------------------------------------------
(* The actions.                                                            *)

\* What a broken connection leaves of the commands waiting.
LEMMA Prefix ==
    ASSUME NEW S, NEW q \in Seq(S), NEW n \in 0 .. Len(q)
    PROVE  SubSeq(q, 1, n) \in Seq(S)
<1>1. \A i \in 1 .. n : q[i] \in S
    BY ElementOfSeq, LenProperties
<1> QED BY <1>1, LenProperties, SubSeqProperties

\* Nothing of a round changes.
LEMMA QuietSteps ==
    ASSUME IInv, (\E c \in Commands : Send(c)) \/ Repeat \/ Start \/ Break \/ Redial
    PROVE  IInv' /\ Step
<1>1. UNCHANGED <<batches, batchOrder, job, wedged, onAir>>
    BY DEF Send, Repeat, Start, Break, Redial
<1>2. inbox' \in Seq(Commands)
    <2>1. inbox \in Seq(Commands)
        BY DEF IInv, TypesHold
    <2>2. CASE inbox' = inbox
        BY <2>1, <2>2
    <2>3. CASE \E c \in Commands : inbox' = Append(inbox, c)
        BY <2>1, <2>3, AppendProperties
    <2>4. CASE inbox # <<>> /\ inbox' = Tail(inbox)
        BY <2>1, <2>4, HeadTailProperties
    <2>5. CASE \E n \in 0 .. Len(inbox) : inbox' = SubSeq(inbox, 1, n)
        BY <2>1, <2>5, Prefix
    <2> QED BY <2>2, <2>3, <2>4, <2>5 DEF Send, Repeat, Idle, Start, Break, Redial
<1>3. log' \in Seq(Gate)
    <2>1. log' \in {log, <<>>}
        BY DEF Send, Repeat, Start, Break, Redial
    <2> QED BY <2>1, EmptySeq DEF IInv, TypesHold
<1>4. IInv'
    BY <1>1, <1>2, <1>3 DEF IInv, TypesHold, RecordInStep, NoTrace, SoFarHonest, LostByAShot
<1> QED BY <1>1, <1>4, SameIsStep DEF Same

\* A command that is taken up.
LEMMA TakenUp ==
    ASSUME TypesHold, NEW op \in {"fire", "reset"}, Idle(op)
    PROVE  /\ ~job.active /\ inbox' \in Seq(Commands)
           /\ op = "fire" => Head(inbox).key \in Keys
<1>1. inbox # <<>> /\ inbox \in Seq(Commands) /\ inbox' = Tail(inbox) /\ Head(inbox).op = op
    BY DEF Idle, TypesHold
<1>2. Head(inbox) \in Commands /\ Tail(inbox) \in Seq(Commands)
    BY <1>1, HeadTailProperties
<1>3. op = "fire" => Head(inbox).key \in Keys
    BY <1>1, <1>2 DEF Commands
<1> QED BY <1>1, <1>2, <1>3 DEF Idle

LEMMA RefuseWedgedSteps == IInv /\ RefuseWedged => IInv' /\ Step
<1> SUFFICES ASSUME IInv, RefuseWedged PROVE IInv' /\ Step
    OBVIOUS
<1> DEFINE k == Head(inbox).key  e == Done(WedgedAnswer)
<1>1. /\ k \in Keys /\ ~job.active /\ inbox' \in Seq(Commands) /\ batches[k].state = "unknown"
      /\ Remember(k, e) /\ UNCHANGED <<job, wedged, log>>
    BY TakenUp DEF RefuseWedged, IInv
<1>2. e \in Entries /\ e.state = "answered" /\ e.status = WedgedAnswer
    BY EntryTypes
<1>3. TypesHold /\ RecordInStep
    BY DEF IInv
<1> HIDE DEF k, e
<1>4. PICK K \in SUBSET Keys :
         /\ k \notin K
         /\ batches' = [j \in Keys |-> IF j = k THEN e
                                       ELSE IF j \in K THEN Absent ELSE batches[j]]
         /\ onAir' = [j \in Keys |-> IF j \in K THEN Silence ELSE onAir[j]]
         /\ batchOrder' \in Seq(Keys) /\ IsInjective(batchOrder')
         /\ Len(batchOrder') <= Memory
         /\ \A j \in Keys : j \in Range(batchOrder')
                              <=> j = k \/ (j \in Range(batchOrder) /\ j \notin K)
    BY <1>1, <1>2, <1>3, Entering
<1>5. TypesHold'
    BY <1>1, <1>2, <1>3, <1>4, EntryTypes DEF TypesHold
<1>6. RecordInStep'
    BY <1>1, <1>2, <1>3, <1>4, EntryTypes DEF RecordInStep
<1>7. NoTrace'
    BY <1>1, <1>2, <1>4, EntryTypes DEF IInv, NoTrace
<1>8. SoFarHonest' /\ LostByAShot'
    BY <1>1 DEF SoFarHonest, LostByAShot
<1>9. Promise!Next
    <2> DEFINE v == ([j \in Keys |-> batches[j].status])'[k]
    <2>1. v = WedgedAnswer /\ v.shots = <<>> /\ v.error # "none"
        BY <1>1, <1>2, <1>4 DEF WedgedAnswer
    <2>2. Empty = Promise!NoVerdict /\ Silence = Promise!Silence
        BY DEF Empty, Promise!NoVerdict, Silence, Promise!Silence
    <2>3. /\ \A j \in Keys : batches'[j].state =
                IF j = k THEN "answered" ELSE IF j \in K THEN "unknown" ELSE batches[j].state
          /\ \A j \in Keys : batches'[j].status =
                IF j = k THEN v ELSE IF j \in K THEN Empty ELSE batches[j].status
        BY <1>2, <1>4, <2>1, EntryTypes
    <2>4. Promise!Refuse(k, K, v)
        <3> HIDE DEF v
        <3> QED BY <1>1, <1>4, <2>1, <2>2, <2>3 DEF Promise!Refuse
    <2> QED BY <1>1, <2>4 DEF Promise!Next, Promise!Refuse
<1> QED BY <1>5, <1>6, <1>7, <1>8, <1>9 DEF IInv, Step

LEMMA BeginSteps == IInv /\ Begin => IInv' /\ Step
<1> SUFFICES ASSUME IInv, Begin PROVE IInv' /\ Step
    OBVIOUS
<1> DEFINE k == Head(inbox).key
<1>1. /\ k \in Keys /\ ~job.active /\ inbox' \in Seq(Commands) /\ batches[k].state = "unknown"
      /\ Remember(k, InProgress) /\ ~wedged /\ UNCHANGED <<wedged, log>>
      /\ job' = NewJob(k)
    BY TakenUp DEF Begin, IInv
<1>2. TypesHold /\ RecordInStep
    BY DEF IInv
<1> HIDE DEF k
<1>3. /\ job' \in Jobs /\ job'.active /\ job'.key = k /\ job'.shots = <<>> /\ ~job'.failed
      /\ Len(job'.shots) = 0
    <2>1. <<>> \in Seq(Outcomes) /\ Len(<<>>) = 0
        BY EmptySeq
    <2> QED BY <1>1, <2>1 DEF NewJob, Jobs
<1>4. PICK K \in SUBSET Keys :
         /\ k \notin K
         /\ batches' = [j \in Keys |-> IF j = k THEN InProgress
                                       ELSE IF j \in K THEN Absent ELSE batches[j]]
         /\ onAir' = [j \in Keys |-> IF j \in K THEN Silence ELSE onAir[j]]
         /\ batchOrder' \in Seq(Keys) /\ IsInjective(batchOrder')
         /\ Len(batchOrder') <= Memory
         /\ \A j \in Keys : j \in Range(batchOrder')
                              <=> j = k \/ (j \in Range(batchOrder) /\ j \notin K)
    BY <1>1, <1>2, Entering, EntryTypes
<1>5. TypesHold'
    BY <1>1, <1>2, <1>3, <1>4, EntryTypes DEF TypesHold
<1>6. RecordInStep'
    BY <1>1, <1>2, <1>3, <1>4, EntryTypes DEF RecordInStep
<1>7. NoTrace'
    BY <1>1, <1>4, EntryTypes DEF IInv, NoTrace
<1>8. onAir'[k] = Silence /\ batches[k].status = Empty
    BY <1>1, <1>4, EntryTypes DEF IInv, NoTrace
<1>9. SoFarHonest' /\ LostByAShot'
    BY <1>1, <1>3, <1>8, ApAssumption DEF SoFarHonest, LostByAShot, Silence
<1>10. Promise!Begin(k, K)
    <2>1. Empty = Promise!NoVerdict /\ Silence = Promise!Silence
        BY DEF Empty, Promise!NoVerdict, Silence, Promise!Silence
    <2>2. /\ \A j \in Keys : batches'[j].state =
                IF j = k THEN "firing" ELSE IF j \in K THEN "unknown" ELSE batches[j].state
          /\ \A j \in Keys : batches'[j].status = IF j \in K THEN Empty ELSE batches[j].status
        BY <1>4, <1>8, EntryTypes
    <2> QED BY <1>1, <1>4, <2>1, <2>2 DEF Promise!Begin
<1>11. Step
    BY <1>1, <1>10 DEF Step, Promise!Next
<1> QED BY <1>5, <1>6, <1>7, <1>9, <1>11 DEF IInv

\* Everything is forgotten: a reset, or the end of the process.
LEMMA ForgettingSteps == IInv /\ (Reset \/ Die) => IInv' /\ Step
<1> SUFFICES ASSUME IInv, Reset \/ Die PROVE IInv' /\ Step
    OBVIOUS
<1> USE ApAssumption
<1>1. /\ batches' = NothingKnown /\ batchOrder' = <<>> /\ onAir' = NothingOnAir
      /\ ~job'.active /\ job' \in Jobs \cup {NoJob} /\ log' \in Seq(Gate)
      /\ inbox' \in Seq(Commands)
    <2>1. <<>> \in Seq(Gate) /\ <<>> \in Seq(Commands)
        BY EmptySeq
    <2>2. CASE Reset
        BY <2>2, TakenUp DEF Reset, IInv, TypesHold
    <2>3. CASE Die
        <3>1. log \in Seq(Gate) /\ (log' = log \/ \E o \in Gate : log' = Append(log, o))
            BY <2>3 DEF Die, IInv, TypesHold
        <3>2. log' \in Seq(Gate)
            BY <3>1, AppendProperties
        <3> QED BY <2>1, <2>3, <3>2 DEF Die, NoJob
    <2> QED BY <2>2, <2>3
<1>2. /\ \A j \in Keys : batches'[j] = Absent /\ onAir'[j] = Silence
      /\ batches' \in [Keys -> Entries] /\ onAir' \in [Keys -> [1 .. Shots -> Nat]]
    BY <1>1, EntryTypes DEF NothingKnown, NothingOnAir
<1>3. <<>> \in Seq(Keys) /\ Len(<<>>) = 0 /\ DOMAIN <<>> = {}
    BY EmptySeq
<1>4. TypesHold' /\ NoTrace' /\ SoFarHonest' /\ LostByAShot'
    BY <1>1, <1>2, <1>3, EntryTypes DEF TypesHold, NoTrace, SoFarHonest, LostByAShot
<1>5. RecordInStep'
    BY <1>1, <1>2, <1>3, EntryTypes DEF RecordInStep, IsInjective, Range
<1>6. Promise!Forget(Keys)
    <2>1. Empty = Promise!NoVerdict /\ Silence = Promise!Silence
        BY DEF Empty, Promise!NoVerdict, Silence, Promise!Silence
    <2> QED BY <1>1, <1>2, <2>1, EntryTypes DEF Promise!Forget, NothingOnAir
<1>7. Step
    BY <1>6 DEF Step, Promise!Next
<1> QED BY <1>4, <1>5, <1>7 DEF IInv

\* What is on air after the shot next in turn.
WithShot(air) ==
    IF air THEN [onAir EXCEPT ![job.key][Len(job.shots) + 1] = @ + 1] ELSE onAir

\* A shot with outcome o, put on air or not.
LEMMA ShotSteps ==
    ASSUME IInv, MoreShots, NEW o \in Outcomes, NEW air \in BOOLEAN,
           job' = [job EXCEPT !.shots = Append(@, o)],
           onAir' = WithShot(air),
           o \in {"FIRED", "DRAIN"} => air, o \in {"REFUSED", "SKIPPED"} => ~air,
           UNCHANGED <<inbox, batches, batchOrder>>, log' \in Seq(Gate)
    PROVE  IInv' /\ Step
<1> DEFINE k == job.key  n == Len(job.shots)
<1>1. TypesHold /\ job.active /\ ~job.failed /\ n < Shots /\ Shots \in Nat
    BY ApAssumption DEF IInv, MoreShots, Firing
<1>2. job \in Jobs /\ k \in Keys /\ n \in Nat /\ job.shots \in Seq(Outcomes)
    BY <1>1, JobFields
<1>3. /\ job' \in Jobs /\ job'.active /\ job'.key = k /\ job'.failed = job.failed
      /\ job'.shots = Append(job.shots, o)
    <2>1. Append(job.shots, o) \in Seq(Outcomes)
        BY <1>2, AppendProperties
    <2> QED BY <1>2, <2>1 DEF Jobs
<1>4. /\ Len(job'.shots) = n + 1 /\ job'.shots[n + 1] = o
      /\ \A s \in 1 .. n : job'.shots[s] = job.shots[s]
    BY <1>2, <1>3, AppendProperties
<1>5. n + 1 \in 1 .. Shots /\ onAir[k][n + 1] = 0
    BY <1>1, <1>2 DEF IInv, SoFarHonest
<1>6. onAir \in [Keys -> [1 .. Shots -> Nat]]
    BY <1>1 DEF TypesHold
<1> HIDE DEF k, n
<1>7. onAir' = IF air THEN [onAir EXCEPT ![k] = [onAir[k] EXCEPT ![n + 1] = 1]] ELSE onAir
    BY <1>5 DEF k, n, WithShot
<1>8. /\ onAir' \in [Keys -> [1 .. Shots -> Nat]]
      /\ \A s \in 1 .. Shots : s # n + 1 => onAir'[k][s] = onAir[k][s]
      /\ onAir'[k][n + 1] = IF air THEN 1 ELSE 0
      /\ \A j \in Keys : j # k => onAir'[j] = onAir[j]
    <2> DEFINE row == [onAir[k] EXCEPT ![n + 1] = 1]
    <2>1. onAir[k] \in [1 .. Shots -> Nat]
        BY <1>2, <1>6
    <2>2. /\ row \in [1 .. Shots -> Nat] /\ row[n + 1] = 1
          /\ \A s \in 1 .. Shots : s # n + 1 => row[s] = onAir[k][s]
        BY <1>5, <2>1
    <2>3. CASE air
        <3>1. onAir' = [onAir EXCEPT ![k] = row]
            BY <1>7, <2>3
        <3> HIDE DEF row
        <3> QED BY <1>2, <1>6, <2>2, <2>3, <3>1
    <2>4. CASE ~air
        BY <1>5, <1>6, <1>7, <2>4
    <2> QED BY <2>3, <2>4
<1>9. TypesHold'
    BY <1>1, <1>3, <1>8 DEF TypesHold
<1>10. RecordInStep'
    BY <1>1, <1>3 DEF IInv, RecordInStep, k
<1>11. NoTrace'
    <2>1. batches[k].state = "firing"
        BY <1>1, <1>2 DEF IInv, RecordInStep, k
    <2> QED BY <1>8, <2>1 DEF IInv, NoTrace
<1>12. SoFarHonest'
    <2>1. ASSUME NEW s \in 1 .. n + 1
          PROVE  /\ job'.shots[s] \in {"FIRED", "DRAIN"} => onAir'[k][s] = 1
                 /\ job'.shots[s] \in {"REFUSED", "SKIPPED"} => onAir'[k][s] = 0
        <3>1. CASE s = n + 1
            BY <1>4, <1>8, <3>1
        <3>2. CASE s # n + 1
            <4>1. s \in 1 .. n /\ s \in 1 .. Shots
                BY <1>1, <1>2, <3>2
            <4>2. /\ job.shots[s] \in {"FIRED", "DRAIN"} => onAir[k][s] = 1
                  /\ job.shots[s] \in {"REFUSED", "SKIPPED"} => onAir[k][s] = 0
                BY <1>1, <4>1 DEF IInv, SoFarHonest, k, n
            <4> QED BY <1>4, <1>8, <3>2, <4>1, <4>2
        <3> QED BY <3>1, <3>2
    <2>2. ASSUME NEW s \in 1 .. Shots, s > n + 1
          PROVE  onAir'[k][s] = 0
        <3>1. s > n /\ s # n + 1
            BY <1>2, <2>2
        <3>2. onAir[k][s] = 0
            BY <1>1, <3>1 DEF IInv, SoFarHonest, k, n
        <3> QED BY <1>8, <3>1, <3>2
    <2> QED BY <1>2, <1>3, <1>4, <1>5, <2>1, <2>2 DEF SoFarHonest
<1>13. LostByAShot'
    BY <1>2, <1>4 DEF LostByAShot
<1>14. Step
    <2>1. CASE ~air
        BY <1>7, <2>1, SameIsStep DEF Same
    <2>2. CASE air
        <3>1. batches[k].state = "firing"
            BY <1>1, <1>2 DEF IInv, RecordInStep, k
        <3>2. onAir' = [onAir EXCEPT ![k][n + 1] = 1]
            BY <1>7, <2>2
        <3>3. Promise!Transmit(k, n + 1)
            BY <1>2, <1>5, <3>1, <3>2 DEF Promise!Transmit
        <3> QED BY <1>2, <1>5, <3>3 DEF Step, Promise!Next
    <2> QED BY <2>1, <2>2
<1> QED BY <1>9, <1>10, <1>11, <1>12, <1>13 , <1>14 DEF IInv

\* Whether an outcome of the gate puts the shot on air.
LEMMA AiredShots ==
    ASSUME NEW o \in Gate, Aired(o)
    PROVE  \E air \in BOOLEAN :
              /\ onAir' = WithShot(air)
              /\ air <=> o \in {"FIRED", "DRAIN"}
<1>1. CASE o \in {"FIRED", "DRAIN"}
    <2> WITNESS TRUE \in BOOLEAN
    <2> QED BY <1>1 DEF Aired, WithShot
<1>2. CASE o \notin {"FIRED", "DRAIN"}
    <2> WITNESS FALSE \in BOOLEAN
    <2> QED BY <1>2 DEF Aired, WithShot
<1> QED BY <1>1, <1>2

LEMMA FiringSteps ==
    ASSUME IInv,
           Skip \/ (\E o \in Gate : Shot(o) \/ ShotOverrun(o) \/ WriteFails(o))
    PROVE  IInv' /\ Step
<1>a. <<>> \in Seq(Gate) /\ log \in Seq(Gate)
    BY EmptySeq DEF IInv, TypesHold
<1>1. CASE Skip
    <2>1. "SKIPPED" \in Outcomes
        BY DEF Outcomes
    <2>2. /\ MoreShots /\ job' = [job EXCEPT !.shots = Append(@, "SKIPPED")]
          /\ onAir' = WithShot(FALSE)
          /\ UNCHANGED <<inbox, batches, batchOrder>> /\ log' \in Seq(Gate)
        BY <1>1, <1>a DEF Skip, Outcome, WithShot
    <2> QED BY <2>1, <2>2, ShotSteps
<1>2. CASE \E o \in Gate : Shot(o) \/ ShotOverrun(o) \/ WriteFails(o)
    <2>1. PICK o \in Gate : Shot(o) \/ ShotOverrun(o) \/ WriteFails(o)
        BY <1>2
    <2>2. /\ MoreShots /\ Aired(o)
          /\ UNCHANGED <<inbox, batches, batchOrder>> /\ log' \in Seq(Gate)
        BY <1>a, <2>1 DEF Shot, ShotOverrun, WriteFails
    <2>3. PICK air \in BOOLEAN :
              /\ onAir' = WithShot(air)
              /\ air <=> o \in {"FIRED", "DRAIN"}
        BY <2>2, AiredShots
    <2>4. Last(Append(log, o)) = o
        BY <1>a, AppendProperties DEF Last
    <2>5. job' = [job EXCEPT !.shots = Append(@, o)]
          \/ job' = [job EXCEPT !.shots = Append(@, "UNKNOWN")]
        BY <2>1, <2>4 DEF Shot, ShotOverrun, WriteFails, Outcome
    <2>6. o \in Outcomes /\ "UNKNOWN" \in Outcomes
        BY DEF Outcomes
    <2>7. (o \in {"FIRED", "DRAIN"} => air) /\ (o \in {"REFUSED", "SKIPPED"} => ~air)
        BY <2>3 DEF Gate
    <2> QED BY <2>2, <2>3, <2>5, <2>6, <2>7, ShotSteps
<1> QED BY <1>1, <1>2

\* The log cannot be read: the round is over and its outcomes with it.
LEMMA ReadFailsSteps == ASSUME NEW o \in Gate PROVE IInv /\ ReadFails(o) => IInv' /\ Step
<1> SUFFICES ASSUME IInv, ReadFails(o) PROVE IInv' /\ Step
    OBVIOUS
<1> DEFINE k == job.key  n == Len(job.shots)
<1>1. /\ TypesHold /\ job.active /\ ~job.failed /\ n < Shots /\ Shots \in Nat
      /\ job' = [job EXCEPT !.failed = TRUE] /\ log' = Append(log, o) /\ Aired(o)
      /\ UNCHANGED <<inbox, batches, batchOrder, wedged>>
    BY ApAssumption DEF IInv, ReadFails, MoreShots, Firing
<1>2. job \in Jobs /\ k \in Keys /\ n \in Nat
    BY <1>1, JobFields
<1>3. /\ job' \in Jobs /\ job'.active /\ job'.key = k /\ job'.failed
      /\ job'.shots = job.shots
    BY <1>1, <1>2 DEF Jobs
<1>4. n + 1 \in 1 .. Shots /\ onAir[k][n + 1] = 0 /\ onAir \in [Keys -> [1 .. Shots -> Nat]]
    <2>1. n + 1 \in 1 .. Shots /\ onAir[k][n + 1] = 0
        BY <1>1, <1>2 DEF IInv, SoFarHonest
    <2> QED BY <1>1, <2>1 DEF TypesHold
<1>5. batches[k].state = "firing" /\ log' \in Seq(Gate)
    BY <1>1, <1>2, AppendProperties DEF IInv, RecordInStep, TypesHold
<1> HIDE DEF k, n
<1>6. onAir' = onAir \/ onAir' = [onAir EXCEPT ![k] = [onAir[k] EXCEPT ![n + 1] = 1]]
    BY <1>1, <1>4 DEF Aired, k, n
<1>7. /\ onAir' \in [Keys -> [1 .. Shots -> Nat]]
      /\ \A s \in 1 .. Shots : s # n + 1 => onAir'[k][s] = onAir[k][s]
      /\ \A j \in Keys : j # k => onAir'[j] = onAir[j]
    <2> DEFINE row == [onAir[k] EXCEPT ![n + 1] = 1]
    <2>1. onAir[k] \in [1 .. Shots -> Nat]
        BY <1>2, <1>4
    <2>2. /\ row \in [1 .. Shots -> Nat]
          /\ \A s \in 1 .. Shots : s # n + 1 => row[s] = onAir[k][s]
        BY <1>4, <2>1
    <2>3. onAir' = onAir \/ onAir' = [onAir EXCEPT ![k] = row]
        BY <1>6
    <2> HIDE DEF row
    <2> QED BY <1>2, <1>4, <2>2, <2>3
<1>8. TypesHold' /\ RecordInStep' /\ NoTrace'
    BY <1>1, <1>3, <1>5, <1>7 DEF IInv, TypesHold, RecordInStep, NoTrace, k
<1>9. SoFarHonest'
    <2>1. ASSUME NEW s \in 1 .. n
          PROVE  /\ job'.shots[s] \in {"FIRED", "DRAIN"} => onAir'[k][s] = 1
                 /\ job'.shots[s] \in {"REFUSED", "SKIPPED"} => onAir'[k][s] = 0
        <3>1. s \in 1 .. Shots /\ s # n + 1
            BY <1>1, <1>2, <1>4
        <3>2. /\ job.shots[s] \in {"FIRED", "DRAIN"} => onAir[k][s] = 1
              /\ job.shots[s] \in {"REFUSED", "SKIPPED"} => onAir[k][s] = 0
            BY <1>1 DEF IInv, SoFarHonest, k, n
        <3> QED BY <1>3, <1>7, <3>1, <3>2
    <2>2. Len(job'.shots) = n /\ n <= Shots
        BY <1>1, <1>2, <1>3, <1>4 DEF n
    <2> QED BY <1>3, <2>1, <2>2 DEF SoFarHonest
<1>10. LostByAShot'
    BY <1>1, <1>3 DEF IInv, LostByAShot
<1>11. Step
    <2>1. CASE onAir' = onAir
        BY <1>1, <2>1, SameIsStep DEF Same
    <2>2. CASE onAir' = [onAir EXCEPT ![k] = [onAir[k] EXCEPT ![n + 1] = 1]]
        <3>1. onAir' = [onAir EXCEPT ![k][n + 1] = 1]
            BY <2>2
        <3>2. Promise!Transmit(k, n + 1)
            BY <1>1, <1>2, <1>4, <1>5, <3>1 DEF Promise!Transmit
        <3> QED BY <1>2, <1>4, <3>2 DEF Step, Promise!Next
    <2> QED BY <1>6, <2>1, <2>2
<1> QED BY <1>8, <1>9, <1>10, <1>11 DEF IInv

LEMMA FinishSteps == IInv /\ Finish => IInv' /\ Step
<1> SUFFICES ASSUME IInv, Finish PROVE IInv' /\ Step
    OBVIOUS
<1> DEFINE k == job.key  v == Verdict
<1>1. /\ TypesHold /\ job.active /\ batches' = [batches EXCEPT ![k] = Done(v)]
      /\ job' = NoJob /\ UNCHANGED <<inbox, batchOrder, wedged, log, onAir>>
      /\ LostOnTheWay \/ job.failed \/ Len(job.shots) = Shots
    BY DEF IInv, Finish, Over, Firing
<1>2. job \in Jobs /\ k \in Keys /\ job.shots \in Seq(Outcomes)
    BY <1>1, JobFields
<1>3. v \in Statuses
    <2>1. <<>> \in Seq(Outcomes)
        BY EmptySeq
    <2> QED BY <1>2, <2>1 DEF Verdict, Statuses
<1>4. v.error = "none" => Len(v.shots) = Shots
    BY <1>1 DEF Verdict, LostOnTheWay
<1>5. Promise!Honest(k, v)
    <2>1. CASE job.failed
        <3>1. v.shots = <<>> /\ Len(<<>>) = 0
            BY <2>1, EmptySeq DEF Verdict
        <3> QED BY <3>1 DEF Promise!Honest
    <2>2. CASE ~job.failed
        <3>1. v.shots = job.shots
            BY <2>2 DEF Verdict
        <3> QED BY <1>1, <3>1 DEF IInv, SoFarHonest, Promise!Honest
    <2> QED BY <2>1, <2>2
<1>6. batches[k].state = "firing"
    BY <1>1, <1>2 DEF IInv, RecordInStep
<1>7. Done(v) \in Entries /\ Done(v).state = "answered" /\ Done(v).status = v
    BY <1>3, EntryTypes
<1>8. ~job'.active
    BY <1>1 DEF NoJob
<1> HIDE DEF k, v
<1>9. /\ batches' \in [Keys -> Entries]
      /\ batches'[k].state = "answered" /\ batches'[k].status = v
      /\ \A j \in Keys : j # k => batches'[j] = batches[j]
    BY <1>1, <1>2, <1>7 DEF TypesHold
<1>10. TypesHold' /\ NoTrace' /\ SoFarHonest' /\ LostByAShot'
    BY <1>1, <1>8, <1>9 DEF IInv, TypesHold, NoTrace, SoFarHonest, LostByAShot
<1>11. RecordInStep'
    <2>1. \A j \in Keys : j # k => batches[j].state # "firing"
        BY <1>1 DEF IInv, RecordInStep, k
    <2>2. \A j \in Keys : (batches'[j].state = "unknown") <=> (batches[j].state = "unknown")
        BY <1>6, <1>9
    <2>3. \A j \in Keys : batches'[j].state # "firing"
        BY <1>9, <2>1
    <2> QED BY <1>1, <1>8, <2>2, <2>3 DEF IInv, RecordInStep
<1>12. Step
    <2> DEFINE w == ([j \in Keys |-> batches[j].status])'[k]
    <2>1. w = v
        BY <1>2, <1>9
    <2>2. /\ [j \in Keys |-> batches'[j].state] = [[j \in Keys |-> batches[j].state] EXCEPT ![k] = "answered"]
          /\ [j \in Keys |-> batches'[j].status] = [[j \in Keys |-> batches[j].status] EXCEPT ![k] = w]
        <3> HIDE DEF w
        <3> QED BY <1>2, <1>9, <2>1
    <2>3. Promise!Honest(k, w)
        <3> HIDE DEF w
        <3> QED BY <1>5, <2>1 DEF Promise!Honest
    <2>4. Promise!Answer(k, w)
        <3>1. w.error = "none" => Len(w.shots) = Shots
            BY <1>4, <2>1
        <3> HIDE DEF w
        <3> QED BY <1>1, <1>2, <1>6, <2>2, <2>3, <3>1 DEF Promise!Answer
    <2>5. Promise!Next
        BY <1>2, <2>4 DEF Promise!Next, Promise!Answer
    <2> QED BY <2>5 DEF Step
<1> QED BY <1>10, <1>11, <1>12 DEF IInv

---------------------------------------------------------------------------
LEMMA InitIInv == Init => IInv /\ Promise!Init
<1> SUFFICES ASSUME Init PROVE IInv /\ Promise!Init
    OBVIOUS
<1>1. /\ <<>> \in Seq(Commands) /\ <<>> \in Seq(Keys) /\ <<>> \in Seq(Gate)
      /\ Len(<<>>) = 0 /\ DOMAIN <<>> = {}
    BY EmptySeq
<1>2. ~job.active
    BY DEF Init, NoJob
<1>3. \A k \in Keys : batches[k] = Absent /\ onAir[k] = Silence
    BY DEF Init, NothingKnown, NothingOnAir
<1>4. TypesHold
    BY <1>1, EntryTypes DEF Init, TypesHold, NothingKnown, NothingOnAir
<1>5. RecordInStep
    BY <1>1, <1>2, <1>3, EntryTypes, ApAssumption DEF Init, RecordInStep, IsInjective, Range
<1>6. NoTrace /\ SoFarHonest /\ LostByAShot
    BY <1>2, <1>3, EntryTypes DEF NoTrace, SoFarHonest, LostByAShot
<1>7. Promise!Init
    BY EntryTypes DEF Init, NothingKnown, NothingOnAir, Promise!Init, Promise!Silence,
                      Promise!NoVerdict, Silence, Empty
<1> QED BY <1>4, <1>5, <1>6, <1>7 DEF IInv

LEMMA NextIInv == IInv /\ [Next]_vars => IInv' /\ Step
<1> SUFFICES ASSUME IInv, [Next]_vars PROVE IInv' /\ Step
    OBVIOUS
<1>1. CASE Next
    BY <1>1, QuietSteps, RefuseWedgedSteps, BeginSteps, ForgettingSteps, FiringSteps,
       ReadFailsSteps, FinishSteps DEF Next, Work
<1>2. CASE UNCHANGED vars
    <2>1. UNCHANGED <<inbox, batches, batchOrder, job, wedged, log, onAir>>
        BY <1>2 DEF vars
    <2>2. IInv'
        BY <2>1 DEF IInv, TypesHold, RecordInStep, NoTrace, SoFarHonest, LostByAShot
    <2> QED BY <2>1, <2>2, SameIsStep DEF Same
<1> QED BY <1>1, <1>2

LEMMA SpecIInv == Spec => []IInv
<1>1. IInv /\ [Next]_vars => IInv'
    BY NextIInv
<1>2. Init => IInv
    BY InitIInv
<1> QED BY <1>1, <1>2, PTL DEF Spec

\* The record of rounds and its order never come apart, the record stays
\* within its limit, and no round but the one being fired is in progress
\* (on_fire, _forget_old_batches).
THEOREM RecordInStepHolds == Spec => []RecordInStep
<1>1. IInv => RecordInStep
    BY DEF IInv
<1> QED BY <1>1, SpecIInv, PTL

\* The agent implements what a transmitter promises: whatever fails and
\* whenever it dies, within what it remembers a round is fired once, its
\* answer honest and complete (on_fire, _fire_shots).
THEOREM FiresOnceHolds == Spec => FiresOnce
<1>1. Init => Promise!Init
    BY InitIInv
<1>2. IInv /\ [Next]_vars => [Promise!Next]_(Promise!promise)
    BY NextIInv DEF Step
<1> QED BY <1>1, <1>2, SpecIInv, PTL DEF Spec, FiresOnce, Promise!Spec

\* A radio that stopped accepting commands puts nothing on air until a reset
\* or a restart (on_fire, _fire_shots).
THEOREM SilentWhileWedgedHolds == Spec => SilentWhileWedged
<1> DEFINE Quiet == wedged /\ wedged' => \A k \in Keys, s \in 1 .. Shots : onAir'[k][s] <= onAir[k][s]
<1>1. ASSUME IInv, [Next]_vars
      PROVE  [Quiet]_vars
    <2> SUFFICES ASSUME wedged, NEW k \in Keys, NEW s \in 1 .. Shots
                 PROVE  onAir'[k][s] <= onAir[k][s]
        OBVIOUS
    <2>1. onAir \in [Keys -> [1 .. Shots -> Nat]] /\ onAir[k][s] \in Nat
        BY <1>1 DEF IInv, TypesHold
    <2>2. Silence[s] = 0
        BY DEF Silence
    <2>3. CASE onAir' = onAir
        BY <2>1, <2>3
    <2>4. CASE onAir'[k] \in {Silence, onAir[k]}
        BY <2>1, <2>2, <2>4
    <2>5. ~MoreShots
        <3>1. job.active => job.shots # <<>>
            <4>1. Len(<<>>) = 0
                BY EmptySeq
            <4> QED BY <1>1, <4>1 DEF IInv, LostByAShot
        <3> QED BY <3>1 DEF MoreShots, Firing, LostOnTheWay
    <2>6. CASE RefuseWedged \/ Begin
        <3>1. onAir'[k] \in {Silence, onAir[k]}
            BY <2>6 DEF RefuseWedged, Begin, Remember
        <3> QED BY <2>4, <3>1
    <2>7. CASE Reset \/ Die
        BY <2>4, <2>7 DEF Reset, Die, NothingOnAir
    <2>8. CASE UNCHANGED onAir
        BY <2>3, <2>8
    <2>9. (RefuseWedged \/ Begin) \/ (Reset \/ Die) \/ UNCHANGED onAir
        BY <1>1, <2>5 DEF Next, Work, vars, Send, Repeat, Skip, Shot, ShotOverrun, WriteFails,
                          ReadFails, Finish, Start, Break, Redial
    <2> QED BY <2>6, <2>7, <2>8, <2>9
<1>2. Spec => [][Quiet]_vars
    BY <1>1, SpecIInv, PTL DEF Spec
<1> QED BY <1>2 DEF SilentWhileWedged

===============================================================================
