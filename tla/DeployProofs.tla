----------------------------- MODULE DeployProofs -----------------------------
(***************************************************************************)
(* What placing the agents promises, for any number of nodes, looks,       *)
(* builds, launches and faults.  A look that fails passes for one that     *)
(* found nothing (pgrep, check=False), so what is promised of who runs     *)
(* alone and from which files is promised of the nodes where no agent was  *)
(* overlooked; that nothing starts from half a copy holds everywhere.      *)
(*                                                                         *)
(* The argument: from the moment a node is seen empty until an agent is    *)
(* started, nobody runs there, or somebody was overlooked; it is only in   *)
(* that time that its files change and that a build is reported for it.    *)
(***************************************************************************)
EXTENDS Deploy, TLAPS

TypesHold ==
    /\ source \in 1 .. MaxBuild
    /\ disk \in [NodeIds -> Builds]
    /\ procs \in [NodeIds -> SUBSET Processes]
    /\ placed \in [NodeIds -> Builds] /\ overlooked \subseteq NodeIds
    /\ answers \in [NodeIds -> Processes]
    /\ node \in NodeIds /\ launched \in Nat

\* Between stop() and start() the node is empty, as far as it was seen.
EmptyMeanwhile ==
    pc \in {"push", "verify", "start"} /\ node \notin overlooked => procs[node] = {}

\* What is started is what was verified, and it is whole.
VerifiedFirst == pc = "start" => placed[node] = disk[node] /\ disk[node] # 0

IInv ==
    /\ TypesHold /\ EmptyMeanwhile /\ VerifiedFirst /\ OneAgent /\ RunsWhole

\* A signal changes nothing of an agent but that it was told.
LEMMA SignalledKeeps ==
    ASSUME procs \in [NodeIds -> SUBSET Processes], node \in NodeIds
    PROVE  /\ Signalled \in [NodeIds -> SUBSET Processes]
           /\ \A n \in NodeIds : \A p \in Signalled[n] :
                 \E q \in procs[n] : p.build = q.build /\ p \in {q, [q EXCEPT !.told = TRUE]}
           /\ \A n \in NodeIds : n # node => Signalled[n] = procs[n]
           /\ Signalled[node] = {[p EXCEPT !.told = TRUE] : p \in procs[node]}
<1>1. \A p \in Processes : /\ [p EXCEPT !.told = TRUE] \in Processes
                           /\ [p EXCEPT !.told = TRUE].build = p.build
    BY DEF Processes
<1>2. Signalled[node] = {[p EXCEPT !.told = TRUE] : p \in procs[node]}
    BY DEF Signalled
<1>3. \A n \in NodeIds : n # node => Signalled[n] = procs[n]
    BY DEF Signalled
<1>4. \A n \in NodeIds : Signalled[n] \in SUBSET Processes
    BY <1>1, <1>2, <1>3
<1>5. Signalled \in [NodeIds -> SUBSET Processes]
    BY <1>4 DEF Signalled
<1>6. ASSUME NEW n \in NodeIds, NEW p \in Signalled[n]
      PROVE  \E q \in procs[n] : p.build = q.build /\ p \in {q, [q EXCEPT !.told = TRUE]}
    <2>1. CASE n = node
        BY <1>1, <1>2, <2>1
    <2>2. CASE n # node
        BY <1>3, <2>2
    <2> QED BY <2>1, <2>2
<1> QED BY <1>2, <1>3, <1>5, <1>6

\* Whoever remains after a signal is still alone, and what it was.
LEMMA SignalledHarmless ==
    ASSUME IInv, procs' = Signalled, placed' = placed, overlooked' = overlooked
    PROVE  /\ procs' \in [NodeIds -> SUBSET Processes]
           /\ OneAgent' /\ RunsWhole'
           /\ procs[node] = {} => procs'[node] = {}
<1>1. procs \in [NodeIds -> SUBSET Processes] /\ node \in NodeIds
    BY DEF IInv, TypesHold
<1>2. ASSUME NEW n \in NodeIds \ overlooked, NEW p \in procs'[n], NEW q \in procs'[n]
      PROVE  p = q
    <2>1. CASE n = node
        <3>1. PICK a \in procs[n], b \in procs[n] :
                  p = [a EXCEPT !.told = TRUE] /\ q = [b EXCEPT !.told = TRUE]
            BY <1>1, <2>1, SignalledKeeps
        <3>2. a = b
            BY DEF IInv, OneAgent
        <3> QED BY <3>1, <3>2
    <2>2. CASE n # node
        BY <1>1, <1>2, <2>2, SignalledKeeps DEF IInv, OneAgent
    <2> QED BY <2>1, <2>2
<1>3. RunsWhole'
    BY <1>1, SignalledKeeps DEF IInv, RunsWhole
<1>4. procs[node] = {} => procs'[node] = {}
    BY <1>1, SignalledKeeps
<1>5. procs' \in [NodeIds -> SUBSET Processes]
    BY <1>1, SignalledKeeps
<1>6. OneAgent'
    BY <1>2 DEF OneAgent
<1> QED BY <1>3, <1>4, <1>5, <1>6

\* One who leaves takes nobody else with it.
LEMMA FewerHarmless ==
    ASSUME IInv, NEW m \in NodeIds, NEW p \in procs[m],
           procs' = [procs EXCEPT ![m] = @ \ {p}], placed' = placed, overlooked' = overlooked
    PROVE  /\ procs' \in [NodeIds -> SUBSET Processes]
           /\ OneAgent' /\ RunsWhole'
           /\ procs[node] = {} => procs'[node] = {}
<1>1. procs \in [NodeIds -> SUBSET Processes] /\ node \in NodeIds
    BY DEF IInv, TypesHold
<1>2. \A n \in NodeIds : procs'[n] \subseteq procs[n]
    BY <1>1
<1> QED BY <1>1, <1>2 DEF IInv, OneAgent, RunsWhole

LEMMA InitIInv == Init => IInv
<1> SUFFICES ASSUME Init PROVE IInv
    OBVIOUS
<1> USE DeployAssumption
<1>1. 1 \in NodeIds /\ 0 \in Builds /\ 1 \in 1 .. MaxBuild
    BY DEF NodeIds, Builds
<1>2. NoOne \in Processes
    BY <1>1 DEF NoOne, Processes
<1>3. TypesHold
    BY <1>1, <1>2 DEF Init, TypesHold
<1> QED BY <1>3 DEF Init, IInv, EmptyMeanwhile, VerifiedFirst, OneAgent, RunsWhole

LEMMA NextIInv == IInv /\ [Next]_vars => IInv'
<1> SUFFICES ASSUME IInv, [Next]_vars PROVE IInv'
    OBVIOUS
<1> USE DeployAssumption
<1>a. TypesHold
    BY DEF IInv
<1>b. NoOne \in Processes
    BY DEF NoOne, Processes, Builds
<1>1. CASE Edit
    BY <1>1 DEF Edit, IInv, TypesHold, EmptyMeanwhile, VerifiedFirst, OneAgent, RunsWhole, askVars
<1>2. CASE \E n \in NodeIds : Exit(n) \/ Die(n)
    <2>1. PICK n \in NodeIds : Exit(n) \/ Die(n)
        BY <1>2
    <2>2. PICK p \in procs[n] : procs' = [procs EXCEPT ![n] = @ \ {p}]
        BY <2>1 DEF Exit, Die
    <2>3. /\ UNCHANGED <<source, disk, placed, overlooked, launched, pc, node, answers>>
        BY <2>1 DEF Exit, Die, askVars
    <2>4. /\ procs' \in [NodeIds -> SUBSET Processes]
          /\ OneAgent' /\ RunsWhole'
          /\ procs[node] = {} => procs'[node] = {}
        BY <2>2, <2>3, FewerHarmless
    <2> QED BY <2>3, <2>4 DEF IInv, TypesHold, EmptyMeanwhile, VerifiedFirst
<1>3. CASE \E m \in {"up", "down"} : Begin(m)
    <2>1. /\ pc' = "stop" /\ node' = 1 /\ placed' = [n \in NodeIds |-> 0]
          /\ UNCHANGED <<source, disk, procs, overlooked, launched, answers>>
        BY <1>3 DEF Begin, askVars
    <2>2. 1 \in NodeIds /\ 0 \in Builds
        BY DEF NodeIds, Builds
    <2>3. TypesHold'
        BY <2>1, <2>2 DEF IInv, TypesHold
    <2>4. RunsWhole'
        BY <2>1 DEF IInv, RunsWhole
    <2> QED BY <2>1, <2>3, <2>4 DEF IInv, EmptyMeanwhile, VerifiedFirst, OneAgent
<1>4. CASE Pkill
    <2>1. pc' = "gone" /\ UNCHANGED <<source, disk, placed, overlooked, launched, answers, node>>
        BY <1>4 DEF Pkill, askVars
    <2>2. CASE procs' = Signalled
        BY <2>1, <2>2, SignalledHarmless DEF IInv, TypesHold, EmptyMeanwhile, VerifiedFirst
    <2>3. CASE procs' = procs
        BY <2>1, <2>3 DEF IInv, TypesHold, EmptyMeanwhile, VerifiedFirst, OneAgent, RunsWhole
    <2> QED BY <1>4, <2>2, <2>3 DEF Pkill
<1>5. CASE SeenGone
    <2>1. /\ pc' \in {"push", "stop", "idle"}
          /\ pc' = "push" => node' = node
          /\ node' \in NodeIds
          /\ UNCHANGED <<source, disk, procs, placed, launched, answers>>
        BY <1>5, <1>a DEF SeenGone, Onward, TypesHold, NodeIds, askVars
    <2>2. CASE procs[node] = {}
        <3>1. overlooked' = overlooked \ {node}
            BY <1>5, <2>2 DEF SeenGone
        <3>2. OneAgent' /\ RunsWhole'
            BY <2>1, <2>2, <3>1 DEF IInv, OneAgent, RunsWhole
        <3> QED BY <2>1, <2>2, <3>1, <3>2 DEF IInv, TypesHold, EmptyMeanwhile, VerifiedFirst
    <2>3. CASE procs[node] # {}
        <3>1. overlooked' = overlooked \cup {node}
            BY <1>5, <2>3 DEF SeenGone
        <3>2. OneAgent' /\ RunsWhole'
            BY <2>1, <3>1 DEF IInv, OneAgent, RunsWhole
        <3> QED BY <2>1, <3>1, <3>2 DEF IInv, TypesHold, EmptyMeanwhile, VerifiedFirst
    <2> QED BY <2>2, <2>3
<1>6. CASE StillThere
    <2>1. pc' \in {"idle", "gone"} /\ UNCHANGED <<source, disk, placed, overlooked, launched, answers, node>>
        BY <1>6 DEF StillThere, askVars
    <2>2. CASE procs' = Signalled
        BY <2>1, <2>2, SignalledHarmless DEF IInv, TypesHold, EmptyMeanwhile, VerifiedFirst
    <2>3. CASE procs' = procs
        BY <2>1, <2>3 DEF IInv, TypesHold, EmptyMeanwhile, VerifiedFirst, OneAgent, RunsWhole
    <2> QED BY <1>6, <2>2, <2>3 DEF StillThere
<1>7. CASE Push
    <2>1. /\ pc = "push" /\ pc' \in {"verify", "idle"}
          /\ UNCHANGED <<source, procs, placed, overlooked, launched, answers, node>>
        BY <1>7 DEF Push, askVars
    <2>2. disk' \in {disk, [disk EXCEPT ![node] = source], [disk EXCEPT ![node] = 0]}
        BY <1>7 DEF Push
    <2>3. TypesHold'
        BY <1>a, <2>1, <2>2 DEF TypesHold, Builds
    <2> QED BY <2>1, <2>3 DEF IInv, EmptyMeanwhile, VerifiedFirst, OneAgent, RunsWhole
<1>8. CASE Verify
    <2>1. /\ pc = "verify" /\ pc' \in {"start", "idle"}
          /\ node \in overlooked \/ procs[node] = {}
          /\ UNCHANGED <<source, disk, procs, overlooked, launched, answers, node>>
        BY <1>8 DEF Verify, IInv, EmptyMeanwhile, askVars
    <2>2. \/ placed' = placed /\ pc' = "idle"
          \/ placed' = [placed EXCEPT ![node] = source] /\ disk[node] = source
        BY <1>8 DEF Verify
    <2>3. TypesHold' /\ VerifiedFirst'
        BY <1>a, <2>1, <2>2 DEF TypesHold, Builds, VerifiedFirst
    <2>4. \A n \in NodeIds : n # node => placed'[n] = placed[n]
        BY <1>a, <2>2 DEF TypesHold
    <2>5. RunsWhole'
        BY <2>1, <2>4 DEF IInv, RunsWhole
    <2> QED BY <2>1, <2>3, <2>5 DEF IInv, EmptyMeanwhile, OneAgent
<1>9. CASE Start
    <2>1. /\ pc = "start" /\ pc' \in {"there", "idle"}
          /\ node \in overlooked \/ procs[node] = {}
          /\ placed[node] = disk[node] /\ disk[node] # 0
          /\ UNCHANGED <<source, disk, placed, overlooked, answers, node>>
        BY <1>9 DEF Start, IInv, EmptyMeanwhile, VerifiedFirst, askVars
    <2>2. CASE UNCHANGED <<launched, procs>>
        BY <2>1, <2>2 DEF IInv, TypesHold, EmptyMeanwhile, VerifiedFirst, OneAgent, RunsWhole
    <2>3. CASE /\ launched' = launched + 1
               /\ procs' = [procs EXCEPT ![node] =
                     @ \cup {[id |-> launched', build |-> disk[node], told |-> FALSE]}]
        <3> DEFINE new == [id |-> launched', build |-> disk[node], told |-> FALSE]
        <3>1. new \in Processes /\ new.build = disk[node] /\ launched' \in Nat
            BY <1>a, <2>3 DEF TypesHold, Processes
        <3> HIDE DEF new
        <3>2. procs' = [procs EXCEPT ![node] = procs[node] \cup {new}]
            BY <2>3 DEF new
        <3>3. procs'[node] = procs[node] \cup {new} /\ \A n \in NodeIds : n # node => procs'[n] = procs[n]
            BY <1>a, <2>1, <3>2 DEF TypesHold
        <3>4. TypesHold'
            BY <1>a, <2>1, <3>1, <3>2 DEF TypesHold
        <3>5. OneAgent' /\ RunsWhole'
            BY <2>1, <3>1, <3>3 DEF IInv, OneAgent, RunsWhole
        <3> QED BY <2>1, <3>4, <3>5 DEF IInv, EmptyMeanwhile, VerifiedFirst
    <2> QED BY <1>9, <2>2, <2>3 DEF Start
<1>10. CASE SeenThere
    <2>1. /\ pc' \in {"ask", "stop"} /\ answers' = [n \in NodeIds |-> NoOne]
          /\ node' \in NodeIds
          /\ UNCHANGED <<source, disk, procs, placed, overlooked, launched>>
        BY <1>10, <1>a DEF SeenThere, Onward, TypesHold, NodeIds, deployVars
    <2> QED BY <1>b, <2>1 DEF IInv, TypesHold, EmptyMeanwhile, VerifiedFirst, OneAgent, RunsWhole
<1>11. CASE NotThere
    BY <1>11 DEF NotThere, IInv, TypesHold, EmptyMeanwhile, VerifiedFirst, OneAgent, RunsWhole, deployVars, askVars
<1>12. CASE \E n \in NodeIds : Ask(n)
    <2>1. PICK n \in NodeIds : Ask(n)
        BY <1>12
    <2>2. /\ pc = "ask" /\ pc' = "ask"
          /\ UNCHANGED <<source, disk, procs, placed, overlooked, launched, node>>
        BY <2>1 DEF Ask, deployVars
    <2>3. answers' = answers \/ \E p \in procs[n] : answers' = [answers EXCEPT ![n] = p]
        BY <2>1 DEF Ask
    <2>4. answers' \in [NodeIds -> Processes]
        BY <1>a, <2>3 DEF TypesHold
    <2> QED BY <2>2, <2>4 DEF IInv, TypesHold, EmptyMeanwhile, VerifiedFirst, OneAgent, RunsWhole
<1>13. CASE Accept \/ Refuse
    BY <1>13 DEF Accept, Refuse, IInv, TypesHold, EmptyMeanwhile, VerifiedFirst, OneAgent, RunsWhole, deployVars, askVars
<1>14. CASE Again
    <2>1. /\ pc' \in {"ask", "idle"} /\ answers' = [n \in NodeIds |-> NoOne]
          /\ UNCHANGED <<source, disk, procs, placed, overlooked, launched, node>>
        BY <1>14 DEF Again, deployVars
    <2> QED BY <1>b, <2>1 DEF IInv, TypesHold, EmptyMeanwhile, VerifiedFirst, OneAgent, RunsWhole
<1>15. CASE UNCHANGED vars
    BY <1>15 DEF vars, IInv, TypesHold, EmptyMeanwhile, VerifiedFirst, OneAgent, RunsWhole, deployVars, askVars
<1> QED
    BY <1>1, <1>2, <1>3, <1>4, <1>5, <1>6, <1>7, <1>8, <1>9, <1>10, <1>11, <1>12, <1>13, <1>14,
       <1>15 DEF Next, Deployer, Session

LEMMA SpecIInv == Spec => []IInv
<1>1. IInv /\ [Next]_vars => IInv'
    BY NextIInv
<1> QED BY <1>1, InitIInv, PTL DEF Spec

\* Two agents never run on a node where no failed look hid one, however many
\* nodes, faults and repeated deployments (stop, start).
THEOREM OneAgentHolds == Spec => []OneAgent
<1>1. IInv => OneAgent
    BY DEF IInv
<1> QED BY <1>1, SpecIInv, PTL

\* Nothing is started that was not copied whole and verified, and what runs was
\* started from the build reported unless a look passed it over (push, verify).
THEOREM RunsWholeHolds == Spec => []RunsWhole
<1>1. IInv => RunsWhole
    BY DEF IInv
<1> QED BY <1>1, SpecIInv, PTL

===============================================================================
