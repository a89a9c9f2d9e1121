------------------------------ MODULE FireOnce ------------------------------
(***************************************************************************)
(* What a transmitter promises the controller about a round, whatever its  *)
(* process goes through (cosr/agent.py, ApAgent.on_fire):                  *)
(*                                                                         *)
(*   - while it remembers a round it carries it out once: a repeated       *)
(*     instruction puts nothing more on air;                               *)
(*   - its answer is honest: a shot reported FIRED went on air, a shot     *)
(*     reported refused or skipped did not, and where it cannot know it    *)
(*     says so;                                                            *)
(*   - an answer without an error accounts for every shot.                 *)
(*                                                                         *)
(* It may forget: the record is bounded, a reset clears it, a process dies.*)
(***************************************************************************)
EXTENDS Naturals, Sequences

CONSTANTS Keys,    \* rounds: (run, batch)
          Shots    \* shots of a round

VARIABLES phase,   \* per round: "unknown", "firing" or "answered"
          verdict, \* per round: the answer, once there is one
          onAir    \* per round and shot: how often it was transmitted

promise == <<phase, verdict, onAir>>

Silence == [s \in 1 .. Shots |-> 0]

NoVerdict == [shots |-> <<>>, error |-> "none"]

Honest(k, v) ==
    \A s \in 1 .. Len(v.shots) :
        /\ v.shots[s] \in {"FIRED", "DRAIN"} => onAir[k][s] = 1
        /\ v.shots[s] \in {"REFUSED", "SKIPPED"} => onAir[k][s] = 0

Init ==
    /\ phase = [k \in Keys |-> "unknown"]
    /\ verdict = [k \in Keys |-> NoVerdict]
    /\ onAir = [k \in Keys |-> Silence]

Forget(K) ==
    /\ phase' = [k \in Keys |-> IF k \in K THEN "unknown" ELSE phase[k]]
    /\ verdict' = [k \in Keys |-> IF k \in K THEN NoVerdict ELSE verdict[k]]
    /\ onAir' = [k \in Keys |-> IF k \in K THEN Silence ELSE onAir[k]]

\* Taking a round up may push another one out of the record.
Begin(k, K) ==
    /\ phase[k] = "unknown" /\ k \notin K
    /\ phase' = [j \in Keys |-> IF j = k THEN "firing"
                                ELSE IF j \in K THEN "unknown" ELSE phase[j]]
    /\ verdict' = [j \in Keys |-> IF j \in K THEN NoVerdict ELSE verdict[j]]
    /\ onAir' = [j \in Keys |-> IF j \in K THEN Silence ELSE onAir[j]]

\* A round refused at once is answered without ever firing.
Refuse(k, K, v) ==
    /\ phase[k] = "unknown" /\ k \notin K
    /\ v.shots = <<>> /\ v.error # "none"
    /\ phase' = [j \in Keys |-> IF j = k THEN "answered"
                                ELSE IF j \in K THEN "unknown" ELSE phase[j]]
    /\ verdict' = [j \in Keys |-> IF j = k THEN v
                                  ELSE IF j \in K THEN NoVerdict ELSE verdict[j]]
    /\ onAir' = [j \in Keys |-> IF j \in K THEN Silence ELSE onAir[j]]

Transmit(k, s) ==
    /\ phase[k] = "firing"
    /\ onAir[k][s] = 0
    /\ onAir' = [onAir EXCEPT ![k][s] = 1]
    /\ UNCHANGED <<phase, verdict>>

Answer(k, v) ==
    /\ phase[k] = "firing"
    /\ Honest(k, v)
    /\ v.error = "none" => Len(v.shots) = Shots
    /\ phase' = [phase EXCEPT ![k] = "answered"]
    /\ verdict' = [verdict EXCEPT ![k] = v]
    /\ UNCHANGED onAir

Next ==
    \/ \E K \in SUBSET Keys : Forget(K)
    \/ \E k \in Keys, K \in SUBSET Keys : Begin(k, K)
    \/ \E k \in Keys, K \in SUBSET Keys : Refuse(k, K, verdict'[k])
    \/ \E k \in Keys, s \in 1 .. Shots : Transmit(k, s)
    \/ \E k \in Keys : Answer(k, verdict'[k])

Spec == Init /\ [][Next]_promise
=============================================================================
