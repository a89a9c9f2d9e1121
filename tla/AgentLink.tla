------------------------------ MODULE AgentLink ------------------------------
(***************************************************************************)
(* An agent's connections to the broker: Agent.connect, run_forever and    *)
(* the callbacks of cosr/agent.py over the connecting, reading and         *)
(* dropping of cosr/natsc.py, while the broker comes and goes.             *)
(*                                                                         *)
(* The main thread dials, subscribes twice, announces itself and then      *)
(* watches is_connected.  Every connection has a reader thread of its own; *)
(* a command is carried out on the thread of the connection it came by,    *)
(* which takes as long as a round, and only that thread notices that its   *)
(* connection is gone.  The agent's self.client is the last connection.    *)
(***************************************************************************)
EXTENDS Integers, Sequences

CONSTANTS
    MaxBreaks,     \* bound: connections broken
    MaxCommands    \* bound: commands published

ASSUME LinkAssumption == MaxBreaks \in Nat /\ MaxCommands \in Nat

VARIABLES
    pc,        \* the main thread: "dial", "greet", "mute", "fire", "rpc",
               \* "hello", "serve", "dead"
    started,   \* the first connect() has returned
    up,        \* the broker is there
    conns,     \* every connection made, in order
    commands,  \* commands published so far, of either kind
    breaks     \* bound's counter

vars == <<pc, started, up, conns, commands, breaks>>

Kinds == {"fire", "rpc"}

\* line: the broker and this end agree that it stands; noticed: a broken one
\* gives a sign; sock: _sock is not None; subs, hello: what the broker has
\* of it; queue: commands delivered and not taken up.
Connections == [line : BOOLEAN, noticed : BOOLEAN, sock : BOOLEAN,
                reader : {"reading", "handling", "gone"},
                subs : SUBSET Kinds, hello : BOOLEAN, queue : Seq(1 .. MaxCommands)]

Fresh == [line |-> TRUE, noticed |-> TRUE, sock |-> TRUE, reader |-> "reading",
          subs |-> {}, hello |-> FALSE, queue |-> <<>>]

Init ==
    /\ pc = "dial" /\ started = FALSE /\ up = TRUE
    /\ conns = <<>> /\ commands = 0
    /\ breaks = 0

Current == Len(conns)
IsConnected == conns # <<>> /\ conns[Current].sock

---------------------------------------------------------------------------
(* The main thread.                                                        *)

Dial ==
    /\ pc = "dial" /\ up
    /\ pc' = "greet"
    /\ UNCHANGED <<started, up, conns, commands, breaks>>

\* The handshake is through and the reader started: natsc.connect returns.
Greeted ==
    /\ pc = "greet" /\ up
    /\ conns' = Append(conns, Fresh)
    /\ pc' = "fire"
    /\ UNCHANGED <<started, up, commands, breaks>>

\* No broker, or it went away in the handshake.  Serving, the agent tries for
\* ever; starting, it gives up some day and the process ends.
DialFails ==
    /\ pc \in {"dial", "greet"} /\ ~up
    /\ pc' \in IF started THEN {"dial"} ELSE {"dial", "dead"}
    /\ pc' # pc
    /\ UNCHANGED <<started, up, conns, commands, breaks>>

\* The other end falls silent in the handshake: it is waited for without a
\* limit, _read_control_line takes a timeout for nothing having arrived yet.
FallsSilent ==
    /\ pc = "greet"
    /\ breaks < MaxBreaks /\ breaks' = breaks + 1
    /\ pc' = "mute"
    /\ UNCHANGED <<started, up, conns, commands>>

\* What connect() has still to send, and the step after it.
After == [fire |-> "rpc", rpc |-> "hello", hello |-> "serve"]

Taken(c, what) == IF what = "hello" THEN [c EXCEPT !.hello = TRUE]
                  ELSE [c EXCEPT !.subs = @ \cup {what}]

\* A plausible slip: the announcement goes out ahead of a subscription.
SendHelloEarly(what) ==
    LET early == [fire |-> "hello", hello |-> "rpc", rpc |-> "serve"]
    IN  /\ pc = what /\ conns[Current].sock
        /\ conns' = IF conns[Current].line
                    THEN [conns EXCEPT ![Current] = Taken(@, what)] ELSE conns
        /\ pc' = early[what]
        /\ started' = (started \/ what = "rpc")
        /\ UNCHANGED <<up, commands, breaks>>

\* A message the broken line swallows is sent for all this end knows.
Send(what) ==
    /\ pc = what /\ conns[Current].sock
    /\ conns' = IF conns[Current].line
                THEN [conns EXCEPT ![Current] = Taken(@, what)] ELSE conns
    /\ pc' = After[what]
    /\ started' = (started \/ what = "hello")
    /\ UNCHANGED <<up, commands, breaks>>

\* NatsClosed: caught while serving, the end of a process that was starting.
SendRaises(what) ==
    /\ pc = what /\ ~conns[Current].line /\ conns[Current].noticed
    /\ pc' = IF started THEN "serve" ELSE "dead"
    /\ UNCHANGED <<started, up, conns, commands, breaks>>

\* A plausible slip: a broken line is reason enough, whoever still uses it.
RedialEager ==
    /\ pc = "serve" /\ ~conns[Current].line
    /\ pc' = "dial"
    /\ UNCHANGED <<started, up, conns, commands, breaks>>

\* run_forever finds that the connection has gone.
Redial ==
    /\ pc = "serve" /\ ~IsConnected
    /\ pc' = "dial"
    /\ UNCHANGED <<started, up, conns, commands, breaks>>

---------------------------------------------------------------------------
(* The reader threads.                                                     *)

TakeUp(i) ==
    /\ conns[i].reader = "reading" /\ conns[i].queue # <<>> /\ pc # "dead"
    /\ conns' = [conns EXCEPT ![i].reader = "handling", ![i].queue = Tail(@)]
    /\ UNCHANGED <<pc, started, up, commands, breaks>>

\* Whether the answer could be published makes no difference to the reader.
Answer(i) ==
    /\ conns[i].reader = "handling" /\ pc # "dead"
    /\ conns' = [conns EXCEPT ![i].reader = "reading"]
    /\ UNCHANGED <<pc, started, up, commands, breaks>>

\* A plausible slip: the reader ends and leaves the socket in place.
DropKeepsSocket(i) ==
    /\ conns[i].reader = "reading" /\ ~conns[i].line /\ conns[i].noticed
    /\ conns[i].queue = <<>> /\ pc # "dead"
    /\ conns' = [conns EXCEPT ![i].reader = "gone"]
    /\ UNCHANGED <<pc, started, up, commands, breaks>>

\* All that arrived has been read, then the end of it: _drop_socket.
Drop(i) ==
    /\ conns[i].reader = "reading" /\ ~conns[i].line /\ conns[i].noticed
    /\ conns[i].queue = <<>> /\ pc # "dead"
    /\ conns' = [conns EXCEPT ![i].reader = "gone", ![i].sock = FALSE]
    /\ UNCHANGED <<pc, started, up, commands, breaks>>

---------------------------------------------------------------------------
(* The broker and the controller.                                          *)

\* A connection ends, with or without a sign at this end: what was delivered
\* may still be read, or be lost.
Broken(c, sign, keep) ==
    [c EXCEPT !.line = FALSE, !.noticed = sign, !.subs = {}, !.hello = FALSE,
              !.queue = IF keep THEN @ ELSE <<>>]

Break(i) ==
    /\ breaks < MaxBreaks /\ breaks' = breaks + 1
    /\ conns[i].line
    /\ \E keep \in BOOLEAN, sign \in BOOLEAN :
          conns' = [conns EXCEPT ![i] = Broken(@, sign, keep)]
    /\ UNCHANGED <<pc, started, up, commands>>

BrokerDown ==
    /\ up /\ breaks < MaxBreaks /\ breaks' = breaks + 1
    /\ up' = FALSE
    /\ \E keep \in BOOLEAN :
          conns' = [i \in DOMAIN conns |-> IF conns[i].line THEN Broken(conns[i], TRUE, keep)
                                           ELSE conns[i]]
    /\ UNCHANGED <<pc, started, commands>>

BrokerUp ==
    /\ ~up /\ up' = TRUE
    /\ UNCHANGED <<pc, started, conns, commands, breaks>>

\* The broker hands a command to every connection subscribed to its subject.
Publish(kind) ==
    /\ up /\ commands < MaxCommands /\ commands' = commands + 1
    /\ conns' = [i \in DOMAIN conns |->
                    IF conns[i].line /\ kind \in conns[i].subs
                    THEN [conns[i] EXCEPT !.queue = Append(@, commands')] ELSE conns[i]]
    /\ UNCHANGED <<pc, started, up, breaks>>

---------------------------------------------------------------------------
Main == Dial \/ Greeted \/ DialFails \/ Redial \/ \E what \in DOMAIN After : Send(what) \/ SendRaises(what)
Reader(i) == TakeUp(i) \/ Answer(i) \/ Drop(i)
Bus == FallsSilent \/ BrokerDown \/ BrokerUp \/ (\E i \in DOMAIN conns : Break(i))
       \/ \E kind \in Kinds : Publish(kind)

Next == Main \/ (\E i \in DOMAIN conns : Reader(i)) \/ Bus

\* Both threads go on; a callback returns (its waits have deadlines).
Fairness == WF_vars(Main) /\ WF_vars(\E i \in DOMAIN conns : Reader(i))

Spec == Init /\ [][Next]_vars /\ Fairness

---------------------------------------------------------------------------
TypeOK ==
    /\ pc \in {"dial", "greet", "mute", "fire", "rpc", "hello", "serve", "dead"}
    /\ started \in BOOLEAN /\ up \in BOOLEAN
    /\ conns \in Seq(Connections)
    /\ commands \in 0 .. MaxCommands /\ breaks \in 0 .. MaxBreaks

\* Commands are carried out one at a time, across connections: when a new
\* one may deliver, no reader of an earlier one is still at work.  The
\* agent's state is kept without a lock on the strength of it (_drop_socket,
\* run_forever, _on_fire).
OneHandler ==
    \A i, j \in DOMAIN conns :
        conns[i].reader # "gone" /\ conns[j].reader # "gone" => i = j

\* The announcement a controller may act on reaches the broker only after
\* both subscriptions: commands sent upon it are delivered (Agent.connect).
HelloMeansSubscribed == \A i \in DOMAIN conns : conns[i].hello => conns[i].subs = Kinds

Served == IsConnected /\ conns[Current].subs = Kinds

\* Once the broker stays, a node that had started serves again, by a
\* connection that has both subscriptions, without anyone's help - if every
\* connection that ended gave a sign of it (run_forever, _drop_socket).
NothingSilent == pc # "mute" /\ \A i \in DOMAIN conns : conns[i].noticed
ServesAgain == <>[](Served \/ ~started)
ServedAgain == (<>[]up /\ []NothingSilent) => ServesAgain

\* The same, however connections end ("serve until stopped, re-dialling
\* whenever the connection goes away").
ServedAgainAlways == <>[]up => ServesAgain

===============================================================================
