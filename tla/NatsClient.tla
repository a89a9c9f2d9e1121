------------------------------ MODULE NatsClient ------------------------------
(***************************************************************************)
(* One connection to the broker (natsc.Client): the thread that asks,      *)
(* pings and publishes, the reader thread that dispatches what arrives and *)
(* is the only one to notice that the connection is gone, a thread that    *)
(* may close it, and the broker at the other end.                          *)
(*                                                                         *)
(* One thread asks, as in the controller: request numbers are not taken    *)
(* under a lock.  Subscriptions and the handshake are left out.            *)
(***************************************************************************)
EXTENDS Integers, Sequences

CONSTANTS
    MaxRequests,   \* bound: requests
    MaxPings,      \* bound: pings
    MaxPublishes   \* bound: publishes

ASSUME NatsAssumption == MaxRequests \in Nat /\ MaxPings \in Nat /\ MaxPublishes \in Nat

VARIABLES
    sock,      \* _sock is not None
    closing,   \* _closing
    reader,    \* the reader thread: "reading", "dropping", "waking" or "gone"
    closer,    \* the closing thread: "before", "waking" or "done"
    pending,   \* _pending: number -> its event, and the request replied to (0: none)
    inboxN,    \* _inbox_n
    pong,      \* _pong is set
    pc,        \* where the asking thread is
    asked,     \* which request it is at, and the number it went out under
    result,    \* what its last operation returned
    line,      \* the connection stands
    toServer, toClient,   \* what is on its way
    inHand,    \* requests a responder holds
    received,  \* publishes the broker has taken
    published, \* history: publishes that returned
    flushed,   \* history: publishes that had returned when the ping began
    requests, pings, publishes   \* bounds' counters

threadVars == <<pc, asked, result, published, flushed, requests, pings, publishes>>
serverVars == <<inHand, received>>
vars == <<sock, closing, reader, closer, pending, inboxN, pong, threadVars,
          line, toServer, toClient, serverVars>>

NoResult == [op |-> "none"]

Init ==
    /\ sock = TRUE /\ closing = FALSE /\ reader = "reading" /\ closer = "before"
    /\ pending = <<>> /\ inboxN = 0 /\ pong = FALSE
    /\ pc = "idle" /\ asked = [id |-> 0, n |-> 0] /\ result = NoResult
    /\ line = TRUE /\ toServer = <<>> /\ toClient = <<>>
    /\ inHand = {} /\ received = {} /\ published = {} /\ flushed = {}
    /\ requests = 0 /\ pings = 0 /\ publishes = 0

IsConnected == sock /\ ~closing

\* _send_raw of one message: it goes out, or raises and may leave part of it
\* on the stream.  A broken line may swallow it without a word.
Sent(m) == sock /\ toServer' = IF line THEN Append(toServer, m) ELSE toServer
SendRaises ==
    \/ ~sock /\ UNCHANGED toServer
    \/ sock /\ line /\ toServer' = Append(toServer, [op |-> "torn"])
    \/ sock /\ ~line /\ UNCHANGED toServer

Return(r) == result' = r /\ pc' = "idle"

Popped == [n \in DOMAIN pending \ {asked.n} |-> pending[n]]

---------------------------------------------------------------------------
(* The asking thread.                                                      *)

\* A plausible slip: every request waits on the same inbox.
RegisterSameInbox ==
    /\ pc = "idle" /\ requests < MaxRequests
    /\ requests' = requests + 1
    /\ inboxN' = 1 /\ asked' = [id |-> requests + 1, n |-> 1]
    /\ pending' = [n \in DOMAIN pending \cup {1} |-> [set |-> FALSE, reply |-> 0]]
    /\ pc' = "asking"
    /\ UNCHANGED <<sock, closing, reader, closer, pong, result, published, flushed, pings,
                   publishes, line, toServer, toClient, serverVars>>

\* request: the entry is registered before anything is sent.
Register ==
    /\ pc = "idle" /\ requests < MaxRequests
    /\ requests' = requests + 1
    /\ inboxN' = inboxN + 1 /\ asked' = [id |-> requests + 1, n |-> inboxN + 1]
    /\ pending' = [n \in DOMAIN pending \cup {inboxN + 1} |->
                     IF n = inboxN + 1 THEN [set |-> FALSE, reply |-> 0] ELSE pending[n]]
    /\ pc' = "asking"
    /\ UNCHANGED <<sock, closing, reader, closer, pong, result, published, flushed, pings,
                   publishes, line, toServer, toClient, serverVars>>

Ask ==
    /\ pc = "asking"
    /\ \/ /\ Sent([op |-> "request", id |-> asked.id, n |-> asked.n])
          /\ pc' = "waiting" /\ UNCHANGED <<pending, result>>
       \/ /\ SendRaises
          /\ pending' = Popped /\ Return([op |-> "closed"])
    /\ UNCHANGED <<sock, closing, reader, closer, inboxN, pong, asked, published, flushed,
                   requests, pings, publishes, line, toClient, serverVars>>

\* The event was set: by a reply, or because the connection is gone.
Answered ==
    /\ pc = "waiting" /\ pending[asked.n].set
    /\ pending' = Popped
    /\ Return(IF pending[asked.n].reply = 0 THEN [op |-> "closed"]
              ELSE [op |-> "reply", of |-> asked.id, to |-> pending[asked.n].reply])
    /\ UNCHANGED <<sock, closing, reader, closer, inboxN, pong, asked, published, flushed,
                   requests, pings, publishes, line, toServer, toClient, serverVars>>

\* A plausible slip: the entry outlives the request.
ExpireKeepsEntry ==
    /\ pc = "waiting" /\ ~pending[asked.n].set
    /\ Return([op |-> "timeout"])
    /\ UNCHANGED <<sock, closing, reader, closer, pending, inboxN, pong, asked, published,
                   flushed, requests, pings, publishes, line, toServer, toClient, serverVars>>

\* The deadline: the entry goes with the request.
Expire ==
    /\ pc = "waiting" /\ ~pending[asked.n].set
    /\ pending' = Popped /\ Return([op |-> "timeout"])
    /\ UNCHANGED <<sock, closing, reader, closer, inboxN, pong, asked, published, flushed,
                   requests, pings, publishes, line, toServer, toClient, serverVars>>

Publish ==
    /\ pc = "idle" /\ publishes < MaxPublishes
    /\ publishes' = publishes + 1
    /\ \/ /\ Sent([op |-> "publish", id |-> publishes + 1])
          /\ published' = published \cup {publishes + 1}
          /\ Return([op |-> "published"])
       \/ SendRaises /\ Return([op |-> "closed"]) /\ UNCHANGED published
    /\ UNCHANGED <<sock, closing, reader, closer, pending, inboxN, pong, asked, flushed,
                   requests, pings, line, toClient, serverVars>>

\* ping: the event is cleared before the PING goes out.
BeginPing ==
    /\ pc = "idle" /\ pings < MaxPings
    /\ pings' = pings + 1
    /\ pong' = FALSE /\ pc' = "pinging" /\ flushed' = published
    /\ UNCHANGED <<sock, closing, reader, closer, pending, inboxN, asked, result, published,
                   requests, publishes, line, toServer, toClient, serverVars>>

SendPing ==
    /\ pc = "pinging"
    /\ \/ Sent([op |-> "ping"]) /\ pc' = "ponging" /\ UNCHANGED result
       \/ SendRaises /\ Return([op |-> "false"])
    /\ UNCHANGED <<sock, closing, reader, closer, pending, inboxN, pong, asked, published,
                   flushed, requests, pings, publishes, line, toClient, serverVars>>

\* The PONG came, or the deadline did.
EndPing ==
    /\ pc = "ponging"
    /\ Return([op |-> IF pong THEN "true" ELSE "false"])
    /\ UNCHANGED <<sock, closing, reader, closer, pending, inboxN, pong, asked, published,
                   flushed, requests, pings, publishes, line, toServer, toClient, serverVars>>

---------------------------------------------------------------------------
(* The reader thread, and the thread that closes.                          *)

Woken == [n \in DOMAIN pending |-> [pending[n] EXCEPT !.set = TRUE]]

\* _drain, one message: a PONG sets the event, a reply its entry's, and a
\* reply whose entry is gone is discarded.
Dispatch ==
    /\ reader = "reading" /\ ~closing /\ toClient # <<>>
    /\ toClient' = Tail(toClient)
    /\ LET m == Head(toClient)
       IN  \/ m.op = "pong" /\ pong' = TRUE /\ UNCHANGED pending
           \/ /\ m.op = "reply" /\ UNCHANGED pong
              /\ pending' = IF m.n \in DOMAIN pending
                            THEN [pending EXCEPT ![m.n] = [set |-> TRUE, reply |-> m.id]]
                            ELSE pending
    /\ UNCHANGED <<sock, closing, reader, closer, inboxN, threadVars, line, toServer,
                   serverVars>>

\* Nothing more will arrive: the server closed, or the socket was taken away.
Leave ==
    /\ reader = "reading"
    /\ closing \/ (~line /\ toClient = <<>>)
    /\ reader' = "dropping"
    /\ UNCHANGED <<sock, closing, closer, pending, inboxN, pong, threadVars, line, toServer,
                   toClient, serverVars>>

\* A plausible slip: the socket stays.
DropNothing ==
    /\ reader = "dropping" /\ reader' = "waking"
    /\ UNCHANGED <<sock, closing, closer, pending, inboxN, pong, threadVars, line, toServer,
                   toClient, serverVars>>

\* First the socket goes, so that no one can begin to wait,
Drop ==
    /\ reader = "dropping" /\ reader' = "waking"
    /\ sock' = FALSE
    /\ line' = FALSE /\ toServer' = IF sock THEN <<>> ELSE toServer
    /\ UNCHANGED <<closing, closer, pending, inboxN, pong, threadVars, toClient, serverVars>>

\* then whoever waits is woken.
Wake ==
    /\ reader = "waking" /\ reader' = "gone"
    /\ pending' = Woken
    /\ UNCHANGED <<sock, closing, closer, inboxN, pong, threadVars, line, toServer, toClient,
                   serverVars>>

\* close, by any thread, in the same order.
Close ==
    /\ closer = "before" /\ closer' = "waking"
    /\ closing' = TRUE /\ sock' = FALSE
    /\ line' = FALSE /\ toServer' = IF sock THEN <<>> ELSE toServer
    /\ UNCHANGED <<reader, pending, inboxN, pong, threadVars, toClient, serverVars>>

CloseWakes ==
    /\ closer = "waking" /\ closer' = "done"
    /\ pending' = Woken
    /\ UNCHANGED <<sock, closing, reader, inboxN, pong, threadVars, line, toServer, toClient,
                   serverVars>>

---------------------------------------------------------------------------
(* The broker and whoever answers requests.                                *)

\* Messages of one connection are taken in order; a torn one ends it.
ServerTakes ==
    /\ line /\ toServer # <<>>
    /\ LET m == Head(toServer)
       IN  /\ line' = (m.op # "torn")
           /\ toServer' = IF m.op = "torn" THEN <<>> ELSE Tail(toServer)
           /\ toClient' = IF m.op = "ping" THEN Append(toClient, [op |-> "pong"]) ELSE toClient
           /\ inHand' = IF m.op = "request" THEN inHand \cup {[id |-> m.id, n |-> m.n]}
                        ELSE inHand
           /\ received' = IF m.op = "publish" THEN received \cup {m.id} ELSE received
    /\ UNCHANGED <<sock, closing, reader, closer, pending, inboxN, pong, threadVars>>

\* A reply, however late.
Reply(h) ==
    /\ line /\ inHand' = inHand \ {h}
    /\ toClient' = Append(toClient, [op |-> "reply", id |-> h.id, n |-> h.n])
    /\ UNCHANGED <<sock, closing, reader, closer, pending, inboxN, pong, threadVars, line,
                   toServer, received>>

\* The connection breaks; what was on its way to the broker is lost.
Break ==
    /\ line /\ line' = FALSE /\ toServer' = <<>>
    /\ UNCHANGED <<sock, closing, reader, closer, pending, inboxN, pong, threadVars,
                   toClient, serverVars>>

Asking == Register \/ Ask \/ Answered \/ Expire \/ Publish \/ BeginPing \/ SendPing \/ EndPing
Reading == Dispatch \/ Leave \/ Drop \/ Wake
Serving == ServerTakes \/ (\E h \in inHand : Reply(h)) \/ Break

Next == Asking \/ Reading \/ Close \/ CloseWakes \/ Serving

Spec == Init /\ [][Next]_vars

\* The reader thread runs: its receive times out twice a second.
FairSpec == Spec /\ WF_vars(Reading)

---------------------------------------------------------------------------
(* Properties.                                                             *)

TypeOK ==
    /\ {sock, closing, pong, line} \subseteq BOOLEAN
    /\ reader \in {"reading", "dropping", "waking", "gone"}
    /\ closer \in {"before", "waking", "done"}
    /\ pc \in {"idle", "asking", "waiting", "pinging", "ponging"}
    /\ DOMAIN pending \subseteq 1..inboxN /\ inboxN \in 0..MaxRequests
    /\ \A n \in DOMAIN pending :
          pending[n].set \in BOOLEAN /\ pending[n].reply \in 0..MaxRequests
    /\ pc \in {"asking", "waiting"} => asked.n \in DOMAIN pending
    /\ received \subseteq 1..MaxPublishes /\ published \subseteq 1..publishes

\* A request returns its own reply or none: a reply later than its deadline is
\* never handed to the request that waits next (natsc.py:302-331).
OwnReply == result.op = "reply" => result.to = result.of

\* No entry outlives its request, so late replies find none (natsc.py:310-331).
NoEntryLeft == pc \notin {"asking", "waiting"} => pending = <<>>

\* Once the reader is gone nobody waits for a reply that can no longer come:
\* whoever still waits has been woken (natsc.py:188-197).
NobodyLeftWaiting ==
    reader = "gone" /\ pc = "waiting" => pending[asked.n].set

\* A broken connection is noticed, so that a new one can be dialled, provided
\* the break gives a sign: a receive that fails or ends (natsc.py:191-195,
\* agent.py:691-707).  One that gives none is AgentLink's (ServedAgainAlways).
BreakNoticed == ~line ~> ~IsConnected

\* A ping that succeeds proves that every earlier publish was received
\* (natsc.py:337-342).
PongFlushes == result.op = "true" => flushed \subseteq received
=============================================================================
