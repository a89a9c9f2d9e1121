--------------------------- MODULE NatsClientProofs ---------------------------
(***************************************************************************)
(* What asking over one connection promises, for any number of requests,   *)
(* pings and publishes, whenever the connection breaks or is closed.       *)
(*                                                                         *)
(* The argument: a request number is used once, and a reply carries the    *)
(* number its request went out under; there is an entry exactly while a    *)
(* request is being asked, and it is that request's; and the socket goes   *)
(* before the waiting are woken, so nobody begins to wait too late.        *)
(***************************************************************************)
EXTENDS NatsClient, SequenceTheorems, TLAPS

\* What travels; a request and its reply go under the request's own number.
Numbered == {[id |-> i, n |-> i] : i \in Nat}
ToServer == {[op |-> "request", id |-> i, n |-> i] : i \in Nat}
            \cup {[op |-> "publish", id |-> i] : i \in Nat} \cup {[op |-> "ping"], [op |-> "torn"]}
ToClient == {[op |-> "reply", id |-> i, n |-> i] : i \in Nat} \cup {[op |-> "pong"]}
EntriesHeld == [set : BOOLEAN, reply : Nat]

Travelling ==
    /\ toServer \in Seq(ToServer) /\ toClient \in Seq(ToClient) /\ inHand \subseteq Numbered
    /\ publishes \in Nat

Numbers ==
    /\ requests \in Nat /\ inboxN = requests
    /\ asked \in Numbered

\* An entry while a request is asked, its own, and none else.
Entry ==
    /\ pending \in [DOMAIN pending -> EntriesHeld]
    /\ DOMAIN pending = IF pc \in {"asking", "waiting"} THEN {asked.n} ELSE {}
    /\ \A n \in DOMAIN pending : pending[n].reply \in {0, n}

\* Before anyone is woken there is no socket to begin to wait on.
SocketFirst == reader \in {"waking", "gone"} => ~sock

IInv == Travelling /\ Numbers /\ Entry /\ SocketFirst /\ OwnReply /\ NobodyLeftWaiting

\* A function that maps nothing is the empty sequence, and the other way round.
LEMMA NoEntries ==
    /\ \A f : f \in [{} -> EntriesHeld] => f = <<>>
    /\ <<>> \in [{} -> EntriesHeld] /\ DOMAIN <<>> = {}
<1>1. ASSUME NEW f \in [{} -> EntriesHeld]
      PROVE  f = <<>>
    <2>1. f \in [1 .. 0 -> EntriesHeld] /\ DOMAIN f = 1 .. 0
        OBVIOUS
    <2>2. f \in Seq(EntriesHeld)
        BY <2>1, SeqDef
    <2>3. Len(f) = 0
        BY <2>1, <2>2, LenProperties
    <2> QED BY <2>2, <2>3, EmptySeq
<1>2. <<>> \in Seq(EntriesHeld) /\ Len(<<>>) = 0
    BY EmptySeq
<1>3. <<>> \in [1 .. 0 -> EntriesHeld] /\ DOMAIN <<>> = 1 .. 0
    BY <1>2, LenProperties
<1> QED BY <1>1, <1>3

\* Sending, whether it raises or not, puts one message at most on the way.
LEMMA SendKeeps ==
    ASSUME NEW m \in ToServer, toServer \in Seq(ToServer), Sent(m) \/ SendRaises
    PROVE  toServer' \in Seq(ToServer)
<1>1. [op |-> "torn"] \in ToServer
    BY DEF ToServer
<1>2. toServer' \in {toServer, Append(toServer, m), Append(toServer, [op |-> "torn"])}
    BY DEF Sent, SendRaises
<1> QED BY <1>1, <1>2, AppendProperties

\* Waking leaves every entry what it was, but set.
LEMMA WokenKeeps ==
    ASSUME Entry, pending' = Woken, UNCHANGED <<pc, asked>>
    PROVE  Entry' /\ (pc = "waiting" => pending'[asked.n].set)
<1>1. \A n \in DOMAIN pending : /\ [pending[n] EXCEPT !.set = TRUE] \in EntriesHeld
                                /\ [pending[n] EXCEPT !.set = TRUE].set
                                /\ [pending[n] EXCEPT !.set = TRUE].reply = pending[n].reply
    BY DEF Entry, EntriesHeld
<1>2. DOMAIN Woken = DOMAIN pending /\ \A n \in DOMAIN pending :
          Woken[n] = [pending[n] EXCEPT !.set = TRUE]
    BY DEF Woken
<1>3. Woken \in [DOMAIN pending -> EntriesHeld]
    BY <1>1 DEF Woken
<1>4. Entry'
    <2>1. pending' \in [DOMAIN pending' -> EntriesHeld] /\ DOMAIN pending' = DOMAIN pending
        BY <1>2, <1>3
    <2>2. \A n \in DOMAIN pending' : pending'[n].reply \in {0, n}
        BY <1>1, <1>2 DEF Entry
    <2> QED BY <2>1, <2>2 DEF Entry
<1>5. pc = "waiting" => asked.n \in DOMAIN pending
    BY DEF Entry
<1>6. pc = "waiting" => pending'[asked.n].set
    BY <1>1, <1>2, <1>5
<1> QED BY <1>4, <1>6

\* The entry goes with its request.
LEMMA PoppedKeeps ==
    ASSUME Entry, pc \in {"asking", "waiting"}, pending' = Popped, pc' = "idle"
    PROVE  Entry'
<1>1. Popped \in [{} -> EntriesHeld] /\ DOMAIN Popped = {}
    BY DEF Entry, Popped
<1> QED BY <1>1 DEF Entry

LEMMA InitIInv == Init => IInv
<1> SUFFICES ASSUME Init PROVE IInv
    OBVIOUS
<1>1. Travelling
    BY EmptySeq DEF Init, Travelling
<1>2. Numbers
    BY DEF Init, Numbers, Numbered
<1>3. Entry
    BY NoEntries DEF Init, Entry
<1> QED BY <1>1, <1>2, <1>3 DEF Init, IInv, SocketFirst, OwnReply, NobodyLeftWaiting, NoResult

LEMMA AskingIInv == IInv /\ Asking => IInv'
<1> SUFFICES ASSUME IInv, Asking PROVE IInv'
    OBVIOUS
<1>a. asked.n \in Nat /\ asked.id = asked.n
    BY DEF IInv, Numbers, Numbered
<1>1. CASE Register
    <2>1. /\ pc = "idle" /\ pc' = "asking" /\ requests' = requests + 1 /\ inboxN' = inboxN + 1
          /\ asked' = [id |-> requests + 1, n |-> inboxN + 1]
          /\ pending' = [n \in DOMAIN pending \cup {inboxN + 1} |->
                           IF n = inboxN + 1 THEN [set |-> FALSE, reply |-> 0] ELSE pending[n]]
          /\ UNCHANGED <<sock, reader, result, publishes, toServer, toClient, inHand>>
        BY <1>1 DEF Register, serverVars
    <2>2. Numbers'
        BY <2>1 DEF IInv, Numbers, Numbered
    <2>3. asked'.n = inboxN + 1 /\ DOMAIN pending = {}
        BY <2>1 DEF IInv, Entry
    <2>4. [set |-> FALSE, reply |-> 0] \in EntriesHeld
        BY DEF EntriesHeld
    <2>5. DOMAIN pending' = {asked'.n} /\ pending'[asked'.n] = [set |-> FALSE, reply |-> 0]
        BY <2>1, <2>3
    <2>6. pending' \in [{asked'.n} -> EntriesHeld]
        BY <2>1, <2>3, <2>4
    <2>7. Entry'
        BY <2>1, <2>5, <2>6 DEF Entry
    <2> QED BY <2>1, <2>2, <2>7 DEF IInv, Travelling, SocketFirst, OwnReply, NobodyLeftWaiting
<1>2. CASE Ask
    <2> DEFINE m == [op |-> "request", id |-> asked.id, n |-> asked.n]
    <2>1. pc = "asking" /\ UNCHANGED <<sock, reader, inboxN, asked, requests, publishes, toClient, inHand>>
        BY <1>2 DEF Ask, serverVars
    <2>2. m \in ToServer
        BY <1>a DEF ToServer
    <2>3. toServer' \in Seq(ToServer)
        BY <1>2, <2>2, SendKeeps DEF Ask, IInv, Travelling
    <2>4. CASE Sent(m) /\ pc' = "waiting" /\ UNCHANGED <<pending, result>>
        BY <2>1, <2>3, <2>4 DEF Sent, IInv, Travelling, Numbers, Entry, SocketFirst, OwnReply,
                                NobodyLeftWaiting
    <2>5. CASE pending' = Popped /\ Return([op |-> "closed"])
        <3>1. pc' = "idle" /\ result'.op = "closed"
            BY <2>5 DEF Return
        <3>2. Entry'
            BY <2>1, <2>5, <3>1, PoppedKeeps DEF IInv
        <3> QED BY <2>1, <2>3, <3>1, <3>2 DEF IInv, Travelling, Numbers, SocketFirst, OwnReply,
                                              NobodyLeftWaiting
    <2> QED BY <1>2, <2>4, <2>5 DEF Ask
<1>3. CASE Answered
    <2>1. /\ pc = "waiting" /\ pending' = Popped
          /\ UNCHANGED <<sock, reader, inboxN, asked, requests, publishes, toServer, toClient, inHand>>
        BY <1>3 DEF Answered, serverVars
    <2>2. /\ pc' = "idle"
          /\ result' = IF pending[asked.n].reply = 0 THEN [op |-> "closed"]
                       ELSE [op |-> "reply", of |-> asked.id, to |-> pending[asked.n].reply]
        BY <1>3 DEF Answered, Return
    <2>3. pending[asked.n].reply \in {0, asked.n}
        BY <2>1 DEF IInv, Entry
    <2>4. OwnReply'
        BY <1>a, <2>2, <2>3 DEF OwnReply
    <2>5. Entry'
        BY <2>1, <2>2, PoppedKeeps DEF IInv
    <2> QED BY <2>1, <2>2, <2>4, <2>5 DEF IInv, Travelling, Numbers, SocketFirst, NobodyLeftWaiting
<1>4. CASE Expire
    <2>1. /\ pc = "waiting" /\ pending' = Popped /\ pc' = "idle" /\ result'.op = "timeout"
          /\ UNCHANGED <<sock, reader, inboxN, asked, requests, publishes, toServer, toClient, inHand>>
        BY <1>4 DEF Expire, Return, serverVars
    <2>2. Entry'
        BY <2>1, PoppedKeeps DEF IInv
    <2> QED BY <2>1, <2>2 DEF IInv, Travelling, Numbers, SocketFirst, OwnReply, NobodyLeftWaiting
<1>5. CASE Publish
    <2> DEFINE m == [op |-> "publish", id |-> publishes + 1]
    <2>1. /\ pc = "idle" /\ pc' = "idle" /\ publishes' = publishes + 1
          /\ result'.op \in {"published", "closed"}
          /\ UNCHANGED <<sock, reader, pending, inboxN, asked, requests, toClient, inHand>>
        BY <1>5 DEF Publish, Return, serverVars
    <2>2. m \in ToServer /\ publishes' \in Nat
        BY <2>1 DEF ToServer, IInv, Travelling
    <2>3. toServer' \in Seq(ToServer)
        BY <1>5, <2>2, SendKeeps DEF Publish, IInv, Travelling
    <2> QED BY <2>1, <2>2, <2>3 DEF IInv, Travelling, Numbers, Entry, SocketFirst, OwnReply,
                                    NobodyLeftWaiting
<1>6. CASE BeginPing
    BY <1>6 DEF BeginPing, IInv, Travelling, Numbers, Entry, SocketFirst, OwnReply,
                NobodyLeftWaiting, serverVars
<1>7. CASE SendPing
    <2>1. /\ pc = "pinging" /\ pc' \in {"ponging", "idle"}
          /\ result' = result \/ result'.op = "false"
          /\ UNCHANGED <<sock, reader, pending, inboxN, asked, requests, publishes, toClient, inHand>>
        BY <1>7 DEF SendPing, Return, serverVars
    <2>2. [op |-> "ping"] \in ToServer
        BY DEF ToServer
    <2>3. toServer' \in Seq(ToServer)
        BY <1>7, <2>2, SendKeeps DEF SendPing, IInv, Travelling
    <2> QED BY <2>1, <2>3 DEF IInv, Travelling, Numbers, Entry, SocketFirst, OwnReply,
                              NobodyLeftWaiting
<1>8. CASE EndPing
    <2>1. /\ pc = "ponging" /\ pc' = "idle" /\ result'.op \in {"true", "false"}
          /\ UNCHANGED <<sock, reader, pending, inboxN, asked, requests, publishes, toServer,
                         toClient, inHand>>
        BY <1>8 DEF EndPing, Return, serverVars
    <2> QED BY <2>1 DEF IInv, Travelling, Numbers, Entry, SocketFirst, OwnReply, NobodyLeftWaiting
<1> QED BY <1>1, <1>2, <1>3, <1>4, <1>5, <1>6, <1>7, <1>8 DEF Asking

LEMMA ReadingIInv == IInv /\ Reading => IInv'
<1> SUFFICES ASSUME IInv, Reading PROVE IInv'
    OBVIOUS
<1>1. CASE Dispatch
    <2> DEFINE m == Head(toClient)
    <2>1. /\ reader = "reading" /\ toClient # <<>> /\ toClient' = Tail(toClient)
          /\ UNCHANGED <<sock, reader, inboxN, threadVars, toServer, serverVars>>
        BY <1>1 DEF Dispatch
    <2>2. toClient' \in Seq(ToClient) /\ m \in ToClient
        BY <2>1, HeadTailProperties DEF IInv, Travelling
    <2>3. CASE pending' = pending
        BY <2>1, <2>2, <2>3 DEF IInv, Travelling, Numbers, Entry, SocketFirst, OwnReply,
                                NobodyLeftWaiting, threadVars, serverVars
    <2>4. CASE /\ m.op = "reply" /\ m.n \in DOMAIN pending
               /\ pending' = [pending EXCEPT ![m.n] = [set |-> TRUE, reply |-> m.id]]
        <3>1. PICK i \in Nat : m = [op |-> "reply", id |-> i, n |-> i]
            BY <2>2, <2>4 DEF ToClient
        <3>2. m.id = i /\ m.n = i
            BY <3>1
        <3> HIDE DEF m
        <3>3. [set |-> TRUE, reply |-> i] \in EntriesHeld
            BY DEF EntriesHeld
        <3>4. Entry'
            BY <2>1, <2>4, <3>2, <3>3 DEF IInv, Entry, threadVars
        <3> QED BY <2>1, <2>2, <3>4 DEF IInv, Travelling, Numbers, SocketFirst, OwnReply,
                                        NobodyLeftWaiting, threadVars, serverVars
    <2> QED BY <1>1, <2>3, <2>4 DEF Dispatch
<1>2. CASE Leave
    BY <1>2 DEF Leave, IInv, Travelling, Numbers, Entry, SocketFirst, OwnReply,
                NobodyLeftWaiting, threadVars, serverVars
<1>3. CASE Drop
    <2>1. toServer' \in Seq(ToServer)
        BY <1>3, EmptySeq DEF Drop, IInv, Travelling
    <2> QED BY <1>3, <2>1 DEF Drop, IInv, Travelling, Numbers, Entry, SocketFirst, OwnReply,
                        NobodyLeftWaiting, threadVars, serverVars
<1>4. CASE Wake
    <2>1. pending' = Woken /\ reader = "waking"
          /\ UNCHANGED <<sock, inboxN, threadVars, toServer, toClient, serverVars>>
        BY <1>4 DEF Wake
    <2>2. Entry' /\ (pc = "waiting" => pending'[asked.n].set)
        BY <2>1, WokenKeeps DEF IInv, threadVars
    <2> QED BY <2>1, <2>2 DEF IInv, Travelling, Numbers, SocketFirst, OwnReply,
                              NobodyLeftWaiting, threadVars, serverVars
<1> QED BY <1>1, <1>2, <1>3, <1>4 DEF Reading

LEMMA ClosingIInv == IInv /\ (Close \/ CloseWakes) => IInv'
<1> SUFFICES ASSUME IInv, Close \/ CloseWakes PROVE IInv'
    OBVIOUS
<1>1. CASE Close
    <2>1. toServer' \in Seq(ToServer)
        BY <1>1, EmptySeq DEF Close, IInv, Travelling
    <2> QED BY <1>1, <2>1 DEF Close, IInv, Travelling, Numbers, Entry, SocketFirst, OwnReply,
                        NobodyLeftWaiting, threadVars, serverVars
<1>2. CASE CloseWakes
    <2>1. pending' = Woken
          /\ UNCHANGED <<sock, reader, inboxN, threadVars, toServer, toClient, serverVars>>
        BY <1>2 DEF CloseWakes
    <2>2. Entry' /\ (pc = "waiting" => pending'[asked.n].set)
        BY <2>1, WokenKeeps DEF IInv, threadVars
    <2> QED BY <2>1, <2>2 DEF IInv, Travelling, Numbers, SocketFirst, OwnReply,
                              NobodyLeftWaiting, threadVars, serverVars
<1> QED BY <1>1, <1>2

LEMMA ServingIInv == IInv /\ Serving => IInv'
<1> SUFFICES ASSUME IInv, Serving PROVE IInv'
    OBVIOUS
<1>1. CASE ServerTakes
    <2> DEFINE m == Head(toServer)
    <2>1. /\ toServer # <<>>
          /\ toServer' = IF m.op = "torn" THEN <<>> ELSE Tail(toServer)
          /\ toClient' = IF m.op = "ping" THEN Append(toClient, [op |-> "pong"]) ELSE toClient
          /\ inHand' = IF m.op = "request" THEN inHand \cup {[id |-> m.id, n |-> m.n]} ELSE inHand
          /\ UNCHANGED <<sock, reader, pending, inboxN, threadVars>>
        BY <1>1 DEF ServerTakes
    <2>2. Tail(toServer) \in Seq(ToServer) /\ m \in ToServer /\ <<>> \in Seq(ToServer)
        BY <2>1, HeadTailProperties, EmptySeq DEF IInv, Travelling
    <2>3. [op |-> "pong"] \in ToClient
        BY DEF ToClient
    <2>4. m.op = "request" => [id |-> m.id, n |-> m.n] \in Numbered
        BY <2>2 DEF ToServer, Numbered
    <2> HIDE DEF m
    <2>5. toClient' \in Seq(ToClient)
        BY <2>1, <2>3, AppendProperties DEF IInv, Travelling
    <2>6. Travelling'
        BY <2>1, <2>2, <2>4, <2>5 DEF IInv, Travelling, threadVars
    <2> QED BY <2>1, <2>6 DEF IInv, Numbers, Entry, SocketFirst, OwnReply, NobodyLeftWaiting,
                              threadVars
<1>2. CASE \E h \in inHand : Reply(h)
    <2>1. PICK h \in inHand : Reply(h)
        BY <1>2
    <2>2. /\ inHand' = inHand \ {h}
          /\ toClient' = Append(toClient, [op |-> "reply", id |-> h.id, n |-> h.n])
          /\ UNCHANGED <<sock, reader, pending, inboxN, threadVars, toServer>>
        BY <2>1 DEF Reply
    <2>3. [op |-> "reply", id |-> h.id, n |-> h.n] \in ToClient
        BY DEF IInv, Travelling, Numbered, ToClient
    <2>4. toClient' \in Seq(ToClient)
        BY <2>2, <2>3, AppendProperties DEF IInv, Travelling
    <2> QED BY <2>2, <2>4 DEF IInv, Travelling, Numbers, Entry, SocketFirst, OwnReply,
                              NobodyLeftWaiting, threadVars
<1>3. CASE Break
    <2>1. toServer' \in Seq(ToServer)
        BY <1>3, EmptySeq DEF Break
    <2> QED BY <1>3, <2>1 DEF Break, IInv, Travelling, Numbers, Entry, SocketFirst, OwnReply,
                        NobodyLeftWaiting, threadVars, serverVars
<1> QED BY <1>1, <1>2, <1>3 DEF Serving

LEMMA SpecIInv == Spec => []IInv
<1>1. IInv /\ [Next]_vars => IInv'
    <2> SUFFICES ASSUME IInv, [Next]_vars PROVE IInv'
        OBVIOUS
    <2>1. CASE UNCHANGED vars
        BY <2>1 DEF vars, threadVars, serverVars, IInv, Travelling, Numbers, Entry, SocketFirst,
                    OwnReply, NobodyLeftWaiting
    <2>2. CASE Next
        BY <2>2, AskingIInv, ReadingIInv, ClosingIInv, ServingIInv DEF Next
    <2> QED BY <2>1, <2>2
<1> QED BY <1>1, InitIInv, PTL DEF Spec

\* However late replies are, a request never returns another's (natsc.Client.
\* request, _dispatch).
THEOREM OwnReplyHolds == Spec => []OwnReply
<1>1. IInv => OwnReply
    BY DEF IInv
<1> QED BY <1>1, SpecIInv, PTL

\* However a request ends, nothing of it stays in _pending.
THEOREM NoEntryLeftHolds == Spec => []NoEntryLeft
<1>1. IInv => NoEntryLeft
    BY NoEntries DEF IInv, Entry, NoEntryLeft
<1> QED BY <1>1, SpecIInv, PTL

\* Nobody begins to wait, or goes on waiting, after the reader has woken those
\* who wait: the socket goes first (_drop_socket, _read_loop, close).
THEOREM NobodyLeftWaitingHolds == Spec => []NobodyLeftWaiting
<1>1. IInv => NobodyLeftWaiting
    BY DEF IInv
<1> QED BY <1>1, SpecIInv, PTL

===============================================================================
