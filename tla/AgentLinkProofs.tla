--------------------------- MODULE AgentLinkProofs ---------------------------
(***************************************************************************)
(* One command at a time, and no announcement without subscriptions, for   *)
(* any number of broken connections and of commands.                       *)
(*                                                                         *)
(* The argument: the agent dials only when its connection's socket is gone *)
(* and it is the reader, on its way out, that lets the socket go; so when  *)
(* a connection is made every earlier reader has ended.  What the broker   *)
(* has of a connection grows in one order while the line stands and is     *)
(* lost as a whole with it.                                                *)
(***************************************************************************)
EXTENDS AgentLink, SequenceTheorems, TLAPS

TypesHold == conns \in Seq(Connections) /\ commands \in 0 .. MaxCommands

\* A connection as such: without a socket nobody reads, and it is announced
\* only with both subscriptions.
Sound(c) == (~c.sock => c.reader = "gone") /\ (c.hello => c.subs = Kinds)

AllSound == \A i \in 1 .. Len(conns) : Sound(conns[i])

EarlierGone == \A i \in 1 .. Len(conns) : i < Len(conns) => conns[i].reader = "gone"

NobodyWhileDialling ==
    pc \in {"dial", "greet", "mute"} => \A i \in 1 .. Len(conns) : conns[i].reader = "gone"

\* What the standing line's broker has, by the message that goes next.
SubscribedInOrder ==
    /\ pc \in {"fire", "rpc", "hello"} => Len(conns) > 0
    /\ pc = "rpc" /\ conns[Len(conns)].line => "fire" \in conns[Len(conns)].subs
    /\ pc = "hello" /\ conns[Len(conns)].line => conns[Len(conns)].subs = Kinds

IInv == TypesHold /\ AllSound /\ EarlierGone /\ NobodyWhileDialling /\ SubscribedInOrder

\* Between two of a connection's states nobody starts to read, and the broker
\* keeps what it has while the line stands.
Harmless(c, d) ==
    /\ Sound(d)
    /\ c.reader = "gone" => d.reader = "gone"
    /\ d.line => c.line /\ d.subs = c.subs

\* A function over 1..n is a sequence.
LEMMA FunctionIsSeq ==
    ASSUME NEW S, NEW n \in Nat, NEW f \in [1 .. n -> S]
    PROVE  f \in Seq(S) /\ Len(f) = n
<1>1. f \in Seq(S)
    BY SeqDef
<1>2. DOMAIN f = 1 .. n /\ DOMAIN f = 1 .. Len(f) /\ Len(f) \in Nat
    BY <1>1, LenProperties
<1> QED BY <1>1, <1>2

\* The fields of a connection.
LEMMA Fields ==
    ASSUME NEW c \in Connections
    PROVE  /\ c.line \in BOOLEAN /\ c.noticed \in BOOLEAN /\ c.sock \in BOOLEAN
           /\ c.reader \in {"reading", "handling", "gone"} /\ c.subs \in SUBSET Kinds
           /\ c.hello \in BOOLEAN /\ c.queue \in Seq(1 .. MaxCommands)
BY DEF Connections

LEMMA HarmlessSteps ==
    ASSUME IInv, conns' \in Seq(Connections), Len(conns') = Len(conns),
           \A i \in 1 .. Len(conns) : Harmless(conns[i], conns'[i]),
           pc' = pc, commands' \in 0 .. MaxCommands
    PROVE  IInv'
<1>1. Len(conns) \in Nat
    BY LenProperties DEF IInv, TypesHold
<1>2. AllSound' /\ EarlierGone' /\ NobodyWhileDialling'
    BY DEF IInv, AllSound, EarlierGone, NobodyWhileDialling, Harmless
<1>3. SubscribedInOrder'
    BY <1>1 DEF IInv, SubscribedInOrder, Harmless
<1> QED BY <1>2, <1>3 DEF IInv, TypesHold

LEMMA OneConnectionSteps ==
    ASSUME IInv, NEW i \in 1 .. Len(conns), NEW d \in Connections,
           conns' = [conns EXCEPT ![i] = d], Harmless(conns[i], d),
           pc' = pc, commands' = commands
    PROVE  IInv'
<1>1. /\ conns' \in Seq(Connections) /\ Len(conns') = Len(conns)
      /\ \A j \in 1 .. Len(conns) : conns'[j] = IF j = i THEN d ELSE conns[j]
    BY ExceptSeq DEF IInv, TypesHold
<1>2. \A j \in 1 .. Len(conns) : Harmless(conns[j], conns'[j])
    BY <1>1 DEF IInv, AllSound, Harmless
<1> QED BY <1>1, <1>2, HarmlessSteps DEF IInv, TypesHold

LEMMA InitIInv == Init => IInv
<1> SUFFICES ASSUME Init PROVE IInv
    OBVIOUS
<1>1. conns \in Seq(Connections) /\ Len(conns) = 0
    BY EmptySeq DEF Init
<1> QED BY <1>1, LinkAssumption DEF Init, IInv, TypesHold, AllSound, EarlierGone,
                                    NobodyWhileDialling, SubscribedInOrder

LEMMA MainIInv == IInv /\ Main => IInv'
<1> SUFFICES ASSUME IInv, Main PROVE IInv'
    OBVIOUS
<1>a. conns \in Seq(Connections) /\ Len(conns) \in Nat /\ DOMAIN conns = 1 .. Len(conns)
    BY LenProperties DEF IInv, TypesHold
<1>1. CASE Dial \/ DialFails
    BY <1>1 DEF Dial, DialFails, IInv, TypesHold, AllSound, EarlierGone, NobodyWhileDialling,
                SubscribedInOrder
<1>2. CASE Greeted
    <2>1. /\ pc = "greet" /\ pc' = "fire" /\ commands' = commands
          /\ conns' = Append(conns, Fresh)
        BY <1>2 DEF Greeted
    <2>2. Fresh \in Connections /\ Sound(Fresh)
        <3>1. <<>> \in Seq(1 .. MaxCommands)
            BY EmptySeq
        <3> QED BY <3>1 DEF Fresh, Connections, Sound
    <2>3. /\ conns' \in Seq(Connections) /\ Len(conns') = Len(conns) + 1
          /\ \A i \in 1 .. Len(conns) : conns'[i] = conns[i]
          /\ conns'[Len(conns) + 1] = Fresh
        BY <1>a, <2>1, <2>2, AppendProperties
    <2>4. \A i \in 1 .. Len(conns') : i \in 1 .. Len(conns) \/ i = Len(conns) + 1
        BY <1>a, <2>3
    <2>5. AllSound'
        BY <2>2, <2>3, <2>4 DEF IInv, AllSound
    <2>6. EarlierGone'
        BY <1>a, <2>1, <2>3, <2>4 DEF IInv, EarlierGone, NobodyWhileDialling
    <2> QED BY <1>a, <2>1, <2>3, <2>5, <2>6 DEF IInv, TypesHold, NobodyWhileDialling,
                                                SubscribedInOrder
<1>3. CASE Redial
    <2>1. \A i \in 1 .. Len(conns) : conns[i].reader = "gone"
        <3>1. conns = <<>> \/ (Len(conns) \in 1 .. Len(conns) /\ ~conns[Len(conns)].sock)
            BY <1>3, <1>a, EmptySeq DEF Redial, IsConnected, Current
        <3>2. CASE conns = <<>>
            BY <3>2, EmptySeq
        <3>3. CASE Len(conns) \in 1 .. Len(conns) /\ ~conns[Len(conns)].sock
            BY <1>a, <3>3 DEF IInv, AllSound, Sound, EarlierGone
        <3> QED BY <3>1, <3>2, <3>3
    <2> QED BY <1>3, <2>1 DEF Redial, IInv, TypesHold, AllSound, EarlierGone,
                              NobodyWhileDialling, SubscribedInOrder
<1>4. CASE \E what \in DOMAIN After : SendRaises(what)
    BY <1>4 DEF SendRaises, IInv, TypesHold, AllSound, EarlierGone, NobodyWhileDialling,
                SubscribedInOrder
<1>5. CASE \E what \in DOMAIN After : Send(what)
    <2>1. PICK what \in {"fire", "rpc", "hello"} : Send(what)
        BY <1>5 DEF After
    <2> DEFINE n == Len(conns)  c == conns[n]
    <2>2. /\ pc = what /\ commands' = commands
          /\ pc' = IF what = "fire" THEN "rpc" ELSE IF what = "rpc" THEN "hello" ELSE "serve"
        BY <2>1 DEF Send, After
    <2>3. n \in 1 .. Len(conns) /\ c \in Connections
        BY <1>a, <2>2, ElementOfSeq DEF IInv, SubscribedInOrder
    <2>4. conns' = IF c.line THEN [conns EXCEPT ![n] = Taken(c, what)] ELSE conns
        BY <2>1 DEF Send, Current
    <2>5. CASE ~c.line
        BY <2>2, <2>4, <2>5 DEF IInv, TypesHold, AllSound, EarlierGone, NobodyWhileDialling,
                                SubscribedInOrder
    <2>6. CASE c.line
        <3> DEFINE d == Taken(c, what)
        <3>1. /\ d \in Connections /\ d.reader = c.reader /\ d.sock = c.sock
              /\ d.subs = IF what = "hello" THEN c.subs ELSE c.subs \cup {what}
              /\ d.hello = IF what = "hello" THEN TRUE ELSE c.hello
            BY <2>3 DEF Taken, Connections, Kinds
        <3>2. conns' = [conns EXCEPT ![n] = d]
            BY <2>4, <2>6
        <3> HIDE DEF d
        <3>3. /\ conns' \in Seq(Connections) /\ Len(conns') = n
              /\ \A j \in 1 .. n : conns'[j] = IF j = n THEN d ELSE conns[j]
            BY <1>a, <2>3, <3>1, <3>2, ExceptSeq
        <3>4. c.subs \subseteq Kinds /\ Sound(c)
            BY <2>3, Fields DEF IInv, AllSound
        <3>5. what = "hello" => c.subs = Kinds
            BY <2>2, <2>6 DEF IInv, SubscribedInOrder
        <3>6. Sound(d)
            BY <2>1, <3>1, <3>4, <3>5 DEF Sound, Kinds
        <3>7. AllSound' /\ EarlierGone'
            BY <2>3, <3>1, <3>3, <3>6 DEF IInv, AllSound, EarlierGone
        <3>8. SubscribedInOrder'
            <4>1. what = "fire" => "fire" \in d.subs
                BY <3>1
            <4>2. what = "rpc" => d.subs = Kinds
                <5>1. what = "rpc" => "fire" \in c.subs
                    BY <2>2, <2>6 DEF IInv, SubscribedInOrder
                <5> QED BY <3>1, <3>4, <5>1 DEF Kinds
            <4> QED BY <2>1, <2>2, <2>3, <3>3, <4>1, <4>2 DEF SubscribedInOrder
        <3> QED BY <2>1, <2>2, <3>3, <3>7, <3>8 DEF IInv, TypesHold, NobodyWhileDialling
    <2> QED BY <2>5, <2>6
<1> QED BY <1>1, <1>2, <1>3, <1>4, <1>5 DEF Main

LEMMA ReaderIInv == ASSUME NEW i \in DOMAIN conns PROVE IInv /\ Reader(i) => IInv'
<1> SUFFICES ASSUME IInv, Reader(i) PROVE IInv'
    OBVIOUS
<1> DEFINE c == conns[i]
<1>a. i \in 1 .. Len(conns) /\ c \in Connections /\ Sound(c)
    BY LenProperties, ElementOfSeq DEF IInv, TypesHold, AllSound
<1>1. CASE TakeUp(i)
    <2> DEFINE d == [c EXCEPT !.reader = "handling", !.queue = Tail(@)]
    <2>1. Tail(c.queue) \in Seq(1 .. MaxCommands)
        BY <1>1, <1>a, Fields, HeadTailProperties DEF TakeUp
    <2>2. d \in Connections /\ Harmless(c, d)
        BY <1>1, <1>a, <2>1 DEF TakeUp, Connections, Harmless, Sound
    <2>3. conns' = [conns EXCEPT ![i] = d] /\ pc' = pc /\ commands' = commands
        BY <1>1 DEF TakeUp
    <2> QED BY <1>a, <2>2, <2>3, OneConnectionSteps
<1>2. CASE Answer(i)
    <2> DEFINE d == [c EXCEPT !.reader = "reading"]
    <2>1. d \in Connections /\ Harmless(c, d)
        BY <1>2, <1>a DEF Answer, Connections, Harmless, Sound
    <2>2. conns' = [conns EXCEPT ![i] = d] /\ pc' = pc /\ commands' = commands
        BY <1>2 DEF Answer
    <2> QED BY <1>a, <2>1, <2>2, OneConnectionSteps
<1>3. CASE Drop(i)
    <2> DEFINE d == [c EXCEPT !.reader = "gone", !.sock = FALSE]
    <2>1. d \in Connections /\ Harmless(c, d)
        BY <1>a DEF Connections, Harmless, Sound
    <2>2. conns' = [conns EXCEPT ![i] = d] /\ pc' = pc /\ commands' = commands
        BY <1>3 DEF Drop
    <2> QED BY <1>a, <2>1, <2>2, OneConnectionSteps
<1> QED BY <1>1, <1>2, <1>3 DEF Reader

LEMMA BrokenHarmless ==
    ASSUME NEW c \in Connections, Sound(c), NEW sign \in BOOLEAN, NEW keep \in BOOLEAN
    PROVE  Broken(c, sign, keep) \in Connections /\ Harmless(c, Broken(c, sign, keep))
<1>1. <<>> \in Seq(1 .. MaxCommands)
    BY EmptySeq
<1> QED BY <1>1 DEF Broken, Connections, Harmless, Sound

LEMMA BusIInv == IInv /\ Bus => IInv'
<1> SUFFICES ASSUME IInv, Bus PROVE IInv'
    OBVIOUS
<1>a. /\ conns \in Seq(Connections) /\ Len(conns) \in Nat /\ DOMAIN conns = 1 .. Len(conns)
      /\ \A i \in 1 .. Len(conns) : conns[i] \in Connections /\ Sound(conns[i])
    BY LenProperties, ElementOfSeq DEF IInv, TypesHold, AllSound
<1>b. \A i \in 1 .. Len(conns) : Harmless(conns[i], conns[i])
    BY <1>a DEF Harmless
<1>1. CASE FallsSilent
    BY <1>1 DEF FallsSilent, IInv, TypesHold, AllSound, EarlierGone, NobodyWhileDialling,
                SubscribedInOrder
<1>2. CASE BrokerUp
    BY <1>2 DEF BrokerUp, IInv, TypesHold, AllSound, EarlierGone, NobodyWhileDialling,
                SubscribedInOrder
<1>3. CASE \E i \in DOMAIN conns : Break(i)
    <2>1. PICK i \in 1 .. Len(conns) : Break(i)
        BY <1>3, <1>a
    <2>2. PICK keep \in BOOLEAN, sign \in BOOLEAN :
              conns' = [conns EXCEPT ![i] = Broken(conns[i], sign, keep)]
        BY <2>1 DEF Break
    <2>3. /\ Broken(conns[i], sign, keep) \in Connections
          /\ Harmless(conns[i], Broken(conns[i], sign, keep))
        BY <1>a, BrokenHarmless
    <2>4. pc' = pc /\ commands' = commands
        BY <2>1 DEF Break
    <2> QED BY <2>2, <2>3, <2>4, OneConnectionSteps
<1>4. CASE BrokerDown
    <2>1. PICK keep \in BOOLEAN :
              conns' = [i \in DOMAIN conns |->
                           IF conns[i].line THEN Broken(conns[i], TRUE, keep) ELSE conns[i]]
        BY <1>4 DEF BrokerDown
    <2>2. \A i \in 1 .. Len(conns) :
              conns'[i] = IF conns[i].line THEN Broken(conns[i], TRUE, keep) ELSE conns[i]
        BY <1>a, <2>1
    <2>3. \A i \in 1 .. Len(conns) :
              conns'[i] \in Connections /\ Harmless(conns[i], conns'[i])
        BY <1>a, <1>b, <2>2, BrokenHarmless
    <2>4. conns' \in [1 .. Len(conns) -> Connections]
        BY <1>a, <2>1, <2>3
    <2>5. conns' \in Seq(Connections) /\ Len(conns') = Len(conns)
        BY <1>a, <2>4, FunctionIsSeq
    <2>6. pc' = pc /\ commands' = commands
        BY <1>4 DEF BrokerDown
    <2> QED BY <2>3, <2>5, <2>6, HarmlessSteps DEF IInv, TypesHold
<1>5. CASE \E kind \in Kinds : Publish(kind)
    <2>1. PICK kind \in Kinds : Publish(kind)
        BY <1>5
    <2>2. commands' \in 1 .. MaxCommands /\ pc' = pc
        BY <2>1, LinkAssumption DEF Publish, IInv, TypesHold
    <2>3. conns' = [i \in 1 .. Len(conns) |->
                      IF conns[i].line /\ kind \in conns[i].subs
                      THEN [conns[i] EXCEPT !.queue = Append(@, commands')] ELSE conns[i]]
        BY <1>a, <2>1 DEF Publish
    <2>4. ASSUME NEW i \in 1 .. Len(conns)
          PROVE  conns'[i] \in Connections /\ Harmless(conns[i], conns'[i])
        <3> DEFINE c == conns[i]  d == [c EXCEPT !.queue = Append(@, commands')]
        <3>1. c \in Connections /\ Sound(c) /\ Harmless(c, c)
            BY <1>a, <1>b
        <3>2. Append(c.queue, commands') \in Seq(1 .. MaxCommands)
            BY <2>2, <3>1, Fields, AppendProperties
        <3>3. d \in Connections /\ Harmless(c, d)
            BY <3>1, <3>2 DEF Connections, Harmless, Sound
        <3>4. conns'[i] \in {c, d}
            BY <2>3
        <3> QED BY <3>1, <3>3, <3>4
    <2>5. conns' \in [1 .. Len(conns) -> Connections]
        BY <2>3, <2>4
    <2>6. conns' \in Seq(Connections) /\ Len(conns') = Len(conns)
        BY <1>a, <2>5, FunctionIsSeq
    <2> QED BY <2>2, <2>4, <2>6, HarmlessSteps
<1> QED BY <1>1, <1>2, <1>3, <1>4, <1>5 DEF Bus

LEMMA SpecIInv == Spec => []IInv
<1>1. IInv /\ [Next]_vars => IInv'
    <2> SUFFICES ASSUME IInv, [Next]_vars PROVE IInv'
        OBVIOUS
    <2>1. CASE UNCHANGED vars
        BY <2>1 DEF vars, IInv, TypesHold, AllSound, EarlierGone, NobodyWhileDialling,
                    SubscribedInOrder
    <2>2. CASE Next
        BY <2>2, MainIInv, ReaderIInv, BusIInv DEF Next
    <2> QED BY <2>1, <2>2
<1> QED BY <1>1, InitIInv, PTL DEF Spec

\* Whatever breaks, and however often, no two connections' threads are ever in
\* the agent's state together (run_forever, _drop_socket, _on_fire).
THEOREM OneHandlerHolds == Spec => []OneHandler
<1>1. IInv => OneHandler
    <2> SUFFICES ASSUME IInv PROVE OneHandler
        OBVIOUS
    <2>1. Len(conns) \in Nat /\ DOMAIN conns = 1 .. Len(conns)
        BY LenProperties DEF IInv, TypesHold
    <2> QED BY <2>1 DEF IInv, EarlierGone, OneHandler
<1> QED BY <1>1, SpecIInv, PTL

\* A node the broker knows the announcement of has both its subscriptions
\* (Agent.connect).
THEOREM HelloMeansSubscribedHolds == Spec => []HelloMeansSubscribed
<1>1. IInv => HelloMeansSubscribed
    <2> SUFFICES ASSUME IInv PROVE HelloMeansSubscribed
        OBVIOUS
    <2>1. DOMAIN conns = 1 .. Len(conns)
        BY LenProperties DEF IInv, TypesHold
    <2> QED BY <2>1 DEF IInv, AllSound, Sound, HelloMeansSubscribed
<1> QED BY <1>1, SpecIInv, PTL

===============================================================================
