------------------------- MODULE RemoteHandshakeProofs -------------------------
(***************************************************************************)
(* Proofs about RemoteHandshake, for any numbers of connections, hellos,   *)
(* requests, sessions and grants.                                          *)
(***************************************************************************)
EXTENDS RemoteHandshake, FiniteSetTheorems, SequenceTheorems, TLAPS

-----------------------------------------------------------------------------
(* Messages of a channel, as a set. *)

Msgs(s) == {s[i] : i \in 1..Len(s)}

LEMMA MsgsMember ==
    ASSUME NEW S, NEW s \in Seq(S)
    PROVE  /\ Msgs(s) \subseteq S
           /\ \A i \in 1..Len(s) : s[i] \in Msgs(s)
           /\ \A m \in Msgs(s) : \E i \in 1..Len(s) : s[i] = m
BY DEF Msgs

LEMMA MsgsAppend ==
    ASSUME NEW S, NEW s \in Seq(S), NEW e \in S
    PROVE  Append(s, e) \in Seq(S) /\ Msgs(Append(s, e)) = Msgs(s) \cup {e}
<1>1. /\ Append(s, e) \in Seq(S) /\ Len(Append(s, e)) = Len(s) + 1 /\ Len(s) \in Nat
      /\ \A i \in 1..Len(s) : Append(s, e)[i] = s[i]
      /\ Append(s, e)[Len(s) + 1] = e
  BY AppendProperties
<1>2. 1..(Len(s) + 1) = (1..Len(s)) \cup {Len(s) + 1}
  BY <1>1
<1> DEFINE a == Append(s, e)
<1> HIDE DEF a
<1>3. Msgs(a) = Msgs(s) \cup {e}
  <2>1. \A m \in Msgs(a) : m \in Msgs(s) \cup {e}
    BY <1>1, <1>2 DEF Msgs, a
  <2>2. \A m \in Msgs(s) : m \in Msgs(a)
    BY <1>1, <1>2 DEF Msgs, a
  <2>3. e \in Msgs(a)
    BY <1>1, <1>2 DEF Msgs, a
  <2> QED BY <2>1, <2>2, <2>3
<1> QED BY <1>1, <1>3 DEF a

LEMMA MsgsTail ==
    ASSUME NEW S, NEW s \in Seq(S), s # <<>>
    PROVE  /\ Tail(s) \in Seq(S) /\ Msgs(Tail(s)) \subseteq Msgs(s)
           /\ Head(s) \in S /\ Head(s) \in Msgs(s)
           /\ Len(Tail(s)) = Len(s) - 1 /\ Len(s) \in Nat \ {0}
           /\ \A i \in 1..(Len(s) - 1) : Tail(s)[i] = s[i + 1]
           /\ Head(s) = s[1]
<1>1. /\ Tail(s) \in Seq(S) /\ Len(Tail(s)) = Len(s) - 1 /\ Len(s) \in Nat \ {0}
      /\ \A i \in 1..(Len(s) - 1) : Tail(s)[i] = s[i + 1]
      /\ Head(s) = s[1] /\ Head(s) \in S
  BY HeadTailProperties
<1>2. Msgs(Tail(s)) \subseteq Msgs(s)
  <2> SUFFICES ASSUME NEW m \in Msgs(Tail(s)) PROVE m \in Msgs(s)
    OBVIOUS
  <2>1. PICK i \in 1..(Len(s) - 1) : Tail(s)[i] = m
    BY <1>1 DEF Msgs
  <2>2. i + 1 \in 1..Len(s) /\ s[i + 1] = m
    BY <1>1, <2>1
  <2> QED BY <2>2 DEF Msgs
<1>3. Head(s) \in Msgs(s)
  <2>1. 1 \in 1..Len(s)
    BY <1>1
  <2> QED BY <1>1, <2>1 DEF Msgs
<1> QED BY <1>1, <1>2, <1>3

LEMMA MsgsConcat ==
    ASSUME NEW S, NEW s \in Seq(S), NEW u \in Seq(S)
    PROVE  s \o u \in Seq(S) /\ Msgs(s \o u) = Msgs(s) \cup Msgs(u)
<1>1. /\ s \o u \in Seq(S) /\ Len(s \o u) = Len(s) + Len(u)
      /\ Len(s) \in Nat /\ Len(u) \in Nat
      /\ \A i \in 1..(Len(s) + Len(u)) :
            (s \o u)[i] = IF i <= Len(s) THEN s[i] ELSE u[i - Len(s)]
  BY ConcatProperties
<1> DEFINE c == s \o u
<1> HIDE DEF c
<1>2. \A m \in Msgs(c) : m \in Msgs(s) \cup Msgs(u)
  <2> TAKE m \in Msgs(c)
  <2>1. PICK i \in 1..(Len(s) + Len(u)) : c[i] = m
    BY <1>1 DEF Msgs, c
  <2>2. CASE i <= Len(s)
    <3>1. i \in 1..Len(s) /\ s[i] = m
      BY <1>1, <2>1, <2>2 DEF c
    <3> QED BY <3>1 DEF Msgs
  <2>3. CASE ~(i <= Len(s))
    <3>1. i - Len(s) \in 1..Len(u) /\ u[i - Len(s)] = m
      BY <1>1, <2>1, <2>3 DEF c
    <3> QED BY <3>1 DEF Msgs
  <2> QED BY <2>2, <2>3
<1>3. \A m \in Msgs(s) : m \in Msgs(c)
  <2> TAKE m \in Msgs(s)
  <2>1. PICK i \in 1..Len(s) : s[i] = m
    BY DEF Msgs
  <2>2. i \in 1..(Len(s) + Len(u)) /\ c[i] = m
    BY <1>1, <2>1 DEF c
  <2> QED BY <1>1, <2>2 DEF Msgs, c
<1>4. \A m \in Msgs(u) : m \in Msgs(c)
  <2> TAKE m \in Msgs(u)
  <2>1. PICK i \in 1..Len(u) : u[i] = m
    BY DEF Msgs
  <2>2. /\ Len(s) + i \in 1..(Len(s) + Len(u)) /\ ~(Len(s) + i <= Len(s))
        /\ (Len(s) + i) - Len(s) = i
    BY <1>1
  <2>3. c[Len(s) + i] = m
    BY <1>1, <2>1, <2>2 DEF c
  <2> QED BY <1>1, <2>2, <2>3 DEF Msgs, c
<1> QED BY <1>1, <1>2, <1>3, <1>4 DEF c

LEMMA MsgsFew ==
    /\ Msgs(<<>>) = {}
    /\ \A a : Msgs(<<a>>) = {a}
    /\ \A a, b : Msgs(<<a, b>>) = {a, b}
<1>1. Msgs(<<>>) = {}
  BY DEF Msgs
<1>2. ASSUME NEW a PROVE Msgs(<<a>>) = {a}
  <2>1. Len(<<a>>) = 1 /\ <<a>>[1] = a /\ 1..1 = {1}
    OBVIOUS
  <2> QED BY <2>1 DEF Msgs
<1>3. ASSUME NEW a, NEW b PROVE Msgs(<<a, b>>) = {a, b}
  <2>1. Len(<<a, b>>) = 2 /\ <<a, b>>[1] = a /\ <<a, b>>[2] = b /\ 1..2 = {1, 2}
    OBVIOUS
  <2> QED BY <2>1 DEF Msgs
<1> QED BY <1>1, <1>2, <1>3

\* What is on its way to the bridge, over either channel, and to the companion.
Sent(t) == Msgs(wire[t]) \cup Msgs(frames[t])
Told(t) == Msgs(back[t])

-----------------------------------------------------------------------------
(* Types, and what the phases of the bridge mean. *)

Companion ==
    [phase : {"off", "hello", "loading", "audio", "ready"}, transport : Transport \cup {0},
     session : Session, mode : Mode, hellos : Nat, grant : Grant \cup {0},
     sequence : 1..(MaxSequence + 1), waiting : SUBSET Sequence,
     chunking : BOOLEAN, slipped : BOOLEAN]

TypeInv ==
    /\ session \in Session \cup {0}
    /\ access \in Seq(DaemonGrant) /\ Len(access) <= MaxGrant
    /\ bridge \in [phase : {"down", "opening", "up", "stopping"}, session : Session \cup {0}]
    /\ served \in Session \cup {0}
    /\ grants \in [Grant -> Transport \cup {0}]
    /\ latest \in [Transport -> Grant \cup {0}]
    /\ handling \subseteq Pending /\ \A h, k \in handling : h = k
    /\ wire \in [Transport -> Seq(Request)]
    /\ frames \in [Transport -> Seq(Request)]
    /\ back \in [Transport -> Seq(Answer)]
    /\ companion \in Companion
    /\ companion.phase # "off" => companion.transport \in Transport
    /\ executed \subseteq Transport \X Sequence
    /\ confirmed \subseteq Transport \X Sequence

\* The bridge serves its session while it is up; without transports nothing is on its
\* way or being handled; and what is, is of its session.  A session that is being
\* opened is newer than the one the companion has in mind.
BridgeInv ==
    /\ served = IF bridge.phase = "up" THEN bridge.session ELSE 0
    /\ bridge.phase # "down" => bridge.session # 0
    /\ bridge.session <= session
    /\ bridge.phase \in {"down", "opening"} =>
           handling = {} /\ \A t \in Transport : wire[t] = <<>> /\ frames[t] = <<>>
    /\ \A t \in Transport : \A m \in Sent(t) :
           m.session = bridge.session /\ (m.kind = "request" <=> m.sequence # 0)
    /\ \A t \in Transport : \A m \in Msgs(frames[t]) : m.kind = "request"
    /\ \A h \in handling :
           h.message.session = bridge.session
           /\ (h.message.kind = "request" <=> h.message.sequence # 0)
    /\ companion.phase # "off" => companion.session <= session
    /\ bridge.phase = "opening" /\ companion.phase # "off" => companion.session < bridge.session

BaseInv == TypeInv /\ BridgeInv

LEMMA BaseInit == Init => BaseInv
<1> SUFFICES ASSUME Init PROVE BaseInv
  OBVIOUS
<1>1. 1 \in Session /\ 0 \notin Session /\ 1 \in 1..(MaxSequence + 1)
  BY HandshakeAssumption DEF Session
<1>2. companion \in Companion /\ companion.phase = "off"
  BY <1>1 DEF Init, Off, Companion, Mode
<1>3. <<>> \in Seq(Request) /\ <<>> \in Seq(Answer) /\ <<>> \in Seq(DaemonGrant) /\ Len(<<>>) = 0
  OBVIOUS
<1>4. TypeInv
  BY <1>2, <1>3, HandshakeAssumption DEF Init, TypeInv, NoGrants
<1>5. \A t \in Transport : /\ wire[t] = <<>> /\ frames[t] = <<>>
                           /\ Sent(t) = {} /\ Msgs(frames[t]) = {}
  BY MsgsFew DEF Init, Sent
<1>6. BridgeInv
  BY <1>2, <1>5 DEF Init, BridgeInv
<1> QED BY <1>4, <1>6 DEF BaseInv

-----------------------------------------------------------------------------
(* What the steps do to the channels. *)

LEMMA MessageType ==
    ASSUME TypeInv, NEW kind \in {"hello", "goodbye", "request"},
           kind = "request" => companion.sequence <= MaxSequence
    PROVE  Message(kind) \in Request
<1>1. /\ companion.session \in Session /\ companion.mode \in Mode
      /\ companion.grant \in Grant \cup {0} /\ companion.sequence \in 1..(MaxSequence + 1)
  BY DEF TypeInv, Companion
<1>2. (IF kind = "request" THEN companion.sequence ELSE 0) \in Sequence \cup {0}
  BY <1>1, HandshakeAssumption DEF Sequence
<1> QED BY <1>1, <1>2 DEF Message, Request

\* The companion's message is the last one of its transport, of either channel.
SaidBy(t, kind) ==
    /\ wire' \in [Transport -> Seq(Request)] /\ frames' \in [Transport -> Seq(Request)]
    /\ Msgs(wire'[t]) \cup Msgs(frames'[t]) = Sent(t) \cup {Message(kind)}
    /\ \/ wire'[t] = Append(wire[t], Message(kind)) /\ frames' = frames
       \/ /\ kind = "request" /\ frames'[t] = Append(frames[t], Message(kind)) /\ wire' = wire
          /\ Msgs(frames'[t]) = Msgs(frames[t]) \cup {Message(kind)}
    /\ \A u \in Transport : u # t => wire'[u] = wire[u] /\ frames'[u] = frames[u]

LEMMA SayFacts ==
    ASSUME TypeInv, companion.phase # "off", NEW kind \in {"hello", "goodbye", "request"},
           kind = "request" => companion.sequence <= MaxSequence,
           Say(kind), UNCHANGED frames
    PROVE  companion.transport \in Transport /\ SaidBy(companion.transport, kind)
<1> DEFINE t == companion.transport
           m == Message(kind)
<1>1. /\ t \in Transport /\ m \in Request /\ wire \in [Transport -> Seq(Request)]
      /\ frames \in [Transport -> Seq(Request)]
  BY MessageType DEF TypeInv
<1>2. wire' = [wire EXCEPT ![t] = Append(@, m)] /\ frames' = frames
  BY DEF Say
<1> HIDE DEF m, t
<1>3. wire'[t] = Append(wire[t], m) /\ \A u \in Transport : u # t => wire'[u] = wire[u]
  BY <1>1, <1>2
<1>4. Append(wire[t], m) \in Seq(Request) /\ Msgs(Append(wire[t], m)) = Msgs(wire[t]) \cup {m}
  BY <1>1, MsgsAppend
<1>5. wire' \in [Transport -> Seq(Request)]
  BY <1>1, <1>2, <1>4
<1>6. Msgs(wire'[t]) \cup Msgs(frames'[t]) = Sent(t) \cup {m}
  BY <1>2, <1>3, <1>4 DEF Sent
<1>7. SaidBy(t, kind)
  BY <1>1, <1>2, <1>3, <1>5, <1>6 DEF SaidBy, m
<1> QED BY <1>1, <1>7 DEF t

LEMMA ChunkFacts ==
    ASSUME TypeInv, companion.phase # "off", companion.sequence <= MaxSequence, UNCHANGED wire,
           frames' = [frames EXCEPT ![companion.transport] = Append(@, Message("request"))]
    PROVE  companion.transport \in Transport /\ SaidBy(companion.transport, "request")
<1> DEFINE t == companion.transport
           m == Message("request")
<1>1. /\ t \in Transport /\ m \in Request /\ wire \in [Transport -> Seq(Request)]
      /\ frames \in [Transport -> Seq(Request)]
  BY MessageType DEF TypeInv
<1>2. frames' = [frames EXCEPT ![t] = Append(@, m)] /\ wire' = wire
  OBVIOUS
<1> HIDE DEF m, t
<1>3. frames'[t] = Append(frames[t], m) /\ \A u \in Transport : u # t => frames'[u] = frames[u]
  BY <1>1, <1>2
<1>4. /\ Append(frames[t], m) \in Seq(Request)
      /\ Msgs(Append(frames[t], m)) = Msgs(frames[t]) \cup {m}
  BY <1>1, MsgsAppend
<1>5. frames' \in [Transport -> Seq(Request)]
  BY <1>1, <1>2, <1>4
<1>6. /\ Msgs(wire'[t]) \cup Msgs(frames'[t]) = Sent(t) \cup {m}
      /\ Msgs(frames'[t]) = Msgs(frames[t]) \cup {m}
  BY <1>2, <1>3, <1>4 DEF Sent
<1>7. SaidBy(t, "request")
  BY <1>1, <1>2, <1>3, <1>5, <1>6 DEF SaidBy, m
<1> QED BY <1>1, <1>7 DEF t

\* The first message of t is taken off a channel.
TakenOff(before, after, t, S) ==
    /\ after \in [Transport -> Seq(S)]
    /\ before[t] # <<>>
    /\ Head(before[t]) \in S /\ Head(before[t]) \in Msgs(before[t])
    /\ Msgs(after[t]) \subseteq Msgs(before[t])
    /\ after[t] = Tail(before[t])
    /\ \A u \in Transport : u # t => after[u] = before[u]

LEMMA TakeFacts ==
    ASSUME NEW S, NEW before \in [Transport -> Seq(S)], NEW t \in Transport, before[t] # <<>>,
           NEW after, after = [before EXCEPT ![t] = Tail(@)]
    PROVE  TakenOff(before, after, t, S)
<1>1. /\ Tail(before[t]) \in Seq(S) /\ Msgs(Tail(before[t])) \subseteq Msgs(before[t])
      /\ Head(before[t]) \in S /\ Head(before[t]) \in Msgs(before[t])
  <2>1. before[t] \in Seq(S)
    OBVIOUS
  <2> QED BY <2>1, MsgsTail
<1>2. after[t] = Tail(before[t]) /\ \A u \in Transport : u # t => after[u] = before[u]
  OBVIOUS
<1>3. after \in [Transport -> Seq(S)]
  BY <1>1
<1> QED BY <1>1, <1>2, <1>3 DEF TakenOff

\* Answers are added for t only.
Answered(t, answers) ==
    /\ back' \in [Transport -> Seq(Answer)]
    /\ Msgs(back'[t]) = Msgs(back[t]) \cup answers
    /\ \A u \in Transport : u # t => back'[u] = back[u]

LEMMA ReplyFacts ==
    ASSUME TypeInv, NEW t \in Transport, NEW answers \in Seq(Answer), Reply(t, answers)
    PROVE  Answered(t, Msgs(answers))
<1>1. back \in [Transport -> Seq(Answer)] /\ back' = [back EXCEPT ![t] = @ \o answers]
  BY DEF TypeInv, Reply
<1>2. back[t] \o answers \in Seq(Answer) /\ Msgs(back[t] \o answers) = Msgs(back[t]) \cup Msgs(answers)
  BY <1>1, MsgsConcat
<1>3. back'[t] = back[t] \o answers /\ \A u \in Transport : u # t => back'[u] = back[u]
  BY <1>1
<1>4. back' \in [Transport -> Seq(Answer)]
  BY <1>1, <1>2
<1> QED BY <1>2, <1>3, <1>4 DEF Answered

LEMMA AnswerTypes ==
    /\ \A n \in Sequence \cup {0} :
         /\ Rejected(n) \in Answer /\ <<Rejected(n)>> \in Seq(Answer)
         /\ Applied(n) \in Answer /\ <<Applied(n)>> \in Seq(Answer)
    /\ Snapshot \in Answer /\ <<Snapshot>> \in Seq(Answer) /\ <<>> \in Seq(Answer)
    /\ \A h : h.grant \in Grant \cup {0} =>
         <<Ready(h)>> \in Seq(Answer) /\ <<Ready(h), Snapshot>> \in Seq(Answer)
<1>1. \A n \in Sequence \cup {0} : Rejected(n) \in Answer /\ Applied(n) \in Answer
  BY DEF Rejected, Applied, Answer
<1>2. Snapshot \in Answer
  BY DEF Snapshot, Answer
<1>3. \A h : h.grant \in Grant \cup {0} => Ready(h) \in Answer
  BY DEF Ready, Answer
<1> QED BY <1>1, <1>2, <1>3

-----------------------------------------------------------------------------
(* The steps keep the types and the phases. *)

LEMMA BaseNewSession ==
    ASSUME BaseInv, NEW mine \in BOOLEAN, NewSession(mine)
    PROVE  BaseInv'
<1>1. /\ session \in Nat /\ session' = session + 1 /\ session' \in Session
      /\ session' # 0
  BY HandshakeAssumption DEF BaseInv, TypeInv, NewSession, Session
<1>2. access' \in Seq(DaemonGrant) /\ Len(access') <= MaxGrant
  <2>1. /\ access \in Seq(DaemonGrant) /\ Len(access) <= MaxGrant
        /\ access' = [g \in DOMAIN access |-> [access[g] EXCEPT !.live = FALSE]]
    BY DEF BaseInv, TypeInv, NewSession
  <2>2. ASSUME NEW g \in DOMAIN access
        PROVE  [access[g] EXCEPT !.live = FALSE] \in DaemonGrant
    <3>1. access[g] \in DaemonGrant
      BY <2>1
    <3> QED BY <3>1 DEF DaemonGrant
  <2> QED BY <2>1, <2>2
<1>3. UNCHANGED <<served, grants, latest, handling, wire, frames, back, companion, executed, confirmed>>
  BY DEF NewSession
<1>4. bridge' \in [phase : {"down", "opening", "up", "stopping"}, session : Session \cup {0}]
  <2>1. CASE mine
    <3>1. bridge' = [phase |-> "opening", session |-> session']
      BY <2>1 DEF NewSession
    <3> QED BY <1>1, <3>1
  <2>2. CASE ~mine
    BY <2>2 DEF NewSession, BaseInv, TypeInv
  <2> QED BY <2>1, <2>2
<1>5. TypeInv'
  BY <1>1, <1>2, <1>3, <1>4 DEF BaseInv, TypeInv
<1>6. BridgeInv'
  <2>1. CASE mine
    <3>1. bridge.phase = "down" /\ bridge' = [phase |-> "opening", session |-> session']
      BY <2>1 DEF NewSession
    <3>2. /\ served = 0 /\ handling = {}
          /\ \A t \in Transport : wire[t] = <<>> /\ frames[t] = <<>> /\ Sent(t) = {}
          /\ companion.phase # "off" => companion.session < session'
      <4>1. companion.session \in Nat
        BY DEF BaseInv, TypeInv, Companion, Session
      <4> QED BY <1>1, <3>1, <4>1, MsgsFew DEF BaseInv, BridgeInv, Sent
    <3>3. bridge'.phase = "opening" /\ bridge'.session = session'
      BY <3>1
    <3>4. \A t \in Transport : /\ wire'[t] = <<>> /\ frames'[t] = <<>>
                               /\ Sent(t)' = {} /\ Msgs(frames'[t]) = {}
      BY <1>3, <3>2, MsgsFew DEF Sent
    <3>5. served' = 0 /\ handling' = {} /\ companion' = companion
          /\ (companion.phase # "off" => companion.session <= session')
      <4>1. companion.session \in Nat
        BY DEF BaseInv, TypeInv, Companion, Session
      <4> QED BY <1>1, <1>3, <3>2, <4>1
    <3> QED BY <1>1, <3>2, <3>3, <3>4, <3>5 DEF BridgeInv
  <2>2. CASE ~mine
    <3>1. bridge' = bridge
      BY <2>2 DEF NewSession
    <3>2. bridge.session \in Nat /\ companion.session \in Nat
      BY DEF BaseInv, TypeInv, Companion, Session
    <3> QED BY <1>1, <1>3, <3>1, <3>2 DEF BaseInv, BridgeInv, Sent
  <2> QED BY <2>1, <2>2
<1> QED BY <1>5, <1>6 DEF BaseInv

LEMMA BaseOpen == BaseInv /\ Open => BaseInv'
<1> SUFFICES ASSUME BaseInv, Open PROVE BaseInv'
  OBVIOUS
<1>1. /\ bridge.phase = "opening" /\ bridge' = [bridge EXCEPT !.phase = "up"]
      /\ served' = bridge.session /\ grants' = NoGrants /\ latest' = [t \in Transport |-> 0]
      /\ UNCHANGED <<session, access, executed, handling, wire, frames, back, companion, confirmed>>
  BY DEF Open, daemonVars
<1>2. /\ bridge'.phase = "up" /\ bridge'.session = bridge.session
      /\ bridge' \in [phase : {"down", "opening", "up", "stopping"}, session : Session \cup {0}]
      /\ bridge.session \in Session \cup {0}
  BY <1>1 DEF BaseInv, TypeInv
<1>3. TypeInv'
  BY <1>1, <1>2 DEF BaseInv, TypeInv, NoGrants
<1>4. BridgeInv'
  BY <1>1, <1>2 DEF BaseInv, BridgeInv, Sent
<1> QED BY <1>3, <1>4 DEF BaseInv

LEMMA BaseBeginStop == BaseInv /\ BeginStop => BaseInv'
<1> SUFFICES ASSUME BaseInv, BeginStop PROVE BaseInv'
  OBVIOUS
<1>1. /\ bridge.phase = "up" /\ bridge' = [bridge EXCEPT !.phase = "stopping"]
      /\ served' = 0 /\ grants' = NoGrants /\ latest' = [t \in Transport |-> 0]
      /\ UNCHANGED <<session, access, executed, handling, wire, frames, back, companion, confirmed>>
  BY DEF BeginStop, daemonVars
<1>2. /\ bridge'.phase = "stopping" /\ bridge'.session = bridge.session
      /\ bridge' \in [phase : {"down", "opening", "up", "stopping"}, session : Session \cup {0}]
  BY <1>1 DEF BaseInv, TypeInv
<1>3. TypeInv'
  BY <1>1, <1>2 DEF BaseInv, TypeInv, NoGrants
<1>4. BridgeInv'
  BY <1>1, <1>2 DEF BaseInv, BridgeInv, Sent
<1> QED BY <1>3, <1>4 DEF BaseInv

LEMMA BaseEndStop == BaseInv /\ EndStop => BaseInv'
<1> SUFFICES ASSUME BaseInv, EndStop PROVE BaseInv'
  OBVIOUS
<1>1. /\ bridge.phase = "stopping" /\ handling = {}
      /\ bridge' = [phase |-> "down", session |-> 0]
      /\ wire' = [t \in Transport |-> <<>>] /\ frames' = [t \in Transport |-> <<>>]
      /\ UNCHANGED <<session, access, executed, served, grants, latest, handling, back,
                     companion, confirmed>>
  BY DEF EndStop, daemonVars
<1>2. /\ bridge'.phase = "down" /\ bridge'.session = 0
      /\ bridge' \in [phase : {"down", "opening", "up", "stopping"}, session : Session \cup {0}]
      /\ wire' \in [Transport -> Seq(Request)] /\ frames' \in [Transport -> Seq(Request)]
  BY <1>1
<1>3. TypeInv'
  BY <1>1, <1>2 DEF BaseInv, TypeInv
<1>4. served = 0 /\ session \in Nat
  BY <1>1 DEF BaseInv, TypeInv, BridgeInv, Session
<1>5. \A t \in Transport : /\ wire'[t] = <<>> /\ frames'[t] = <<>>
                           /\ Sent(t)' = {} /\ Msgs(frames'[t]) = {}
  BY <1>1, MsgsFew DEF Sent
<1>6. BridgeInv'
  BY <1>1, <1>2, <1>4, <1>5 DEF BaseInv, BridgeInv
<1> QED BY <1>3, <1>6 DEF BaseInv

\* What handling a message of t amounts to: it is the first one, and if it is to wait for
\* the daemon it becomes the one being handled.
LEMMA HandleFacts ==
    ASSUME BaseInv, NEW t \in Transport, Handle(t)
    PROVE  /\ TakenOff(wire, wire', t, Request)
           /\ handling = {}
           /\ \/ handling' = {}
              \/ handling' = {[from |-> t, message |-> Head(wire[t]),
                               verdict |-> "none", grant |-> 0]}
           /\ UNCHANGED <<session, access, executed, bridge, served, frames, companion,
                          confirmed>>
<1>1. wire \in [Transport -> Seq(Request)]
  BY DEF BaseInv, TypeInv
<1>2. wire[t] # <<>> /\ wire' = [wire EXCEPT ![t] = Tail(@)]
  BY DEF Handle
<1>3. TakenOff(wire, wire', t, Request)
  BY <1>1, <1>2, TakeFacts
<1> QED BY <1>3 DEF Handle, daemonVars

LEMMA FrameFacts ==
    ASSUME BaseInv, NEW t \in Transport, HandleFrame(t)
    PROVE  /\ TakenOff(frames, frames', t, Request)
           /\ handling = {}
           /\ \/ handling' = {}
              \/ handling' = {[from |-> t, message |-> Head(frames[t]),
                               verdict |-> "none", grant |-> 0]}
           /\ UNCHANGED <<session, access, executed, bridge, served, grants, latest, wire,
                          companion, confirmed>>
<1>1. frames \in [Transport -> Seq(Request)]
  BY DEF BaseInv, TypeInv
<1>2. frames[t] # <<>> /\ frames' = [frames EXCEPT ![t] = Tail(@)]
  BY DEF HandleFrame
<1>3. TakenOff(frames, frames', t, Request)
  BY <1>1, <1>2, TakeFacts
<1> QED BY <1>3 DEF HandleFrame, daemonVars

\* ... of either channel: m is taken off one of them; grants are at most forgotten, and
\* the answer, if there is one, refuses.
Taken(t, m) ==
    /\ wire' \in [Transport -> Seq(Request)] /\ frames' \in [Transport -> Seq(Request)]
    /\ m \in Request /\ m \in Sent(t)
    /\ \A u \in Transport : /\ Msgs(wire'[u]) \cup Msgs(frames'[u]) \subseteq Sent(u)
                            /\ Msgs(frames'[u]) \subseteq Msgs(frames[u])
    /\ \A u \in Transport : u # t => wire'[u] = wire[u] /\ frames'[u] = frames[u]
    /\ wire[t] # <<>> \/ frames[t] # <<>>

LEMMA HandleEither ==
    ASSUME BaseInv, NEW t \in Transport, Handle(t) \/ HandleFrame(t)
    PROVE  \E m \in Request :
             /\ Taken(t, m)
             /\ handling = {}
             /\ \/ handling' = {}
                \/ handling' = {[from |-> t, message |-> m, verdict |-> "none", grant |-> 0]}
             /\ back' = back \/ Answered(t, {Rejected(m.sequence)})
             /\ grants' \in [Grant -> Transport \cup {0}]
             /\ latest' \in [Transport -> Grant \cup {0}]
             /\ \A g \in Grant : grants'[g] \in {0, grants[g]}
             /\ bridge.phase \notin {"down", "opening"}
             /\ UNCHANGED <<session, access, executed, bridge, served, companion, confirmed>>
<1>1. /\ grants \in [Grant -> Transport \cup {0}] /\ latest \in [Transport -> Grant \cup {0}]
      /\ wire \in [Transport -> Seq(Request)] /\ frames \in [Transport -> Seq(Request)]
      /\ TypeInv
  BY DEF BaseInv, TypeInv
<1>2. ASSUME NEW m \in Request, Reply(t, <<Rejected(m.sequence)>>)
      PROVE  Answered(t, {Rejected(m.sequence)})
  <2>1. <<Rejected(m.sequence)>> \in Seq(Answer)
    BY AnswerTypes DEF Request
  <2>2. Answered(t, Msgs(<<Rejected(m.sequence)>>))
    BY <1>1, <1>2, <2>1, ReplyFacts
  <2> QED BY <2>2, MsgsFew
<1>3. CASE Handle(t)
  <2> DEFINE m == Head(wire[t])
  <2>1. /\ TakenOff(wire, wire', t, Request) /\ handling = {}
        /\ handling' = {} \/ handling' = {[from |-> t, message |-> m, verdict |-> "none", grant |-> 0]}
        /\ UNCHANGED <<session, access, executed, bridge, served, frames, companion, confirmed>>
    BY <1>3, HandleFacts
  <2>2. m \in Request /\ Taken(t, m)
    BY <1>1, <2>1 DEF TakenOff, Taken, Sent
  <2>3. back' = back \/ Reply(t, <<Rejected(m.sequence)>>)
    BY <1>3 DEF Handle
  <2>4. \/ UNCHANGED <<grants, latest>>
        \/ /\ grants' = [grants EXCEPT ![m.grant] = 0]
           /\ latest' = [latest EXCEPT ![t] = IF @ = m.grant THEN 0 ELSE @]
    BY <1>3 DEF Handle
  <2>5. bridge.phase \notin {"down", "opening"}
    BY <1>3 DEF Handle
  <2> HIDE DEF m
  <2>6. /\ grants' \in [Grant -> Transport \cup {0}] /\ latest' \in [Transport -> Grant \cup {0}]
        /\ \A g \in Grant : grants'[g] \in {0, grants[g]}
    BY <1>1, <2>4
  <2>7. back' = back \/ Answered(t, {Rejected(m.sequence)})
    BY <1>2, <2>2, <2>3
  <2> QED BY <2>1, <2>2, <2>5, <2>6, <2>7
<1>4. CASE HandleFrame(t)
  <2> DEFINE m == Head(frames[t])
  <2>1. /\ TakenOff(frames, frames', t, Request) /\ handling = {}
        /\ handling' = {} \/ handling' = {[from |-> t, message |-> m, verdict |-> "none", grant |-> 0]}
        /\ UNCHANGED <<session, access, executed, bridge, served, grants, latest, wire, companion,
                       confirmed>>
    BY <1>4, FrameFacts
  <2>2. m \in Request /\ Taken(t, m)
    BY <1>1, <2>1 DEF TakenOff, Taken, Sent
  <2>3. back' = back \/ Reply(t, <<Rejected(m.sequence)>>)
    BY <1>4 DEF HandleFrame
  <2>5. bridge.phase \notin {"down", "opening"}
    BY <1>4 DEF HandleFrame
  <2> HIDE DEF m
  <2>7. back' = back \/ Answered(t, {Rejected(m.sequence)})
    BY <1>2, <2>2, <2>3
  <2> QED BY <1>1, <2>1, <2>2, <2>5, <2>7
<1> QED BY <1>3, <1>4

LEMMA BaseHandle ==
    ASSUME BaseInv, NEW t \in Transport, Handle(t) \/ HandleFrame(t)
    PROVE  BaseInv'
<1>1. PICK m \in Request :
        /\ Taken(t, m)
        /\ handling' = {} \/ handling' = {[from |-> t, message |-> m, verdict |-> "none", grant |-> 0]}
        /\ back' = back \/ Answered(t, {Rejected(m.sequence)})
        /\ grants' \in [Grant -> Transport \cup {0}]
        /\ latest' \in [Transport -> Grant \cup {0}]
        /\ bridge.phase \notin {"down", "opening"}
        /\ UNCHANGED <<session, access, executed, bridge, served, companion, confirmed>>
  BY HandleEither
<1>2. back' \in [Transport -> Seq(Answer)]
  BY <1>1 DEF Answered, BaseInv, TypeInv
<1>3. handling' \subseteq Pending /\ \A h, k \in handling' : h = k
  <2>1. [from |-> t, message |-> m, verdict |-> "none", grant |-> 0] \in Pending
    BY DEF Pending
  <2> QED BY <1>1, <2>1
<1>4. TypeInv'
  BY <1>1, <1>2, <1>3 DEF BaseInv, TypeInv, Taken
<1>5. \A h \in handling' :
        h.message.session = bridge.session
        /\ (h.message.kind = "request" <=> h.message.sequence # 0)
  BY <1>1 DEF BaseInv, BridgeInv, Taken
<1>6. BridgeInv'
  BY <1>1, <1>5 DEF BaseInv, BridgeInv, Taken, Sent
<1> QED BY <1>4, <1>6 DEF BaseInv

\* k is h with the daemon's verdict.
Judged(k, h, verdict, grant) ==
    /\ k \in Pending
    /\ k.from = h.from /\ k.message = h.message /\ k.verdict = verdict /\ k.grant = grant

LEMMA JudgedFacts ==
    ASSUME NEW h \in Pending, NEW v \in {"none", "yes", "no"}, NEW g \in Grant \cup {0}
    PROVE  /\ Judged([h EXCEPT !.verdict = v, !.grant = g], h, v, g)
           /\ Judged([h EXCEPT !.verdict = v], h, v, h.grant)
BY DEF Judged, Pending

LEMMA PendingFields ==
    ASSUME TypeInv, NEW h \in handling
    PROVE  /\ h \in Pending /\ h.from \in Transport /\ h.message \in Request
           /\ h.message.kind \in {"hello", "goodbye", "request"}
           /\ h.message.session \in Session /\ h.message.mode \in Mode
           /\ h.message.grant \in Grant \cup {0} /\ h.message.sequence \in Sequence \cup {0}
           /\ h.verdict \in {"none", "yes", "no"} /\ h.grant \in Grant \cup {0}
           /\ handling = {h}
<1>1. h \in Pending /\ handling = {h}
  BY DEF TypeInv
<1> QED BY <1>1 DEF Pending, Request

\* A hello gets a new grant, the next one, or is refused.
LEMMA VerifyFacts ==
    ASSUME BaseInv, Verify
    PROVE  \E h \in handling, k \in Pending :
             /\ handling' = {k} /\ h.message.kind = "hello" /\ h.verdict = "none"
             /\ UNCHANGED <<session, executed, bridge, served, grants, latest, wire, frames, back,
                            companion, confirmed>>
             /\ \/ /\ h.message.session = session /\ Len(access) < MaxGrant
                   /\ access' = Append(access, Fresh(h.message))
                   /\ Judged(k, h, "yes", Len(access) + 1)
                \/ /\ access' = access
                   /\ h.message.session # session
                   /\ Judged(k, h, "no", h.grant)
<1>1. PICK h \in handling :
        /\ h.message.kind = "hello" /\ h.verdict = "none"
        /\ \/ /\ h.message.session = session
              /\ Len(access) < MaxGrant
              /\ access' = Append(access, Fresh(h.message))
              /\ handling' = {[h EXCEPT !.verdict = "yes", !.grant = Len(access')]}
           \/ /\ h.message.session # session
              /\ handling' = {[h EXCEPT !.verdict = "no"]}
              /\ UNCHANGED access
        /\ UNCHANGED <<session, executed, bridge, served, grants, latest, wire, frames, back,
                       companion, confirmed>>
  BY DEF Verify
<1>2. h \in Pending /\ access \in Seq(DaemonGrant) /\ Len(access) \in Nat
  BY DEF BaseInv, TypeInv
<1>3. CASE /\ h.message.session = session
           /\ Len(access) < MaxGrant
           /\ access' = Append(access, Fresh(h.message))
           /\ handling' = {[h EXCEPT !.verdict = "yes", !.grant = Len(access')]}
  <2>1. Len(access') = Len(access) + 1
    BY <1>2, <1>3
  <2>2. Len(access) + 1 \in Grant \cup {0}
    BY <1>2, <1>3, HandshakeAssumption DEF Grant
  <2>3. Judged([h EXCEPT !.verdict = "yes", !.grant = Len(access)+1], h, "yes", Len(access) + 1)
    BY <1>2, <2>2, JudgedFacts
  <2> QED BY <1>1, <1>3, <2>1, <2>3 DEF Judged
<1>4. CASE /\ h.message.session # session
           /\ handling' = {[h EXCEPT !.verdict = "no"]}
           /\ UNCHANGED access
  <2>1. h.grant \in Grant \cup {0}
    BY <1>2 DEF Pending
  <2>2. Judged([h EXCEPT !.verdict = "no"], h, "no", h.grant)
    BY <1>2, <2>1, JudgedFacts
  <2> QED BY <1>1, <1>4, <2>2 DEF Judged
<1> QED BY <1>1, <1>3, <1>4

\* A request takes its number if that is the grant's next, and is done or not.
Numbers(h, done) ==
    /\ access' = IF Numbered(h) THEN [access EXCEPT ![h.message.grant].next = @ + 1]
                                ELSE access
    /\ executed' = IF done THEN executed \cup {<<h.from, h.message.sequence>>} ELSE executed
    /\ done => Numbered(h)

LEMMA ExecuteFacts ==
    ASSUME BaseInv, Execute
    PROVE  \E h \in handling, k \in Pending, done \in BOOLEAN :
             /\ handling' = {k} /\ h.message.kind = "request" /\ h.verdict = "none"
             /\ UNCHANGED <<session, bridge, served, grants, latest, wire, frames, back, companion,
                            confirmed>>
             /\ Numbers(h, done)
             /\ Judged(k, h, IF done THEN "yes" ELSE "no", h.grant)
<1>1. PICK h \in handling, ok \in BOOLEAN :
        /\ h.message.kind = "request" /\ h.verdict = "none"
        /\ access' = IF Numbered(h) THEN [access EXCEPT ![h.message.grant].next = @ + 1]
                                    ELSE access
        /\ LET done == Numbered(h) /\ ok
           IN  /\ executed' = IF done THEN executed \cup {<<h.from, h.message.sequence>>}
                                      ELSE executed
               /\ handling' = {[h EXCEPT !.verdict = IF done THEN "yes" ELSE "no"]}
        /\ UNCHANGED <<session, bridge, served, grants, latest, wire, frames, back, companion,
                       confirmed>>
  BY DEF Execute
<1> DEFINE done == Numbered(h) /\ ok
<1>2. h \in Pending /\ h.grant \in Grant \cup {0}
  BY DEF BaseInv, TypeInv, Pending
<1>3. done \in BOOLEAN
  OBVIOUS
<1>4. Judged([h EXCEPT !.verdict = IF done THEN "yes" ELSE "no"], h,
             IF done THEN "yes" ELSE "no", h.grant)
  BY <1>2, JudgedFacts
<1>5. Numbers(h, done)
  BY <1>1 DEF Numbers
<1>6. [h EXCEPT !.verdict = IF done THEN "yes" ELSE "no"] \in Pending
  BY <1>4 DEF Judged
<1> QED BY <1>1, <1>3, <1>4, <1>5, <1>6

LEMMA BaseVerify == BaseInv /\ Verify => BaseInv'
<1> SUFFICES ASSUME BaseInv, Verify PROVE BaseInv'
  OBVIOUS
<1>1. PICK h \in handling, k \in Pending :
        /\ handling' = {k}
        /\ UNCHANGED <<session, executed, bridge, served, grants, latest, wire, frames, back,
                       companion, confirmed>>
        /\ \/ /\ h.message.session = session /\ Len(access) < MaxGrant
              /\ access' = Append(access, Fresh(h.message))
              /\ Judged(k, h, "yes", Len(access) + 1)
           \/ /\ access' = access
              /\ Judged(k, h, "no", h.grant)
  BY VerifyFacts
<1>2. k.message = h.message
  BY <1>1 DEF Judged
<1>3. access' \in Seq(DaemonGrant) /\ Len(access') <= MaxGrant
  <2>1. access \in Seq(DaemonGrant) /\ Len(access) <= MaxGrant /\ MaxGrant \in Nat
    BY HandshakeAssumption DEF BaseInv, TypeInv
  <2>2. CASE /\ h.message.session = session /\ Len(access) < MaxGrant
             /\ access' = Append(access, Fresh(h.message))
    <3>1. 1 \in 1..(MaxSequence + 1)
      BY HandshakeAssumption
    <3>2. Fresh(h.message) \in DaemonGrant
      BY <2>2, <3>1, PendingFields DEF BaseInv, Fresh, DaemonGrant
    <3> QED BY <2>1, <2>2, <3>2
  <2> QED BY <1>1, <2>1, <2>2
<1>4. TypeInv'
  BY <1>1, <1>3 DEF BaseInv, TypeInv
<1>5. BridgeInv'
  BY <1>1, <1>2 DEF BaseInv, BridgeInv, Sent
<1> QED BY <1>4, <1>5 DEF BaseInv

LEMMA BaseExecute == BaseInv /\ Execute => BaseInv'
<1> SUFFICES ASSUME BaseInv, Execute PROVE BaseInv'
  OBVIOUS
<1>1. PICK h \in handling, k \in Pending, done \in BOOLEAN :
        /\ handling' = {k} /\ h.message.kind = "request"
        /\ UNCHANGED <<session, bridge, served, grants, latest, wire, frames, back, companion,
                       confirmed>>
        /\ Numbers(h, done)
        /\ Judged(k, h, IF done THEN "yes" ELSE "no", h.grant)
  BY ExecuteFacts
<1>2. k.message = h.message
  BY <1>1 DEF Judged
<1> DEFINE g == h.message.grant
<1>3. h.from \in Transport /\ h.message.sequence \in Sequence \cup {0}
  BY PendingFields DEF BaseInv
<1>4. access \in Seq(DaemonGrant) /\ Len(access) <= MaxGrant
  BY DEF BaseInv, TypeInv
<1>5. h.message.sequence \in Sequence
  BY <1>1, <1>3 DEF BaseInv, BridgeInv
<1>6. access' \in Seq(DaemonGrant) /\ Len(access') <= MaxGrant
  <2>1. CASE Numbered(h) /\ g \in DOMAIN access
    <3>1. access[g] \in DaemonGrant /\ access[g].next \in Sequence
      BY <1>4, <1>5, <2>1 DEF Numbered
    <3>2. access[g].next + 1 \in 1..(MaxSequence + 1)
      BY <3>1, HandshakeAssumption DEF Sequence
    <3>3. [access[g] EXCEPT !.next = @ + 1] \in DaemonGrant
      BY <3>1, <3>2 DEF DaemonGrant
    <3>4. access' = [access EXCEPT ![g] = [access[g] EXCEPT !.next = @ + 1]]
      BY <1>1, <2>1 DEF Numbers
    <3> QED BY <1>4, <2>1, <3>3, <3>4, ExceptSeq
  <2>2. CASE ~Numbered(h) \/ g \notin DOMAIN access
    <3>1. access' = access
      BY <1>1, <1>4, <2>2 DEF Numbers
    <3> QED BY <1>4, <3>1
  <2> QED BY <2>1, <2>2
<1>7. executed' \subseteq Transport \X Sequence
  BY <1>1, <1>3, <1>5 DEF Numbers, BaseInv, TypeInv
<1>8. TypeInv'
  BY <1>1, <1>6, <1>7 DEF BaseInv, TypeInv
<1>9. BridgeInv'
  BY <1>1, <1>2 DEF BaseInv, BridgeInv, Sent
<1> QED BY <1>8, <1>9 DEF BaseInv

\* The grant of a hello replaces the one its transport had.
Replaced(h) ==
    /\ grants' = [g \in Grant |-> IF g = h.grant THEN h.from
                                  ELSE IF g = latest[h.from] THEN 0 ELSE grants[g]]
    /\ latest' = [latest EXCEPT ![h.from] = h.grant]

LEMMA WelcomeFacts ==
    ASSUME BaseInv, Welcome
    PROVE  \E h \in handling, answers \in SUBSET Answer :
             /\ h.message.kind = "hello" /\ h.verdict = "yes"
             /\ Replaced(h)
             /\ Answered(h.from, answers)
             /\ answers \subseteq {Ready(h), Snapshot, Rejected(0)}
             /\ handling' = {}
             /\ UNCHANGED <<session, access, executed, bridge, served, wire, frames, companion, confirmed>>
<1>1. PICK h \in handling :
        /\ h.message.kind = "hello" /\ h.verdict = "yes"
        /\ Replaced(h)
        /\ Reply(h.from,
               IF h.message.mode # "upload" /\ served = 0 THEN <<Rejected(0)>>
               ELSE IF h.message.mode = "control" THEN <<Ready(h), Snapshot>>
               ELSE <<Ready(h)>>)
        /\ handling' = {}
        /\ UNCHANGED <<session, access, executed, bridge, served, wire, frames, companion, confirmed>>
  BY DEF Welcome, Replaced, daemonVars
<1>2. h.from \in Transport /\ h.grant \in Grant \cup {0} /\ TypeInv
  BY PendingFields DEF BaseInv
<1>3. PICK s \in {<<Ready(h)>>, <<Ready(h), Snapshot>>, <<Rejected(0)>>} : Reply(h.from, s)
  BY <1>1
<1>4. s \in Seq(Answer) /\ Msgs(s) \subseteq {Ready(h), Snapshot, Rejected(0)}
  <2>1. CASE s = <<Ready(h)>>
    BY <1>2, <2>1, AnswerTypes, MsgsFew
  <2>2. CASE s = <<Ready(h), Snapshot>>
    BY <1>2, <2>2, AnswerTypes, MsgsFew
  <2>3. CASE s = <<Rejected(0)>>
    BY <2>3, AnswerTypes, MsgsFew
  <2> QED BY <2>1, <2>2, <2>3
<1>5. Answered(h.from, Msgs(s)) /\ Msgs(s) \in SUBSET Answer
  BY <1>2, <1>3, <1>4, ReplyFacts, MsgsMember
<1> QED BY <1>1, <1>4, <1>5

LEMMA BaseWelcome == BaseInv /\ Welcome => BaseInv'
<1> SUFFICES ASSUME BaseInv, Welcome PROVE BaseInv'
  OBVIOUS
<1>1. PICK h \in handling, answers \in SUBSET Answer :
        /\ Replaced(h)
        /\ Answered(h.from, answers)
        /\ handling' = {}
        /\ UNCHANGED <<session, access, executed, bridge, served, wire, frames, companion, confirmed>>
  BY WelcomeFacts
<1>2. h.from \in Transport /\ h.grant \in Grant \cup {0} /\ TypeInv
  BY PendingFields DEF BaseInv
<1>3. grants' \in [Grant -> Transport \cup {0}] /\ latest' \in [Transport -> Grant \cup {0}]
  BY <1>1, <1>2 DEF Replaced, TypeInv
<1>4. TypeInv'
  BY <1>1, <1>2, <1>3 DEF TypeInv, Answered
<1>5. BridgeInv'
  BY <1>1 DEF BaseInv, BridgeInv, Sent
<1> QED BY <1>4, <1>5 DEF BaseInv

\* An acknowledgement tells its sender, and controllers get a snapshot.
Acknowledged(h) ==
    /\ back' \in [Transport -> Seq(Answer)]
    /\ \A t \in Transport :
         Told(t)' \subseteq Told(t) \cup {Snapshot}
                       \cup (IF t = h.from THEN {Applied(h.message.sequence)} ELSE {})
    /\ \A t \in Transport : t # h.from /\ ~Controls(t) => back'[t] = back[t]

LEMMA AcknowledgeSteps ==
    ASSUME BaseInv, Acknowledge
    PROVE  \E h \in handling :
             /\ h.message.kind = "request" /\ h.verdict = "yes"
             /\ Acknowledged(h)
             /\ handling' = {}
             /\ UNCHANGED <<session, access, executed, bridge, served, grants, latest, wire, frames,
                            companion, confirmed>>
<1>1. PICK h \in handling :
        /\ h.message.kind = "request" /\ h.verdict = "yes"
        /\ back' = [t \in Transport |->
               back[t] \o (IF t = h.from THEN <<Applied(h.message.sequence)>> ELSE <<>>)
                       \o (IF h.message.mode = "control" /\ Controls(t)
                           THEN <<Snapshot>> ELSE <<>>)]
        /\ handling' = {}
        /\ UNCHANGED <<session, access, executed, bridge, served, grants, latest, wire, frames,
                       companion, confirmed>>
  BY DEF Acknowledge, daemonVars
<1> DEFINE n == h.message.sequence
<1>2. n \in Sequence \cup {0} /\ back \in [Transport -> Seq(Answer)]
  BY PendingFields DEF BaseInv, TypeInv
<1>3. ASSUME NEW t \in Transport
      PROVE  /\ back'[t] \in Seq(Answer)
             /\ Msgs(back'[t]) \subseteq Msgs(back[t]) \cup {Snapshot}
                                  \cup (IF t = h.from THEN {Applied(n)} ELSE {})
             /\ t # h.from /\ ~Controls(t) => back'[t] = back[t]
  <2> DEFINE x == IF t = h.from THEN <<Applied(n)>> ELSE <<>>
             y == IF h.message.mode = "control" /\ Controls(t) THEN <<Snapshot>> ELSE <<>>
             b == back[t] \o x
  <2>1. x \in Seq(Answer) /\ y \in Seq(Answer) /\ back[t] \in Seq(Answer)
    BY <1>2, AnswerTypes
  <2>2. /\ Msgs(x) = IF t = h.from THEN {Applied(n)} ELSE {}
        /\ Msgs(y) \subseteq {Snapshot}
        /\ t # h.from => x = <<>>
        /\ ~Controls(t) => y = <<>>
    BY MsgsFew
  <2>3. back'[t] = b \o y
    BY <1>1
  <2> HIDE DEF x, y, n
  <2>4. b \in Seq(Answer) /\ Msgs(b) = Msgs(back[t]) \cup Msgs(x)
    BY <2>1, MsgsConcat
  <2>5. t # h.from => b = back[t]
    BY <2>1, <2>2, ConcatEmptySeq
  <2> HIDE DEF b
  <2>6. b \o y \in Seq(Answer) /\ Msgs(b \o y) = Msgs(b) \cup Msgs(y)
    BY <2>1, <2>4, MsgsConcat
  <2>7. ~Controls(t) => b \o y = b
    BY <2>2, <2>4, ConcatEmptySeq
  <2> QED BY <2>2, <2>3, <2>4, <2>5, <2>6, <2>7
<1>4. back' \in [Transport -> Seq(Answer)]
  <2>1. back' = [t \in Transport |-> back'[t]]
    BY <1>1
  <2> QED BY <1>3, <2>1
<1>5. Acknowledged(h)
  BY <1>3, <1>4 DEF Acknowledged, Told
<1> QED BY <1>1, <1>5

LEMMA BaseAcknowledge == BaseInv /\ Acknowledge => BaseInv'
<1> SUFFICES ASSUME BaseInv, Acknowledge PROVE BaseInv'
  OBVIOUS
<1>1. PICK h \in handling :
        /\ Acknowledged(h)
        /\ handling' = {}
        /\ UNCHANGED <<session, access, executed, bridge, served, grants, latest, wire, frames,
                       companion, confirmed>>
  BY AcknowledgeSteps
<1>2. TypeInv'
  BY <1>1 DEF BaseInv, TypeInv, Acknowledged
<1>3. BridgeInv'
  BY <1>1 DEF BaseInv, BridgeInv, Sent
<1> QED BY <1>2, <1>3 DEF BaseInv

LEMMA RefuseFacts ==
    ASSUME BaseInv, Refuse
    PROVE  \E h \in handling :
             /\ h.verdict = "no"
             /\ Answered(h.from, {Rejected(h.message.sequence)})
             /\ handling' = {}
             /\ UNCHANGED <<session, access, executed, bridge, served, grants, latest, wire, frames,
                            companion, confirmed>>
<1>1. PICK h \in handling :
        /\ h.verdict = "no"
        /\ Reply(h.from, <<Rejected(h.message.sequence)>>)
        /\ handling' = {}
        /\ UNCHANGED <<session, access, executed, bridge, served, grants, latest, wire, frames,
                       companion, confirmed>>
  BY DEF Refuse, daemonVars
<1>2. h.from \in Transport /\ h.message.sequence \in Sequence \cup {0} /\ TypeInv
  BY PendingFields DEF BaseInv
<1>3. Answered(h.from, Msgs(<<Rejected(h.message.sequence)>>))
  BY <1>1, <1>2, AnswerTypes, ReplyFacts
<1> QED BY <1>1, <1>3, MsgsFew

LEMMA BaseRefuse == BaseInv /\ Refuse => BaseInv'
<1> SUFFICES ASSUME BaseInv, Refuse PROVE BaseInv'
  OBVIOUS
<1>1. PICK h \in handling :
        /\ Answered(h.from, {Rejected(h.message.sequence)})
        /\ handling' = {}
        /\ UNCHANGED <<session, access, executed, bridge, served, grants, latest, wire, frames,
                       companion, confirmed>>
  BY RefuseFacts
<1>2. TypeInv'
  BY <1>1 DEF BaseInv, TypeInv, Answered
<1>3. BridgeInv'
  BY <1>1 DEF BaseInv, BridgeInv, Sent
<1> QED BY <1>2, <1>3 DEF BaseInv

\* The companion's message keeps what is on its way in order and of the bridge's session.
LEMMA SaidKeepsBridge ==
    ASSUME BaseInv, NEW kind \in {"hello", "goodbye", "request"}, Connected,
           companion.phase # "off", SaidBy(companion.transport, kind),
           UNCHANGED <<session, bridge, served, handling>>,
           companion'.phase = "off" \/ companion'.session = companion.session
    PROVE  BridgeInv'
<1> DEFINE t == companion.transport
           m == Message(kind)
<1>1. bridge.phase \in {"up", "stopping"} /\ companion.session = bridge.session
  BY DEF Connected
<1>2. /\ m.session = bridge.session /\ (m.kind = "request" <=> m.sequence # 0)
      /\ m.kind = kind
  <2>1. companion.sequence # 0
    BY DEF BaseInv, TypeInv, Companion
  <2> QED BY <1>1, <2>1 DEF Message
<1>3. /\ Msgs(wire'[t]) \cup Msgs(frames'[t]) = Sent(t) \cup {m}
      /\ \A u \in Transport : u # t => wire'[u] = wire[u] /\ frames'[u] = frames[u]
      /\ frames' = frames \/ (kind = "request" /\ Msgs(frames'[t]) = Msgs(frames[t]) \cup {m})
  BY DEF SaidBy
<1> HIDE DEF t, m
<1>4. ASSUME NEW u \in Transport, NEW n \in Sent(u)'
      PROVE  n.session = bridge.session /\ (n.kind = "request" <=> n.sequence # 0)
  <2>1. n \in Sent(u) \/ n = m
    <3>1. n \in Msgs(wire'[u]) \cup Msgs(frames'[u])
      BY <1>4 DEF Sent
    <3>2. CASE u = t
      BY <1>3, <3>1, <3>2
    <3>3. CASE u # t
      BY <1>3, <3>1, <3>3 DEF Sent
    <3> QED BY <3>2, <3>3
  <2> QED BY <1>2, <2>1 DEF BaseInv, BridgeInv
<1>5. ASSUME NEW u \in Transport, NEW n \in Msgs(frames'[u])
      PROVE  n.kind = "request"
  <2>1. n \in Msgs(frames[u]) \/ (n = m /\ kind = "request")
    BY <1>3, <1>5
  <2> QED BY <1>2, <2>1 DEF BaseInv, BridgeInv
<1>6. companion.session <= session
  BY DEF BaseInv, BridgeInv
<1> QED BY <1>1, <1>4, <1>5, <1>6 DEF BaseInv, BridgeInv

LEMMA BaseConnect ==
    ASSUME BaseInv, NEW mode \in Mode, Connect(mode)
    PROVE  BaseInv'
<1>1. /\ companion.transport < MaxConnection /\ Discoverable
      /\ companion' = [Off(companion.transport + 1) EXCEPT
             !.phase = "hello", !.session = served, !.mode = mode]
      /\ UNCHANGED <<session, access, executed, bridge, served, grants, latest, handling, wire, frames,
                     back, confirmed>>
  BY DEF Connect, daemonVars, bridgeVars
<1>2. companion.transport + 1 \in Transport
  BY <1>1, HandshakeAssumption DEF BaseInv, TypeInv, Companion, Transport
<1>3. served \in Session /\ served = session /\ session \in Nat
  BY <1>1 DEF BaseInv, TypeInv, BridgeInv, Discoverable, Session
<1>4. companion' \in Companion /\ companion'.transport \in Transport /\ companion'.session = served
  <2>1. companion' = [phase |-> "hello", transport |-> companion.transport + 1,
                      session |-> served, mode |-> mode, hellos |-> 0, grant |-> 0,
                      sequence |-> 1, waiting |-> {}, chunking |-> FALSE, slipped |-> FALSE]
    BY <1>1 DEF Off
  <2>2. 1 \in 1..(MaxSequence + 1)
    BY HandshakeAssumption
  <2> QED BY <1>2, <1>3, <2>1, <2>2 DEF Companion
<1>5. TypeInv'
  BY <1>1, <1>4 DEF BaseInv, TypeInv
<1>6. BridgeInv'
  BY <1>1, <1>3, <1>4 DEF BaseInv, BridgeInv, Sent, Discoverable
<1> QED BY <1>5, <1>6 DEF BaseInv

LEMMA BaseSendHello == BaseInv /\ SendHello => BaseInv'
<1> SUFFICES ASSUME BaseInv, SendHello PROVE BaseInv'
  OBVIOUS
<1>1. /\ companion.phase = "hello" /\ Connected /\ Say("hello")
      /\ companion' = [companion EXCEPT !.hellos = @ + 1]
      /\ UNCHANGED <<session, access, executed, bridge, served, grants, latest, handling, frames,
                     back, confirmed>>
  BY DEF SendHello, daemonVars, bridgeVars
<1>2. SaidBy(companion.transport, "hello")
  BY <1>1, SayFacts DEF BaseInv
<1>3. /\ companion' \in Companion /\ companion'.session = companion.session
      /\ companion'.transport = companion.transport
  <2>1. companion \in Companion /\ companion.hellos + 1 \in Nat
    BY DEF BaseInv, TypeInv, Companion
  <2> QED BY <1>1, <2>1 DEF Companion
<1>4. TypeInv'
  BY <1>1, <1>2, <1>3 DEF BaseInv, TypeInv, SaidBy
<1>5. BridgeInv'
  BY <1>1, <1>2, <1>3, SaidKeepsBridge
<1> QED BY <1>4, <1>5 DEF BaseInv

LEMMA BaseSendRequest == BaseInv /\ SendRequest => BaseInv'
<1> SUFFICES ASSUME BaseInv, SendRequest PROVE BaseInv'
  OBVIOUS
<1>1. /\ companion.phase = "ready" /\ companion.sequence <= MaxSequence
      /\ Connected /\ Say("request")
      /\ companion' = [companion EXCEPT !.sequence = @ + 1, !.waiting = @ \cup {companion.sequence},
                                       !.chunking = FALSE]
      /\ UNCHANGED <<session, access, executed, bridge, served, grants, latest, handling, frames,
                     back, confirmed>>
  BY DEF SendRequest, MayAsk, daemonVars, bridgeVars
<1>2. SaidBy(companion.transport, "request")
  BY <1>1, SayFacts DEF BaseInv
<1>3. companion \in Companion
  BY DEF BaseInv, TypeInv
<1>4. companion.sequence \in Sequence /\ companion.sequence + 1 \in 1..(MaxSequence + 1)
  BY <1>1, <1>3, HandshakeAssumption DEF Companion, Sequence
<1>5. /\ companion' \in Companion /\ companion'.session = companion.session
      /\ companion'.transport = companion.transport
  BY <1>1, <1>3, <1>4 DEF Companion
<1>6. TypeInv'
  BY <1>1, <1>2, <1>5 DEF BaseInv, TypeInv, SaidBy
<1>7. BridgeInv'
  BY <1>1, <1>2, <1>5, SaidKeepsBridge
<1> QED BY <1>6, <1>7 DEF BaseInv

\* What sending a chunk amounts to: it is said, or its number slips.
LEMMA SendChunkFacts ==
    ASSUME BaseInv, SendChunk
    PROVE  /\ companion.phase = "ready" /\ companion.sequence <= MaxSequence
           /\ companion.chunking
           /\ UNCHANGED <<session, access, executed, bridge, served, grants, latest, handling, wire,
                          back, confirmed>>
           /\ \/ /\ Connected /\ SaidBy(companion.transport, "request")
                 /\ frames'[companion.transport]
                      = Append(frames[companion.transport], Message("request"))
                 /\ companion' = [companion EXCEPT !.sequence = @ + 1,
                                                  !.waiting = @ \cup {companion.sequence}]
              \/ /\ companion' = [companion EXCEPT !.sequence = @ + 1, !.slipped = TRUE]
                 /\ frames' = frames
<1>1. /\ companion.phase = "ready" /\ companion.sequence <= MaxSequence /\ companion.chunking
      /\ UNCHANGED <<session, access, executed, bridge, served, grants, latest, handling, wire,
                     back, confirmed>>
  BY DEF SendChunk, MayAsk, daemonVars, bridgeVars
<1>2. \/ /\ Connected
         /\ frames' = [frames EXCEPT ![companion.transport] = Append(@, Message("request"))]
         /\ companion' = [companion EXCEPT !.sequence = @ + 1,
                                          !.waiting = @ \cup {companion.sequence}]
      \/ /\ companion' = [companion EXCEPT !.sequence = @ + 1, !.slipped = TRUE]
         /\ frames' = frames
  BY DEF SendChunk
<1>3. ASSUME frames' = [frames EXCEPT ![companion.transport] = Append(@, Message("request"))]
      PROVE  /\ SaidBy(companion.transport, "request")
             /\ frames'[companion.transport]
                  = Append(frames[companion.transport], Message("request"))
  <2>1. SaidBy(companion.transport, "request") /\ companion.transport \in Transport
    BY <1>1, <1>3, ChunkFacts DEF BaseInv
  <2> DEFINE t == companion.transport
             m == Message("request")
  <2>2. frames \in [Transport -> Seq(Request)]
    BY DEF BaseInv, TypeInv
  <2>3. t \in Transport /\ frames' = [frames EXCEPT ![t] = Append(@, m)]
    BY <1>3, <2>1
  <2> HIDE DEF t, m
  <2>4. frames'[t] = Append(frames[t], m)
    BY <2>2, <2>3
  <2> QED BY <2>1, <2>4 DEF t, m
<1> QED BY <1>1, <1>2, <1>3

LEMMA BaseSendChunk == BaseInv /\ SendChunk => BaseInv'
<1> SUFFICES ASSUME BaseInv, SendChunk PROVE BaseInv'
  OBVIOUS
<1>1. /\ companion.phase = "ready" /\ companion.sequence <= MaxSequence
      /\ UNCHANGED <<session, access, executed, bridge, served, grants, latest, handling, wire,
                     back, confirmed>>
  BY SendChunkFacts
<1>2. companion \in Companion /\ wire \in [Transport -> Seq(Request)]
  BY DEF BaseInv, TypeInv
<1>3. companion.sequence \in Sequence /\ companion.sequence + 1 \in 1..(MaxSequence + 1)
  BY <1>1, <1>2, HandshakeAssumption DEF Companion, Sequence
<1>4. CASE /\ Connected /\ SaidBy(companion.transport, "request")
           /\ companion' = [companion EXCEPT !.sequence = @ + 1,
                                            !.waiting = @ \cup {companion.sequence}]
  <2>1. /\ companion' \in Companion /\ companion'.session = companion.session
        /\ companion'.transport = companion.transport
    BY <1>2, <1>3, <1>4 DEF Companion
  <2>2. TypeInv'
    BY <1>1, <1>4, <2>1 DEF BaseInv, TypeInv, SaidBy
  <2>3. BridgeInv'
    BY <1>1, <1>4, <2>1, SaidKeepsBridge
  <2> QED BY <2>2, <2>3 DEF BaseInv
<1>5. CASE /\ companion' = [companion EXCEPT !.sequence = @ + 1, !.slipped = TRUE]
           /\ frames' = frames
  <2>1. /\ companion' \in Companion /\ companion'.session = companion.session
        /\ companion'.transport = companion.transport /\ companion'.phase = companion.phase
    BY <1>2, <1>3, <1>5 DEF Companion
  <2>2. TypeInv'
    BY <1>1, <1>5, <2>1 DEF BaseInv, TypeInv
  <2>3. BridgeInv'
    BY <1>1, <1>5, <2>1 DEF BaseInv, BridgeInv, Sent
  <2> QED BY <2>2, <2>3 DEF BaseInv
<1> QED BY <1>4, <1>5, SendChunkFacts

\* The companion's own side changes a little: the audio is connected.
LEMMA BaseAudioConnected == BaseInv /\ AudioConnected => BaseInv'
<1> SUFFICES ASSUME BaseInv, AudioConnected PROVE BaseInv'
  OBVIOUS
<1>1. /\ companion.phase = "audio" /\ companion' = [companion EXCEPT !.phase = "ready"]
      /\ UNCHANGED <<session, access, executed, bridge, served, grants, latest, handling, wire,
                     frames, back, confirmed>>
  BY DEF AudioConnected, daemonVars, bridgeVars
<1>2. /\ companion' \in Companion /\ companion'.session = companion.session
      /\ companion'.transport = companion.transport
  BY <1>1 DEF BaseInv, TypeInv, Companion
<1>3. TypeInv'
  BY <1>1, <1>2 DEF BaseInv, TypeInv
<1>4. BridgeInv'
  BY <1>1, <1>2 DEF BaseInv, BridgeInv, Sent
<1> QED BY <1>3, <1>4 DEF BaseInv

\* What losing the chunks of t amounts to.
LEMMA LoseFacts ==
    ASSUME BaseInv, NEW t \in Transport, LoseFrames(t)
    PROVE  /\ frames' \in [Transport -> Seq(Request)]
           /\ frames[t] # <<>> /\ frames'[t] = <<>> /\ Msgs(frames'[t]) = {}
           /\ \A u \in Transport : u # t => frames'[u] = frames[u]
           /\ companion' = [companion EXCEPT !.slipped = companion.slipped \/ Current(t)]
           /\ UNCHANGED <<session, access, executed, bridge, served, grants, latest, handling, wire,
                          back, confirmed>>
<1>1. /\ frames' = [frames EXCEPT ![t] = <<>>] /\ frames[t] # <<>>
      /\ companion' = [companion EXCEPT !.slipped = @ \/ Current(t)]
      /\ UNCHANGED <<session, access, executed, bridge, served, grants, latest, handling, wire,
                     back, confirmed>>
  BY DEF LoseFrames, daemonVars, bridgeVars
<1>2. frames \in [Transport -> Seq(Request)]
  BY DEF BaseInv, TypeInv
<1> QED BY <1>1, <1>2, MsgsFew

LEMMA BaseLoseFrames ==
    ASSUME BaseInv, NEW t \in Transport, LoseFrames(t)
    PROVE  BaseInv'
<1>1. /\ frames' \in [Transport -> Seq(Request)]
      /\ frames'[t] = <<>> /\ Msgs(frames'[t]) = {}
      /\ \A u \in Transport : u # t => frames'[u] = frames[u]
      /\ companion' = [companion EXCEPT !.slipped = companion.slipped \/ Current(t)]
      /\ UNCHANGED <<session, access, executed, bridge, served, grants, latest, handling, wire,
                     back, confirmed>>
  BY LoseFacts
<1>2. /\ companion' \in Companion /\ companion'.session = companion.session
      /\ companion'.transport = companion.transport /\ companion'.phase = companion.phase
  <2>1. (companion.slipped \/ Current(t)) \in BOOLEAN
    OBVIOUS
  <2> QED BY <1>1, <2>1 DEF BaseInv, TypeInv, Companion
<1>3. TypeInv'
  BY <1>1, <1>2 DEF BaseInv, TypeInv
<1>4. \A u \in Transport : frames'[u] \in {frames[u], <<>>} /\ Sent(u)' \subseteq Sent(u)
                          /\ Msgs(frames'[u]) \subseteq Msgs(frames[u])
  BY <1>1 DEF Sent
<1>5. BridgeInv'
  BY <1>1, <1>2, <1>4 DEF BaseInv, BridgeInv
<1> QED BY <1>3, <1>5 DEF BaseInv

LEMMA BaseRequestTimeout == BaseInv /\ RequestTimeout => BaseInv'
<1> SUFFICES ASSUME BaseInv, RequestTimeout PROVE BaseInv'
  OBVIOUS
<1>1. PICK n \in companion.waiting :
        companion' = [companion EXCEPT !.waiting = @ \ {n}, !.slipped = @ \/ companion.chunking]
  BY DEF RequestTimeout
<1>2. UNCHANGED <<session, access, executed, bridge, served, grants, latest, handling, wire, frames,
                  back, confirmed>>
  BY DEF RequestTimeout, daemonVars, bridgeVars
<1>3. /\ companion' \in Companion /\ companion'.session = companion.session
      /\ companion'.transport = companion.transport /\ companion'.phase = companion.phase
  BY <1>1 DEF BaseInv, TypeInv, Companion
<1>4. TypeInv'
  BY <1>2, <1>3 DEF BaseInv, TypeInv
<1>5. BridgeInv'
  BY <1>2, <1>3 DEF BaseInv, BridgeInv, Sent
<1> QED BY <1>4, <1>5 DEF BaseInv

LEMMA LeaveFacts ==
    ASSUME BaseInv, companion.phase # "off", Leave, UNCHANGED frames
    PROVE  /\ companion' = Off(companion.transport)
           /\ companion' \in Companion /\ companion'.phase = "off"
           /\ companion'.transport = companion.transport /\ companion.transport \in Transport
           /\ \/ wire' = wire
              \/ Connected /\ companion.grant # 0 /\ SaidBy(companion.transport, "goodbye")
<1>1. companion' = Off(companion.transport)
  BY DEF Leave
<1>2. companion.transport \in Transport
  BY DEF BaseInv, TypeInv
<1>3. 1 \in Session /\ 1 \in 1..(MaxSequence + 1)
  BY HandshakeAssumption DEF Session
<1>4. companion' \in Companion /\ companion'.phase = "off" /\ companion'.transport = companion.transport
  BY <1>1, <1>2, <1>3 DEF Off, Companion, Mode
<1>5. wire' = wire \/ (Connected /\ companion.grant # 0 /\ Say("goodbye"))
  BY DEF Leave
<1>6. Say("goodbye") => SaidBy(companion.transport, "goodbye")
  BY SayFacts DEF BaseInv
<1> QED BY <1>1, <1>2, <1>4, <1>5, <1>6

\* Leaving, whatever comes with it on the way back.
LEMMA BaseLeave ==
    ASSUME BaseInv, companion.phase # "off", Leave, back' \in [Transport -> Seq(Answer)],
           UNCHANGED <<session, access, executed, bridge, served, grants, latest, handling,
                       frames, confirmed>>
    PROVE  BaseInv'
<1>1. /\ companion' \in Companion /\ companion'.phase = "off"
      /\ wire' = wire \/ (Connected /\ SaidBy(companion.transport, "goodbye"))
  BY LeaveFacts
<1>2. wire' \in [Transport -> Seq(Request)]
  BY <1>1 DEF BaseInv, TypeInv, SaidBy
<1>3. TypeInv'
  BY <1>1, <1>2 DEF BaseInv, TypeInv
<1>4. CASE wire' = wire
  <2>1. BridgeInv'
    BY <1>1, <1>4 DEF BaseInv, BridgeInv, Sent
  <2> QED BY <1>3, <2>1 DEF BaseInv
<1>5. CASE Connected /\ SaidBy(companion.transport, "goodbye")
  <2>1. BridgeInv'
    BY <1>1, <1>5, SaidKeepsBridge
  <2> QED BY <1>3, <2>1 DEF BaseInv
<1> QED BY <1>1, <1>4, <1>5

LEMMA BaseDisconnect == BaseInv /\ Disconnect => BaseInv'
<1> SUFFICES ASSUME BaseInv, Disconnect PROVE BaseInv'
  OBVIOUS
<1>1. companion.phase # "off" /\ Leave /\ back' \in [Transport -> Seq(Answer)]
  BY DEF Disconnect, BaseInv, TypeInv
<1>2. UNCHANGED <<session, access, executed, bridge, served, grants, latest, handling, frames,
                  confirmed>>
  BY DEF Disconnect, daemonVars, bridgeVars
<1> QED BY <1>1, <1>2, BaseLeave

\* What receiving an answer does to the companion: it gets its grant, becomes ready, takes
\* a request as settled (and as done, if the host says so), or leaves.
Settled(n) ==
    \E c \in {companion.chunking, companion.mode = "upload"} :
        companion' = [companion EXCEPT !.waiting = @ \ {n}, !.chunking = c]

Received(m) ==
    \/ /\ m.kind = "ready" /\ companion.phase = "hello"
       /\ companion' = [companion EXCEPT !.grant = m.grant, !.phase = Opened[companion.mode]]
       /\ wire' = wire /\ confirmed' = confirmed
    \/ /\ m.kind = "ready" /\ companion.phase = "audio"
       /\ Leave
       /\ confirmed' = confirmed
    \/ /\ m.kind = "snapshot" /\ companion.phase = "loading"
       /\ companion' = [companion EXCEPT !.phase = "ready"]
       /\ wire' = wire /\ confirmed' = confirmed
    \/ /\ m.kind = "applied" /\ m.sequence \in companion.waiting
       /\ Settled(m.sequence) /\ companion'.chunking = (companion.mode = "upload")
       /\ confirmed' = confirmed \cup {<<companion.transport, m.sequence>>}
       /\ wire' = wire
    \/ /\ m.kind = "rejected" /\ companion.phase = "ready"
       /\ Settled(m.sequence) /\ companion'.chunking = companion.chunking
       /\ wire' = wire /\ confirmed' = confirmed
    \/ /\ m.kind = "rejected" /\ companion.phase # "ready"
       /\ Leave
       /\ confirmed' = confirmed

LEMMA ReceiveFacts ==
    ASSUME BaseInv, NEW t \in Transport, Receive(t)
    PROVE  /\ TakenOff(back, back', t, Answer)
           /\ UNCHANGED <<session, access, executed, bridge, served, grants, latest, handling, frames>>
           /\ \/ Current(t) /\ Received(Head(back[t]))
              \/ companion' = companion /\ wire' = wire /\ confirmed' = confirmed
<1>1. back \in [Transport -> Seq(Answer)] /\ back[t] # <<>> /\ back' = [back EXCEPT ![t] = Tail(@)]
  BY DEF BaseInv, TypeInv, Receive
<1>2. TakenOff(back, back', t, Answer)
  BY <1>1, TakeFacts
<1>3. UNCHANGED <<session, access, executed, bridge, served, grants, latest, handling, frames>>
  BY DEF Receive, daemonVars, bridgeVars
<1>4. ASSUME NEW m, companion' = [companion EXCEPT !.waiting = @ \ {m.sequence}]
      PROVE  Settled(m.sequence) /\ companion'.chunking = companion.chunking
  <2>1. companion' = [companion EXCEPT !.waiting = @ \ {m.sequence}, !.chunking = companion.chunking]
    BY <1>4 DEF BaseInv, TypeInv, Companion
  <2>2. companion'.chunking = companion.chunking
    BY <2>1 DEF BaseInv, TypeInv, Companion
  <2> QED BY <2>1, <2>2 DEF Settled
<1>5. ASSUME NEW m, companion' = [companion EXCEPT !.waiting = @ \ {m.sequence},
                                                 !.chunking = companion.mode = "upload"]
      PROVE  Settled(m.sequence) /\ companion'.chunking = (companion.mode = "upload")
  <2>1. companion'.chunking = (companion.mode = "upload")
    BY <1>5 DEF BaseInv, TypeInv, Companion
  <2> QED BY <1>5, <2>1 DEF Settled
<1> QED BY <1>2, <1>3, <1>4, <1>5 DEF Receive, Received

LEMMA BaseReceive ==
    ASSUME BaseInv, NEW t \in Transport, Receive(t)
    PROVE  BaseInv'
<1> DEFINE m == Head(back[t])
<1>1. /\ TakenOff(back, back', t, Answer)
      /\ UNCHANGED <<session, access, executed, bridge, served, grants, latest, handling, frames>>
      /\ \/ Current(t) /\ Received(m)
         \/ companion' = companion /\ wire' = wire /\ confirmed' = confirmed
  BY ReceiveFacts
<1>2. back' \in [Transport -> Seq(Answer)] /\ m \in Answer
  BY <1>1 DEF TakenOff
<1> HIDE DEF m
<1>3. companion \in Companion /\ (companion.phase # "off" => companion.transport \in Transport)
  BY DEF BaseInv, TypeInv
<1>4. CASE companion' = companion /\ wire' = wire /\ confirmed' = confirmed
  BY <1>1, <1>2, <1>4 DEF BaseInv, TypeInv, BridgeInv, Sent
<1>5. CASE /\ Current(t) /\ wire' = wire
           /\ confirmed' \subseteq Transport \X Sequence
           /\ companion' \in Companion /\ companion'.session = companion.session
           /\ companion'.transport = companion.transport
           /\ bridge.phase # "opening" \/ companion.session < bridge.session
  <2>1. TypeInv'
    BY <1>1, <1>2, <1>3, <1>5 DEF BaseInv, TypeInv, Current
  <2>2. BridgeInv'
    BY <1>1, <1>5 DEF BaseInv, BridgeInv, Sent, Current
  <2> QED BY <2>1, <2>2 DEF BaseInv
<1>6. confirmed \subseteq Transport \X Sequence
  BY DEF BaseInv, TypeInv
<1>7. Current(t) => companion.phase # "off" /\ companion.transport \in Transport
                    /\ (bridge.phase # "opening" \/ companion.session < bridge.session)
  BY DEF Current, BaseInv, TypeInv, BridgeInv
<1>8. ASSUME NEW n, Settled(n)
      PROVE  /\ companion' \in Companion /\ companion'.session = companion.session
             /\ companion'.transport = companion.transport
  <2>1. PICK c \in {companion.chunking, companion.mode = "upload"} :
          companion' = [companion EXCEPT !.waiting = @ \ {n}, !.chunking = c]
    BY <1>8 DEF Settled
  <2>2. c \in BOOLEAN
    BY <1>3 DEF Companion
  <2> QED BY <1>3, <2>1, <2>2 DEF Companion
<1>9. CASE Current(t) /\ Received(m)
  <2>1. CASE /\ m.kind = "ready" /\ companion.phase = "hello"
             /\ companion' = [companion EXCEPT !.grant = m.grant, !.phase = Opened[companion.mode]]
             /\ wire' = wire /\ confirmed' = confirmed
    <3>1. m.grant \in Grant \cup {0}
      BY <1>2 DEF Answer
    <3>0. Opened[companion.mode] \in {"off", "hello", "loading", "audio", "ready"}
      BY <1>3 DEF Companion, Mode, Opened
    <3>2. /\ companion' \in Companion /\ companion'.session = companion.session
          /\ companion'.transport = companion.transport
      BY <1>3, <2>1, <3>0, <3>1 DEF Companion
    <3> QED BY <1>5, <1>6, <1>7, <1>9, <2>1, <3>2
  <2>2. CASE /\ m.kind = "snapshot" /\ companion.phase = "loading"
             /\ companion' = [companion EXCEPT !.phase = "ready"]
             /\ wire' = wire /\ confirmed' = confirmed
    <3>1. /\ companion' \in Companion /\ companion'.session = companion.session
          /\ companion'.transport = companion.transport
      BY <1>3, <2>2 DEF Companion
    <3> QED BY <1>5, <1>6, <1>7, <1>9, <2>2, <3>1
  <2>3. CASE /\ m.kind = "applied" /\ m.sequence \in companion.waiting
             /\ Settled(m.sequence)
             /\ confirmed' = confirmed \cup {<<companion.transport, m.sequence>>}
             /\ wire' = wire
    <3>1. m.sequence \in Sequence
      BY <1>3, <2>3 DEF Companion
    <3>2. confirmed' \subseteq Transport \X Sequence
      BY <1>6, <1>7, <1>9, <2>3, <3>1
    <3> QED BY <1>5, <1>7, <1>8, <1>9, <2>3, <3>2
  <2>4. CASE /\ m.kind = "rejected" /\ companion.phase = "ready"
             /\ Settled(m.sequence)
             /\ wire' = wire /\ confirmed' = confirmed
    BY <1>5, <1>6, <1>7, <1>8, <1>9, <2>4
  <2>5. CASE Leave /\ confirmed' = confirmed
    BY <1>1, <1>2, <1>7, <1>9, <2>5, BaseLeave
  <2> QED BY <1>9, <2>1, <2>2, <2>3, <2>4, <2>5 DEF Received
<1> QED BY <1>1, <1>4, <1>9

LEMMA BaseStutter == BaseInv /\ UNCHANGED vars => BaseInv'
BY DEF vars, daemonVars, bridgeVars, BaseInv, TypeInv, BridgeInv, Sent

LEMMA BaseStep == BaseInv /\ [Next]_vars => BaseInv'
<1> SUFFICES ASSUME BaseInv, [Next]_vars PROVE BaseInv'
  OBVIOUS
<1>1. ASSUME NEW mine \in BOOLEAN, NewSession(mine) PROVE BaseInv'
  BY <1>1, BaseNewSession
<1>2. CASE Open
  BY <1>2, BaseOpen
<1>3. CASE BeginStop
  BY <1>3, BaseBeginStop
<1>4. CASE EndStop
  BY <1>4, BaseEndStop
<1>5. ASSUME NEW t \in Transport, Handle(t) \/ HandleFrame(t) PROVE BaseInv'
  BY <1>5, BaseHandle
<1>6. ASSUME NEW t \in Transport, Receive(t) PROVE BaseInv'
  BY <1>6, BaseReceive
<1>7. CASE Verify
  BY <1>7, BaseVerify
<1>8. CASE Execute
  BY <1>8, BaseExecute
<1>9. CASE Welcome
  BY <1>9, BaseWelcome
<1>10. CASE Acknowledge
  BY <1>10, BaseAcknowledge
<1>11. CASE Refuse
  BY <1>11, BaseRefuse
<1>12. ASSUME NEW mode \in Mode, Connect(mode) PROVE BaseInv'
  BY <1>12, BaseConnect
<1>13. CASE SendHello
  BY <1>13, BaseSendHello
<1>14. CASE SendRequest
  BY <1>14, BaseSendRequest
<1>15. CASE RequestTimeout
  BY <1>15, BaseRequestTimeout
<1>16. CASE Disconnect
  BY <1>16, BaseDisconnect
<1>17. CASE UNCHANGED vars
  BY <1>17, BaseStutter
<1>18. CASE AudioConnected
  BY <1>18, BaseAudioConnected
<1>19. CASE SendChunk
  BY <1>19, BaseSendChunk
<1>20. ASSUME NEW t \in Transport, LoseFrames(t) PROVE BaseInv'
  BY <1>20, BaseLoseFrames
<1> QED
  BY <1>1, <1>2, <1>3, <1>4, <1>5, <1>6, <1>7, <1>8, <1>9, <1>10, <1>11, <1>12, <1>13,
     <1>14, <1>15, <1>16, <1>17, <1>18, <1>19, <1>20 DEF Next

\* The types hold, and the bridge's phases mean what they should: a bridge without
\* transports has nothing on its way, and what is on its way is of its session.
THEOREM BaseInvariant == Spec => []BaseInv
<1>1. Init => BaseInv
  BY BaseInit
<1>2. BaseInv /\ [Next]_vars => BaseInv'
  BY BaseStep
<1> QED BY <1>1, <1>2, PTL DEF Spec

LEMMA TypesFollow == BaseInv => TypeOK
<1> SUFFICES ASSUME BaseInv PROVE TypeOK
  OBVIOUS
<1>1. Cardinality(handling) <= 1
  <2>1. CASE handling = {}
    BY <2>1, FS_EmptySet
  <2>2. CASE handling # {}
    <3>1. PICK h \in handling : handling = {h}
      BY <2>2 DEF BaseInv, TypeInv
    <3>2. Cardinality({h}) = 1
      BY FS_Singleton
    <3> QED BY <3>1, <3>2
  <2> QED BY <2>1, <2>2
<1> QED BY <1>1 DEF BaseInv, TypeInv, TypeOK, Companion

\* Every variable has its type, and the bridge never handles two messages at a time.
THEOREM TypeCorrect == Spec => []TypeOK
<1>1. BaseInv => TypeOK
  BY TypesFollow
<1> QED BY <1>1, BaseInvariant, PTL

-----------------------------------------------------------------------------
(* What is confirmed was executed. *)

\* The answer "applied" is on its way, or is about to be given, only for what was done.
DoneInv ==
    /\ \A t \in Transport : \A a \in Told(t) : a.kind = "applied" => <<t, a.sequence>> \in executed
    /\ \A h \in handling :
           h.message.kind = "request" /\ h.verdict = "yes"
               => <<h.from, h.message.sequence>> \in executed
    /\ confirmed \subseteq executed

\* A step that tells, judges and confirms only what is done.
LEMMA DoneKept ==
    ASSUME DoneInv, executed \subseteq executed', confirmed' \subseteq confirmed \cup executed',
           \A t \in Transport : \A a \in Msgs(back'[t]) :
               a \in Told(t) \/ a.kind # "applied" \/ <<t, a.sequence>> \in executed',
           \A h \in handling' :
               h \in handling \/ h.message.kind # "request" \/ h.verdict # "yes"
               \/ <<h.from, h.message.sequence>> \in executed'
    PROVE  DoneInv'
BY DEF DoneInv, Told

LEMMA DoneHandle ==
    ASSUME BaseInv, DoneInv, NEW t \in Transport, Handle(t) \/ HandleFrame(t)
    PROVE  DoneInv'
<1>1. PICK m \in Request :
        /\ \A h \in handling' : h.verdict = "none"
        /\ back' = back \/ Answered(t, {Rejected(m.sequence)})
        /\ UNCHANGED <<executed, confirmed>>
  BY HandleEither
<1>2. Rejected(m.sequence).kind # "applied"
  BY DEF Rejected
<1>3. \A u \in Transport : Msgs(back'[u]) \subseteq Told(u) \cup {Rejected(m.sequence)}
  BY <1>1 DEF Answered, Told
<1> QED BY <1>1, <1>2, <1>3, DoneKept

LEMMA DoneExecute == BaseInv /\ DoneInv /\ Execute => DoneInv'
<1> SUFFICES ASSUME BaseInv, DoneInv, Execute PROVE DoneInv'
  OBVIOUS
<1>1. PICK h \in handling, k \in Pending, done \in BOOLEAN :
        /\ handling' = {k}
        /\ UNCHANGED <<back, confirmed>>
        /\ Numbers(h, done)
        /\ Judged(k, h, IF done THEN "yes" ELSE "no", h.grant)
  BY ExecuteFacts
<1>2. k.verdict # "yes" \/ <<k.from, k.message.sequence>> \in executed'
  BY <1>1 DEF Judged, Numbers
<1>3. executed \subseteq executed'
  BY <1>1 DEF Numbers
<1> QED BY <1>1, <1>2, <1>3, DoneKept DEF Told

LEMMA DoneVerify == BaseInv /\ DoneInv /\ Verify => DoneInv'
<1> SUFFICES ASSUME BaseInv, DoneInv, Verify PROVE DoneInv'
  OBVIOUS
<1>1. PICK h \in handling, k \in Pending :
        /\ handling' = {k} /\ h.message.kind = "hello"
        /\ UNCHANGED <<executed, back, confirmed>>
        /\ k.message = h.message
  BY VerifyFacts DEF Judged
<1> QED BY <1>1, DoneKept DEF Told

LEMMA DoneWelcome == BaseInv /\ DoneInv /\ Welcome => DoneInv'
<1> SUFFICES ASSUME BaseInv, DoneInv, Welcome PROVE DoneInv'
  OBVIOUS
<1>1. PICK h \in handling, answers \in SUBSET Answer :
        /\ Answered(h.from, answers)
        /\ answers \subseteq {Ready(h), Snapshot, Rejected(0)}
        /\ handling' = {}
        /\ UNCHANGED <<executed, confirmed>>
  BY WelcomeFacts
<1>2. \A a \in answers : a.kind # "applied"
  BY <1>1 DEF Ready, Snapshot, Rejected
<1>3. \A t \in Transport : Msgs(back'[t]) \subseteq Told(t) \cup answers
  BY <1>1 DEF Answered, Told
<1> QED BY <1>1, <1>2, <1>3, DoneKept

LEMMA DoneAcknowledge == BaseInv /\ DoneInv /\ Acknowledge => DoneInv'
<1> SUFFICES ASSUME BaseInv, DoneInv, Acknowledge PROVE DoneInv'
  OBVIOUS
<1>1. PICK h \in handling :
        /\ h.message.kind = "request" /\ h.verdict = "yes"
        /\ Acknowledged(h)
        /\ handling' = {}
        /\ UNCHANGED <<executed, confirmed>>
  BY AcknowledgeSteps
<1>2. <<h.from, h.message.sequence>> \in executed'
  BY <1>1 DEF DoneInv
<1>3. ASSUME NEW t \in Transport, NEW a \in Msgs(back'[t])
      PROVE  a \in Told(t) \/ a.kind # "applied" \/ <<t, a.sequence>> \in executed'
  <2>1. \/ a \in Told(t) \/ a = Snapshot
        \/ t = h.from /\ a = Applied(h.message.sequence)
    BY <1>1 DEF Acknowledged, Told
  <2> QED BY <1>2, <2>1 DEF Snapshot, Applied
<1> QED BY <1>1, <1>3, DoneKept

LEMMA DoneRefuse == BaseInv /\ DoneInv /\ Refuse => DoneInv'
<1> SUFFICES ASSUME BaseInv, DoneInv, Refuse PROVE DoneInv'
  OBVIOUS
<1>1. PICK h \in handling :
        /\ Answered(h.from, {Rejected(h.message.sequence)})
        /\ handling' = {}
        /\ UNCHANGED <<executed, confirmed>>
  BY RefuseFacts
<1>2. Rejected(h.message.sequence).kind # "applied"
  BY DEF Rejected
<1>3. \A t \in Transport : Msgs(back'[t]) \subseteq Told(t) \cup {Rejected(h.message.sequence)}
  BY <1>1 DEF Answered, Told
<1> QED BY <1>1, <1>2, <1>3, DoneKept

LEMMA DoneReceive ==
    ASSUME BaseInv, DoneInv, NEW t \in Transport, Receive(t)
    PROVE  DoneInv'
<1> DEFINE m == Head(back[t])
<1>1. /\ TakenOff(back, back', t, Answer)
      /\ UNCHANGED <<executed, handling>>
      /\ \/ Current(t) /\ Received(m)
         \/ confirmed' = confirmed
  BY ReceiveFacts
<1>2. m \in Told(t) /\ \A u \in Transport : Msgs(back'[u]) \subseteq Told(u)
  BY <1>1 DEF TakenOff, Told
<1> HIDE DEF m
<1>3. confirmed' \subseteq confirmed \cup executed'
  <2>1. CASE confirmed' = confirmed
    BY <2>1
  <2>2. CASE /\ Current(t) /\ m.kind = "applied"
             /\ confirmed' = confirmed \cup {<<companion.transport, m.sequence>>}
    BY <1>1, <1>2, <2>2 DEF DoneInv, Current
  <2> QED BY <1>1, <2>1, <2>2 DEF Received
<1> QED BY <1>1, <1>2, <1>3, DoneKept

LEMMA DoneStep == BaseInv /\ DoneInv /\ [Next]_vars => DoneInv'
<1> SUFFICES ASSUME BaseInv, DoneInv, [Next]_vars PROVE DoneInv'
  OBVIOUS
<1>1. CASE UNCHANGED <<executed, confirmed, handling, back>>
  BY <1>1 DEF DoneInv, Told
<1>2. ASSUME NEW t \in Transport, Handle(t) \/ HandleFrame(t) PROVE DoneInv'
  BY <1>2, DoneHandle
<1>3. ASSUME NEW t \in Transport, Receive(t) PROVE DoneInv'
  BY <1>3, DoneReceive
<1>4. CASE Verify
  BY <1>4, DoneVerify
<1>5. CASE Execute
  BY <1>5, DoneExecute
<1>6. CASE Welcome
  BY <1>6, DoneWelcome
<1>7. CASE Acknowledge
  BY <1>7, DoneAcknowledge
<1>8. CASE Refuse
  BY <1>8, DoneRefuse
<1>9. CASE \/ \E mine \in BOOLEAN : NewSession(mine)
           \/ Open \/ BeginStop \/ EndStop
           \/ \E mode \in Mode : Connect(mode)
           \/ SendHello \/ AudioConnected \/ SendRequest \/ SendChunk
           \/ \E t \in Transport : LoseFrames(t)
           \/ RequestTimeout \/ Disconnect
           \/ UNCHANGED vars
  <2>1. UNCHANGED <<executed, confirmed, handling, back>>
    BY <1>9 DEF NewSession, Open, BeginStop, EndStop, Connect, SendHello, AudioConnected, SendRequest,
                SendChunk, LoseFrames, RequestTimeout, Disconnect, vars, daemonVars, bridgeVars
  <2> QED BY <1>1, <2>1
<1> QED
  BY <1>2, <1>3, <1>4, <1>5, <1>6, <1>7, <1>8, <1>9 DEF Next

\* The companion is told "applied" only for requests that were executed, and for requests
\* of the connection it has: numbers start again in each connection, so it matters that
\* answers are kept by connection on their way.
THEOREM ConfirmedRequestsWereExecuted == Spec => []ConfirmedWereExecuted
<1>1. Init => DoneInv
  <2> SUFFICES ASSUME Init PROVE DoneInv
    OBVIOUS
  <2>1. \A t \in Transport : Told(t) = {}
    BY MsgsFew DEF Init, Told
  <2> QED BY <2>1 DEF Init, DoneInv
<1>2. BaseInv /\ DoneInv /\ [Next]_vars => DoneInv'
  BY DoneStep
<1>3. DoneInv => ConfirmedWereExecuted
  BY DEF DoneInv, ConfirmedWereExecuted
<1> QED BY <1>1, <1>2, <1>3, BaseInvariant, PTL DEF Spec

-----------------------------------------------------------------------------
(* Whose a grant is. *)

\* The connection t has, had or will have to do with the grant g: a message of it names
\* the grant, the bridge knows it for t, the companion has it ...
Names(t, g) ==
    \/ \E m \in Sent(t) : m.grant = g
    \/ \E a \in Told(t) : a.grant = g
    \/ \E h \in handling : h.from = t /\ h.message.grant = g
    \/ grants[g] = t
    \/ companion.transport = t /\ companion.grant = g

\* ... or the daemon has made it for a hello of t, and the bridge does not know it yet.
Accepted(h) == h.message.kind = "hello" /\ h.verdict = "yes"
Given(t, g) == \E h \in handling : Accepted(h) /\ h.from = t /\ h.grant = g

\* Nothing of the connection t is anywhere.
Untouched(t) ==
    /\ wire[t] = <<>> /\ frames[t] = <<>> /\ back[t] = <<>>
    /\ \A h \in handling : h.from # t
    /\ \A g \in Grant : grants[g] # t

\* A grant is one of the daemon's and of one connection only; what was just made is named
\* nowhere; connections to come have left no trace.
OwnerInv ==
    /\ \A t \in Transport, g \in Grant : Names(t, g) \/ Given(t, g) => g \in DOMAIN access
    /\ \A t, u \in Transport, g \in Grant :
           (Names(t, g) \/ Given(t, g)) /\ (Names(u, g) \/ Given(u, g)) => t = u
    /\ \A t \in Transport, g \in Grant : ~(Given(t, g) /\ Names(t, g))
    /\ \A h \in handling : Accepted(h) => h.grant # 0
    /\ \A t \in Transport : \A a \in Told(t) : a.kind = "ready" => a.grant # 0
    /\ \A t \in Transport : t > companion.transport => Untouched(t)

\* A step that makes no grant, names only what is known, and leaves connections to
\* come alone.
LEMMA OwnerKept ==
    ASSUME OwnerInv, DOMAIN access \subseteq DOMAIN access',
           \A t \in Transport, g \in Grant : Names(t, g)' => Names(t, g) \/ Given(t, g),
           \A t \in Transport, g \in Grant : Given(t, g)' => Given(t, g) /\ ~Names(t, g)',
           \A h \in handling' : Accepted(h) => h \in handling,
           \A t \in Transport : \A a \in Msgs(back'[t]) :
               a \in Told(t) \/ (a.kind = "ready" => a.grant # 0),
           companion'.transport = companion.transport,
           \A t \in Transport : Untouched(t) /\ t > companion.transport => Untouched(t)'
    PROVE  OwnerInv'
<1>1. ASSUME NEW t \in Transport, NEW g \in Grant, Names(t, g)' \/ Given(t, g)'
      PROVE  Names(t, g) \/ Given(t, g)
  BY <1>1
<1>2. \A h \in handling' : Accepted(h) => h.grant # 0
  BY DEF OwnerInv
<1>3. \A t \in Transport : \A a \in Told(t)' : a.kind = "ready" => a.grant # 0
  BY DEF OwnerInv, Told
<1>4. \A t \in Transport : t > companion'.transport => Untouched(t)'
  BY DEF OwnerInv
<1>5. \A t \in Transport, g \in Grant : Names(t, g)' \/ Given(t, g)' => g \in DOMAIN access'
  BY <1>1 DEF OwnerInv
<1>6. \A t, u \in Transport, g \in Grant :
           (Names(t, g)' \/ Given(t, g)') /\ (Names(u, g)' \/ Given(u, g)') => t = u
  BY <1>1 DEF OwnerInv
<1>7. \A h : Accepted(h)' <=> Accepted(h)
  BY DEF Accepted
<1> QED BY <1>2, <1>3, <1>4, <1>5, <1>6, <1>7 DEF OwnerInv

LEMMA OwnerInit == Init => OwnerInv
<1> SUFFICES ASSUME Init PROVE OwnerInv
  OBVIOUS
<1>1. \A t \in Transport : Sent(t) = {} /\ Told(t) = {} /\ Untouched(t) /\ t # 0
  BY MsgsFew, HandshakeAssumption DEF Init, Sent, Told, Untouched, NoGrants, Transport
<1>2. \A t \in Transport, g \in Grant : ~Names(t, g) /\ ~Given(t, g)
  BY <1>1, HandshakeAssumption DEF Init, Names, Given, NoGrants, Off, Grant
<1> QED BY <1>1, <1>2 DEF OwnerInv, Init

\* Nothing happens to the channels and the grants.
LEMMA OwnerQuiet ==
    ASSUME OwnerInv, DOMAIN access' = DOMAIN access,
           UNCHANGED <<grants, handling, wire, frames, back>>,
           companion'.transport = companion.transport,
           companion'.grant \in {0, companion.grant}
    PROVE  OwnerInv'
<1>1. \A t \in Transport, g \in Grant :
        (Names(t, g)' => Names(t, g)) /\ (Given(t, g)' <=> Given(t, g))
  BY HandshakeAssumption DEF Names, Given, Accepted, Sent, Told, Grant
<1>2. \A t \in Transport : Untouched(t)' <=> Untouched(t)
  BY DEF Untouched
<1> QED BY <1>1, <1>2, OwnerKept DEF OwnerInv, Told

\* The bridge forgets grants and loses messages.
LEMMA OwnerForget ==
    ASSUME BaseInv, OwnerInv, UNCHANGED <<access, handling, back>>,
           companion'.transport = companion.transport, companion'.grant = companion.grant,
           \A g \in Grant : grants'[g] \in {0, grants[g]},
           \A t \in Transport : wire'[t] \in {wire[t], <<>>} /\ frames'[t] \in {frames[t], <<>>}
    PROVE  OwnerInv'
<1>1. \A t \in Transport : Msgs(wire'[t]) \cup Msgs(frames'[t]) \subseteq Sent(t) /\ t # 0
  BY MsgsFew DEF Sent, Transport
<1>2. \A t \in Transport, g \in Grant :
        (Names(t, g)' => Names(t, g)) /\ (Given(t, g)' <=> Given(t, g))
  BY <1>1 DEF Names, Given, Accepted, Sent, Told
<1>3. \A t \in Transport : Untouched(t) => Untouched(t)'
  BY <1>1 DEF Untouched
<1> QED BY <1>2, <1>3, OwnerKept DEF OwnerInv, Told

LEMMA OwnerHandle ==
    ASSUME BaseInv, OwnerInv, NEW t \in Transport, Handle(t) \/ HandleFrame(t)
    PROVE  OwnerInv'
<1>1. PICK m \in Request :
        /\ Taken(t, m)
        /\ handling = {}
        /\ \/ handling' = {}
           \/ handling' = {[from |-> t, message |-> m, verdict |-> "none", grant |-> 0]}
        /\ back' = back \/ Answered(t, {Rejected(m.sequence)})
        /\ \A g \in Grant : grants'[g] \in {0, grants[g]}
        /\ UNCHANGED <<access, companion>>
  BY HandleEither
<1>2. /\ m \in Sent(t) /\ (wire[t] # <<>> \/ frames[t] # <<>>)
      /\ \A u \in Transport : u # t => wire'[u] = wire[u] /\ frames'[u] = frames[u]
      /\ \A u \in Transport : Sent(u)' \subseteq Sent(u)
  BY <1>1 DEF Taken, Sent
<1>3. /\ \A u \in Transport : u # t => back'[u] = back[u]
      /\ \A u \in Transport : \A a \in Msgs(back'[u]) :
            a \in Told(u) \/ (a.grant = 0 /\ a.kind # "ready")
  <2>1. Rejected(m.sequence).grant = 0 /\ Rejected(m.sequence).kind # "ready"
    BY DEF Rejected
  <2> QED BY <1>1, <2>1 DEF Answered, Told
<1>5. ASSUME NEW u \in Transport, NEW g \in Grant
      PROVE  (Names(u, g)' => Names(u, g)) /\ ~Given(u, g)'
  <2>1. u # 0 /\ g # 0
    BY DEF Transport, Grant
  <2>2. \A h \in handling' : h.from = t /\ h.message = m /\ h.verdict = "none"
    BY <1>1
  <2>3. ~Given(u, g)'
    BY <2>2 DEF Given, Accepted
  <2>4. (\E h \in handling' : h.from = u /\ h.message.grant = g) => \E n \in Sent(u) : n.grant = g
    BY <1>2, <2>2
  <2>5. (\E n \in Sent(u)' : n.grant = g) => \E n \in Sent(u) : n.grant = g
    BY <1>2
  <2>6. (\E a \in Msgs(back'[u]) : a.grant = g) => \E a \in Told(u) : a.grant = g
    BY <1>3, <2>1
  <2>7. grants'[g] = u => grants[g] = u
    BY <1>1, <2>1
  <2> QED BY <1>1, <2>3, <2>4, <2>5, <2>6, <2>7 DEF Names, Told
<1>6. ASSUME NEW u \in Transport, Untouched(u)
      PROVE  Untouched(u)'
  <2>1. u # t /\ u # 0
    BY <1>2, <1>6 DEF Untouched, Transport
  <2> QED BY <1>1, <1>2, <1>3, <1>6, <2>1 DEF Untouched
<1>7. \A h \in handling' : ~Accepted(h)
  BY <1>1 DEF Accepted
<1> QED BY <1>1, <1>3, <1>5, <1>6, <1>7, OwnerKept

\* The companion says something, and has its grant still or leaves.
LEMMA OwnerSay ==
    ASSUME OwnerInv, NEW kind, companion.transport \in Transport,
           SaidBy(companion.transport, kind),
           UNCHANGED <<access, grants, handling>>,
           \A t \in Transport : Msgs(back'[t]) \subseteq Told(t),
           \A t \in Transport : back[t] = <<>> => back'[t] = <<>>,
           companion'.transport = companion.transport,
           companion'.grant \in {0, companion.grant}
    PROVE  OwnerInv'
<1>1. \A t \in Transport : \A m \in Sent(t)' :
        m \in Sent(t) \/ (t = companion.transport /\ m.grant = companion.grant)
  <2>1. Message(kind).grant = companion.grant
    BY DEF Message
  <2> TAKE t \in Transport
  <2> TAKE m \in Sent(t)'
  <2>3. CASE t = companion.transport
    BY <2>1, <2>3 DEF SaidBy, Sent
  <2>4. CASE t # companion.transport
    BY <2>4 DEF SaidBy, Sent
  <2> QED BY <2>3, <2>4
<1>2. ASSUME NEW t \in Transport, NEW g \in Grant
      PROVE  (Names(t, g)' => Names(t, g)) /\ (Given(t, g)' <=> Given(t, g))
  <2>1. g # 0
    BY DEF Grant
  <2> QED BY <1>1, <2>1 DEF Names, Given, Accepted, Told
<1>3. ASSUME NEW t \in Transport, Untouched(t), t > companion.transport
      PROVE  Untouched(t)'
  <2>1. t # companion.transport
    BY <1>3 DEF Transport
  <2> QED BY <1>3, <2>1 DEF Untouched, SaidBy
<1> QED BY <1>2, <1>3, OwnerKept DEF OwnerInv

LEMMA OwnerConnect ==
    ASSUME BaseInv, OwnerInv, NEW mode \in Mode, Connect(mode)
    PROVE  OwnerInv'
<1>1. /\ companion'.transport = companion.transport + 1 /\ companion'.grant = 0
      /\ UNCHANGED <<access, grants, handling, wire, frames, back>>
  BY DEF Connect, daemonVars, bridgeVars, Off
<1>2. ASSUME NEW t \in Transport, NEW g \in Grant
      PROVE  (Names(t, g)' => Names(t, g)) /\ (Given(t, g)' <=> Given(t, g))
  <2>1. g # 0
    BY DEF Grant
  <2> QED BY <1>1, <2>1 DEF Names, Given, Accepted, Sent, Told
<1>3. \A t \in Transport : t > companion'.transport => Untouched(t)'
  <2>1. companion.transport \in Nat
    BY DEF BaseInv, TypeInv, Companion, Transport
  <2>2. \A t \in Transport : t \in Nat
    BY DEF Transport
  <2> QED BY <1>1, <2>1, <2>2 DEF OwnerInv, Untouched
<1>4. \A h : Accepted(h)' <=> Accepted(h)
  BY DEF Accepted
<1> QED BY <1>1, <1>2, <1>3, <1>4 DEF OwnerInv, Told

\* The daemon makes a grant that nobody has seen, or none.
LEMMA OwnerVerify == BaseInv /\ OwnerInv /\ Verify => OwnerInv'
<1> SUFFICES ASSUME BaseInv, OwnerInv, Verify PROVE OwnerInv'
  OBVIOUS
<1>1. PICK h \in handling, k \in Pending :
        /\ handling' = {k} /\ h.verdict = "none"
        /\ UNCHANGED <<grants, wire, frames, back, companion>>
        /\ \/ /\ access' = Append(access, Fresh(h.message))
              /\ Judged(k, h, "yes", Len(access) + 1)
           \/ /\ access' = access
              /\ Judged(k, h, "no", h.grant)
  BY VerifyFacts
<1>2. /\ access \in Seq(DaemonGrant) /\ Len(access) \in Nat /\ handling = {h}
      /\ k.from = h.from /\ k.message = h.message /\ h.from \in Transport
  BY <1>1, PendingFields DEF BaseInv, TypeInv, Judged
<1>3. DOMAIN access = 1..Len(access)
  BY <1>2
<1>4. ASSUME NEW t \in Transport, NEW g \in Grant
      PROVE  Names(t, g)' <=> Names(t, g)
  BY <1>1, <1>2 DEF Names, Sent, Told
<1>5. \A t \in Transport, g \in Grant : ~Given(t, g)
  BY <1>1, <1>2 DEF Given, Accepted
<1>6. \A t \in Transport : Untouched(t) => Untouched(t)'
  BY <1>1, <1>2 DEF Untouched
<1>7. CASE /\ access' = Append(access, Fresh(h.message))
           /\ Judged(k, h, "yes", Len(access) + 1)
  <2>1. Len(access) + 1 \notin DOMAIN access /\ Len(access) + 1 # 0
    BY <1>2, <1>3
  <2>2. DOMAIN access' = (1..Len(access)) \cup {Len(access) + 1}
    <3>1. Len(access') = Len(access) + 1 /\ DOMAIN access' = 1..Len(access')
      BY <1>2, <1>7
    <3> QED BY <1>2, <3>1
  <2>3. ASSUME NEW t \in Transport, NEW g \in Grant
        PROVE  Given(t, g)' => t = h.from /\ g = Len(access) + 1
    BY <1>1, <1>2, <1>7 DEF Given, Judged
  <2>4. \A t \in Transport, g \in Grant : Names(t, g) => g \in DOMAIN access
    BY DEF OwnerInv
  <2>5. /\ \A t \in Transport, g \in Grant : Names(t, g)' \/ Given(t, g)' => g \in DOMAIN access'
        /\ \A t, u \in Transport, g \in Grant :
              (Names(t, g)' \/ Given(t, g)') /\ (Names(u, g)' \/ Given(u, g)') => t = u
        /\ \A t \in Transport, g \in Grant : ~(Given(t, g)' /\ Names(t, g)')
    <3>1. \A t \in Transport, g \in Grant : Names(t, g)' => Names(t, g) /\ g \in DOMAIN access
      BY <1>4, <2>4
    <3>2. \A t \in Transport, g \in Grant : ~(Given(t, g)' /\ \E u \in Transport : Names(u, g)')
      BY <2>1, <2>3, <3>1
    <3>3. \A t, u \in Transport, g \in Grant : Names(t, g) /\ Names(u, g) => t = u
      BY DEF OwnerInv
    <3>4. \A t, u \in Transport, g \in Grant : Given(t, g)' /\ Given(u, g)' => t = u
      BY <2>3
    <3>5. \A t \in Transport, g \in Grant : Names(t, g)' \/ Given(t, g)' => g \in DOMAIN access'
      BY <1>3, <2>2, <2>3, <3>1
    <3> QED BY <3>1, <3>2, <3>3, <3>4, <3>5
  <2>6. \A j \in handling' : j.grant # 0
    BY <1>1, <1>7, <2>1 DEF Judged
  <2> QED BY <1>1, <1>6, <2>5, <2>6 DEF OwnerInv, Told
<1>8. CASE access' = access /\ Judged(k, h, "no", h.grant)
  <2>1. \A j \in handling' : ~Accepted(j)
    BY <1>1, <1>8 DEF Judged, Accepted
  <2>2. \A t \in Transport, g \in Grant : ~Given(t, g)'
    BY <1>1, <1>8 DEF Given, Judged, Accepted
  <2> QED BY <1>1, <1>4, <1>6, <1>8, <2>1, <2>2, OwnerKept DEF Told
<1> QED BY <1>1, <1>7, <1>8

\* Numbering a request changes no grant's owner.
LEMMA NumbersDomain ==
    ASSUME BaseInv, NEW h, NEW done, Numbers(h, done)
    PROVE  /\ DOMAIN access' = DOMAIN access
           /\ \A g \in DOMAIN access :
                /\ access'[g].session = access[g].session
                /\ access'[g].mode = access[g].mode
                /\ access'[g].live = access[g].live
                /\ g # h.message.grant => access'[g] = access[g]
                /\ g = h.message.grant /\ Numbered(h) => access'[g].next = access[g].next + 1
                /\ ~Numbered(h) => access'[g] = access[g]
<1>1. access \in Seq(DaemonGrant)
  BY DEF BaseInv, TypeInv
<1>2. CASE ~Numbered(h)
  BY <1>2 DEF Numbers
<1>3. CASE Numbered(h)
  <2> DEFINE i == h.message.grant
  <2>1. access' = [access EXCEPT ![i].next = @ + 1]
    BY <1>3 DEF Numbers
  <2> HIDE DEF i
  <2>2. DOMAIN access' = DOMAIN access
    BY <2>1
  <2>3. ASSUME NEW g \in DOMAIN access
        PROVE  /\ access'[g].session = access[g].session
               /\ access'[g].mode = access[g].mode
               /\ access'[g].live = access[g].live
               /\ g # i => access'[g] = access[g]
               /\ g = i => access'[g].next = access[g].next + 1
    <3>1. access[g] \in DaemonGrant
      BY <1>1
    <3>2. CASE g # i
      BY <2>1, <3>2
    <3>3. CASE g = i
      <4>1. access'[g] = [access[g] EXCEPT !.next = @ + 1]
        BY <2>1, <3>3
      <4> QED BY <3>1, <3>3, <4>1 DEF DaemonGrant
    <3> QED BY <3>2, <3>3
  <2> QED BY <1>3, <2>2, <2>3 DEF i
<1> QED BY <1>2, <1>3

LEMMA OwnerExecute == BaseInv /\ OwnerInv /\ Execute => OwnerInv'
<1> SUFFICES ASSUME BaseInv, OwnerInv, Execute PROVE OwnerInv'
  OBVIOUS
<1>1. PICK h \in handling, k \in Pending, done \in BOOLEAN :
        /\ handling' = {k} /\ h.message.kind = "request"
        /\ UNCHANGED <<grants, wire, frames, back, companion>>
        /\ Numbers(h, done)
        /\ Judged(k, h, IF done THEN "yes" ELSE "no", h.grant)
  BY ExecuteFacts
<1>2. k.from = h.from /\ k.message = h.message
  BY <1>1 DEF Judged
<1>3. DOMAIN access' = DOMAIN access
  BY <1>1, NumbersDomain
<1>4. \A j \in handling' : ~Accepted(j)
  BY <1>1, <1>2 DEF Accepted
<1>5. ASSUME NEW t \in Transport, NEW g \in Grant
      PROVE  (Names(t, g)' => Names(t, g)) /\ ~Given(t, g)'
  <2>1. ~Given(t, g)'
    BY <1>1, <1>2 DEF Given, Accepted
  <2>2. Names(t, g)' => Names(t, g)
    BY <1>1, <1>2 DEF Names, Sent, Told
  <2> QED BY <2>1, <2>2
<1>6. \A t \in Transport : Untouched(t) => Untouched(t)'
  BY <1>1, <1>2 DEF Untouched
<1> QED BY <1>1, <1>3, <1>4, <1>5, <1>6, OwnerKept DEF Told

\* The bridge and the companion learn of the grant.
LEMMA OwnerWelcome == BaseInv /\ OwnerInv /\ Welcome => OwnerInv'
<1> SUFFICES ASSUME BaseInv, OwnerInv, Welcome PROVE OwnerInv'
  OBVIOUS
<1>1. PICK h \in handling, answers \in SUBSET Answer :
        /\ h.message.kind = "hello" /\ h.verdict = "yes"
        /\ Replaced(h)
        /\ Answered(h.from, answers)
        /\ answers \subseteq {Ready(h), Snapshot, Rejected(0)}
        /\ handling' = {}
        /\ UNCHANGED <<access, wire, frames, companion>>
  BY WelcomeFacts
<1>2. h.from \in Transport /\ h.grant # 0 /\ h.from # 0
  BY <1>1, PendingFields DEF BaseInv, OwnerInv, Accepted, Transport
<1>3. \A a \in answers : a.grant \in {0, h.grant} /\ (a.kind = "ready" => a.grant = h.grant)
  BY <1>1 DEF Ready, Snapshot, Rejected
<1>4. Given(h.from, h.grant)
  BY <1>1 DEF Given, Accepted
<1>5. ASSUME NEW t \in Transport, NEW g \in Grant
      PROVE  (Names(t, g)' => Names(t, g) \/ Given(t, g)) /\ ~Given(t, g)'
  <2>1. ~Given(t, g)'
    BY <1>1 DEF Given
  <2>2. t # 0 /\ g # 0
    BY DEF Transport, Grant
  <2>3. grants'[g] = t => grants[g] = t \/ (t = h.from /\ g = h.grant)
    BY <1>1, <2>2 DEF Replaced
  <2>4. (\E a \in Msgs(back'[t]) : a.grant = g) =>
           (\E a \in Told(t) : a.grant = g) \/ (t = h.from /\ g = h.grant)
    BY <1>1, <1>3, <2>2 DEF Answered, Told
  <2>5. Names(t, g)' => Names(t, g) \/ (t = h.from /\ g = h.grant)
    BY <1>1, <2>3, <2>4 DEF Names, Sent, Told
  <2> QED BY <1>4, <2>1, <2>5
<1>6. ASSUME NEW t \in Transport, Untouched(t)
      PROVE  Untouched(t)'
  <2>1. t # h.from /\ t # 0
    BY <1>1, <1>6 DEF Untouched, Transport
  <2>2. \A g \in Grant : grants'[g] # t
    BY <1>1, <1>6, <2>1 DEF Untouched, Replaced
  <2> QED BY <1>1, <1>6, <2>1, <2>2 DEF Untouched, Answered
<1>7. ASSUME NEW t \in Transport, NEW a \in Msgs(back'[t])
      PROVE  a \in Told(t) \/ (a.kind = "ready" => a.grant # 0)
  BY <1>1, <1>2, <1>3 DEF Answered, Told
<1> QED BY <1>1, <1>5, <1>6, <1>7, OwnerKept

\* An answer that names no grant ends the handling of a message.
LEMMA OwnerAnswer ==
    ASSUME OwnerInv, handling' = {}, UNCHANGED <<access, grants, wire, frames, companion>>,
           \A t \in Transport : \A a \in Msgs(back'[t]) :
               a \in Told(t) \/ (a.grant = 0 /\ a.kind # "ready"),
           \A t \in Transport : Untouched(t) => back'[t] = back[t]
    PROVE  OwnerInv'
<1>1. ASSUME NEW t \in Transport, NEW g \in Grant
      PROVE  (Names(t, g)' => Names(t, g)) /\ ~Given(t, g)'
  <2>1. g # 0
    BY DEF Grant
  <2> QED BY <2>1 DEF Names, Given, Sent, Told
<1>2. \A t \in Transport : Untouched(t) => Untouched(t)'
  BY DEF Untouched
<1> QED BY <1>1, <1>2, OwnerKept

LEMMA OwnerAcknowledge == BaseInv /\ OwnerInv /\ Acknowledge => OwnerInv'
<1> SUFFICES ASSUME BaseInv, OwnerInv, Acknowledge PROVE OwnerInv'
  OBVIOUS
<1>1. PICK h \in handling :
        /\ Acknowledged(h)
        /\ handling' = {}
        /\ UNCHANGED <<access, grants, wire, frames, companion>>
  BY AcknowledgeSteps
<1>2. ASSUME NEW t \in Transport, NEW a \in Msgs(back'[t])
      PROVE  a \in Told(t) \/ (a.grant = 0 /\ a.kind # "ready")
  <2>1. a \in Told(t) \/ a = Snapshot \/ a = Applied(h.message.sequence)
    BY <1>1 DEF Acknowledged, Told
  <2> QED BY <2>1 DEF Snapshot, Applied
<1>3. ASSUME NEW t \in Transport, Untouched(t)
      PROVE  back'[t] = back[t]
  <2>1. access \in Seq(DaemonGrant) /\ Len(access) <= MaxGrant
    BY DEF BaseInv, TypeInv
  <2>2. DOMAIN access \subseteq Grant
    BY <2>1, HandshakeAssumption DEF Grant
  <2>3. t # h.from /\ ~Controls(t)
    BY <1>3, <2>2 DEF Untouched, Controls
  <2> QED BY <1>1, <2>3 DEF Acknowledged
<1> QED BY <1>1, <1>2, <1>3, OwnerAnswer

LEMMA OwnerRefuse == BaseInv /\ OwnerInv /\ Refuse => OwnerInv'
<1> SUFFICES ASSUME BaseInv, OwnerInv, Refuse PROVE OwnerInv'
  OBVIOUS
<1>1. PICK h \in handling :
        /\ Answered(h.from, {Rejected(h.message.sequence)})
        /\ handling' = {}
        /\ UNCHANGED <<access, grants, wire, frames, companion>>
  BY RefuseFacts
<1>2. ASSUME NEW t \in Transport, NEW a \in Msgs(back'[t])
      PROVE  a \in Told(t) \/ (a.grant = 0 /\ a.kind # "ready")
  <2>1. a \in Told(t) \/ a = Rejected(h.message.sequence)
    BY <1>1 DEF Answered, Told
  <2> QED BY <2>1 DEF Rejected
<1>3. \A t \in Transport : Untouched(t) => back'[t] = back[t]
  BY <1>1 DEF Untouched, Answered
<1> QED BY <1>1, <1>2, <1>3, OwnerAnswer

LEMMA OwnerLeave ==
    ASSUME BaseInv, OwnerInv, companion.phase # "off", Leave,
           UNCHANGED <<access, grants, handling, frames>>,
           \A t \in Transport : Msgs(back'[t]) \subseteq Told(t),
           \A t \in Transport : back[t] = <<>> => back'[t] = <<>>
    PROVE  OwnerInv'
<1>1. /\ companion'.transport = companion.transport /\ companion.transport \in Transport
      /\ companion'.grant = 0
      /\ wire' = wire \/ SaidBy(companion.transport, "goodbye")
  BY LeaveFacts DEF Off
<1>2. CASE SaidBy(companion.transport, "goodbye")
  BY <1>1, <1>2, OwnerSay
<1>3. CASE wire' = wire
  <2>1. ASSUME NEW t \in Transport, NEW g \in Grant
        PROVE  (Names(t, g)' => Names(t, g)) /\ (Given(t, g)' <=> Given(t, g))
    <3>1. g # 0
      BY DEF Grant
    <3> QED BY <1>1, <1>3, <3>1 DEF Names, Given, Accepted, Sent, Told
  <2>2. \A t \in Transport : Untouched(t) => Untouched(t)'
    BY <1>3 DEF Untouched
  <2> QED BY <1>1, <2>1, <2>2, OwnerKept DEF OwnerInv
<1> QED BY <1>1, <1>2, <1>3

LEMMA OwnerReceive ==
    ASSUME BaseInv, OwnerInv, NEW t \in Transport, Receive(t)
    PROVE  OwnerInv'
<1> DEFINE m == Head(back[t])
<1>1. /\ TakenOff(back, back', t, Answer)
      /\ UNCHANGED <<access, grants, handling, frames>>
      /\ \/ Current(t) /\ Received(m)
         \/ companion' = companion /\ wire' = wire
  BY ReceiveFacts
<1>2. /\ m \in Told(t) /\ back[t] # <<>>
      /\ \A u \in Transport : u # t => back'[u] = back[u]
      /\ \A u \in Transport : Msgs(back'[u]) \subseteq Told(u)
  BY <1>1 DEF TakenOff, Told
<1> HIDE DEF m
<1>3. companion \in Companion
  BY DEF BaseInv, TypeInv
<1>4. CASE /\ wire' = wire /\ companion'.transport = companion.transport
           /\ companion'.grant = companion.grant
              \/ (companion.transport = t /\ companion'.grant = m.grant)
  <2>1. ASSUME NEW u \in Transport, NEW g \in Grant
        PROVE  (Names(u, g)' => Names(u, g)) /\ (Given(u, g)' <=> Given(u, g))
    BY <1>1, <1>2, <1>4 DEF Names, Given, Accepted, Sent, Told
  <2>2. \A u \in Transport : Untouched(u) => Untouched(u)'
    BY <1>1, <1>2, <1>4 DEF Untouched
  <2> QED BY <1>1, <1>2, <1>4, <2>1, <2>2, OwnerKept DEF OwnerInv
<1>5. CASE Current(t) /\ Received(m)
  <2>1. CASE /\ companion' = [companion EXCEPT !.grant = m.grant, !.phase = Opened[companion.mode]]
             /\ wire' = wire
    BY <1>3, <1>4, <1>5, <2>1 DEF Companion, Current
  <2>2. CASE companion' = [companion EXCEPT !.phase = "ready"] /\ wire' = wire
    BY <1>3, <1>4, <2>2 DEF Companion
  <2>3. CASE Settled(m.sequence) /\ wire' = wire
    BY <1>3, <1>4, <2>3 DEF Companion, Settled
  <2>4. CASE Leave
    BY <1>1, <1>2, <1>5, <2>4, OwnerLeave DEF Current
  <2> QED BY <1>5, <2>1, <2>2, <2>3, <2>4 DEF Received
<1> QED BY <1>1, <1>4, <1>5

LEMMA OwnerStep == BaseInv /\ OwnerInv /\ [Next]_vars => OwnerInv'
<1> SUFFICES ASSUME BaseInv, OwnerInv, [Next]_vars PROVE OwnerInv'
  OBVIOUS
<1>0. companion \in Companion
  BY DEF BaseInv, TypeInv
<1>1. ASSUME NEW mine \in BOOLEAN, NewSession(mine) PROVE OwnerInv'
  <2>1. DOMAIN access' = DOMAIN access /\ UNCHANGED <<grants, handling, wire, frames, back, companion>>
    BY <1>1 DEF NewSession
  <2> QED BY <2>1, OwnerQuiet
<1>2. CASE Open \/ BeginStop \/ EndStop
  <2>1. UNCHANGED <<access, handling, back, companion>>
    BY <1>2 DEF Open, BeginStop, EndStop, daemonVars
  <2>2. \A g \in Grant : grants'[g] \in {0, grants[g]}
    BY <1>2 DEF Open, BeginStop, EndStop, NoGrants
  <2>3. \A t \in Transport : wire'[t] \in {wire[t], <<>>} /\ frames'[t] \in {frames[t], <<>>}
    BY <1>2 DEF Open, BeginStop, EndStop
  <2> QED BY <2>1, <2>2, <2>3, OwnerForget
<1>3. ASSUME NEW t \in Transport, Handle(t) \/ HandleFrame(t) PROVE OwnerInv'
  BY <1>3, OwnerHandle
<1>4. ASSUME NEW t \in Transport, Receive(t) PROVE OwnerInv'
  BY <1>4, OwnerReceive
<1>5. ASSUME NEW mode \in Mode, Connect(mode) PROVE OwnerInv'
  BY <1>5, OwnerConnect
<1>6. CASE SendHello
  <2>1. /\ companion.phase = "hello" /\ Say("hello")
        /\ companion' = [companion EXCEPT !.hellos = @ + 1]
        /\ UNCHANGED <<access, grants, handling, frames, back>>
    BY <1>6 DEF SendHello, daemonVars, bridgeVars
  <2>2. companion.transport \in Transport /\ SaidBy(companion.transport, "hello")
    BY <2>1, SayFacts DEF BaseInv
  <2>3. companion'.transport = companion.transport /\ companion'.grant = companion.grant
    BY <1>0, <2>1 DEF Companion
  <2> QED BY <2>1, <2>2, <2>3, OwnerSay DEF Told
<1>7. CASE SendRequest
  <2>1. /\ companion.phase = "ready" /\ Say("request") /\ companion.sequence <= MaxSequence
        /\ companion' = [companion EXCEPT !.sequence = @ + 1, !.waiting = @ \cup {companion.sequence},
                                         !.chunking = FALSE]
        /\ UNCHANGED <<access, grants, handling, frames, back>>
    BY <1>7 DEF SendRequest, MayAsk, daemonVars, bridgeVars
  <2>2. companion.transport \in Transport /\ SaidBy(companion.transport, "request")
    BY <2>1, SayFacts DEF BaseInv
  <2>3. companion'.transport = companion.transport /\ companion'.grant = companion.grant
    BY <1>0, <2>1 DEF Companion
  <2> QED BY <2>1, <2>2, <2>3, OwnerSay DEF Told
<1>8. CASE RequestTimeout
  <2>1. PICK n \in companion.waiting :
          companion' = [companion EXCEPT !.waiting = @ \ {n}, !.slipped = @ \/ companion.chunking]
    BY <1>8 DEF RequestTimeout
  <2>2. companion'.transport = companion.transport /\ companion'.grant = companion.grant
    BY <1>0, <2>1 DEF Companion
  <2>3. UNCHANGED <<access, grants, handling, wire, frames, back>>
    BY <1>8 DEF RequestTimeout, daemonVars, bridgeVars
  <2> QED BY <2>2, <2>3, OwnerQuiet
<1>9. CASE Disconnect
  <2>1. companion.phase # "off" /\ Leave /\ UNCHANGED <<access, grants, handling, frames, back>>
    BY <1>9 DEF Disconnect, daemonVars, bridgeVars
  <2> QED BY <2>1, OwnerLeave DEF Told
<1>10. CASE UNCHANGED vars
  <2>1. UNCHANGED <<access, grants, handling, wire, frames, back, companion>>
    BY <1>10 DEF vars, daemonVars, bridgeVars
  <2> QED BY <2>1, OwnerQuiet
<1>11. CASE AudioConnected
  <2>1. /\ companion' = [companion EXCEPT !.phase = "ready"]
        /\ UNCHANGED <<access, grants, handling, wire, frames, back>>
    BY <1>11 DEF AudioConnected, daemonVars, bridgeVars
  <2>2. companion'.transport = companion.transport /\ companion'.grant = companion.grant
    BY <1>0, <2>1 DEF Companion
  <2> QED BY <2>1, <2>2, OwnerQuiet
<1>12. CASE SendChunk
  <2>1. /\ companion.transport \in Transport /\ UNCHANGED <<access, grants, handling, wire, back>>
        /\ \/ /\ SaidBy(companion.transport, "request")
              /\ companion' = [companion EXCEPT !.sequence = @ + 1,
                                               !.waiting = @ \cup {companion.sequence}]
           \/ /\ companion' = [companion EXCEPT !.sequence = @ + 1, !.slipped = TRUE]
              /\ frames' = frames
    BY <1>12, SendChunkFacts DEF BaseInv, TypeInv
  <2>2. companion'.transport = companion.transport /\ companion'.grant = companion.grant
    BY <1>0, <2>1 DEF Companion
  <2>3. CASE SaidBy(companion.transport, "request")
    BY <2>1, <2>2, <2>3, OwnerSay DEF Told
  <2>4. CASE frames' = frames
    BY <2>1, <2>2, <2>4, OwnerQuiet
  <2> QED BY <2>1, <2>3, <2>4
<1>13. ASSUME NEW t \in Transport, LoseFrames(t) PROVE OwnerInv'
  <2>1. /\ frames'[t] = <<>> /\ \A u \in Transport : u # t => frames'[u] = frames[u]
        /\ companion' = [companion EXCEPT !.slipped = companion.slipped \/ Current(t)]
        /\ UNCHANGED <<access, grants, handling, wire, back>>
    BY <1>13, LoseFacts
  <2>2. companion'.transport = companion.transport /\ companion'.grant = companion.grant
    BY <1>0, <2>1 DEF Companion
  <2>3. \A u \in Transport : wire'[u] \in {wire[u], <<>>} /\ frames'[u] \in {frames[u], <<>>}
    BY <2>1
  <2> QED BY <2>1, <2>2, <2>3, OwnerForget
<1> QED
  BY <1>1, <1>2, <1>3, <1>4, <1>5, <1>6, <1>7, <1>8, <1>9, <1>10, <1>11, <1>12, <1>13, OwnerVerify,
     OwnerExecute, OwnerWelcome, OwnerAcknowledge, OwnerRefuse DEF Next

\* A grant is never named by two connections.
THEOREM OwnerInvariant == Spec => []OwnerInv
<1>1. Init => OwnerInv
  BY OwnerInit
<1>2. BaseInv /\ OwnerInv /\ [Next]_vars => OwnerInv'
  BY OwnerStep
<1> QED BY <1>1, <1>2, BaseInvariant, PTL DEF Spec

-----------------------------------------------------------------------------
(* The grants of the bridge. *)

HasTransports == bridge.phase \in {"up", "stopping"}

\* The grants the bridge knows, and the one it is about to know, are of the session of its
\* transports, and it knows one of each transport: the latest.
GrantInv ==
    /\ HasTransports =>
           \A g \in Grant : grants[g] # 0 => access[g].session = bridge.session
    /\ \A h \in handling : Accepted(h) => access[h.grant].session = bridge.session
    /\ HasTransports => \A g \in Grant, t \in Transport : grants[g] = t <=> latest[t] = g
    /\ \A g \in DOMAIN access : access[g].live => access[g].session = session

\* What the bridge and the daemon have made so far is among the grants.
LEMMA KnownGrants ==
    ASSUME BaseInv, OwnerInv
    PROVE  /\ access \in Seq(DaemonGrant) /\ DOMAIN access \subseteq Grant
           /\ grants \in [Grant -> Transport \cup {0}] /\ latest \in [Transport -> Grant \cup {0}]
           /\ \A g \in Grant : g # 0 /\ (grants[g] # 0 => g \in DOMAIN access /\ Names(grants[g], g))
           /\ \A t \in Transport : t # 0
           /\ \A h \in handling : Accepted(h) => h.grant \in Grant /\ h.grant \in DOMAIN access
                                                 /\ h.from \in Transport /\ Given(h.from, h.grant)
<1>1. /\ access \in Seq(DaemonGrant) /\ Len(access) <= MaxGrant
      /\ grants \in [Grant -> Transport \cup {0}] /\ latest \in [Transport -> Grant \cup {0}]
  BY DEF BaseInv, TypeInv
<1>2. DOMAIN access \subseteq Grant
  BY <1>1, HandshakeAssumption DEF Grant
<1>3. /\ \A t \in Transport : t # 0
      /\ \A g \in Grant : g # 0
  BY DEF Transport, Grant
<1>4. ASSUME NEW g \in Grant, grants[g] # 0
      PROVE  g \in DOMAIN access /\ Names(grants[g], g)
  <2>1. grants[g] \in Transport /\ Names(grants[g], g)
    BY <1>1, <1>4 DEF Names
  <2> QED BY <2>1 DEF OwnerInv
<1>5. ASSUME NEW h \in handling, Accepted(h)
      PROVE  h.grant \in Grant /\ h.grant \in DOMAIN access
             /\ h.from \in Transport /\ Given(h.from, h.grant)
  <2>1. h.grant \in Grant /\ h.from \in Transport
    BY <1>5, PendingFields DEF BaseInv, OwnerInv
  <2>2. Given(h.from, h.grant)
    BY <1>5 DEF Given
  <2> QED BY <2>1, <2>2 DEF OwnerInv
<1> QED BY <1>1, <1>2, <1>3, <1>4, <1>5

\* The daemon's grants keep their sessions, and the bridge its own.
LEMMA GrantQuiet ==
    ASSUME BaseInv, OwnerInv, GrantInv, UNCHANGED <<session, bridge, grants, latest>>,
           \A h \in handling' : Accepted(h) => h \in handling,
           DOMAIN access' = DOMAIN access,
           \A g \in DOMAIN access : /\ access'[g].session = access[g].session
                                    /\ access'[g].live = access[g].live
    PROVE  GrantInv'
<1>1. \A g \in Grant : grants[g] # 0 => g \in DOMAIN access
  BY KnownGrants
<1>2. \A h \in handling : Accepted(h) => h.grant \in DOMAIN access
  BY KnownGrants
<1>3. \A h : Accepted(h)' <=> Accepted(h)
  BY DEF Accepted
<1> QED BY <1>1, <1>2, <1>3 DEF GrantInv, HasTransports

LEMMA GrantNewSession ==
    ASSUME BaseInv, OwnerInv, GrantInv, NEW mine \in BOOLEAN, NewSession(mine)
    PROVE  GrantInv'
<1>1. /\ access' = [g \in DOMAIN access |-> [access[g] EXCEPT !.live = FALSE]]
      /\ UNCHANGED <<grants, latest, handling>>
      /\ \/ bridge' = bridge
         \/ bridge.phase = "down" /\ bridge' = [phase |-> "opening", session |-> session']
  BY DEF NewSession
<1>2. DOMAIN access' = DOMAIN access
  BY <1>1
<1>3. ASSUME NEW g \in DOMAIN access
      PROVE  access'[g].session = access[g].session /\ ~access'[g].live
  <2>1. access[g] \in DaemonGrant
    BY KnownGrants
  <2>2. access'[g] = [access[g] EXCEPT !.live = FALSE]
    BY <1>1
  <2> QED BY <2>1, <2>2 DEF DaemonGrant
<1>4. \A g \in Grant : grants[g] # 0 => g \in DOMAIN access
  BY KnownGrants
<1>5. \A h \in handling : Accepted(h) => h.grant \in DOMAIN access
  BY KnownGrants
<1>6. \A h : Accepted(h)' <=> Accepted(h)
  BY DEF Accepted
<1>7. CASE bridge' = bridge
  BY <1>1, <1>2, <1>3, <1>4, <1>5, <1>6, <1>7 DEF GrantInv, HasTransports
<1>8. CASE bridge.phase = "down" /\ bridge' = [phase |-> "opening", session |-> session']
  <2>1. handling = {} /\ bridge'.phase = "opening"
    BY <1>8 DEF BaseInv, BridgeInv
  <2> QED BY <1>1, <1>2, <1>3, <2>1 DEF GrantInv, HasTransports
<1> QED BY <1>1, <1>7, <1>8

\* The bridge starts again with no grants.
LEMMA GrantReset ==
    ASSUME BaseInv, OwnerInv, GrantInv, Open \/ BeginStop \/ EndStop
    PROVE  GrantInv'
<1>1. UNCHANGED <<session, access, handling>>
  BY DEF Open, BeginStop, EndStop, daemonVars
<1>2. \A h : Accepted(h)' <=> Accepted(h)
  BY DEF Accepted
<1>3. bridge \in [phase : {"down", "opening", "up", "stopping"}, session : Session \cup {0}]
  BY DEF BaseInv, TypeInv
<1>4. CASE Open \/ BeginStop
  <2>1. grants' = NoGrants /\ latest' = [t \in Transport |-> 0] /\ bridge'.session = bridge.session
    BY <1>3, <1>4 DEF Open, BeginStop
  <2>2. \A g \in Grant : grants'[g] = 0 /\ g # 0
    BY <2>1 DEF NoGrants, Grant
  <2>3. \A t \in Transport : latest'[t] = 0 /\ t # 0
    BY <2>1 DEF Transport
  <2> QED BY <1>1, <1>2, <2>1, <2>2, <2>3 DEF GrantInv
<1>5. CASE EndStop
  <2>1. bridge'.phase = "down" /\ handling' = {}
    BY <1>5 DEF EndStop
  <2> QED BY <1>1, <2>1 DEF GrantInv, HasTransports
<1> QED BY <1>4, <1>5

LEMMA GrantHandle ==
    ASSUME BaseInv, OwnerInv, GrantInv, NEW t \in Transport, Handle(t)
    PROVE  GrantInv'
<1> DEFINE m == Head(wire[t])
<1>1. /\ handling = {}
      /\ \/ handling' = {}
         \/ handling' = {[from |-> t, message |-> m, verdict |-> "none", grant |-> 0]}
      /\ UNCHANGED <<session, access, bridge>>
  BY HandleFacts
<1>2. \A h \in handling' : ~Accepted(h)
  BY <1>1 DEF Accepted
<1>3. CASE UNCHANGED <<grants, latest>>
  BY <1>1, <1>2, <1>3, GrantQuiet
<1>4. CASE /\ Authenticated(t, m)
           /\ grants' = [grants EXCEPT ![m.grant] = 0]
           /\ latest' = [latest EXCEPT ![t] = IF @ = m.grant THEN 0 ELSE @]
  <2>1. m \in Request
    BY HandleFacts DEF TakenOff
  <2> DEFINE g0 == m.grant
  <2>2. /\ g0 \in Grant /\ grants[g0] = t
        /\ grants' = [grants EXCEPT ![g0] = 0]
        /\ latest' = [latest EXCEPT ![t] = IF @ = g0 THEN 0 ELSE @]
    BY <1>4, <2>1 DEF Authenticated, Request
  <2> HIDE DEF g0, m
  <2>3. HasTransports
    BY DEF Handle, HasTransports
  <2>4. /\ \A g \in Grant, u \in Transport : grants[g] = u <=> latest[u] = g
        /\ \A g \in Grant : grants[g] # 0 => access[g].session = bridge.session
    BY <2>3 DEF GrantInv
  <2>5. latest[t] = g0
    BY <2>2, <2>4
  <2>6. ASSUME NEW g \in Grant, NEW u \in Transport
        PROVE  grants'[g] = u <=> latest'[u] = g
    <3>1. g # 0 /\ u # 0
      BY DEF Grant, Transport
    <3>2. grants'[g] = IF g = g0 THEN 0 ELSE grants[g]
      BY <2>2, KnownGrants
    <3>3. latest'[u] = IF u = t THEN 0 ELSE latest[u]
      BY <2>2, <2>5, KnownGrants
    <3>4. grants[g] = u <=> latest[u] = g
      BY <2>4
    <3> QED BY <2>2, <2>5, <3>1, <3>2, <3>3, <3>4
  <2>7. \A g \in Grant : grants'[g] # 0 => access[g].session = bridge.session
    BY <2>2, <2>4, KnownGrants
  <2>8. \A g \in DOMAIN access : access[g].live => access[g].session = session
    BY DEF GrantInv
  <2> QED BY <1>1, <1>2, <2>6, <2>7, <2>8 DEF GrantInv, Accepted
<1> QED BY <1>3, <1>4 DEF Handle

LEMMA GrantHandleFrame ==
    ASSUME BaseInv, OwnerInv, GrantInv, NEW t \in Transport, HandleFrame(t)
    PROVE  GrantInv'
<1>1. /\ \A h \in handling' : h.verdict = "none"
      /\ UNCHANGED <<session, access, bridge, grants, latest>>
  BY FrameFacts
<1> QED BY <1>1, GrantQuiet DEF Accepted

LEMMA GrantVerify == BaseInv /\ OwnerInv /\ GrantInv /\ Verify => GrantInv'
<1> SUFFICES ASSUME BaseInv, OwnerInv, GrantInv, Verify PROVE GrantInv'
  OBVIOUS
<1>1. PICK h \in handling, k \in Pending :
        /\ handling' = {k} /\ h.message.kind = "hello" /\ h.verdict = "none"
        /\ UNCHANGED <<session, bridge, grants, latest>>
        /\ \/ /\ h.message.session = session
              /\ access' = Append(access, Fresh(h.message))
              /\ Judged(k, h, "yes", Len(access) + 1)
           \/ /\ access' = access
              /\ Judged(k, h, "no", h.grant)
  BY VerifyFacts
<1>2. CASE /\ h.message.session = session
           /\ access' = Append(access, Fresh(h.message))
           /\ Judged(k, h, "yes", Len(access) + 1)
  <2> DEFINE n == Len(access) + 1
  <2>1. access \in Seq(DaemonGrant) /\ Len(access) \in Nat /\ DOMAIN access = 1..Len(access)
    BY KnownGrants
  <2>2. /\ \A g \in DOMAIN access : access'[g] = access[g]
        /\ access'[n] = Fresh(h.message)
        /\ DOMAIN access' = (DOMAIN access) \cup {n}
    <3>1. /\ \A g \in 1..Len(access) : access'[g] = access[g]
          /\ access'[n] = Fresh(h.message)
          /\ DOMAIN access' = 1..n
      BY <1>2, <2>1
    <3> QED BY <2>1, <3>1
  <2>3. access'[n].session = session /\ session = bridge.session
    BY <1>2, <2>2 DEF Fresh, BaseInv, BridgeInv
  <2>4. k.grant = n
    BY <1>2 DEF Judged
  <2>5. \A g \in Grant : grants[g] # 0 => g \in DOMAIN access
    BY KnownGrants
  <2> HIDE DEF n
  <2>6. HasTransports => \A g \in Grant : grants[g] # 0 => access'[g].session = bridge.session
    BY <2>2, <2>5 DEF GrantInv
  <2>7. \A g \in DOMAIN access' : access'[g].live => access'[g].session = session
    BY <2>2, <2>3 DEF GrantInv
  <2>8. \A j \in handling' : access'[j.grant].session = bridge.session
    BY <1>1, <2>3, <2>4
  <2> QED BY <1>1, <2>6, <2>7, <2>8 DEF GrantInv, HasTransports
<1>3. CASE access' = access /\ Judged(k, h, "no", h.grant)
  <2>1. \A j \in handling' : ~Accepted(j)
    BY <1>1, <1>3 DEF Judged, Accepted
  <2> QED BY <1>1, <1>3, <2>1, GrantQuiet
<1> QED BY <1>1, <1>2, <1>3

LEMMA GrantExecute == BaseInv /\ OwnerInv /\ GrantInv /\ Execute => GrantInv'
<1> SUFFICES ASSUME BaseInv, OwnerInv, GrantInv, Execute PROVE GrantInv'
  OBVIOUS
<1>1. PICK h \in handling, k \in Pending, done \in BOOLEAN :
        /\ handling' = {k} /\ h.message.kind = "request"
        /\ UNCHANGED <<session, bridge, grants, latest>>
        /\ Numbers(h, done)
        /\ Judged(k, h, IF done THEN "yes" ELSE "no", h.grant)
  BY ExecuteFacts
<1>2. \A j \in handling' : ~Accepted(j)
  BY <1>1 DEF Judged, Accepted
<1>3. /\ DOMAIN access' = DOMAIN access
      /\ \A g \in DOMAIN access : /\ access'[g].session = access[g].session
                                  /\ access'[g].live = access[g].live
  BY <1>1, NumbersDomain
<1> QED BY <1>1, <1>2, <1>3, GrantQuiet

\* What the bridge knows after a hello was accepted.
LEMMA ReplacedFacts ==
    ASSUME BaseInv, OwnerInv, GrantInv, NEW h \in handling, Accepted(h), Replaced(h)
    PROVE  /\ \A g \in Grant, t \in Transport :
                grants'[g] = t <=> \/ g = h.grant /\ t = h.from
                                   \/ grants[g] = t /\ t # h.from
           /\ grants'[h.grant] = h.from /\ latest'[h.from] = h.grant
           /\ \A t \in Transport : t # h.from => latest'[t] = latest[t] /\ latest[t] # h.grant
           /\ HasTransports /\ h.grant \in Grant /\ h.from \in Transport
<1>1. /\ h.grant \in Grant /\ h.from \in Transport /\ Given(h.from, h.grant)
      /\ latest \in [Transport -> Grant \cup {0}]
  BY KnownGrants
<1>2. HasTransports
  BY DEF BaseInv, TypeInv, BridgeInv, HasTransports
<1>3. \A g \in Grant, t \in Transport : grants[g] = t <=> latest[t] = g
  BY <1>2 DEF GrantInv
<1>4. ASSUME NEW t \in Transport
      PROVE  grants[h.grant] # t
  <2>1. SUFFICES ASSUME grants[h.grant] = t PROVE FALSE
    OBVIOUS
  <2>2. Names(t, h.grant)
    BY <2>1 DEF Names
  <2>3. t = h.from
    BY <1>1, <2>2 DEF OwnerInv
  <2> QED BY <1>1, <2>2, <2>3 DEF OwnerInv
<1>5. ASSUME NEW g \in Grant, NEW t \in Transport
      PROVE  grants'[g] = t <=> \/ g = h.grant /\ t = h.from
                                \/ grants[g] = t /\ t # h.from
  <2>1. grants'[g] = IF g = h.grant THEN h.from
                     ELSE IF g = latest[h.from] THEN 0 ELSE grants[g]
    BY DEF Replaced
  <2>2. t # 0 /\ g # 0
    BY DEF Transport, Grant
  <2>3. grants[g] = h.from <=> latest[h.from] = g
    BY <1>1, <1>3
  <2> QED BY <1>1, <1>4, <2>1, <2>2, <2>3
<1>6. grants'[h.grant] = h.from /\ latest'[h.from] = h.grant
  BY <1>1 DEF Replaced
<1>7. ASSUME NEW t \in Transport, t # h.from
      PROVE  latest'[t] = latest[t] /\ latest[t] # h.grant
  BY <1>1, <1>3, <1>4, <1>7 DEF Replaced
<1> QED BY <1>1, <1>2, <1>5, <1>6, <1>7

LEMMA GrantWelcome == BaseInv /\ OwnerInv /\ GrantInv /\ Welcome => GrantInv'
<1> SUFFICES ASSUME BaseInv, OwnerInv, GrantInv, Welcome PROVE GrantInv'
  OBVIOUS
<1>1. PICK h \in handling :
        /\ Accepted(h) /\ Replaced(h) /\ handling' = {}
        /\ UNCHANGED <<session, access, bridge>>
  BY WelcomeFacts DEF Accepted
<1>2. /\ \A g \in Grant, t \in Transport :
           grants'[g] = t <=> \/ g = h.grant /\ t = h.from
                              \/ grants[g] = t /\ t # h.from
      /\ grants'[h.grant] = h.from /\ latest'[h.from] = h.grant
      /\ \A t \in Transport : t # h.from => latest'[t] = latest[t] /\ latest[t] # h.grant
      /\ HasTransports /\ h.grant \in Grant /\ h.from \in Transport
  BY <1>1, ReplacedFacts
<1>3. \A g \in Grant, t \in Transport : grants[g] = t <=> latest[t] = g
  BY <1>2 DEF GrantInv
<1>4. ASSUME NEW g \in Grant, NEW t \in Transport
      PROVE  grants'[g] = t <=> latest'[t] = g
  BY <1>2, <1>3
<1>5. ASSUME NEW g \in Grant, grants'[g] # 0
      PROVE  access[g].session = bridge.session
  <2>1. grants'[g] \in Transport
    <3>1. BaseInv'
      BY BaseWelcome
    <3> QED BY <1>5, <3>1 DEF BaseInv, TypeInv
  <2>2. g = h.grant \/ grants[g] = grants'[g]
    BY <1>2, <2>1
  <2>3. access[h.grant].session = bridge.session
    BY <1>1 DEF GrantInv
  <2> QED BY <1>2, <1>5, <2>2, <2>3 DEF GrantInv
<1>6. \A g \in DOMAIN access : access[g].live => access[g].session = session
  BY DEF GrantInv
<1> QED BY <1>1, <1>4, <1>5, <1>6 DEF GrantInv

LEMMA GrantStep == BaseInv /\ OwnerInv /\ GrantInv /\ [Next]_vars => GrantInv'
<1> SUFFICES ASSUME BaseInv, OwnerInv, GrantInv, [Next]_vars PROVE GrantInv'
  OBVIOUS
<1>1. CASE UNCHANGED <<session, access, bridge, grants, latest>> /\ handling' \subseteq handling
  BY <1>1, GrantQuiet
<1>2. ASSUME NEW mine \in BOOLEAN, NewSession(mine) PROVE GrantInv'
  BY <1>2, GrantNewSession
<1>3. CASE Open \/ BeginStop \/ EndStop
  BY <1>3, GrantReset
<1>4. ASSUME NEW t \in Transport, Handle(t) PROVE GrantInv'
  BY <1>4, GrantHandle
<1>6. ASSUME NEW t \in Transport, HandleFrame(t) PROVE GrantInv'
  BY <1>6, GrantHandleFrame
<1>5. CASE Acknowledge \/ Refuse \/ (\E t \in Transport : LoseFrames(t) \/ Receive(t))
           \/ (\E mode \in Mode : Connect(mode))
           \/ SendHello \/ AudioConnected \/ SendRequest \/ SendChunk \/ RequestTimeout
           \/ Disconnect \/ UNCHANGED vars
  <2>1. UNCHANGED <<session, access, bridge, grants, latest>> /\ handling' \subseteq handling
    BY <1>5 DEF Acknowledge, Refuse, LoseFrames, Receive, Connect, SendHello, AudioConnected,
                SendRequest, SendChunk, RequestTimeout, Disconnect, vars, daemonVars, bridgeVars
  <2> QED BY <1>1, <2>1
<1> QED
  BY <1>2, <1>3, <1>4, <1>5, <1>6, GrantVerify, GrantExecute, GrantWelcome DEF Next

LEMMA GrantInit == Init => GrantInv
<1> SUFFICES ASSUME Init PROVE GrantInv
  OBVIOUS
<1>1. DOMAIN access = {} /\ bridge.phase = "down" /\ handling = {}
  BY DEF Init
<1> QED BY <1>1 DEF GrantInv, HasTransports

\* The bridge's grants are of the session of its transports, and each is the latest one of
\* its transport.
THEOREM GrantInvariant == Spec => []GrantInv
<1>1. Init => GrantInv
  BY GrantInit
<1>2. BaseInv /\ OwnerInv /\ GrantInv /\ [Next]_vars => GrantInv'
  BY GrantStep
<1> QED BY <1>1, <1>2, BaseInvariant, OwnerInvariant, PTL DEF Spec

\* A bridge that serves its session knows grants of that session only, and one of each
\* transport: hellos that are repeated and goodbyes that come late take nothing from it.
LEMMA GrantsFollow ==
    ASSUME BaseInv, GrantInv
    PROVE  NoStaleGrants /\ OneGrantPerTransport
BY DEF BaseInv, BridgeInv, GrantInv, HasTransports, NoStaleGrants, OneGrantPerTransport

-----------------------------------------------------------------------------
(* The connection the companion has now. *)

\* t is the companion's connection, and the bridge still serves its session.
Ours(t) ==
    companion.phase # "off" /\ served = companion.session /\ companion.transport = t

HandledFor(t) == \E h \in handling : h.from = t

\* One hello: it is on its way, or being handled, or answered; once answered, the
\* bridge knows the grant for t.
HelloOnItsWay(t) ==
    /\ Len(wire[t]) <= 1 /\ frames[t] = <<>>
    /\ HandledFor(t) => wire[t] = <<>>
    /\ \A a \in Told(t) :
           a.kind = "ready" => wire[t] = <<>> /\ ~HandledFor(t) /\ grants[a.grant] = t

HelloAnswered(t) ==
    /\ \A m \in Sent(t) : m.kind # "hello"
    /\ \A h \in handling : h.from = t => h.message.kind # "hello"
    /\ grants[companion.grant] = t

Hello(t) ==
    /\ \A m \in Sent(t) : m.kind # "goodbye"
    /\ companion.phase # "hello" => companion.grant # 0
    /\ companion.hellos = 0 => companion.phase = "hello" /\ Untouched(t)
    /\ companion.hellos = 1 /\ companion.phase = "hello" => HelloOnItsWay(t)
    /\ companion.hellos = 1 /\ companion.phase # "hello" => HelloAnswered(t)

HelloInv == \A t \in Transport : Ours(t) => Hello(t)

\* A connection becomes the companion's by Connect only; and the bridge does not begin
\* to serve a session again.
LEMMA OursBefore ==
    ASSUME BaseInv, [Next]_vars, NEW t \in Transport, Ours(t)',
           ~\E mode \in Mode : Connect(mode)
    PROVE  Ours(t) /\ ~Open /\ ~BeginStop /\ ~EndStop
<1>1. companion \in Companion /\ 0 \notin Session
      /\ (companion.phase # "off" => companion.transport \in Transport)
  BY DEF BaseInv, TypeInv, Session
<1>2. CASE companion' = companion /\ served' = served /\ ~Open /\ ~BeginStop /\ ~EndStop
  BY <1>2 DEF Ours
<1>3. CASE Open
  <2>1. /\ bridge.phase = "opening" /\ served' = bridge.session /\ companion' = companion
        /\ bridge.session \in Session \cup {0}
    BY <1>3 DEF Open, BaseInv, TypeInv
  <2>2. companion.phase # "off" => companion.session < bridge.session
    BY <2>1 DEF BaseInv, BridgeInv
  <2>3. companion.session \in Nat
    BY <1>1 DEF Companion, Session
  <2>4. companion.phase # "off" => companion.session # bridge.session
    BY <2>2, <2>3
  <2> QED BY <2>1, <2>4 DEF Ours
<1>4. CASE BeginStop \/ EndStop
  <2>1. companion' = companion /\ served' = 0
    BY <1>4 DEF BeginStop, EndStop, BaseInv, BridgeInv
  <2> QED BY <1>1, <2>1 DEF Ours, Companion
<1>5. CASE ~(Open \/ BeginStop \/ EndStop)
  <2>1. served' = served
    BY <1>5 DEF Next, NewSession, Handle, HandleFrame, LoseFrames, Receive, Verify, Execute,
                Welcome, Acknowledge, Refuse, Connect, SendHello, AudioConnected, SendRequest,
                SendChunk, RequestTimeout, Disconnect, vars, bridgeVars
  <2>2. CASE companion' = companion
    BY <1>2, <1>5, <2>1, <2>2
  <2>3. CASE companion.phase # "off" /\ companion'.session = companion.session
             /\ companion'.transport = companion.transport
    BY <1>5, <2>1, <2>3 DEF Ours
  <2>4. CASE companion'.phase = "off"
    BY <2>4 DEF Ours
  <2>5. CASE SendHello
    <3>1. companion.phase = "hello" /\ companion' = [companion EXCEPT !.hellos = @ + 1]
      BY <2>5 DEF SendHello
    <3> QED BY <1>1, <2>3, <3>1 DEF Companion
  <2>6. CASE SendRequest
    <3>1. /\ companion.phase = "ready"
          /\ companion' = [companion EXCEPT !.sequence = @ + 1, !.waiting = @ \cup {companion.sequence},
                                           !.chunking = FALSE]
      BY <2>6 DEF SendRequest, MayAsk
    <3> QED BY <1>1, <2>3, <3>1 DEF Companion
  <2>11. CASE SendChunk
    <3>1. companion.phase = "ready"
      BY <2>11, SendChunkFacts
    <3>2. companion'.session = companion.session /\ companion'.transport = companion.transport
      BY <1>1, <2>11, SendChunkFacts DEF Companion
    <3> QED BY <2>3, <3>1, <3>2
  <2>12. CASE AudioConnected
    <3>1. companion.phase = "audio" /\ companion' = [companion EXCEPT !.phase = "ready"]
      BY <2>12 DEF AudioConnected
    <3> QED BY <1>1, <2>3, <3>1 DEF Companion
  <2>13. ASSUME NEW u \in Transport, LoseFrames(u)
         PROVE  Ours(t)
    <3>1. companion' = [companion EXCEPT !.slipped = companion.slipped \/ Current(u)]
      BY <2>13, LoseFacts
    <3>2. /\ companion'.phase = companion.phase /\ companion'.session = companion.session
          /\ companion'.transport = companion.transport
      BY <1>1, <3>1 DEF Companion
    <3> QED BY <2>1, <3>2 DEF Ours
  <2>7. CASE RequestTimeout
    <3>1. PICK n \in companion.waiting :
            companion' = [companion EXCEPT !.waiting = @ \ {n}, !.slipped = @ \/ companion.chunking]
      BY <2>7 DEF RequestTimeout
    <3>2. /\ companion'.phase = companion.phase /\ companion'.session = companion.session
          /\ companion'.transport = companion.transport
      BY <1>1, <3>1 DEF Companion
    <3> QED BY <1>5, <2>1, <3>2 DEF Ours
  <2>8. CASE Disconnect
    <3>1. companion' = Off(companion.transport)
      BY <2>8 DEF Disconnect, Leave
    <3> QED BY <2>4, <3>1 DEF Off
  <2>9. ASSUME NEW u \in Transport, Receive(u)
        PROVE  Ours(t)
    <3>1. \/ Current(u) /\ Received(Head(back[u]))
          \/ companion' = companion
      BY <2>9, ReceiveFacts
    <3>2. CASE Current(u) /\ Received(Head(back[u]))
      <4>1. CASE companion' = [companion EXCEPT !.grant = Head(back[u]).grant,
                                               !.phase = Opened[companion.mode]]
        BY <1>1, <2>3, <3>2, <4>1 DEF Companion, Current
      <4>2. CASE companion' = [companion EXCEPT !.phase = "ready"]
        BY <1>1, <2>3, <3>2, <4>2 DEF Companion, Current
      <4>3. CASE Settled(Head(back[u]).sequence)
        BY <1>1, <2>3, <3>2, <4>3 DEF Companion, Settled, Current
      <4>4. CASE Leave
        BY <2>4, <4>4 DEF Leave, Off
      <4> QED BY <3>2, <4>1, <4>2, <4>3, <4>4 DEF Received
    <3> QED BY <2>2, <3>1, <3>2
  <2>10. CASE \/ \E mine \in BOOLEAN : NewSession(mine)
              \/ \E u \in Transport : Handle(u) \/ HandleFrame(u)
              \/ Verify \/ Execute \/ Welcome \/ Acknowledge \/ Refuse \/ UNCHANGED vars
    <3>1. companion' = companion
      BY <2>10 DEF NewSession, Handle, HandleFrame, Verify, Execute, Welcome, Acknowledge, Refuse, vars
    <3> QED BY <2>2, <3>1
  <2> QED BY <1>5, <2>5, <2>6, <2>7, <2>8, <2>9, <2>10, <2>11, <2>12, <2>13 DEF Next
<1> QED BY <1>3, <1>4, <1>5

\* A "ready" names a grant.
LEMMA ReadyGrant ==
    ASSUME BaseInv, OwnerInv, NEW t \in Transport, NEW a \in Told(t), a.kind = "ready"
    PROVE  a.grant \in Grant
<1>1. Told(t) \subseteq Answer
  <2>1. back[t] \in Seq(Answer)
    BY DEF BaseInv, TypeInv
  <2> QED BY <2>1, MsgsMember DEF Told
<1>2. a.grant \in Grant \cup {0} /\ a.grant # 0
  BY <1>1 DEF Answer, OwnerInv
<1> QED BY <1>2

\* Steps that do not concern the connection.
LEMMA HelloQuiet ==
    ASSUME BaseInv, OwnerInv, NEW t \in Transport, Hello(t),
           companion'.hellos = companion.hellos, companion'.grant = companion.grant,
           companion'.phase = "hello" <=> companion.phase = "hello",
           wire'[t] = wire[t], Msgs(frames'[t]) \subseteq Msgs(frames[t]),
           frames[t] = <<>> => frames'[t] = <<>>,
           \A a \in Msgs(back'[t]) : a \in Told(t) \/ a.kind # "ready",
           \A h \in handling' : h.from = t =>
               \E k \in handling : k.from = t /\ k.message = h.message,
           \A g \in Grant : grants'[g] = t <=> grants[g] = t,
           Untouched(t) => back'[t] = back[t]
    PROVE  Hello(t)'
<1>1. Untouched(t) => Untouched(t)'
  BY DEF Untouched
<1>2. HandledFor(t)' => HandledFor(t)
  BY DEF HandledFor
<1>3. Sent(t)' \subseteq Sent(t) /\ \A a \in Told(t)' : a.kind = "ready" => a \in Told(t)
  BY DEF Sent, Told
<1>4. HelloOnItsWay(t) => HelloOnItsWay(t)'
  <2> SUFFICES ASSUME HelloOnItsWay(t) PROVE HelloOnItsWay(t)'
    OBVIOUS
  <2>1. ASSUME NEW a \in Told(t)', a.kind = "ready"
        PROVE  wire'[t] = <<>> /\ ~HandledFor(t)' /\ grants'[a.grant] = t
    <3>1. a \in Told(t) /\ a.grant \in Grant
      BY <1>3, <2>1, ReadyGrant
    <3> QED BY <1>2, <2>1, <3>1 DEF HelloOnItsWay
  <2> QED BY <1>2, <2>1 DEF HelloOnItsWay
<1>5. companion.phase # "hello" /\ HelloAnswered(t) => HelloAnswered(t)'
  <2>1. companion.phase # "hello" => companion.grant \in Grant
    BY DEF Hello, BaseInv, TypeInv, Companion
  <2> QED BY <1>3, <2>1 DEF HelloAnswered
<1> QED BY <1>1, <1>3, <1>4, <1>5 DEF Hello

LEMMA HelloConnect ==
    ASSUME BaseInv, OwnerInv, NEW mode \in Mode, Connect(mode), NEW t \in Transport, Ours(t)'
    PROVE  Hello(t)'
<1>1. /\ companion' = [Off(companion.transport + 1) EXCEPT
              !.phase = "hello", !.session = served, !.mode = mode]
      /\ UNCHANGED <<grants, handling, wire, frames, back>>
  BY DEF Connect, daemonVars, bridgeVars
<1>2. companion'.phase = "hello" /\ companion'.hellos = 0 /\ t = companion.transport + 1
  BY <1>1 DEF Off, Ours
<1>3. Untouched(t)
  <2>1. companion.transport \in Nat
    BY DEF BaseInv, TypeInv, Companion, Transport
  <2>2. t > companion.transport
    BY <1>2, <2>1
  <2> QED BY <2>2 DEF OwnerInv
<1>4. Untouched(t)' /\ Sent(t)' = {}
  BY <1>1, <1>3, MsgsFew DEF Untouched, Sent
<1> QED BY <1>2, <1>4 DEF Hello

\* The companion says hello, for the first time or again.
LEMMA HelloSendHello ==
    ASSUME BaseInv, NEW t \in Transport, Ours(t), Hello(t), SendHello
    PROVE  Hello(t)'
<1>1. /\ companion.phase = "hello" /\ Say("hello")
      /\ companion' = [companion EXCEPT !.hellos = @ + 1]
      /\ UNCHANGED <<grants, handling, frames, back>>
  BY DEF SendHello, daemonVars, bridgeVars
<1>2. companion.hellos \in Nat /\ companion \in Companion
  BY DEF BaseInv, TypeInv, Companion
<1>3. companion'.phase = "hello" /\ companion'.hellos = companion.hellos + 1
  BY <1>1, <1>2 DEF Companion
<1>4. SaidBy(t, "hello")
  BY <1>1, SayFacts DEF BaseInv, Ours
<1>5. \A m \in Sent(t)' : m.kind # "goodbye"
  <2>1. Message("hello").kind = "hello"
    BY DEF Message
  <2> QED BY <1>4, <2>1 DEF SaidBy, Sent, Hello
<1>6. companion.hellos = 0 => HelloOnItsWay(t)'
  <2> SUFFICES ASSUME companion.hellos = 0 PROVE HelloOnItsWay(t)'
    OBVIOUS
  <2>1. Untouched(t)
    BY DEF Hello
  <2>2. /\ wire'[t] = Append(<<>>, Message("hello")) /\ frames'[t] = <<>> /\ back'[t] = <<>>
        /\ ~HandledFor(t)'
    BY <1>1, <1>4, <2>1 DEF SaidBy, Untouched, HandledFor
  <2>3. Len(wire'[t]) = 1 /\ Told(t)' = {}
    BY <2>2, MsgsFew DEF Told
  <2> QED BY <2>2, <2>3 DEF HelloOnItsWay
<1> QED BY <1>2, <1>3, <1>5, <1>6 DEF Hello

LEMMA HelloAsk ==
    ASSUME BaseInv, NEW t \in Transport, Ours(t), Hello(t), SaidBy(t, "request"),
           companion.phase = "ready", companion'.phase = "ready",
           companion'.hellos = companion.hellos, companion'.grant = companion.grant,
           UNCHANGED <<grants, handling, back>>
    PROVE  Hello(t)'
<1>1. \A m \in Sent(t)' : m \in Sent(t) \/ m.kind = "request"
  <2>1. Message("request").kind = "request"
    BY DEF Message
  <2> QED BY <2>1 DEF SaidBy, Sent
<1>2. HelloAnswered(t) => HelloAnswered(t)'
  BY <1>1 DEF HelloAnswered
<1> QED BY <1>1, <1>2 DEF Hello

LEMMA HelloSendRequest ==
    ASSUME BaseInv, NEW t \in Transport, Ours(t), Hello(t), SendRequest
    PROVE  Hello(t)'
<1>1. /\ companion.phase = "ready" /\ companion.sequence <= MaxSequence /\ Say("request")
      /\ companion' = [companion EXCEPT !.sequence = @ + 1, !.waiting = @ \cup {companion.sequence},
                                       !.chunking = FALSE]
      /\ UNCHANGED <<grants, handling, frames, back>>
  BY DEF SendRequest, MayAsk, daemonVars, bridgeVars
<1>2. /\ companion'.phase = "ready" /\ companion'.hellos = companion.hellos
      /\ companion'.grant = companion.grant
  BY <1>1 DEF BaseInv, TypeInv, Companion
<1>3. SaidBy(t, "request")
  BY <1>1, SayFacts DEF BaseInv, Ours
<1> QED BY <1>1, <1>2, <1>3, HelloAsk

LEMMA HelloSendChunk ==
    ASSUME BaseInv, OwnerInv, NEW t \in Transport, Ours(t), Hello(t), SendChunk
    PROVE  Hello(t)'
<1>1. /\ companion.phase = "ready" /\ UNCHANGED <<grants, handling, wire, back>>
      /\ \/ /\ SaidBy(t, "request")
            /\ companion' = [companion EXCEPT !.sequence = @ + 1,
                                             !.waiting = @ \cup {companion.sequence}]
         \/ /\ companion' = [companion EXCEPT !.sequence = @ + 1, !.slipped = TRUE]
            /\ frames' = frames
  BY SendChunkFacts DEF Ours
<1>2. /\ companion'.phase = "ready" /\ companion'.hellos = companion.hellos
      /\ companion'.grant = companion.grant
  BY <1>1 DEF BaseInv, TypeInv, Companion
<1>3. CASE SaidBy(t, "request")
  BY <1>1, <1>2, <1>3, HelloAsk
<1>4. CASE frames' = frames
  BY <1>1, <1>2, <1>4, HelloQuiet DEF Told
<1> QED BY <1>1, <1>3, <1>4

\* What handling a message does to the grants: a goodbye ends the grant it names.
LEMMA HandledGrants ==
    ASSUME BaseInv, NEW u \in Transport, Handle(u)
    PROVE  \/ grants' = grants
           \/ /\ Head(wire[u]).kind = "goodbye"
              /\ grants' = [grants EXCEPT ![Head(wire[u]).grant] = 0]
              /\ grants[Head(wire[u]).grant] = u
BY DEF Handle, Authenticated

\* What handling a message of t tells t.
LEMMA HandledAnswers ==
    ASSUME BaseInv, NEW u \in Transport, Handle(u)
    PROVE  /\ \A t \in Transport : t # u => back'[t] = back[t]
           /\ \A t \in Transport : \A a \in Msgs(back'[t]) :
                  a \in Told(t) \/ a.kind = "rejected"
<1> DEFINE m == Head(wire[u])
<1>1. m \in Request
  BY HandleFacts DEF TakenOff
<1>2. CASE back' = back
  BY <1>2 DEF Told
<1>3. CASE Reply(u, <<Rejected(m.sequence)>>)
  <2>1. <<Rejected(m.sequence)>> \in Seq(Answer)
    BY <1>1, AnswerTypes DEF Request
  <2>2. Answered(u, Msgs(<<Rejected(m.sequence)>>))
    BY <1>3, <2>1, ReplyFacts DEF BaseInv
  <2>3. Rejected(m.sequence).kind = "rejected"
    BY DEF Rejected
  <2>4. \A a \in Msgs(back'[u]) : a \in Told(u) \/ a.kind = "rejected"
    <3>1. Msgs(<<Rejected(m.sequence)>>) = {Rejected(m.sequence)}
      BY MsgsFew
    <3> QED BY <2>2, <2>3, <3>1 DEF Answered, Told
  <2>5. \A t \in Transport : t # u => back'[t] = back[t]
    BY <2>2 DEF Answered
  <2> QED BY <2>4, <2>5 DEF Told
<1> QED BY <1>2, <1>3 DEF Handle

LEMMA HelloHandle ==
    ASSUME BaseInv, OwnerInv, NEW t \in Transport, Ours(t), Hello(t),
           NEW u \in Transport, Handle(u)
    PROVE  Hello(t)'
<1> DEFINE m == Head(wire[u])
<1>1. /\ TakenOff(wire, wire', u, Request)
      /\ handling = {}
      /\ \/ handling' = {}
         \/ handling' = {[from |-> u, message |-> m, verdict |-> "none", grant |-> 0]}
      /\ UNCHANGED <<companion, frames>>
  BY HandleFacts
<1>2. /\ \A v \in Transport : v # u => wire'[v] = wire[v]
      /\ m \in Sent(u) /\ wire[u] # <<>> /\ wire'[u] = Tail(wire[u])
      /\ Msgs(wire'[u]) \subseteq Msgs(wire[u]) /\ wire[u] \in Seq(Request)
  BY <1>1 DEF TakenOff, Sent, BaseInv, TypeInv
<1>3. /\ \A v \in Transport : v # u => back'[v] = back[v]
      /\ \A v \in Transport : \A a \in Msgs(back'[v]) : a \in Told(v) \/ a.kind = "rejected"
  BY HandledAnswers
<1>4. \/ grants' = grants
      \/ /\ m.kind = "goodbye" /\ grants[m.grant] = u
         /\ grants' = [grants EXCEPT ![m.grant] = 0]
  BY HandledGrants
<1> HIDE DEF m
<1>5. CASE u # t
  <2>1. ASSUME NEW g \in Grant
        PROVE  grants'[g] = t <=> grants[g] = t
    <3>1. t # 0
      BY DEF Transport
    <3>2. CASE grants' = grants
      BY <3>2
    <3>3. CASE grants[m.grant] = u /\ grants' = [grants EXCEPT ![m.grant] = 0]
      <4>1. grants \in [Grant -> Transport \cup {0}]
        BY DEF BaseInv, TypeInv
      <4> QED BY <1>5, <3>1, <3>3, <4>1
    <3> QED BY <1>4, <3>2, <3>3
  <2>2. \A h \in handling' : h.from # t
    BY <1>1, <1>5
  <2>3. wire'[t] = wire[t] /\ back'[t] = back[t]
    BY <1>2, <1>3, <1>5
  <2>4. \A a \in Msgs(back'[t]) : a \in Told(t)
    BY <2>3 DEF Told
  <2>5. Msgs(frames'[t]) \subseteq Msgs(frames[t]) /\ (frames[t] = <<>> => frames'[t] = <<>>)
    BY <1>1
  <2>6. companion' = companion
    BY <1>1
  <2>7. Untouched(t) => back'[t] = back[t]
    BY <2>3
  <2>8. /\ companion'.hellos = companion.hellos /\ companion'.grant = companion.grant
        /\ (companion'.phase = "hello" <=> companion.phase = "hello")
    BY <2>6
  <2>9. \A a \in Msgs(back'[t]) : a \in Told(t) \/ a.kind # "ready"
    BY <2>4
  <2>10. \A h \in handling' : h.from = t => \E k \in handling : k.from = t /\ k.message = h.message
    BY <2>2
  <2>11. wire'[t] = wire[t]
    BY <2>3
  <2> QED BY <2>1, <2>5, <2>7, <2>8, <2>9, <2>10, <2>11, HelloQuiet
<1>6. CASE u = t
  <2>1. m.kind # "goodbye" /\ grants' = grants /\ ~Untouched(t)
    BY <1>2, <1>4, <1>6 DEF Hello, Untouched
  <2>2. Sent(t)' \subseteq Sent(t) /\ \A a \in Told(t)' : a \in Told(t) \/ a.kind # "ready"
    BY <1>1, <1>2, <1>3, <1>6 DEF Sent, Told
  <2>3. HelloOnItsWay(t) => HelloOnItsWay(t)'
    <3> SUFFICES ASSUME HelloOnItsWay(t) PROVE HelloOnItsWay(t)'
      OBVIOUS
    <3>1. Len(wire[t]) \in Nat \ {0} /\ Len(wire'[t]) = Len(wire[t]) - 1 /\ wire'[t] \in Seq(Request)
      BY <1>2, <1>6, MsgsTail
    <3>2. Len(wire'[t]) = 0
      <4>1. \A n \in Nat \ {0} : n <= 1 => n - 1 = 0
        OBVIOUS
      <4>2. Len(wire[t]) <= 1
        BY DEF HelloOnItsWay
      <4> QED BY <3>1, <4>1, <4>2
    <3>3. wire'[t] = <<>>
      BY <3>1, <3>2, EmptySeq
    <3>4. \A a \in Told(t)' : a.kind # "ready"
      BY <1>2, <1>6, <2>2 DEF HelloOnItsWay
    <3> QED BY <1>1, <3>2, <3>3, <3>4 DEF HelloOnItsWay
  <2>4. HelloAnswered(t) => HelloAnswered(t)'
    <3>1. \A h \in handling' : h.message = m
      BY <1>1
    <3> QED BY <1>1, <1>2, <1>6, <2>1, <2>2, <3>1 DEF HelloAnswered
  <2> QED BY <1>1, <2>1, <2>2, <2>3, <2>4 DEF Hello
<1> QED BY <1>5, <1>6

LEMMA HelloHandleFrame ==
    ASSUME BaseInv, OwnerInv, NEW t \in Transport, Ours(t), Hello(t),
           NEW u \in Transport, HandleFrame(u)
    PROVE  Hello(t)'
<1> DEFINE m == Head(frames[u])
<1>1. /\ TakenOff(frames, frames', u, Request)
      /\ handling = {}
      /\ \/ handling' = {}
         \/ handling' = {[from |-> u, message |-> m, verdict |-> "none", grant |-> 0]}
      /\ UNCHANGED <<companion, grants, wire>>
  BY FrameFacts
<1>2. /\ \A v \in Transport : v # u => frames'[v] = frames[v]
      /\ frames[u] # <<>> /\ Msgs(frames'[u]) \subseteq Msgs(frames[u])
      /\ m \in Msgs(frames[u]) /\ m.kind = "request"
  BY <1>1 DEF TakenOff, BaseInv, BridgeInv
<1>3. /\ \A v \in Transport : v # u => back'[v] = back[v]
      /\ \A v \in Transport : \A a \in Msgs(back'[v]) : a \in Told(v) \/ a.kind = "rejected"
  <2>1. PICK r \in Request : back' = back \/ Answered(u, {Rejected(r.sequence)})
    BY HandleEither
  <2>2. Rejected(r.sequence).kind = "rejected"
    BY DEF Rejected
  <2> QED BY <2>1, <2>2 DEF Answered, Told
<1> HIDE DEF m
<1>4. CASE u # t
  <2>1. frames'[t] = frames[t] /\ back'[t] = back[t] /\ \A h \in handling' : h.from # t
    BY <1>1, <1>2, <1>3, <1>4
  <2> QED BY <1>1, <2>1, HelloQuiet DEF Told
<1>5. CASE u = t
  <2>1. ~Untouched(t) /\ ~HelloOnItsWay(t)
    BY <1>2, <1>5 DEF Untouched, HelloOnItsWay
  <2>2. Sent(t)' \subseteq Sent(t)
    BY <1>1, <1>2, <1>5 DEF Sent
  <2>3. HelloAnswered(t) => HelloAnswered(t)'
    BY <1>1, <1>2, <2>2 DEF HelloAnswered
  <2> QED BY <1>1, <2>1, <2>2, <2>3 DEF Hello
<1> QED BY <1>4, <1>5

LEMMA HelloWelcome ==
    ASSUME BaseInv, OwnerInv, GrantInv, NEW t \in Transport, Ours(t), Hello(t), Welcome
    PROVE  Hello(t)'
<1>1. PICK h \in handling, answers \in SUBSET Answer :
        /\ Accepted(h) /\ Replaced(h)
        /\ Answered(h.from, answers)
        /\ answers \subseteq {Ready(h), Snapshot, Rejected(0)}
        /\ handling' = {}
        /\ UNCHANGED <<wire, frames, companion>>
  BY WelcomeFacts DEF Accepted
<1>2. /\ \A g \in Grant, v \in Transport :
           grants'[g] = v <=> \/ g = h.grant /\ v = h.from
                              \/ grants[g] = v /\ v # h.from
      /\ grants'[h.grant] = h.from
  BY <1>1, ReplacedFacts
<1>3. CASE h.from # t
  <2>1. back'[t] = back[t] /\ Msgs(back'[t]) = Told(t)
    BY <1>1, <1>3 DEF Answered, Told
  <2> QED BY <1>1, <1>2, <1>3, <2>1, HelloQuiet
<1>4. CASE h.from = t
  <2>1. HandledFor(t) /\ ~Untouched(t) /\ Sent(t)' = Sent(t)
    BY <1>1, <1>4 DEF HandledFor, Untouched, Sent
  <2>2. HelloOnItsWay(t) => HelloOnItsWay(t)'
    <3> SUFFICES ASSUME HelloOnItsWay(t) PROVE HelloOnItsWay(t)'
      OBVIOUS
    <3>1. wire'[t] = <<>> /\ frames'[t] = <<>> /\ ~HandledFor(t)' /\ Len(wire'[t]) <= 1
      BY <1>1, <2>1 DEF HelloOnItsWay, HandledFor
    <3>2. ASSUME NEW a \in Told(t)', a.kind = "ready"
          PROVE  a.grant = h.grant
      <4>1. a \notin Told(t)
        BY <2>1, <3>2 DEF HelloOnItsWay
      <4>2. a \in answers
        BY <1>1, <1>4, <4>1 DEF Answered, Told
      <4> QED BY <1>1, <3>2, <4>2 DEF Ready, Snapshot, Rejected
    <3> QED BY <1>2, <1>4, <3>1, <3>2 DEF HelloOnItsWay
  <2>3. ~HelloAnswered(t)
    BY <1>1, <1>4 DEF HelloAnswered, Accepted
  <2> QED BY <1>1, <2>1, <2>2, <2>3 DEF Hello
<1> QED BY <1>3, <1>4

LEMMA HelloReceive ==
    ASSUME BaseInv, OwnerInv, NEW t \in Transport, Ours(t), Ours(t)', Hello(t),
           NEW u \in Transport, Receive(u)
    PROVE  Hello(t)'
<1> DEFINE m == Head(back[u])
<1>1. /\ TakenOff(back, back', u, Answer)
      /\ UNCHANGED <<grants, handling, frames>>
      /\ \/ Current(u) /\ Received(m)
         \/ companion' = companion /\ wire' = wire
  BY ReceiveFacts
<1>2. /\ m \in Told(u) /\ back[u] # <<>>
      /\ \A v \in Transport : v # u => back'[v] = back[v]
      /\ \A v \in Transport : Msgs(back'[v]) \subseteq Told(v)
  BY <1>1 DEF TakenOff, Told
<1> HIDE DEF m
<1>3. companion \in Companion
  BY DEF BaseInv, TypeInv
<1>4. Untouched(t) => back'[t] = back[t]
  BY <1>2 DEF Untouched
<1>5. CASE /\ wire' = wire /\ companion'.hellos = companion.hellos
           /\ companion'.grant = companion.grant
           /\ companion'.phase = "hello" <=> companion.phase = "hello"
  BY <1>1, <1>2, <1>4, <1>5, HelloQuiet
<1>6. CASE Current(u) /\ Received(m)
  <2>1. u = t
    BY <1>6 DEF Current, Ours
  <2>2. CASE /\ m.kind = "ready" /\ companion.phase = "hello"
             /\ companion' = [companion EXCEPT !.grant = m.grant, !.phase = Opened[companion.mode]]
             /\ wire' = wire
    <3>0. Opened[companion.mode] \in {"loading", "audio", "ready"}
      BY <1>3 DEF Companion, Mode, Opened
    <3>1. companion'.phase # "hello" /\ companion'.grant = m.grant
          /\ companion'.hellos = companion.hellos
      BY <1>3, <2>2, <3>0 DEF Companion
    <3>2. m.grant \in Grant /\ m.grant # 0
      BY <1>2, <2>1, <2>2, ReadyGrant DEF Grant
    <3>3. ~Untouched(t) /\ Sent(t)' = Sent(t)
      BY <1>1, <1>2, <2>1, <2>2 DEF Untouched, Sent
    <3>4. HelloOnItsWay(t) => HelloAnswered(t)'
      <4> SUFFICES ASSUME HelloOnItsWay(t) PROVE HelloAnswered(t)'
        OBVIOUS
      <4>1. wire[t] = <<>> /\ frames[t] = <<>> /\ ~HandledFor(t) /\ grants[m.grant] = t
        BY <1>2, <2>1, <2>2 DEF HelloOnItsWay
      <4>2. Sent(t)' = {}
        BY <3>3, <4>1, MsgsFew DEF Sent
      <4> QED BY <1>1, <3>1, <4>1, <4>2 DEF HelloAnswered, HandledFor
    <3> QED BY <2>2, <3>1, <3>2, <3>3, <3>4 DEF Hello
  <2>3. CASE /\ companion.phase = "loading" /\ wire' = wire
             /\ companion' = [companion EXCEPT !.phase = "ready"]
    BY <1>3, <1>5, <2>3 DEF Companion
  <2>4. CASE Settled(m.sequence) /\ wire' = wire
    BY <1>3, <1>5, <2>4 DEF Companion, Settled
  <2>5. CASE Leave
    <3>1. companion'.phase = "off"
      BY <2>5 DEF Leave, Off
    <3> QED BY <3>1 DEF Ours
  <2> QED BY <1>6, <2>2, <2>3, <2>4, <2>5 DEF Received
<1>7. CASE companion' = companion /\ wire' = wire
  BY <1>5, <1>7
<1> QED BY <1>1, <1>6, <1>7

LEMMA HelloStep == BaseInv /\ OwnerInv /\ GrantInv /\ HelloInv /\ [Next]_vars => HelloInv'
<1> SUFFICES ASSUME BaseInv, OwnerInv, GrantInv, HelloInv, [Next]_vars,
                    NEW t \in Transport, Ours(t)'
             PROVE  Hello(t)'
  BY DEF HelloInv
<1>1. ASSUME NEW mode \in Mode, Connect(mode) PROVE Hello(t)'
  BY <1>1, HelloConnect
<1>2. CASE ~\E mode \in Mode : Connect(mode)
  <2>1. Ours(t) /\ Hello(t) /\ ~Open /\ ~BeginStop /\ ~EndStop
    BY <1>2, OursBefore DEF HelloInv
  <2>2. companion \in Companion
    BY DEF BaseInv, TypeInv
  <2>3. CASE /\ companion'.hellos = companion.hellos /\ companion'.grant = companion.grant
             /\ companion'.phase = companion.phase
             /\ UNCHANGED <<grants, wire, frames, back>>
             /\ \A h \in handling' : \E k \in handling : k.from = h.from /\ k.message = h.message
    <3>1. \A h \in handling' : h.from = t => \E k \in handling : k.from = t /\ k.message = h.message
      BY <2>3
    <3>2. \A a \in Msgs(back'[t]) : a \in Told(t)
      BY <2>3 DEF Told
    <3> QED BY <2>1, <2>3, <3>1, <3>2, HelloQuiet
  <2>4. ASSUME NEW mine \in BOOLEAN, NewSession(mine) PROVE Hello(t)'
    <3>1. UNCHANGED <<grants, wire, frames, back, handling, companion>>
      BY <2>4 DEF NewSession
    <3> QED BY <2>3, <3>1
  <2>5. ASSUME NEW u \in Transport, Handle(u) PROVE Hello(t)'
    BY <2>1, <2>5, HelloHandle
  <2>17. ASSUME NEW u \in Transport, HandleFrame(u) PROVE Hello(t)'
    BY <2>1, <2>17, HelloHandleFrame
  <2>18. CASE SendChunk
    BY <2>1, <2>18, HelloSendChunk
  <2>19. CASE AudioConnected
    <3>1. /\ companion.phase = "audio" /\ companion' = [companion EXCEPT !.phase = "ready"]
          /\ UNCHANGED <<grants, wire, frames, back, handling>>
      BY <2>19 DEF AudioConnected, bridgeVars
    <3>2. /\ companion'.hellos = companion.hellos /\ companion'.grant = companion.grant
          /\ companion'.phase # "hello"
      BY <2>2, <3>1 DEF Companion
    <3> QED BY <2>1, <3>1, <3>2, HelloQuiet DEF Told
  <2>20. ASSUME NEW u \in Transport, LoseFrames(u) PROVE Hello(t)'
    <3>1. /\ frames'[u] = <<>> /\ Msgs(frames'[u]) = {}
          /\ \A v \in Transport : v # u => frames'[v] = frames[v]
          /\ companion' = [companion EXCEPT !.slipped = companion.slipped \/ Current(u)]
          /\ UNCHANGED <<grants, wire, back, handling>>
      BY <2>20, LoseFacts
    <3>2. /\ companion'.hellos = companion.hellos /\ companion'.grant = companion.grant
          /\ companion'.phase = companion.phase
      BY <2>2, <3>1 DEF Companion
    <3>3. Msgs(frames'[t]) \subseteq Msgs(frames[t]) /\ (frames[t] = <<>> => frames'[t] = <<>>)
      BY <3>1
    <3> QED BY <2>1, <3>1, <3>2, <3>3, HelloQuiet DEF Told
  <2>6. ASSUME NEW u \in Transport, Receive(u) PROVE Hello(t)'
    BY <2>1, <2>6, HelloReceive
  <2>7. CASE Verify
    <3>1. PICK h \in handling, k \in Pending :
            /\ handling' = {k} /\ k.from = h.from /\ k.message = h.message
            /\ UNCHANGED <<grants, wire, frames, back, companion>>
      BY <2>7, VerifyFacts DEF Judged
    <3> QED BY <2>3, <3>1
  <2>8. CASE Execute
    <3>1. PICK h \in handling, k \in Pending :
            /\ handling' = {k} /\ k.from = h.from /\ k.message = h.message
            /\ UNCHANGED <<grants, wire, frames, back, companion>>
      BY <2>8, ExecuteFacts DEF Judged
    <3> QED BY <2>3, <3>1
  <2>9. CASE Welcome
    BY <2>1, <2>9, HelloWelcome
  <2>10. CASE Acknowledge
    <3>1. PICK h \in handling :
            /\ Acknowledged(h) /\ handling' = {}
            /\ UNCHANGED <<grants, wire, frames, companion>>
      BY <2>10, AcknowledgeSteps
    <3>2. ASSUME NEW a \in Msgs(back'[t])
          PROVE  a \in Told(t) \/ a.kind # "ready"
      <4>1. a \in Told(t) \/ a = Snapshot \/ a = Applied(h.message.sequence)
        BY <3>1 DEF Acknowledged, Told
      <4> QED BY <4>1 DEF Snapshot, Applied
    <3>3. Untouched(t) => back'[t] = back[t]
      <4>1. DOMAIN access \subseteq Grant
        BY KnownGrants
      <4> QED BY <3>1, <4>1 DEF Untouched, Controls, Acknowledged
    <3> QED BY <2>1, <3>1, <3>2, <3>3, HelloQuiet
  <2>11. CASE Refuse
    <3>1. PICK h \in handling :
            /\ Answered(h.from, {Rejected(h.message.sequence)}) /\ handling' = {}
            /\ UNCHANGED <<grants, wire, frames, companion>>
      BY <2>11, RefuseFacts
    <3>2. ASSUME NEW a \in Msgs(back'[t])
          PROVE  a \in Told(t) \/ a.kind # "ready"
      <4>1. a \in Told(t) \/ a = Rejected(h.message.sequence)
        BY <3>1 DEF Answered, Told
      <4> QED BY <4>1 DEF Rejected
    <3>3. Untouched(t) => back'[t] = back[t]
      BY <3>1 DEF Untouched, Answered
    <3> QED BY <2>1, <3>1, <3>2, <3>3, HelloQuiet
  <2>12. CASE SendHello
    BY <2>1, <2>12, HelloSendHello
  <2>13. CASE SendRequest
    BY <2>1, <2>13, HelloSendRequest
  <2>14. CASE RequestTimeout
    <3>1. PICK n \in companion.waiting :
            companion' = [companion EXCEPT !.waiting = @ \ {n}, !.slipped = @ \/ companion.chunking]
      BY <2>14 DEF RequestTimeout
    <3>2. /\ companion'.hellos = companion.hellos /\ companion'.grant = companion.grant
          /\ companion'.phase = companion.phase
      BY <2>2, <3>1 DEF Companion
    <3>3. UNCHANGED <<grants, wire, frames, back, handling>>
      BY <2>14 DEF RequestTimeout, bridgeVars
    <3> QED BY <2>3, <3>2, <3>3
  <2>15. CASE Disconnect
    <3>1. companion'.phase = "off"
      BY <2>15 DEF Disconnect, Leave, Off
    <3> QED BY <3>1 DEF Ours
  <2>16. CASE UNCHANGED vars
    <3>1. UNCHANGED <<grants, wire, frames, back, handling, companion>>
      BY <2>16 DEF vars, bridgeVars
    <3> QED BY <2>3, <3>1
  <2> QED
    BY <1>2, <2>1, <2>4, <2>5, <2>6, <2>7, <2>8, <2>9, <2>10, <2>11, <2>12, <2>13, <2>14,
       <2>15, <2>16, <2>17, <2>18, <2>19, <2>20 DEF Next
<1> QED BY <1>1, <1>2

\* The connection the companion has now has asked for a grant as often as it said hello,
\* and nothing of another connection can end its grant.
THEOREM HelloInvariant == Spec => []HelloInv
<1>1. Init => HelloInv
  BY DEF Init, Off, HelloInv, Ours
<1>2. BaseInv /\ OwnerInv /\ GrantInv /\ HelloInv /\ [Next]_vars => HelloInv'
  BY HelloStep
<1> QED BY <1>1, <1>2, BaseInvariant, OwnerInvariant, GrantInvariant, PTL DEF Spec

\* Bridge, daemon and companion agree on the grants: those the bridge serves are of its
\* session, one for each transport, and the companion that said hello once and is ready
\* has the one the bridge knows for it.
THEOREM BridgeAndCompanionAgree == Spec => []GrantsAgree
<1>1. BaseInv /\ GrantInv /\ HelloInv => GrantsAgree
  <2> SUFFICES ASSUME BaseInv, GrantInv, HelloInv PROVE GrantsAgree
    OBVIOUS
  <2>1. NoStaleGrants /\ OneGrantPerTransport
    BY GrantsFollow
  <2>2. OneHelloOneGrant
    <3>1. SUFFICES ASSUME companion.phase = "ready", companion.hellos = 1,
                          served = companion.session
                   PROVE  grants[companion.grant] = companion.transport
      BY DEF OneHelloOneGrant
    <3>2. companion.transport \in Transport /\ Ours(companion.transport)
      BY <3>1 DEF BaseInv, TypeInv, Ours
    <3>3. Hello(companion.transport)
      BY <3>2 DEF HelloInv
    <3> QED BY <3>1, <3>3 DEF Hello, HelloAnswered
  <2> QED BY <2>1, <2>2 DEF GrantsAgree
<1> QED BY <1>1, BaseInvariant, GrantInvariant, HelloInvariant, PTL

-----------------------------------------------------------------------------
(* Numbers of requests. *)

\* The last k messages of s are the requests numbered up to top - 1, those before hellos.
Lined(s, k, top) ==
    /\ k \in 0..Len(s)
    /\ \A i \in 1..Len(s) :
         /\ i <= Len(s) - k => s[i].kind = "hello"
         /\ i > Len(s) - k => s[i].kind = "request" /\ s[i].sequence = top - (Len(s) - i) - 1

LEMMA LinedAppend ==
    ASSUME NEW s \in Seq(Request), NEW k, NEW top \in Nat, Lined(s, k, top),
           NEW m \in Request, m.kind = "request", m.sequence = top
    PROVE  Lined(Append(s, m), k + 1, top + 1)
<1> DEFINE a == Append(s, m)
           n == Len(s)
<1>1. /\ n \in Nat /\ Len(a) = n + 1 /\ a[n + 1] = m
      /\ \A i \in 1..n : a[i] = s[i]
  BY AppendProperties
<1>2. k \in 0..n
  BY DEF Lined
<1>3. /\ \A i \in 1..n : i <= n - k => s[i].kind = "hello"
      /\ \A i \in 1..n : i > n - k => s[i].kind = "request" /\ s[i].sequence = top - (n - i) - 1
  BY DEF Lined
<1> HIDE DEF a, n
<1>4. k + 1 \in 0..Len(a)
  BY <1>1, <1>2
<1>5. ASSUME NEW i \in 1..Len(a)
      PROVE  /\ i <= Len(a) - (k + 1) => a[i].kind = "hello"
             /\ i > Len(a) - (k + 1) =>
                   a[i].kind = "request" /\ a[i].sequence = (top + 1) - (Len(a) - i) - 1
  <2>1. CASE i = n + 1
    BY <1>1, <1>2, <2>1
  <2>2. CASE i \in 1..n
    <3>1. a[i] = s[i]
      BY <1>1, <2>2
    <3>2. CASE i <= n - k
      BY <1>1, <1>2, <1>3, <2>2, <3>1, <3>2
    <3>3. CASE i > n - k
      <4>1. a[i].kind = "request" /\ a[i].sequence = top - (n - i) - 1
        BY <1>3, <2>2, <3>1, <3>3
      <4>2. (top + 1) - (Len(a) - i) - 1 = top - (n - i) - 1
        BY <1>1, <2>2
      <4> QED BY <1>1, <1>2, <2>2, <3>3, <4>1, <4>2
    <3> QED BY <1>1, <1>2, <2>2, <3>2, <3>3
  <2> QED BY <1>1, <2>1, <2>2
<1>6. Lined(a, k + 1, top + 1)
  BY <1>4, <1>5 DEF Lined
<1> QED BY <1>6 DEF a

LEMMA LinedTail ==
    ASSUME NEW s \in Seq(Request), s # <<>>, NEW k, NEW top \in Nat, Lined(s, k, top)
    PROVE  /\ Head(s).kind = "hello" => Lined(Tail(s), k, top)
           /\ Head(s).kind # "hello" =>
                /\ Head(s).kind = "request" /\ Head(s).sequence = top - k
                /\ Lined(Tail(s), k - 1, top)
<1> DEFINE u == Tail(s)
           n == Len(s)
<1>1. /\ n \in Nat \ {0} /\ Len(u) = n - 1 /\ Head(s) = s[1]
      /\ \A i \in 1..(n - 1) : u[i] = s[i + 1]
  BY MsgsTail
<1>2. k \in 0..n
  BY DEF Lined
<1>3. /\ \A i \in 1..n : i <= n - k => s[i].kind = "hello"
      /\ \A i \in 1..n : i > n - k => s[i].kind = "request" /\ s[i].sequence = top - (n - i) - 1
  BY DEF Lined
<1> HIDE DEF u, n
<1>4. CASE Head(s).kind = "hello"
  <2>1. 1 <= n - k
    <3>1. 1 \in 1..n /\ s[1].kind # "request"
      BY <1>1, <1>4
    <3> QED BY <1>1, <1>2, <1>3, <3>1
  <2>2. k \in 0..Len(u)
    BY <1>1, <1>2, <2>1
  <2>3. ASSUME NEW i \in 1..Len(u)
        PROVE  /\ i <= Len(u) - k => u[i].kind = "hello"
               /\ i > Len(u) - k =>
                     u[i].kind = "request" /\ u[i].sequence = top - (Len(u) - i) - 1
    <3>1. u[i] = s[i + 1] /\ i + 1 \in 1..n /\ Len(u) - i = n - (i + 1)
      BY <1>1
    <3>2. i <= Len(u) - k => i + 1 <= n - k
      BY <1>1, <1>2
    <3>3. i > Len(u) - k => i + 1 > n - k
      BY <1>1, <1>2
    <3> QED BY <1>3, <3>1, <3>2, <3>3
  <2>4. Lined(u, k, top)
    BY <2>2, <2>3 DEF Lined
  <2> QED BY <1>4, <2>4 DEF u
<1>5. CASE Head(s).kind # "hello"
  <2>1. k = n /\ 1 \in 1..n
    <3>1. 1 \in 1..n /\ s[1].kind # "hello"
      BY <1>1, <1>5
    <3>2. ~(1 <= n - k)
      BY <1>3, <3>1
    <3> QED BY <1>1, <1>2, <3>1, <3>2
  <2>2. Head(s).kind = "request" /\ Head(s).sequence = top - k
    <3>1. s[1].kind = "request" /\ s[1].sequence = top - (n - 1) - 1
      BY <1>1, <1>3, <2>1
    <3>2. top - (n - 1) - 1 = top - k
      BY <1>1, <2>1
    <3> QED BY <1>1, <3>1, <3>2
  <2>3. k - 1 \in 0..Len(u)
    BY <1>1, <2>1
  <2>4. ASSUME NEW i \in 1..Len(u)
        PROVE  /\ i <= Len(u) - (k - 1) => u[i].kind = "hello"
               /\ i > Len(u) - (k - 1) =>
                     u[i].kind = "request" /\ u[i].sequence = top - (Len(u) - i) - 1
    <3>1. u[i] = s[i + 1] /\ i + 1 \in 1..n /\ Len(u) - i = n - (i + 1)
      BY <1>1
    <3>2. ~(i <= Len(u) - (k - 1)) /\ i + 1 > n - k
      BY <1>1, <2>1
    <3> QED BY <1>3, <3>1, <3>2
  <2>5. Lined(u, k - 1, top)
    BY <2>3, <2>4 DEF Lined
  <2> QED BY <1>5, <2>2, <2>5 DEF u
<1> QED BY <1>4, <1>5

LEMMA LinedHellos ==
    ASSUME NEW s \in Seq(Request), NEW top, \A m \in Msgs(s) : m.kind = "hello"
    PROVE  Lined(s, 0, top)
<1>1. Len(s) \in Nat /\ \A i \in 1..Len(s) : s[i] \in Msgs(s)
  BY MsgsMember
<1> QED BY <1>1 DEF Lined

LEMMA LinedNone ==
    ASSUME NEW s \in Seq(Request), NEW top, NEW later, Lined(s, 0, top)
    PROVE  Lined(s, 0, later)
<1>1. Len(s) \in Nat
  OBVIOUS
<1> QED BY <1>1 DEF Lined

LEMMA LinedEmpty ==
    ASSUME NEW s \in Seq(Request), NEW k, NEW top, Lined(s, k, top), Msgs(s) = {}
    PROVE  s = <<>> /\ k = 0
<1>1. Len(s) \in Nat /\ \A i \in 1..Len(s) : s[i] \in Msgs(s)
  BY MsgsMember
<1>2. Len(s) = 0
  BY <1>1
<1> QED BY <1>2, EmptySeq DEF Lined

\* No request among them has a number below the first one.
LEMMA LinedAbove ==
    ASSUME NEW s \in Seq(Request), NEW e \in Nat, NEW top \in Nat, Lined(s, top - e, top),
           NEW m \in Msgs(s), m.kind = "request"
    PROVE  m.sequence >= e
<1>1. Len(s) \in Nat
  OBVIOUS
<1>2. PICK i \in 1..Len(s) : s[i] = m
  BY MsgsMember
<1>3. i > Len(s) - (top - e)
  BY <1>1, <1>2 DEF Lined
<1>4. m.sequence = top - (Len(s) - i) - 1
  BY <1>2, <1>3 DEF Lined
<1> QED BY <1>1, <1>3, <1>4

\* A request of t waits for the daemon.
Asks(h, t) == h.from = t /\ h.message.kind = "request" /\ h.verdict = "none"
Asked(t) == \E h \in handling : Asks(h, t)

\* Answers that end the waiting for a request.
Settles(a) == a.kind \in {"applied", "rejected"}

Unused(g) == access[g].next = 1 /\ access[g].mode = companion.mode

\* Before it is ready a companion has sent hellos only, and what they bring is a grant
\* from which no number has been taken.
Begins(t) ==
    /\ companion.sequence = 1 /\ companion.waiting = {} /\ ~companion.chunking
    /\ \A m \in Sent(t) : m.kind = "hello"
    /\ \A h \in handling :
           h.from = t => h.message.kind = "hello" /\ (Accepted(h) => Unused(h.grant))
    /\ \A a \in Told(t) : a.kind = "ready" => Unused(a.grant)
    /\ \A a \in Told(t) : Settles(a) => a.sequence = 0
    /\ companion.phase \in {"loading", "audio"} => Unused(companion.grant)

\* The bridge and the daemon know the companion's grant.
Serves(t) == grants[companion.grant] = t /\ access[companion.grant].live

\* The number the first request on its way has to have.
Expected(t) == access[companion.grant].next + (IF Asked(t) THEN 1 ELSE 0)

\* The requests on their way are all on one channel, one number after the other.
InLine(t) ==
    LET top == companion.sequence
    IN  IF companion.chunking
        THEN Lined(wire[t], 0, top) /\ Lined(frames[t], top - Expected(t), top)
        ELSE Lined(wire[t], top - Expected(t), top) /\ frames[t] = <<>>

\* The companion waits for the answers to its chunks; without chunks an uploader waits
\* for that to its last request at most.
Waits(t) ==
    IF companion.chunking
    THEN \A m \in Msgs(frames[t]) : m.sequence \in companion.waiting
    ELSE companion.mode = "upload" => companion.waiting \subseteq {companion.sequence - 1}

\* The daemon will see the companion's numbers one after the other.
Counts(t) ==
    /\ InLine(t)
    /\ Waits(t)
    /\ \A h \in handling : h.from = t /\ h.message.kind = "request" =>
           IF h.verdict = "none" THEN h.message.sequence = access[companion.grant].next
           ELSE h.message.sequence < access[companion.grant].next
    /\ \A a \in Told(t) : Settles(a) => a.sequence < Expected(t)

Proceeds(t) ==
    /\ access[companion.grant].mode = companion.mode
    /\ companion.chunking => companion.mode = "upload"
    /\ \A m \in Sent(t) : m.kind = "request" => m.grant = companion.grant
    /\ \A h \in handling :
           h.from = t /\ h.message.kind = "request" => h.message.grant = companion.grant
    /\ Serves(t) /\ ~companion.slipped => Counts(t)

Order(t) ==
    /\ \A m \in Sent(t) : m.mode = companion.mode
    /\ \A h \in handling : h.from = t => h.message.mode = companion.mode
    /\ companion.phase # "ready" => Begins(t)
    /\ companion.phase = "ready" => Proceeds(t)

OrderInv == \A t \in Transport : Ours(t) => Order(t)

\* Every grant of t stays as it was, or is dropped by the daemon.
AccessKept(t) ==
    \A g \in DOMAIN access : Names(t, g) \/ Given(t, g) =>
        /\ access'[g].next = access[g].next
        /\ access'[g].mode = access[g].mode
        /\ access'[g].live => access[g].live

\* The grants of the companion's connection.
LEMMA OursGrants ==
    ASSUME BaseInv, OwnerInv, NEW t \in Transport, Ours(t), Hello(t)
    PROVE  /\ companion.phase # "hello" =>
                /\ companion.grant \in DOMAIN access /\ companion.grant \in Grant
                /\ Names(t, companion.grant)
                /\ access[companion.grant].next \in Nat \ {0}
           /\ \A a \in Told(t) : a.kind = "ready" =>
                a.grant \in DOMAIN access /\ a.grant \in Grant /\ Names(t, a.grant)
           /\ \A h \in handling : h.from = t /\ Accepted(h) =>
                h.grant \in DOMAIN access /\ h.grant \in Grant /\ Given(t, h.grant)
<1>1. access \in Seq(DaemonGrant)
  BY KnownGrants
<1>2. ASSUME companion.phase # "hello"
      PROVE  /\ companion.grant \in DOMAIN access /\ companion.grant \in Grant
             /\ Names(t, companion.grant)
             /\ access[companion.grant].next \in Nat \ {0}
  <2>1. companion.grant \in Grant
    BY <1>2 DEF BaseInv, TypeInv, Companion, Hello
  <2>2. Names(t, companion.grant)
    BY DEF Ours, Names
  <2>3. companion.grant \in DOMAIN access
    BY <2>1, <2>2 DEF OwnerInv
  <2>4. access[companion.grant] \in DaemonGrant
    BY <1>1, <2>3
  <2>5. access[companion.grant].next \in 1..(MaxSequence + 1)
    BY <2>4 DEF DaemonGrant
  <2>6. access[companion.grant].next \in Nat \ {0}
    BY <2>5, HandshakeAssumption
  <2> QED BY <2>1, <2>2, <2>3, <2>6
<1>3. ASSUME NEW a \in Told(t), a.kind = "ready"
      PROVE  a.grant \in DOMAIN access /\ a.grant \in Grant /\ Names(t, a.grant)
  <2>1. a.grant \in Grant
    BY <1>3, ReadyGrant
  <2>2. Names(t, a.grant)
    BY DEF Names
  <2> QED BY <2>1, <2>2 DEF OwnerInv
<1>4. \A h \in handling : h.from = t /\ Accepted(h) =>
        h.grant \in DOMAIN access /\ h.grant \in Grant /\ Given(t, h.grant)
  BY KnownGrants
<1> QED BY <1>2, <1>3, <1>4

\* What a request of t that was handled is answered with.
Answers(a, t) ==
    \E h \in handling : /\ h.from = t /\ h.message.kind = "request" /\ h.verdict # "none"
                        /\ a.sequence = h.message.sequence

LEMMA CountsNext ==
    ASSUME BaseInv, OwnerInv, NEW t \in Transport, Ours(t), Hello(t), companion.phase = "ready",
           Counts(t),
           access'[companion'.grant].next \in Nat,
           Expected(t)' \in Nat, Expected(t)' >= Expected(t),
           InLine(t)', Waits(t)',
           \A h \in handling' : h.from = t /\ h.message.kind = "request" =>
               IF h.verdict = "none" THEN h.message.sequence = access'[companion'.grant].next
               ELSE h.message.sequence < access'[companion'.grant].next,
           \A a \in Msgs(back'[t]) : Settles(a) =>
               a \in Told(t) \/ a.sequence = 0 \/ Answers(a, t)
    PROVE  Counts(t)'
<1> DEFINE n == access[companion.grant].next
<1>1. n \in Nat \ {0} /\ Expected(t) \in {n, n + 1}
  BY OursGrants DEF Expected
<1>2. back[t] \in Seq(Answer) /\ Told(t) \subseteq Answer /\ handling \subseteq Pending
  <2>1. back[t] \in Seq(Answer)
    BY DEF BaseInv, TypeInv
  <2> QED BY <2>1, MsgsMember DEF Told, BaseInv, TypeInv
<1>3. ASSUME NEW a \in Told(t)', Settles(a)' PROVE a.sequence < Expected(t)'
  <2>1. a \in Told(t) \/ a.sequence = 0 \/ Answers(a, t)
    BY <1>3 DEF Told, Settles
  <2>2. CASE a \in Told(t)
    <3>1. a.sequence \in Nat
      BY <1>2, <2>2, HandshakeAssumption DEF Answer, Sequence
    <3>2. a.sequence < Expected(t)
      BY <1>3, <2>2 DEF Counts, Settles
    <3> QED BY <1>1, <3>1, <3>2
  <2>3. CASE a.sequence = 0
    BY <1>1, <2>3
  <2>4. CASE Answers(a, t)
    <3>1. PICK h \in handling : /\ h.from = t /\ h.message.kind = "request" /\ h.verdict # "none"
                               /\ a.sequence = h.message.sequence
      BY <2>4 DEF Answers
    <3>2. a.sequence < n
      BY <3>1 DEF Counts
    <3>3. a.sequence \in Nat
      BY <1>2, <3>1, HandshakeAssumption DEF Pending, Request, Sequence
    <3> HIDE DEF n
    <3> QED BY <1>1, <3>2, <3>3
  <2> QED BY <2>1, <2>2, <2>3, <2>4
<1> QED BY <1>3 DEF Counts

LEMMA InLineNext ==
    ASSUME NEW t \in Transport, wire'[t] = wire[t], frames'[t] = frames[t],
           companion'.chunking = companion.chunking, companion'.sequence = companion.sequence,
           Expected(t)' = Expected(t), InLine(t)
    PROVE  InLine(t)'
BY DEF InLine, Lined

\* Steps that do not concern the connection.
LEMMA OrderQuiet ==
    ASSUME BaseInv, OwnerInv, NEW t \in Transport, Ours(t), Hello(t), Order(t), AccessKept(t),
           companion' = companion, wire'[t] = wire[t], frames'[t] = frames[t],
           \A a \in Msgs(back'[t]) :
               a \in Told(t) \/ a.kind # "ready"
               \/ companion.phase = "ready" \/ Unused(a.grant)',
           \A a \in Msgs(back'[t]) :
               Settles(a) => a \in Told(t) \/ a.sequence = 0 \/ Answers(a, t),
           \A h \in handling' : h.from = t =>
               \E k \in handling : /\ k.from = t /\ k.message = h.message
                                   /\ Accepted(h) => h = k \/ Unused(h.grant)',
           \A h \in handling' : h.from = t /\ h.message.kind = "request" => h \in handling,
           Asked(t) => Asked(t)',
           companion.phase = "ready" /\ grants'[companion.grant] = t =>
               grants[companion.grant] = t
    PROVE  Order(t)'
<1>1. /\ Sent(t)' = Sent(t)
      /\ \A a \in Told(t)' : a.kind = "ready" =>
            a \in Told(t) \/ companion.phase = "ready" \/ Unused(a.grant)'
      /\ \A a \in Told(t)' : Settles(a) => a \in Told(t) \/ a.sequence = 0 \/ Answers(a, t)
  BY DEF Sent, Told
<1>2. \A h : (Accepted(h)' <=> Accepted(h)) /\ (Asks(h, t)' <=> Asks(h, t))
             /\ (Settles(h)' <=> Settles(h))
  BY DEF Accepted, Asks, Settles
<1>3. Asked(t)' <=> Asked(t)
  BY <1>2 DEF Asked, Asks
<1>4. ASSUME NEW g \in DOMAIN access, Names(t, g) \/ Given(t, g), Unused(g)
      PROVE  Unused(g)'
  BY <1>4 DEF AccessKept, Unused
<1>5. companion.phase # "ready" /\ Begins(t) => Begins(t)'
  <2> SUFFICES ASSUME companion.phase # "ready", Begins(t) PROVE Begins(t)'
    OBVIOUS
  <2>1. ASSUME NEW h \in handling', h.from = t
        PROVE  h.message.kind = "hello" /\ (Accepted(h) => Unused(h.grant)')
    <3>1. PICK k \in handling : k.from = t /\ k.message = h.message /\ (Accepted(h) => h = k \/ Unused(h.grant)')
      BY <2>1
    <3>2. h.message.kind = "hello"
      BY <3>1 DEF Begins
    <3>3. ASSUME Accepted(h) PROVE Unused(h.grant)'
      BY <2>1, <1>4, <3>1, <3>3, OursGrants DEF Begins
    <3> QED BY <3>2, <3>3
  <2>2. ASSUME NEW a \in Told(t)', a.kind = "ready" PROVE Unused(a.grant)'
    BY <1>1, <1>4, <2>2, OursGrants DEF Begins
  <2>3. companion.phase \in {"loading", "audio"} => Unused(companion.grant)'
    BY <1>4, OursGrants DEF Begins
  <2>4. ASSUME NEW a \in Told(t)', Settles(a) PROVE a.sequence = 0
    <3>1. ~Answers(a, t)
      BY DEF Begins, Answers
    <3> QED BY <1>1, <2>4, <3>1 DEF Begins
  <2> QED BY <1>1, <1>2, <2>1, <2>2, <2>3, <2>4 DEF Begins
<1>6. companion.phase = "ready" /\ Proceeds(t) => Proceeds(t)'
  <2> SUFFICES ASSUME companion.phase = "ready", Proceeds(t) PROVE Proceeds(t)'
    OBVIOUS
  <2> DEFINE c == companion.grant
  <2>1. /\ c \in Grant /\ access'[c].next = access[c].next /\ access'[c].mode = access[c].mode
        /\ access'[c].live => access[c].live
        /\ access[c].next \in Nat
    BY OursGrants DEF AccessKept
  <2>2. Serves(t)' => Serves(t)
    BY <2>1 DEF Serves
  <2>3. Expected(t)' = Expected(t) /\ Expected(t) \in Nat
    <3>1. Expected(t)' = Expected(t)
      BY <1>3, <2>1 DEF Expected
    <3>2. Expected(t) \in Nat
      BY <2>1 DEF Expected
    <3> QED BY <3>1, <3>2
  <2>4. Counts(t) => Counts(t)'
    <3> SUFFICES ASSUME Counts(t) PROVE Counts(t)'
      OBVIOUS
    <3>1. \A h \in handling' : h.from = t /\ h.message.kind = "request" =>
               IF h.verdict = "none" THEN h.message.sequence = access'[c].next
               ELSE h.message.sequence < access'[c].next
      BY <2>1 DEF Counts
    <3>2. InLine(t)'
      BY <2>3, InLineNext DEF Counts
    <3>3. Waits(t)'
      BY DEF Counts, Waits
    <3>4. access'[companion'.grant].next \in Nat
      BY <2>1
    <3>5. Expected(t)' \in Nat /\ Expected(t)' >= Expected(t)
      BY <2>3
    <3> QED BY <3>1, <3>2, <3>3, <3>4, <3>5, CountsNext
  <2>5. \A h \in handling' : h.from = t /\ h.message.kind = "request" => h.message.grant = c
    BY DEF Proceeds
  <2> QED BY <1>1, <2>1, <2>2, <2>4, <2>5 DEF Proceeds
<1>7. \A h \in handling' : h.from = t => h.message.mode = companion'.mode
  BY DEF Order
<1> QED BY <1>1, <1>5, <1>6, <1>7 DEF Order

\* A chunk slips: the numbers do not count any more.
LEMMA OrderSlip ==
    ASSUME NEW t \in Transport, Order(t),
           companion.phase = "ready", companion'.phase = "ready", companion'.slipped,
           companion'.mode = companion.mode, companion'.grant = companion.grant,
           companion'.chunking = companion.chunking,
           UNCHANGED <<access, handling>>, Sent(t)' \subseteq Sent(t)
    PROVE  Order(t)'
<1>1. Proceeds(t)'
  BY DEF Order, Proceeds
<1> QED BY <1>1 DEF Order

\* A request is settled, or given up.
LEMMA OrderSettle ==
    ASSUME BaseInv, OwnerInv, NEW t \in Transport, Ours(t), Hello(t), Order(t),
           UNCHANGED <<access, grants, handling, wire, frames>>,
           Msgs(back'[t]) \subseteq Told(t),
           companion'.phase = companion.phase, companion'.mode = companion.mode,
           companion'.grant = companion.grant, companion'.sequence = companion.sequence,
           companion'.slipped = companion.slipped,
           companion'.waiting \subseteq companion.waiting,
           companion.phase # "ready" => companion'.chunking = companion.chunking,
           companion'.chunking => companion.mode = "upload",
           companion.phase = "ready" /\ Counts(t) => InLine(t)' /\ Waits(t)'
    PROVE  Order(t)'
<1>1. Sent(t)' = Sent(t) /\ Told(t)' \subseteq Told(t)
  BY DEF Sent, Told
<1>2. \A h : (Accepted(h)' <=> Accepted(h)) /\ (Asks(h, t)' <=> Asks(h, t))
             /\ (Settles(h)' <=> Settles(h)) /\ (Unused(h)' <=> Unused(h))
  BY DEF Accepted, Asks, Settles, Unused
<1>3. Expected(t)' = Expected(t) /\ (Serves(t)' <=> Serves(t))
  BY <1>2 DEF Expected, Asked, Serves
<1>4. companion.phase # "ready" /\ Begins(t) => Begins(t)'
  BY <1>1, <1>2 DEF Begins
<1>5. ASSUME companion.phase = "ready", Counts(t) PROVE Counts(t)'
  <2>1. access[companion.grant].next \in Nat /\ Expected(t) \in Nat
    BY <1>5, OursGrants DEF Expected
  <2>2. \A a \in Msgs(back'[t]) : Settles(a) => a \in Told(t) \/ a.sequence = 0 \/ Answers(a, t)
    OBVIOUS
  <2>3. \A h \in handling' : h.from = t /\ h.message.kind = "request" =>
             IF h.verdict = "none" THEN h.message.sequence = access'[companion'.grant].next
             ELSE h.message.sequence < access'[companion'.grant].next
    BY <1>5 DEF Counts
  <2> QED BY <1>3, <1>5, <2>1, <2>2, <2>3, CountsNext
<1>6. companion.phase = "ready" /\ Proceeds(t) => Proceeds(t)'
  BY <1>1, <1>3, <1>5 DEF Proceeds
<1> QED BY <1>1, <1>4, <1>6 DEF Order

LEMMA OrderConnect ==
    ASSUME BaseInv, OwnerInv, NEW mode \in Mode, Connect(mode), NEW t \in Transport, Ours(t)'
    PROVE  Order(t)'
<1>1. /\ companion' = [Off(companion.transport + 1) EXCEPT
              !.phase = "hello", !.session = served, !.mode = mode]
      /\ UNCHANGED <<grants, handling, wire, frames, back>>
  BY DEF Connect, daemonVars, bridgeVars
<1>2. /\ companion'.phase = "hello" /\ companion'.sequence = 1 /\ t = companion.transport + 1
      /\ companion'.waiting = {} /\ ~companion'.chunking
  BY <1>1 DEF Off, Ours
<1>3. Untouched(t)
  <2>1. companion.transport \in Nat
    BY DEF BaseInv, TypeInv, Companion, Transport
  <2>2. t > companion.transport
    BY <1>2, <2>1
  <2> QED BY <2>2 DEF OwnerInv
<1>4. Sent(t)' = {} /\ Told(t)' = {} /\ \A h \in handling' : h.from # t
  BY <1>1, <1>3, MsgsFew DEF Untouched, Sent, Told
<1>5. Begins(t)'
  BY <1>2, <1>4 DEF Begins
<1> QED BY <1>2, <1>4, <1>5 DEF Order

LEMMA OrderSendHello ==
    ASSUME BaseInv, NEW t \in Transport, Ours(t), Order(t), SendHello
    PROVE  Order(t)'
<1>1. /\ companion.phase = "hello" /\ Say("hello")
      /\ companion' = [companion EXCEPT !.hellos = @ + 1]
      /\ UNCHANGED <<access, handling, frames, back>>
  BY DEF SendHello, daemonVars, bridgeVars
<1>2. /\ companion'.phase = "hello" /\ companion'.mode = companion.mode
      /\ companion'.sequence = companion.sequence /\ companion'.waiting = companion.waiting
      /\ companion'.chunking = companion.chunking
  BY <1>1 DEF BaseInv, TypeInv, Companion
<1>3. SaidBy(t, "hello")
  BY <1>1, SayFacts DEF BaseInv, Ours
<1>4. \A m \in Sent(t)' : m \in Sent(t) \/ (m.kind = "hello" /\ m.mode = companion.mode)
  <2>1. Message("hello").kind = "hello" /\ Message("hello").mode = companion.mode
    BY DEF Message
  <2> QED BY <1>3, <2>1 DEF SaidBy, Sent
<1>5. Begins(t)'
  <2>1. Begins(t) /\ Told(t)' = Told(t)
    BY <1>1 DEF Order, Told
  <2>2. \A g : Unused(g)' <=> Unused(g)
    BY <1>1, <1>2 DEF Unused
  <2>3. \A h : (Accepted(h)' <=> Accepted(h)) /\ (Settles(h)' <=> Settles(h))
    BY DEF Accepted, Settles
  <2> QED BY <1>1, <1>2, <1>4, <2>1, <2>2, <2>3 DEF Begins
<1> QED BY <1>1, <1>2, <1>4, <1>5 DEF Order

\* The number of a request that was sent is the next one; what is on its way before it
\* are requests of the same channel, as the chunks before it are all answered.
LEMMA OrderSendRequest ==
    ASSUME BaseInv, OwnerInv, NEW t \in Transport, Ours(t), Hello(t), Order(t), SendRequest
    PROVE  Order(t)'
<1> DEFINE m == Message("request")
<1>1. /\ companion.phase = "ready" /\ companion.sequence <= MaxSequence /\ Say("request")
      /\ companion.mode = "upload" => companion.waiting = {}
      /\ companion' = [companion EXCEPT !.sequence = @ + 1, !.waiting = @ \cup {companion.sequence},
                                       !.chunking = FALSE]
      /\ UNCHANGED <<access, grants, handling, frames, back>>
  BY DEF SendRequest, MayAsk, daemonVars, bridgeVars
<1>2. companion \in Companion /\ companion.sequence \in Nat
  BY DEF BaseInv, TypeInv, Companion
<1>3. /\ companion'.phase = "ready" /\ companion'.mode = companion.mode
      /\ companion'.grant = companion.grant /\ companion'.sequence = companion.sequence + 1
      /\ companion'.waiting = companion.waiting \cup {companion.sequence}
      /\ ~companion'.chunking /\ companion'.slipped = companion.slipped
  BY <1>1, <1>2 DEF Companion
<1>4. SaidBy(t, "request") /\ m \in Request
  BY <1>1, SayFacts, MessageType DEF BaseInv, Ours
<1>5. /\ m.kind = "request" /\ m.mode = companion.mode /\ m.grant = companion.grant
      /\ m.sequence = companion.sequence
  BY DEF Message
<1>6. /\ wire'[t] = Append(wire[t], m) /\ Sent(t)' = Sent(t) \cup {m}
      /\ wire[t] \in Seq(Request) /\ frames[t] \in Seq(Request)
  <2>1. wire \in [Transport -> Seq(Request)] /\ frames \in [Transport -> Seq(Request)]
    BY DEF BaseInv, TypeInv
  <2>2. wire'[t] = Append(wire[t], m)
    <3>1. wire' = [wire EXCEPT ![t] = Append(@, m)]
      BY <1>1 DEF Say, Ours
    <3> HIDE DEF m
    <3> QED BY <2>1, <3>1
  <2> QED BY <1>4, <2>1, <2>2 DEF SaidBy, Sent
<1> HIDE DEF m
<1>7. Proceeds(t)
  BY <1>1 DEF Order
<1>8. \A h : Asks(h, t)' <=> Asks(h, t)
  BY DEF Asks
<1>9. Expected(t)' = Expected(t) /\ (Serves(t)' <=> Serves(t))
  BY <1>1, <1>3, <1>8 DEF Expected, Asked, Serves
<1>10. ASSUME Counts(t) PROVE Counts(t)'
  <2> DEFINE k == companion.sequence - Expected(t)
             top == companion.sequence
  <2>1. access[companion.grant].next \in Nat /\ Expected(t) \in Nat
    BY <1>1, OursGrants DEF Expected
  <2>2. k + 1 = companion'.sequence - Expected(t)'
    BY <1>2, <1>3, <1>9, <2>1
  <2>3. Lined(wire[t], k, top) /\ frames[t] = <<>>
    <3>1. CASE companion.chunking
      <4>1. Lined(wire[t], 0, top) /\ Lined(frames[t], k, top)
        BY <1>10, <3>1 DEF Counts, InLine
      <4>2. companion.waiting = {}
        BY <1>1, <1>7, <3>1 DEF Proceeds
      <4>3. Msgs(frames[t]) = {}
        BY <1>10, <3>1, <4>2 DEF Counts, Waits
      <4> HIDE DEF k, top
      <4>4. frames[t] = <<>> /\ k = 0
        BY <1>6, <4>1, <4>3, LinedEmpty
      <4> QED BY <4>1, <4>4
    <3>2. CASE ~companion.chunking
      BY <1>10, <3>2 DEF Counts, InLine
    <3> QED BY <3>1, <3>2
  <2> HIDE DEF k
  <2>4. Lined(wire'[t], k + 1, companion.sequence + 1)
    BY <1>2, <1>4, <1>5, <1>6, <2>3, LinedAppend
  <2>5. InLine(t)'
    <3>1. Lined(wire'[t], companion'.sequence - Expected(t)', companion'.sequence)
      BY <1>3, <2>2, <2>4
    <3>2. frames'[t] = <<>>
      BY <1>1, <2>3
    <3> QED BY <1>3, <3>1, <3>2 DEF InLine, Lined
  <2>6. Waits(t)'
    <3>1. companion'.sequence - 1 = companion.sequence
      BY <1>2, <1>3
    <3> QED BY <1>1, <1>3, <3>1 DEF Waits
  <2>7. \A h \in handling' : h.from = t /\ h.message.kind = "request" =>
             IF h.verdict = "none" THEN h.message.sequence = access'[companion'.grant].next
             ELSE h.message.sequence < access'[companion'.grant].next
    BY <1>1, <1>3, <1>10 DEF Counts
  <2>8. \A a \in Msgs(back'[t]) : a \in Told(t)
    BY <1>1 DEF Told
  <2>9. access'[companion'.grant].next \in Nat /\ Expected(t)' \in Nat /\ Expected(t)' >= Expected(t)
    BY <1>1, <1>3, <1>9, <2>1
  <2> QED BY <1>1, <1>10, <2>5, <2>6, <2>7, <2>8, <2>9, CountsNext
<1>11. Proceeds(t)'
  BY <1>1, <1>3, <1>5, <1>6, <1>7, <1>9, <1>10 DEF Proceeds
<1> QED BY <1>1, <1>3, <1>5, <1>6, <1>11 DEF Order

\* A chunk is the next one of its channel; or it is not sent, and its number slips.
LEMMA OrderSendChunk ==
    ASSUME BaseInv, OwnerInv, NEW t \in Transport, Ours(t), Hello(t), Order(t), SendChunk
    PROVE  Order(t)'
<1> DEFINE m == Message("request")
<1>1. /\ companion.phase = "ready" /\ companion.sequence <= MaxSequence /\ companion.chunking
      /\ UNCHANGED <<access, grants, handling, wire, back>>
  BY SendChunkFacts
<1>2. companion \in Companion /\ companion.sequence \in Nat
  BY DEF BaseInv, TypeInv, Companion
<1>3. CASE companion' = [companion EXCEPT !.sequence = @ + 1, !.slipped = TRUE] /\ frames' = frames
  <2>1. /\ companion'.phase = "ready" /\ companion'.slipped /\ companion'.mode = companion.mode
        /\ companion'.grant = companion.grant /\ companion'.chunking = companion.chunking
    BY <1>1, <1>2, <1>3 DEF Companion
  <2>2. Sent(t)' = Sent(t)
    BY <1>1, <1>3 DEF Sent
  <2> QED BY <1>1, <2>1, <2>2, OrderSlip
<1>4. CASE /\ SaidBy(t, "request") /\ frames'[t] = Append(frames[t], m)
           /\ companion' = [companion EXCEPT !.sequence = @ + 1, !.waiting = @ \cup {companion.sequence}]
  <2>1. /\ companion'.phase = "ready" /\ companion'.mode = companion.mode
        /\ companion'.grant = companion.grant /\ companion'.sequence = companion.sequence + 1
        /\ companion'.waiting = companion.waiting \cup {companion.sequence}
        /\ companion'.chunking /\ companion'.slipped = companion.slipped
    BY <1>1, <1>2, <1>4 DEF Companion
  <2>2. /\ m.kind = "request" /\ m.mode = companion.mode /\ m.grant = companion.grant
        /\ m.sequence = companion.sequence /\ m \in Request
    BY <1>1, MessageType DEF Message, BaseInv
  <2>3. /\ Sent(t)' = Sent(t) \cup {m}
        /\ wire[t] \in Seq(Request) /\ frames[t] \in Seq(Request)
    BY <1>4 DEF SaidBy, Sent, BaseInv, TypeInv
  <2> HIDE DEF m
  <2>4. Msgs(frames'[t]) = Msgs(frames[t]) \cup {m}
    BY <1>4, <2>2, <2>3, MsgsAppend
  <2>5. Proceeds(t)
    BY <1>1 DEF Order
  <2>6. \A h : Asks(h, t)' <=> Asks(h, t)
    BY DEF Asks
  <2>7. Expected(t)' = Expected(t) /\ (Serves(t)' <=> Serves(t))
    BY <1>1, <2>1, <2>6 DEF Expected, Asked, Serves
  <2>8. ASSUME Counts(t) PROVE Counts(t)'
    <3> DEFINE k == companion.sequence - Expected(t)
    <3>1. access[companion.grant].next \in Nat /\ Expected(t) \in Nat
      BY <1>1, OursGrants DEF Expected
    <3>2. k + 1 = companion'.sequence - Expected(t)'
      BY <1>2, <2>1, <2>7, <3>1
    <3>3. Lined(wire[t], 0, companion.sequence) /\ Lined(frames[t], k, companion.sequence)
      BY <1>1, <2>8 DEF Counts, InLine
    <3> HIDE DEF k
    <3>4. Lined(frames'[t], k + 1, companion.sequence + 1)
      BY <1>2, <1>4, <2>2, <2>3, <3>3, LinedAppend
    <3>5. Lined(wire'[t], 0, companion.sequence + 1)
      BY <1>1, <2>3, <3>3, LinedNone
    <3>6. InLine(t)'
      <4>1. Lined(wire'[t], 0, companion'.sequence)
            /\ Lined(frames'[t], companion'.sequence - Expected(t)', companion'.sequence)
        BY <2>1, <3>2, <3>4, <3>5
      <4> QED BY <2>1, <4>1 DEF InLine, Lined
    <3>7. Waits(t)'
      <4>1. \A f \in Msgs(frames[t]) : f.sequence \in companion.waiting
        BY <1>1, <2>8 DEF Counts, Waits
      <4>2. \A f \in Msgs(frames'[t]) : f.sequence \in companion'.waiting
        BY <2>1, <2>2, <2>4, <4>1
      <4> QED BY <2>1, <4>2 DEF Waits
    <3>8. \A h \in handling' : h.from = t /\ h.message.kind = "request" =>
               IF h.verdict = "none" THEN h.message.sequence = access'[companion'.grant].next
               ELSE h.message.sequence < access'[companion'.grant].next
      BY <1>1, <2>1, <2>8 DEF Counts
    <3>9. \A a \in Msgs(back'[t]) : a \in Told(t)
      BY <1>1 DEF Told
    <3>10. access'[companion'.grant].next \in Nat /\ Expected(t)' \in Nat
           /\ Expected(t)' >= Expected(t)
      BY <1>1, <2>1, <2>7, <3>1
    <3> QED BY <1>1, <2>8, <3>6, <3>7, <3>8, <3>9, <3>10, CountsNext
  <2>9. Proceeds(t)'
    BY <1>1, <2>1, <2>2, <2>3, <2>5, <2>7, <2>8 DEF Proceeds
  <2> QED BY <1>1, <2>1, <2>2, <2>3, <2>9 DEF Order
<1> QED BY <1>3, <1>4, SendChunkFacts DEF Ours

\* The daemon is going to be asked for a request of t, the next one.
LEMMA CountsAsked ==
    ASSUME BaseInv, OwnerInv, NEW t \in Transport, Ours(t), Hello(t), companion.phase = "ready",
           Counts(t), handling = {}, UNCHANGED <<access, companion, back>>,
           NEW m, m.kind = "request", m.sequence = access[companion.grant].next,
           handling' = {[from |-> t, message |-> m, verdict |-> "none", grant |-> 0]},
           Expected(t)' = Expected(t) + 1 => InLine(t)', Waits(t)'
    PROVE  Counts(t)'
<1> DEFINE n == access[companion.grant].next
<1>1. n \in Nat
  BY OursGrants
<1>2. ~Asked(t) /\ Expected(t) = n + 0
  BY DEF Asked, Expected
<1>3. Asked(t)'
  BY DEF Asked, Asks
<1>4. Expected(t)' = n + 1
  BY <1>3 DEF Expected
<1>5. \A h \in handling' : h.from = t /\ h.message.kind = "request" =>
         IF h.verdict = "none" THEN h.message.sequence = access'[companion'.grant].next
         ELSE h.message.sequence < access'[companion'.grant].next
  OBVIOUS
<1>6. \A a \in Msgs(back'[t]) : a \in Told(t)
  BY DEF Told
<1>7. access'[companion'.grant].next \in Nat
  BY <1>1
<1> HIDE DEF n
<1>8. Expected(t)' \in Nat /\ Expected(t)' >= Expected(t) /\ Expected(t)' = Expected(t) + 1
  BY <1>1, <1>2, <1>4
<1> QED BY <1>5, <1>6, <1>7, <1>8, CountsNext

\* The bridge takes a message of the companion: a request of a grant it knows waits for
\* the daemon.
LEMMA OrderHandle ==
    ASSUME BaseInv, OwnerInv, NEW t \in Transport, Ours(t), Hello(t), Order(t),
           NEW u \in Transport, Handle(u)
    PROVE  Order(t)'
<1> DEFINE m == Head(wire[u])
<1>1. /\ TakenOff(wire, wire', u, Request)
      /\ handling = {}
      /\ \/ handling' = {}
         \/ handling' = {[from |-> u, message |-> m, verdict |-> "none", grant |-> 0]}
      /\ UNCHANGED <<access, companion, frames>>
  BY HandleFacts
<1>2. /\ \A v \in Transport : v # u => wire'[v] = wire[v]
      /\ m \in Sent(u) /\ m \in Request /\ wire[u] # <<>> /\ wire'[u] = Tail(wire[u])
      /\ Msgs(wire'[u]) \subseteq Msgs(wire[u]) /\ wire[u] \in Seq(Request)
  BY <1>1 DEF TakenOff, Sent, BaseInv, TypeInv
<1>3. \A v \in Transport : v # u => back'[v] = back[v]
  BY HandledAnswers
<1>4. \/ grants' = grants
      \/ /\ m.kind = "goodbye" /\ grants[m.grant] = u
         /\ grants' = [grants EXCEPT ![m.grant] = 0]
  BY HandledGrants
<1>5. served # 0
  BY DEF Ours, BaseInv, TypeInv, Companion, Session
<1>6. \/ /\ m.kind = "hello" \/ (m.kind = "request" /\ Authenticated(u, m))
         /\ handling' = {[from |-> u, message |-> m, verdict |-> "none", grant |-> 0]}
         /\ back' = back
      \/ /\ m.kind # "hello" /\ ~(m.kind = "request" /\ Authenticated(u, m))
         /\ handling' = {}
  BY <1>1, <1>5 DEF Handle
<1>7. \A a \in Msgs(back'[t]) : a \in Told(t) \/ a.kind = "rejected"
  BY HandledAnswers
<1> HIDE DEF m
<1>8. CASE u # t
  <2>1. companion.phase = "ready" /\ grants'[companion.grant] = t => grants[companion.grant] = t
    <3>1. t # 0 /\ grants \in [Grant -> Transport \cup {0}]
      BY DEF Transport, BaseInv, TypeInv
    <3>2. companion.phase = "ready" => companion.grant \in Grant
      BY OursGrants
    <3> QED BY <1>4, <1>8, <3>1, <3>2
  <2>2. \A h \in handling' : h.from # t
    BY <1>1, <1>8
  <2>3. wire'[t] = wire[t] /\ back'[t] = back[t] /\ frames'[t] = frames[t] /\ companion' = companion
    BY <1>1, <1>2, <1>3, <1>8
  <2>4. \A a \in Msgs(back'[t]) : a \in Told(t)
    BY <2>3 DEF Told
  <2>5. AccessKept(t) /\ ~Asked(t)
    BY <1>1 DEF AccessKept, Asked
  <2> QED BY <2>1, <2>2, <2>3, <2>4, <2>5, OrderQuiet
<1>9. CASE u = t
  <2>1. m.kind # "goodbye" /\ grants' = grants /\ m.mode = companion.mode
    BY <1>2, <1>4, <1>9 DEF Hello, Order
  <2>2. /\ Sent(t)' \subseteq Sent(t) /\ wire[t] \in Seq(Request) /\ frames'[t] = frames[t]
        /\ \A h \in handling' : h.message = m /\ h.verdict = "none"
    BY <1>1, <1>2, <1>9 DEF Sent
  <2>3. \A g : Unused(g)' <=> Unused(g)
    BY <1>1 DEF Unused
  <2>4. Begins(t) => Begins(t)'
    <3> SUFFICES ASSUME Begins(t) PROVE Begins(t)'
      OBVIOUS
    <3>1. m.kind = "hello"
      BY <1>2, <1>9 DEF Begins
    <3>2. Told(t)' = Told(t)
      BY <1>6, <3>1 DEF Told
    <3>3. \A a : Settles(a)' <=> Settles(a)
      BY DEF Settles
    <3>4. \A h \in handling' : h.message.kind = "hello" /\ ~Accepted(h)'
      BY <2>2, <3>1 DEF Accepted
    <3> QED BY <1>1, <2>2, <2>3, <3>2, <3>3, <3>4 DEF Begins
  <2>5. companion.phase = "ready" /\ Proceeds(t) => Proceeds(t)'
    <3> SUFFICES ASSUME companion.phase = "ready", Proceeds(t) PROVE Proceeds(t)'
      OBVIOUS
    <3> DEFINE c == companion.grant
               top == companion.sequence
    <3>1. \A h \in handling' : h.message.kind = "request" => h.message.grant = c
      BY <1>2, <1>9, <2>2 DEF Proceeds
    <3>2. ASSUME Serves(t), Counts(t) PROVE Counts(t)'
      <4> DEFINE e == access[c].next
                 k == top - e
      <4>1. ~Asked(t) /\ Expected(t) = e + 0 /\ e \in Nat /\ top \in Nat
        <5>1. ~Asked(t)
          BY <1>1 DEF Asked
        <5>2. e \in Nat
          BY OursGrants
        <5>3. top \in Nat
          BY DEF BaseInv, TypeInv, Companion
        <5> QED BY <5>1, <5>2, <5>3 DEF Expected
      <4>2. k = top - Expected(t)
        BY <4>1
      <4> DEFINE w == IF companion.chunking THEN 0 ELSE k
      <4>3. Lined(wire[t], w, top)
        BY <3>2, <4>2 DEF Counts, InLine
      <4>4. Waits(t)'
        <5>1. Waits(t)
          BY <3>2 DEF Counts
        <5> QED BY <1>1, <2>2, <5>1 DEF Waits
      <4> HIDE DEF k, w
      <4>5. /\ m.kind = "hello" => Lined(wire'[t], w, top)
            /\ m.kind # "hello" => /\ m.kind = "request" /\ m.sequence = top - w
                                   /\ Lined(wire'[t], w - 1, top)
        BY <1>2, <1>9, <4>1, <4>3, LinedTail DEF m
      <4>6. CASE m.kind = "hello"
        <5>1. \A h \in handling' : h.message.kind # "request" /\ ~Asks(h, t)'
          BY <2>2, <4>6 DEF Asks
        <5>2. ~Asked(t)'
          BY <5>1 DEF Asked
        <5>3. Expected(t)' = e + 0
          BY <1>1, <5>2 DEF Expected
        <5>4. InLine(t)'
          <6>1. Lined(wire'[t], IF companion'.chunking THEN 0 ELSE companion'.sequence - Expected(t)',
                      companion'.sequence)
            BY <1>1, <4>1, <4>5, <4>6, <5>3 DEF w, k
          <6>2. IF companion'.chunking
                THEN Lined(frames'[t], companion'.sequence - Expected(t)', companion'.sequence)
                ELSE frames'[t] = <<>>
            BY <1>1, <2>2, <3>2, <4>1, <5>3 DEF Counts, InLine
          <6> QED BY <6>1, <6>2 DEF InLine, Lined
        <5>5. \A a \in Msgs(back'[t]) : a \in Told(t)
          BY <1>6, <4>6 DEF Told
        <5>6. access'[companion'.grant].next \in Nat /\ Expected(t)' \in Nat
              /\ Expected(t)' >= Expected(t)
          BY <1>1, <4>1, <5>3
        <5> QED BY <3>2, <4>4, <5>1, <5>4, <5>5, <5>6, CountsNext
      <4>7. CASE m.kind # "hello"
        <5>1. m.kind = "request" /\ m.grant = c
          BY <1>2, <1>9, <4>5, <4>7 DEF Proceeds
        <5>2. Authenticated(t, m)
          BY <3>2, <5>1, OursGrants DEF Authenticated, Serves, Grant
        <5>3. handling' = {[from |-> t, message |-> m, verdict |-> "none", grant |-> 0]} /\ back' = back
          BY <1>6, <1>9, <5>1, <5>2
        <5>4. w # 0
          <6>1. w - 1 \in Nat
            BY <4>5, <4>7 DEF Lined
          <6> QED BY <6>1
        <5>5. ~companion.chunking /\ w = k /\ frames[t] = <<>>
          BY <3>2, <5>4 DEF w, Counts, InLine
        <5>6. m.sequence = e /\ Lined(wire'[t], k - 1, top)
          BY <4>1, <4>5, <4>7, <5>5 DEF k
        <5>7. ASSUME Expected(t)' = Expected(t) + 1 PROVE InLine(t)'
          <6>1. k - 1 = top - (Expected(t) + 1)
            BY <4>1, <4>2
          <6>2. Lined(wire'[t], companion'.sequence - Expected(t)', companion'.sequence)
            BY <1>1, <5>6, <5>7, <6>1
          <6> QED BY <1>1, <2>2, <5>5, <6>2 DEF InLine, Lined
        <5> QED BY <1>1, <3>2, <4>4, <5>1, <5>3, <5>6, <5>7, CountsAsked
      <4> QED BY <4>6, <4>7
    <3>3. Serves(t)' <=> Serves(t)
      BY <1>1, <2>1 DEF Serves
    <3> QED BY <1>1, <2>2, <3>1, <3>2, <3>3 DEF Proceeds
  <2>6. \A h \in handling' : h.message.mode = companion.mode
    BY <2>1, <2>2
  <2> QED BY <1>1, <2>2, <2>4, <2>5, <2>6 DEF Order
<1> QED BY <1>8, <1>9

\* ... or a chunk.
LEMMA OrderHandleFrame ==
    ASSUME BaseInv, OwnerInv, NEW t \in Transport, Ours(t), Hello(t), Order(t),
           NEW u \in Transport, HandleFrame(u)
    PROVE  Order(t)'
<1> DEFINE m == Head(frames[u])
<1>1. /\ TakenOff(frames, frames', u, Request)
      /\ handling = {}
      /\ \/ handling' = {}
         \/ handling' = {[from |-> u, message |-> m, verdict |-> "none", grant |-> 0]}
      /\ UNCHANGED <<access, companion, wire, grants>>
  BY FrameFacts
<1>2. /\ \A v \in Transport : v # u => frames'[v] = frames[v]
      /\ m \in Msgs(frames[u]) /\ m \in Sent(u) /\ m \in Request /\ m.kind = "request"
      /\ frames[u] # <<>> /\ frames'[u] = Tail(frames[u])
      /\ Msgs(frames'[u]) \subseteq Msgs(frames[u]) /\ frames[u] \in Seq(Request)
  BY <1>1 DEF TakenOff, Sent, BaseInv, TypeInv, BridgeInv
<1>3. \A v \in Transport : v # u => back'[v] = back[v]
  BY HandleEither DEF Answered
<1>4. served # 0
  BY DEF Ours, BaseInv, TypeInv, Companion, Session
<1>5. Authenticated(u, m) =>
         /\ handling' = {[from |-> u, message |-> m, verdict |-> "none", grant |-> 0]}
         /\ back' = back
  BY <1>4 DEF HandleFrame
<1> HIDE DEF m
<1>6. CASE u # t
  <2>1. \A h \in handling' : h.from # t
    BY <1>1, <1>6
  <2>2. wire'[t] = wire[t] /\ back'[t] = back[t] /\ frames'[t] = frames[t] /\ companion' = companion
    BY <1>1, <1>2, <1>3, <1>6
  <2>3. \A a \in Msgs(back'[t]) : a \in Told(t)
    BY <2>2 DEF Told
  <2>4. AccessKept(t) /\ ~Asked(t) /\ grants' = grants
    BY <1>1 DEF AccessKept, Asked
  <2> QED BY <2>1, <2>2, <2>3, <2>4, OrderQuiet
<1>7. CASE u = t
  <2>1. companion.phase = "ready" /\ Proceeds(t) /\ m.mode = companion.mode /\ m.grant = companion.grant
    BY <1>2, <1>7 DEF Order, Begins, Proceeds
  <2>2. /\ Sent(t)' \subseteq Sent(t) /\ wire'[t] = wire[t] /\ wire[t] \in Seq(Request)
        /\ \A h \in handling' : h.message = m
    <3>1. wire[t] \in Seq(Request)
      BY DEF BaseInv, TypeInv
    <3>2. wire' = wire /\ Msgs(frames'[t]) \subseteq Msgs(frames[t])
      BY <1>1, <1>2, <1>7
    <3> QED BY <1>1, <1>7, <3>1, <3>2 DEF Sent
  <2> DEFINE c == companion.grant
             top == companion.sequence
  <2>3. ASSUME Serves(t), Counts(t) PROVE Counts(t)'
    <3> DEFINE e == access[c].next
               k == top - e
    <3>1. ~Asked(t) /\ Expected(t) = e + 0 /\ e \in Nat /\ top \in Nat
      <4>1. ~Asked(t)
        BY <1>1 DEF Asked
      <4>2. e \in Nat
        BY <2>1, OursGrants
      <4>3. top \in Nat
        BY DEF BaseInv, TypeInv, Companion
      <4> QED BY <4>1, <4>2, <4>3 DEF Expected
    <3>2. k = top - Expected(t)
      BY <3>1
    <3>3. companion.chunking /\ Lined(wire[t], 0, top) /\ Lined(frames[t], k, top)
      BY <1>2, <1>7, <2>3, <3>2 DEF Counts, InLine
    <3> HIDE DEF k
    <3>4. m.sequence = top - k /\ Lined(frames'[t], k - 1, top)
      BY <1>2, <1>7, <3>1, <3>3, LinedTail DEF m
    <3>5. m.sequence = e
      BY <3>1, <3>4 DEF k
    <3>6. Authenticated(t, m)
      BY <2>1, <2>3, OursGrants DEF Authenticated, Serves, Grant
    <3>7. handling' = {[from |-> t, message |-> m, verdict |-> "none", grant |-> 0]} /\ back' = back
      BY <1>5, <1>7, <3>6
    <3>8. ASSUME Expected(t)' = Expected(t) + 1 PROVE InLine(t)'
      <4>1. k - 1 = top - (Expected(t) + 1)
        BY <3>1, <3>2
      <4>2. /\ Lined(frames'[t], companion'.sequence - Expected(t)', companion'.sequence)
            /\ Lined(wire'[t], 0, companion'.sequence)
        BY <1>1, <3>3, <3>4, <3>8, <4>1
      <4> QED BY <1>1, <3>3, <4>2 DEF InLine, Lined
    <3>9. Waits(t)'
      <4>1. \A f \in Msgs(frames[t]) : f.sequence \in companion.waiting
        BY <2>3, <3>3 DEF Counts, Waits
      <4> QED BY <1>1, <1>2, <1>7, <3>3, <4>1 DEF Waits
    <3> QED BY <1>1, <1>2, <2>1, <2>3, <3>5, <3>7, <3>8, <3>9, CountsAsked
  <2>4. Serves(t)' <=> Serves(t)
    BY <1>1 DEF Serves
  <2>5. Proceeds(t)'
    BY <1>1, <2>1, <2>2, <2>3, <2>4 DEF Proceeds
  <2> QED BY <1>1, <2>1, <2>2, <2>5 DEF Order
<1> QED BY <1>6, <1>7

\* A hello is accepted: the grant it brings is unused.
LEMMA OrderVerify ==
    ASSUME BaseInv, OwnerInv, NEW t \in Transport, Ours(t), Hello(t), Order(t), Verify
    PROVE  Order(t)'
<1>1. PICK h \in handling, k \in Pending :
        /\ handling' = {k} /\ h.message.kind = "hello" /\ h.verdict = "none"
        /\ UNCHANGED <<grants, wire, frames, back, companion>>
        /\ \/ /\ access' = Append(access, Fresh(h.message))
              /\ Judged(k, h, "yes", Len(access) + 1)
           \/ /\ access' = access
              /\ Judged(k, h, "no", h.grant)
  BY VerifyFacts
<1>2. access \in Seq(DaemonGrant) /\ Len(access) \in Nat /\ DOMAIN access = 1..Len(access)
  BY KnownGrants
<1>3. AccessKept(t)
  BY <1>1, <1>2 DEF AccessKept
<1>4. handling = {h} /\ k.from = h.from /\ k.message = h.message
  BY <1>1, PendingFields DEF BaseInv, Judged
<1>5. ~Asked(t) /\ ~Asks(k, t)
  BY <1>1, <1>4 DEF Asked, Asks
<1>6. k.from = t /\ Accepted(k) => Unused(k.grant)'
  <2> SUFFICES ASSUME k.from = t, Accepted(k) PROVE Unused(k.grant)'
    OBVIOUS
  <2>1. access' = Append(access, Fresh(h.message)) /\ k.grant = Len(access) + 1
    BY <1>1 DEF Judged, Accepted
  <2>2. access'[k.grant] = Fresh(h.message)
    BY <1>2, <2>1
  <2>3. h.message.mode = companion.mode
    BY <1>4 DEF Order
  <2> QED BY <1>1, <2>2, <2>3 DEF Unused, Fresh
<1>7. \A a \in Msgs(back'[t]) : a \in Told(t)
  BY <1>1 DEF Told
<1>8. \A j \in handling' : j.from = t =>
        \E i \in handling : /\ i.from = t /\ i.message = j.message
                            /\ Accepted(j) => j = i \/ Unused(j.grant)'
  BY <1>1, <1>4, <1>6
<1>9. \A j \in handling' : j.message.kind # "request"
  BY <1>1, <1>4
<1> QED BY <1>1, <1>3, <1>5, <1>7, <1>8, <1>9, OrderQuiet

\* The daemon takes the number of a request: the companion's is the one it expects.
LEMMA OrderExecute ==
    ASSUME BaseInv, OwnerInv, GrantInv, NEW t \in Transport, Ours(t), Hello(t), Order(t), Execute
    PROVE  Order(t)'
<1>1. PICK h \in handling, k \in Pending, done \in BOOLEAN :
        /\ handling' = {k} /\ h.message.kind = "request" /\ h.verdict = "none"
        /\ UNCHANGED <<session, grants, wire, frames, back, companion>>
        /\ Numbers(h, done)
        /\ Judged(k, h, IF done THEN "yes" ELSE "no", h.grant)
  BY ExecuteFacts
<1>2. handling = {h} /\ k.from = h.from /\ k.message = h.message /\ k.verdict # "none"
      /\ h.from \in Transport
  BY <1>1, PendingFields DEF BaseInv, Judged
<1>3. /\ DOMAIN access' = DOMAIN access
      /\ \A g \in DOMAIN access :
           /\ access'[g].session = access[g].session
           /\ access'[g].mode = access[g].mode
           /\ access'[g].live = access[g].live
           /\ g # h.message.grant => access'[g] = access[g]
           /\ g = h.message.grant /\ Numbered(h) => access'[g].next = access[g].next + 1
           /\ ~Numbered(h) => access'[g] = access[g]
  BY <1>1, NumbersDomain
<1>4. ~Asked(t)' /\ ~Accepted(k) /\ ~Asks(k, t)
  BY <1>1, <1>2 DEF Asked, Asks, Accepted
<1>5. \A a \in Msgs(back'[t]) : a \in Told(t)
  BY <1>1 DEF Told
<1>6. CASE h.from # t
  <2>1. AccessKept(t)
    <3> SUFFICES ASSUME NEW g \in DOMAIN access, Names(t, g) \/ Given(t, g)
                 PROVE  /\ access'[g].next = access[g].next
                        /\ access'[g].mode = access[g].mode
                        /\ access'[g].live => access[g].live
      BY DEF AccessKept
    <3>1. g \in Grant
      BY KnownGrants
    <3>2. g # h.message.grant
      <4> SUFFICES ASSUME g = h.message.grant PROVE FALSE
        OBVIOUS
      <4>1. Names(h.from, g)
        BY DEF Names
      <4> QED BY <1>2, <1>6, <3>1, <4>1 DEF OwnerInv
    <3> QED BY <1>3, <3>2
  <2>2. ~Asked(t)
    BY <1>2, <1>6 DEF Asked, Asks
  <2>3. \A j \in handling' : j.from # t
    BY <1>1, <1>2, <1>6
  <2> QED BY <1>1, <1>4, <1>5, <2>1, <2>2, <2>3, OrderQuiet
<1>7. CASE h.from = t
  <2> DEFINE c == companion.grant
  <2>1. companion.phase = "ready"
    BY <1>1, <1>7 DEF Order, Begins
  <2>2. Proceeds(t) /\ h.message.grant = c /\ c \in DOMAIN access
    BY <1>1, <1>7, <2>1, OursGrants DEF Order, Proceeds
  <2>3. Serves(t)' <=> Serves(t)
    BY <1>1, <1>3, <2>2 DEF Serves
  <2>4. ASSUME Serves(t), Counts(t) PROVE Counts(t)'
    <3>1. Asks(h, t) /\ Asked(t)
      BY <1>1, <1>2, <1>7 DEF Asks, Asked
    <3>2. h.message.sequence = access[c].next
      BY <1>1, <1>2, <1>7, <2>4 DEF Counts
    <3>3. access[c].live /\ access[c].session = session /\ access[c].mode = h.message.mode
      BY <1>2, <1>7, <2>1, <2>2, <2>4 DEF Serves, GrantInv, Proceeds, Order
    <3>4. Numbered(h)
      BY <2>2, <3>2, <3>3 DEF Numbered
    <3>5. access'[c].next = access[c].next + 1 /\ access[c].next \in Nat
      BY <1>3, <2>1, <2>2, <3>4, OursGrants
    <3>6. Expected(t)' = Expected(t) /\ Expected(t) \in Nat
      <4>1. Expected(t) = access[c].next + 1
        BY <3>1 DEF Expected
      <4>2. Expected(t)' = access'[c].next + 0
        BY <1>1, <1>4 DEF Expected
      <4> QED BY <3>5, <4>1, <4>2
    <3>7. InLine(t)'
      BY <1>1, <2>4, <3>6, InLineNext DEF Counts
    <3>8. Waits(t)'
      BY <1>1, <2>4 DEF Counts, Waits
    <3>9. \A j \in handling' : j.from = t /\ j.message.kind = "request" =>
               IF j.verdict = "none" THEN j.message.sequence = access'[companion'.grant].next
               ELSE j.message.sequence < access'[companion'.grant].next
      <4>1. k.message.sequence < access'[c].next
        BY <1>2, <3>2, <3>5
      <4> QED BY <1>1, <1>2, <4>1
    <3>10. access'[companion'.grant].next \in Nat /\ Expected(t)' \in Nat
           /\ Expected(t)' >= Expected(t)
      BY <1>1, <3>5, <3>6
    <3> QED BY <1>5, <2>1, <2>4, <3>7, <3>8, <3>9, <3>10, CountsNext
  <2>5. Sent(t)' = Sent(t)
    BY <1>1 DEF Sent
  <2>6. Proceeds(t)'
    BY <1>1, <1>2, <1>3, <2>2, <2>3, <2>4, <2>5 DEF Proceeds
  <2>7. \A j \in handling' : j.from = t => j.message.mode = companion.mode
    BY <1>1, <1>2 DEF Order
  <2> QED BY <1>1, <2>1, <2>5, <2>6, <2>7 DEF Order
<1> QED BY <1>6, <1>7

LEMMA OrderWelcome ==
    ASSUME BaseInv, OwnerInv, GrantInv, NEW t \in Transport, Ours(t), Hello(t), Order(t), Welcome
    PROVE  Order(t)'
<1>1. PICK h \in handling, answers \in SUBSET Answer :
        /\ Accepted(h) /\ Replaced(h)
        /\ Answered(h.from, answers)
        /\ answers \subseteq {Ready(h), Snapshot, Rejected(0)}
        /\ handling' = {}
        /\ UNCHANGED <<access, wire, frames, companion>>
  BY WelcomeFacts DEF Accepted
<1>2. \A g \in Grant, v \in Transport :
        grants'[g] = v <=> \/ g = h.grant /\ v = h.from
                           \/ grants[g] = v /\ v # h.from
  BY <1>1, ReplacedFacts
<1>3. h.from \in Transport /\ handling = {h} /\ Given(h.from, h.grant) /\ h.grant \in Grant
  BY <1>1, PendingFields, KnownGrants DEF BaseInv
<1>4. AccessKept(t) /\ ~Asked(t)
  BY <1>1, <1>3 DEF AccessKept, Asked, Asks, Accepted
<1>5. companion.phase = "ready" /\ grants'[companion.grant] = t => grants[companion.grant] = t
  <2>1. companion.phase = "ready" =>
            companion.grant \in Grant /\ Names(t, companion.grant)
    BY OursGrants
  <2>2. ~(Given(t, h.grant) /\ Names(t, h.grant))
    BY <1>3 DEF OwnerInv
  <2> QED BY <1>2, <1>3, <2>1, <2>2
<1>6. ASSUME NEW a \in Msgs(back'[t])
      PROVE  a \in Told(t) \/ a.kind # "ready" \/ companion.phase = "ready" \/ Unused(a.grant)'
  <2>1. CASE h.from # t
    BY <1>1, <2>1 DEF Answered, Told
  <2>2. CASE h.from = t /\ companion.phase # "ready"
    <3>1. Unused(h.grant)
      BY <1>1, <2>2 DEF Order, Begins
    <3>2. a \in Told(t) \/ a \in {Ready(h), Snapshot, Rejected(0)}
      BY <1>1, <2>2 DEF Answered, Told
    <3>3. a \in Told(t) \/ a.kind # "ready" \/ a.grant = h.grant
      BY <3>2 DEF Ready, Snapshot, Rejected
    <3> QED BY <1>1, <3>1, <3>3 DEF Unused
  <2> QED BY <2>1, <2>2
<1>7. ASSUME NEW a \in Msgs(back'[t]), Settles(a)
      PROVE  a \in Told(t) \/ a.sequence = 0
  <2>1. a \in Told(t) \/ a \in {Ready(h), Snapshot, Rejected(0)}
    BY <1>1 DEF Answered, Told
  <2> QED BY <1>7, <2>1 DEF Ready, Snapshot, Rejected, Settles
<1>8. companion' = companion /\ wire'[t] = wire[t] /\ frames'[t] = frames[t]
  BY <1>1
<1> QED BY <1>1, <1>4, <1>5, <1>6, <1>7, <1>8, OrderQuiet

\* The companion becomes ready with a grant that is unused.
LEMMA OrderReady ==
    ASSUME BaseInv, OwnerInv, NEW t \in Transport, Ours(t), Hello(t), Order(t),
           companion.phase # "ready", companion'.phase = "ready",
           companion'.mode = companion.mode, companion'.sequence = companion.sequence,
           companion'.waiting = companion.waiting, companion'.chunking = companion.chunking,
           Unused(companion'.grant), UNCHANGED <<access, grants, handling, wire, frames>>,
           Msgs(back'[t]) \subseteq Told(t)
    PROVE  Order(t)'
<1>1. /\ Begins(t) /\ Sent(t)' = Sent(t) /\ Told(t)' \subseteq Told(t)
      /\ wire[t] \in Seq(Request) /\ frames[t] \in Seq(Request)
  BY DEF Order, Sent, Told, BaseInv, TypeInv
<1>2. ~Asked(t)' /\ \A h \in handling' : ~(h.from = t /\ h.message.kind = "request")
  BY <1>1 DEF Asked, Asks, Begins
<1>3. Expected(t)' = 1 + 0
  BY <1>2 DEF Expected, Unused
<1>4. companion'.sequence - Expected(t)' = 0
  BY <1>1, <1>3 DEF Begins
<1>5. Lined(wire'[t], 0, companion'.sequence)
  BY <1>1, LinedHellos DEF Begins, Sent
<1>6. frames'[t] = <<>>
  <2>1. Msgs(frames[t]) = {}
    BY <1>1 DEF Begins, Sent, BaseInv, BridgeInv
  <2>2. Lined(frames[t], 0, 1)
    BY <1>1, <2>1, LinedHellos
  <2> QED BY <1>1, <2>1, <2>2, LinedEmpty
<1>7. ~companion'.chunking /\ companion'.waiting = {}
  BY <1>1 DEF Begins
<1>8. InLine(t)'
  <2>1. Lined(wire'[t], companion'.sequence - Expected(t)', companion'.sequence)
    BY <1>4, <1>5
  <2> QED BY <1>6, <1>7, <2>1 DEF InLine, Lined
<1>9. Waits(t)'
  BY <1>7 DEF Waits
<1>10. \A a \in Told(t)' : Settles(a)' => a.sequence < Expected(t)'
  BY <1>1, <1>3 DEF Begins, Settles
<1>11. Counts(t)'
  BY <1>2, <1>8, <1>9, <1>10 DEF Counts
<1>12. Proceeds(t)'
  BY <1>1, <1>2, <1>7, <1>11 DEF Proceeds, Begins, Unused
<1> QED BY <1>1, <1>12 DEF Order

\* The companion hears that its request was done: of an uploader that sends no chunks it is
\* the last one, and nothing is on its way any more.
LEMMA OrderApplied ==
    ASSUME BaseInv, OwnerInv, NEW t \in Transport, Ours(t), Hello(t), Order(t),
           UNCHANGED <<access, grants, handling, wire, frames>>, Msgs(back'[t]) \subseteq Told(t),
           NEW m \in Told(t), Settles(m),
           Settled(m.sequence),
           \/ companion'.chunking = companion.chunking
           \/ m.sequence \in companion.waiting /\ companion'.chunking = (companion.mode = "upload")
    PROVE  Order(t)'
<1> DEFINE n == m.sequence
           top == companion.sequence
<1>1. companion \in Companion
  BY DEF BaseInv, TypeInv
<1>2. /\ companion'.phase = companion.phase /\ companion'.mode = companion.mode
      /\ companion'.grant = companion.grant /\ companion'.sequence = companion.sequence
      /\ companion'.slipped = companion.slipped /\ companion'.waiting = companion.waiting \ {n}
  BY <1>1 DEF Settled, Companion
<1>3. companion.phase # "ready" => companion.waiting = {} /\ ~companion.chunking
  BY DEF Order, Begins
<1>4. companion.chunking => companion.mode = "upload"
  BY <1>3 DEF Order, Proceeds
<1>5. /\ companion.phase # "ready" => companion'.chunking = companion.chunking
      /\ companion'.chunking => companion.mode = "upload"
      /\ companion.chunking => companion'.chunking
  BY <1>3, <1>4
<1>6. ASSUME companion.phase = "ready", Counts(t)
      PROVE  InLine(t)' /\ Waits(t)'
  <2>1. Expected(t)' = Expected(t)
    BY <1>2 DEF Expected, Asked, Asks
  <2>2. Expected(t) \in Nat /\ top \in Nat /\ n \in Nat
    <3>1. Expected(t) \in Nat
      <4>1. access[companion.grant].next \in Nat
        BY <1>6, OursGrants
      <4> QED BY <4>1 DEF Expected
    <3>2. top \in Nat
      BY <1>1 DEF Companion
    <3>3. back[t] \in Seq(Answer)
      BY DEF BaseInv, TypeInv
    <3>4. m \in Answer
      BY <3>3, MsgsMember DEF Told
    <3> QED BY <3>1, <3>2, <3>4, HandshakeAssumption DEF Answer, Sequence
  <2>3. n < Expected(t)
    BY <1>6 DEF Counts
  <2>4. /\ InLine(t) /\ Waits(t) /\ wire[t] \in Seq(Request) /\ frames[t] \in Seq(Request)
    BY <1>6 DEF Counts, BaseInv, TypeInv
  <2>5. CASE companion.chunking
    <3>1. InLine(t)'
      BY <1>2, <1>5, <2>1, <2>4, <2>5, InLineNext
    <3>2. ASSUME NEW f \in Msgs(frames'[t]) PROVE f.sequence \in companion'.waiting
      <4>1. f \in Msgs(frames[t]) /\ f.sequence \in companion.waiting
        BY <2>4, <2>5 DEF Waits
      <4>2. Lined(frames[t], top - Expected(t), top)
        BY <2>4, <2>5 DEF InLine
      <4>3. f.kind = "request" /\ f.sequence \in Nat
        <5>1. f \in Request
          BY <2>4, <4>1, MsgsMember
        <5> QED BY <4>1, <5>1, HandshakeAssumption DEF BaseInv, BridgeInv, Request, Sequence
      <4>4. f.sequence >= Expected(t)
        BY <2>2, <2>4, <4>1, <4>2, <4>3, LinedAbove
      <4>5. f.sequence # n
        BY <2>2, <2>3, <4>3, <4>4
      <4> QED BY <1>2, <4>1, <4>5
    <3>3. Waits(t)'
      BY <1>5, <2>5, <3>2 DEF Waits
    <3> QED BY <3>1, <3>3
  <2>6. CASE ~companion.chunking /\ ~companion'.chunking
    <3>1. InLine(t)'
      <4>1. companion.chunking \in BOOLEAN /\ companion'.chunking \in BOOLEAN
        BY <1>1 DEF Settled, Companion
      <4>2. companion'.chunking = companion.chunking
        BY <2>6, <4>1
      <4> QED BY <1>2, <2>1, <2>4, <4>2, InLineNext
    <3>2. Waits(t)'
      BY <1>2, <2>4, <2>6 DEF Waits
    <3> QED BY <3>1, <3>2
  <2>7. CASE ~companion.chunking /\ companion'.chunking
    <3>1. n \in companion.waiting /\ companion.mode = "upload"
      BY <1>5, <2>7
    <3>2. n = top - 1
      BY <2>4, <2>7, <3>1 DEF Waits
    <3>3. Lined(wire[t], top - Expected(t), top) /\ frames[t] = <<>>
      BY <2>4, <2>7 DEF InLine
    <3>4. top - Expected(t) = 0
      <4>1. top - Expected(t) \in Nat
        BY <3>3 DEF Lined
      <4> QED BY <2>2, <2>3, <3>2, <4>1
    <3>5. Lined(frames'[t], 0, top)
      <4>1. \A f \in Msgs(frames[t]) : f.kind = "hello"
        BY <3>3, MsgsFew
      <4>2. Lined(frames[t], 0, top)
        BY <2>4, <4>1, LinedHellos
      <4> QED BY <4>2 DEF Lined
    <3>6. InLine(t)'
      <4>1. /\ Lined(wire'[t], 0, companion'.sequence)
            /\ Lined(frames'[t], companion'.sequence - Expected(t)', companion'.sequence)
        BY <1>2, <2>1, <3>3, <3>4, <3>5
      <4> QED BY <2>7, <4>1 DEF InLine, Lined
    <3>7. Waits(t)'
      BY <2>7, <3>3, MsgsFew DEF Waits
    <3> QED BY <3>6, <3>7
  <2> QED BY <2>5, <2>6, <2>7
<1> QED BY <1>2, <1>5, <1>6, OrderSettle

LEMMA OrderReceive ==
    ASSUME BaseInv, OwnerInv, NEW t \in Transport, Ours(t), Ours(t)', Hello(t), Order(t),
           NEW u \in Transport, Receive(u)
    PROVE  Order(t)'
<1> DEFINE m == Head(back[u])
<1>1. /\ TakenOff(back, back', u, Answer)
      /\ UNCHANGED <<access, grants, handling, frames>>
      /\ \/ Current(u) /\ Received(m)
         \/ companion' = companion /\ wire' = wire
  BY ReceiveFacts
<1>2. /\ m \in Told(u) /\ \A v \in Transport : Msgs(back'[v]) \subseteq Told(v)
  BY <1>1 DEF TakenOff, Told
<1> HIDE DEF m
<1>3. companion \in Companion
  BY DEF BaseInv, TypeInv
<1>4. CASE companion' = companion /\ wire' = wire
  <2>1. AccessKept(t) /\ (Asked(t)' <=> Asked(t))
    BY <1>1 DEF AccessKept, Asked, Asks
  <2>2. wire'[t] = wire[t] /\ frames'[t] = frames[t] /\ \A a \in Msgs(back'[t]) : a \in Told(t)
    BY <1>1, <1>2, <1>4
  <2> QED BY <1>1, <1>4, <2>1, <2>2, OrderQuiet
<1>5. CASE Current(u) /\ Received(m)
  <2>1. u = t
    BY <1>5 DEF Current, Ours
  <2>2. CASE /\ m.kind = "ready" /\ companion.phase = "hello"
             /\ companion' = [companion EXCEPT !.grant = m.grant, !.phase = Opened[companion.mode]]
             /\ wire' = wire
    <3>1. /\ companion'.grant = m.grant /\ companion'.phase \in {"loading", "audio", "ready"}
          /\ companion'.mode = companion.mode /\ companion'.sequence = companion.sequence
          /\ companion'.waiting = companion.waiting /\ companion'.chunking = companion.chunking
      <4>1. Opened[companion.mode] \in {"loading", "audio", "ready"}
        BY <1>3 DEF Companion, Mode, Opened
      <4> QED BY <1>3, <2>2, <4>1 DEF Companion
    <3>2. Begins(t) /\ Unused(m.grant)
      BY <1>2, <2>1, <2>2 DEF Order, Begins
    <3>3. CASE companion'.phase = "ready"
      BY <1>1, <1>2, <2>2, <3>1, <3>2, <3>3, OrderReady
    <3>4. CASE companion'.phase # "ready"
      <4>1. \A g : (Unused(g)' <=> Unused(g)) /\ (Settles(g)' <=> Settles(g))
        BY <1>1, <3>1 DEF Unused, Settles
      <4>2. Sent(t)' = Sent(t) /\ Told(t)' \subseteq Told(t)
        BY <1>1, <1>2, <2>2 DEF Sent, Told
      <4>3. \A h : Accepted(h)' <=> Accepted(h)
        BY DEF Accepted
      <4>4. Begins(t)'
        BY <1>1, <3>1, <3>2, <4>1, <4>2, <4>3 DEF Begins
      <4> QED BY <1>1, <3>1, <3>4, <4>2, <4>4 DEF Order
    <3> QED BY <3>3, <3>4
  <2>3. CASE /\ companion.phase = "loading" /\ wire' = wire
             /\ companion' = [companion EXCEPT !.phase = "ready"]
    <3>1. /\ companion'.grant = companion.grant /\ companion'.phase = "ready"
          /\ companion'.mode = companion.mode /\ companion'.sequence = companion.sequence
          /\ companion'.waiting = companion.waiting /\ companion'.chunking = companion.chunking
      BY <1>3, <2>3 DEF Companion
    <3>2. Unused(companion.grant)
      BY <2>3 DEF Order, Begins
    <3> QED BY <1>1, <1>2, <2>3, <3>1, <3>2, OrderReady
  <2>4. CASE /\ m.kind \in {"applied", "rejected"} /\ Settled(m.sequence) /\ wire' = wire
             /\ \/ companion'.chunking = companion.chunking
                \/ /\ m.sequence \in companion.waiting
                   /\ companion'.chunking = (companion.mode = "upload")
    <3>1. Settles(m)
      BY <2>4 DEF Settles
    <3> QED BY <1>1, <1>2, <2>1, <2>4, <3>1, OrderApplied
  <2>5. CASE Leave
    <3>1. companion'.phase = "off"
      BY <2>5 DEF Leave, Off
    <3> QED BY <3>1 DEF Ours
  <2> QED BY <1>5, <2>2, <2>3, <2>4, <2>5 DEF Received
<1> QED BY <1>1, <1>4, <1>5

LEMMA OrderStep ==
    BaseInv /\ OwnerInv /\ GrantInv /\ HelloInv /\ OrderInv /\ [Next]_vars => OrderInv'
<1> SUFFICES ASSUME BaseInv, OwnerInv, GrantInv, HelloInv, OrderInv, [Next]_vars,
                    NEW t \in Transport, Ours(t)'
             PROVE  Order(t)'
  BY DEF OrderInv
<1>1. ASSUME NEW mode \in Mode, Connect(mode) PROVE Order(t)'
  BY <1>1, OrderConnect
<1>2. CASE ~\E mode \in Mode : Connect(mode)
  <2>1. Ours(t) /\ Hello(t) /\ Order(t) /\ ~Open /\ ~BeginStop /\ ~EndStop
    BY <1>2, OursBefore DEF HelloInv, OrderInv
  <2>2. companion \in Companion
    BY DEF BaseInv, TypeInv
  <2>3. CASE /\ frames'[t] = frames[t] /\ AccessKept(t)
             /\ UNCHANGED <<companion, grants, wire, back, handling>>
    <3>1. \A a \in Msgs(back'[t]) : a \in Told(t)
      BY <2>3 DEF Told
    <3>2. Asked(t)' <=> Asked(t)
      BY <2>3 DEF Asked, Asks
    <3> QED BY <2>1, <2>3, <3>1, <3>2, OrderQuiet
  <2>4. CASE /\ handling' = {} /\ ~Asked(t)
             /\ \A a \in Msgs(back'[t]) : a \in Told(t) \/ a.kind # "ready"
             /\ \A a \in Msgs(back'[t]) : a \in Told(t) \/ ~Settles(a) \/ a.sequence = 0 \/ Answers(a, t)
             /\ UNCHANGED <<access, grants, wire, frames, companion>>
    <3>1. AccessKept(t)
      BY <2>4 DEF AccessKept
    <3>2. wire'[t] = wire[t] /\ frames'[t] = frames[t]
      BY <2>4
    <3> QED BY <2>1, <2>4, <3>1, <3>2, OrderQuiet
  <2>5. ASSUME NEW mine \in BOOLEAN, NewSession(mine) PROVE Order(t)'
    <3>1. /\ UNCHANGED <<grants, wire, frames, back, handling, companion>>
          /\ access' = [g \in DOMAIN access |-> [access[g] EXCEPT !.live = FALSE]]
      BY <2>5 DEF NewSession
    <3>2. ASSUME NEW g \in DOMAIN access
          PROVE  /\ access'[g].next = access[g].next /\ access'[g].mode = access[g].mode
                 /\ ~access'[g].live
      <4>1. access[g] \in DaemonGrant
        BY KnownGrants
      <4>2. access'[g] = [access[g] EXCEPT !.live = FALSE]
        BY <3>1
      <4> QED BY <4>1, <4>2 DEF DaemonGrant
    <3>3. AccessKept(t)
      BY <3>2 DEF AccessKept
    <3> QED BY <2>3, <3>1, <3>3
  <2>6. ASSUME NEW u \in Transport, Handle(u) PROVE Order(t)'
    BY <2>1, <2>6, OrderHandle
  <2>7. ASSUME NEW u \in Transport, Receive(u) PROVE Order(t)'
    BY <2>1, <2>7, OrderReceive
  <2>8. CASE Verify
    BY <2>1, <2>8, OrderVerify
  <2>9. CASE Execute
    BY <2>1, <2>9, OrderExecute
  <2>10. CASE Welcome
    BY <2>1, <2>10, OrderWelcome
  <2>11. CASE Acknowledge
    <3>1. PICK h \in handling :
            /\ h.message.kind = "request" /\ h.verdict = "yes"
            /\ Acknowledged(h) /\ handling' = {}
            /\ UNCHANGED <<access, grants, wire, frames, companion>>
      BY <2>11, AcknowledgeSteps
    <3>2. ASSUME NEW a \in Msgs(back'[t])
          PROVE  /\ a \in Told(t) \/ a.kind # "ready"
                 /\ a \in Told(t) \/ ~Settles(a) \/ a.sequence = 0 \/ Answers(a, t)
      <4>1. a \in Told(t) \/ a = Snapshot \/ (h.from = t /\ a = Applied(h.message.sequence))
        BY <3>1 DEF Acknowledged, Told
      <4>2. Snapshot.kind = "snapshot"
        BY DEF Snapshot
      <4>3. CASE h.from = t /\ a = Applied(h.message.sequence)
        <5>1. a.kind = "applied" /\ a.sequence = h.message.sequence
          BY <4>3 DEF Applied
        <5>2. Answers(a, t)
          BY <3>1, <4>3, <5>1 DEF Answers
        <5> QED BY <5>1, <5>2
      <4> QED BY <4>1, <4>2, <4>3 DEF Settles
    <3>3. ~Asked(t)
      BY <3>1, PendingFields DEF BaseInv, Asked, Asks
    <3> QED BY <2>4, <3>1, <3>2, <3>3
  <2>12. CASE Refuse
    <3>1. PICK h \in handling :
            /\ h.verdict = "no"
            /\ Answered(h.from, {Rejected(h.message.sequence)}) /\ handling' = {}
            /\ UNCHANGED <<access, grants, wire, frames, companion>>
      BY <2>12, RefuseFacts
    <3>2. h.message.kind = "request" <=> h.message.sequence # 0
      BY <3>1 DEF BaseInv, BridgeInv
    <3>3. ASSUME NEW a \in Msgs(back'[t])
          PROVE  /\ a \in Told(t) \/ a.kind # "ready"
                 /\ a \in Told(t) \/ ~Settles(a) \/ a.sequence = 0 \/ Answers(a, t)
      <4>1. a \in Told(t) \/ (h.from = t /\ a = Rejected(h.message.sequence))
        BY <3>1 DEF Answered, Told
      <4>2. CASE h.from = t /\ a = Rejected(h.message.sequence)
        <5>1. a.kind = "rejected" /\ a.sequence = h.message.sequence
          BY <4>2 DEF Rejected
        <5>2. h.message.kind = "request" => Answers(a, t)
          BY <3>1, <4>2, <5>1 DEF Answers
        <5> QED BY <3>2, <5>1, <5>2
      <4> QED BY <4>1, <4>2
    <3>4. ~Asked(t)
      BY <3>1, PendingFields DEF BaseInv, Asked, Asks
    <3> QED BY <2>4, <3>1, <3>3, <3>4
  <2>13. CASE SendHello
    BY <2>1, <2>13, OrderSendHello
  <2>14. CASE SendRequest
    BY <2>1, <2>14, OrderSendRequest
  <2>15. CASE RequestTimeout
    <3>1. PICK n \in companion.waiting :
            companion' = [companion EXCEPT !.waiting = @ \ {n}, !.slipped = @ \/ companion.chunking]
      BY <2>15 DEF RequestTimeout
    <3>2. /\ companion'.phase = companion.phase /\ companion'.mode = companion.mode
          /\ companion'.grant = companion.grant /\ companion'.sequence = companion.sequence
          /\ companion'.chunking = companion.chunking /\ companion'.waiting = companion.waiting \ {n}
          /\ companion'.slipped = (companion.slipped \/ companion.chunking)
      BY <2>2, <3>1 DEF Companion
    <3>3. UNCHANGED <<access, grants, wire, frames, back, handling>>
      BY <2>15 DEF RequestTimeout, bridgeVars, daemonVars
    <3>4. CASE companion.chunking
      <4>1. companion.phase = "ready"
        BY <2>1, <3>4 DEF Order, Begins
      <4>2. Sent(t)' = Sent(t)
        BY <3>3 DEF Sent
      <4> QED BY <2>1, <3>2, <3>3, <3>4, <4>1, <4>2, OrderSlip
    <3>5. CASE ~companion.chunking
      <4>1. Expected(t)' = Expected(t)
        BY <3>2, <3>3 DEF Expected, Asked, Asks
      <4>2. Counts(t) => InLine(t)' /\ Waits(t)'
        <5> SUFFICES ASSUME Counts(t) PROVE InLine(t)' /\ Waits(t)'
          OBVIOUS
        <5>1. InLine(t)'
          BY <3>2, <3>3, <4>1, InLineNext DEF Counts
        <5>2. Waits(t)'
          BY <3>2, <3>3, <3>5 DEF Counts, Waits
        <5> QED BY <5>1, <5>2
      <4>3. companion'.slipped = companion.slipped
        BY <2>2, <3>2, <3>5 DEF Companion
      <4>4. Msgs(back'[t]) \subseteq Told(t)
        BY <3>3 DEF Told
      <4> QED BY <2>1, <3>2, <3>3, <3>5, <4>2, <4>3, <4>4, OrderSettle
    <3> QED BY <3>4, <3>5
  <2>18. ASSUME NEW u \in Transport, HandleFrame(u) PROVE Order(t)'
    BY <2>1, <2>18, OrderHandleFrame
  <2>19. CASE SendChunk
    BY <2>1, <2>19, OrderSendChunk
  <2>20. CASE AudioConnected
    <3>1. /\ companion.phase = "audio" /\ companion' = [companion EXCEPT !.phase = "ready"]
          /\ UNCHANGED <<access, grants, wire, frames, back, handling>>
      BY <2>20 DEF AudioConnected, bridgeVars, daemonVars
    <3>2. /\ companion'.grant = companion.grant /\ companion'.phase = "ready"
          /\ companion'.mode = companion.mode /\ companion'.sequence = companion.sequence
          /\ companion'.waiting = companion.waiting /\ companion'.chunking = companion.chunking
      BY <2>2, <3>1 DEF Companion
    <3>3. Unused(companion.grant)
      BY <2>1, <3>1 DEF Order, Begins
    <3> QED BY <2>1, <3>1, <3>2, <3>3, OrderReady DEF Told
  <2>21. ASSUME NEW u \in Transport, LoseFrames(u) PROVE Order(t)'
    <3>1. /\ frames[u] # <<>> /\ Msgs(frames'[u]) = {}
          /\ \A v \in Transport : v # u => frames'[v] = frames[v]
          /\ companion' = [companion EXCEPT !.slipped = companion.slipped \/ Current(u)]
          /\ UNCHANGED <<access, grants, wire, back, handling>>
      BY <2>21, LoseFacts
    <3>2. CASE u # t
      <4>1. ~Current(u)
        BY <2>1, <3>2 DEF Current, Ours
      <4>2. companion' = companion
        BY <2>2, <3>1, <4>1 DEF Companion
      <4>3. AccessKept(t)
        BY <3>1 DEF AccessKept
      <4> QED BY <2>3, <3>1, <3>2, <4>2, <4>3
    <3>3. CASE u = t
      <4>1. Current(u)
        BY <2>1, <3>3 DEF Current, Ours
      <4>2. /\ companion'.slipped /\ companion'.phase = companion.phase
            /\ companion'.mode = companion.mode /\ companion'.grant = companion.grant
            /\ companion'.chunking = companion.chunking
        BY <2>2, <3>1, <4>1 DEF Companion
      <4>3. companion.phase = "ready"
        <5>1. PICK m \in Msgs(frames[t]) : TRUE
          <6>1. frames[t] \in Seq(Request)
            BY DEF BaseInv, TypeInv
          <6> QED BY <3>1, <3>3, <6>1, MsgsTail
        <5>2. m \in Sent(t) /\ m.kind = "request"
          BY <5>1 DEF Sent, BaseInv, BridgeInv
        <5> QED BY <2>1, <5>2 DEF Order, Begins
      <4>4. Sent(t)' \subseteq Sent(t)
        BY <3>1, <3>3 DEF Sent
      <4> QED BY <2>1, <3>1, <4>2, <4>3, <4>4, OrderSlip
    <3> QED BY <3>2, <3>3
  <2>16. CASE Disconnect
    <3>1. companion'.phase = "off"
      BY <2>16 DEF Disconnect, Leave, Off
    <3> QED BY <3>1 DEF Ours
  <2>17. CASE UNCHANGED vars
    <3>1. UNCHANGED <<access, grants, wire, frames, back, handling, companion>>
      BY <2>17 DEF vars, bridgeVars, daemonVars
    <3>2. AccessKept(t)
      BY <3>1 DEF AccessKept
    <3> QED BY <2>3, <3>1, <3>2
  <2> QED
    BY <1>2, <2>1, <2>5, <2>6, <2>7, <2>8, <2>9, <2>10, <2>11, <2>12, <2>13, <2>14, <2>15,
       <2>16, <2>17, <2>18, <2>19, <2>20, <2>21 DEF Next
<1> QED BY <1>1, <1>2

\* While bridge and daemon know the grant and no chunk slipped, the requests on their way
\* from the companion are on one channel, numbered one after the other, and the first has
\* the number the daemon expects.
THEOREM OrderInvariant == Spec => []OrderInv
<1>1. Init => OrderInv
  BY DEF Init, Off, OrderInv, Ours
<1>2. BaseInv /\ OwnerInv /\ GrantInv /\ HelloInv /\ OrderInv /\ [Next]_vars => OrderInv'
  BY OrderStep
<1> QED BY <1>1, <1>2, BaseInvariant, OwnerInvariant, GrantInvariant, HelloInvariant, PTL DEF Spec

\* Refused requests, refused chunks and timeouts of requests do not put the companion and
\* the daemon out of step: once nothing is on its way on either channel the number the
\* companion uses next is the one the daemon expects, unless a chunk was not sent, was
\* lost or timed out.
THEOREM NumbersStayInStep == Spec => []InStep
<1>1. BaseInv /\ OwnerInv /\ HelloInv /\ OrderInv => InStep
  <2> SUFFICES ASSUME BaseInv, OwnerInv, HelloInv, OrderInv,
                      companion.phase = "ready", served = companion.session,
                      grants[companion.grant] = companion.transport,
                      access[companion.grant].live,
                      wire[companion.transport] = <<>>, frames[companion.transport] = <<>>,
                      handling = {}, ~companion.slipped
               PROVE  access[companion.grant].next = companion.sequence
    BY DEF InStep
  <2> DEFINE t == companion.transport
             e == access[companion.grant].next
  <2>1. t \in Transport /\ Ours(t)
    BY DEF BaseInv, TypeInv, Ours
  <2>2. Hello(t) /\ Order(t)
    BY <2>1 DEF HelloInv, OrderInv
  <2>3. Counts(t) /\ ~Asked(t)
    BY <2>2 DEF Order, Proceeds, Serves, Asked
  <2>4. e \in Nat /\ companion.sequence \in Nat
    <3>1. e \in Nat
      BY <2>1, <2>2, OursGrants
    <3>2. companion.sequence \in Nat
      BY DEF BaseInv, TypeInv, Companion
    <3> QED BY <3>1, <3>2
  <2>5. Expected(t) = e + 0
    BY <2>3 DEF Expected
  <2>6. companion.sequence - Expected(t) \in 0..0
    BY <2>3 DEF Counts, InLine, Lined
  <2> HIDE DEF e
  <2> QED BY <2>4, <2>5, <2>6 DEF e
<1> QED BY <1>1, BaseInvariant, OwnerInvariant, HelloInvariant, OrderInvariant, PTL
=============================================================================
