---------------------------- MODULE RemoteHandshake ----------------------------
(***************************************************************************)
(* A companion, the host bridge and the daemon (vdo.ts: HostBroadcastBridge*)
(* start, stop, handleDiscovery, handleControl, handleBinaryUpload,        *)
(* authenticatedGrant; CompanionBridge connectAttempt, sendHello,          *)
(* handleControlMessage, sendRequest, sendUploadChunk, disconnect;         *)
(* server.rs: remote_verify, remote_action).                               *)
(*                                                                         *)
(* The companion opens one connection after the other, each with a         *)
(* transport of its own.  It says hello until the host is ready, gets a    *)
(* grant, and sends numbered requests; the chunks of an upload take their  *)
(* numbers from the same count and a second channel to the bridge.  The    *)
(* bridge handles one message at a time, of either channel, and waits for  *)
(* the daemon in the middle of it; a stop of the bridge waits for that     *)
(* message.  A channel keeps its messages in order and may lose the last   *)
(* ones when it closes.                                                    *)
(***************************************************************************)
EXTENDS Integers, Sequences, FiniteSets

CONSTANTS
    MaxConnection,   \* bound on the connections the companion makes
    MaxHello,        \* bound on the hellos of a connection (one a second for 12 s)
    MaxSequence,     \* bound on the requests of a connection
    MaxAction,       \* bound on the actions of a controller's connection
    MaxSession,      \* bound on the broadcast sessions
    MaxGrant         \* bound on the grants the daemon makes

ASSUME HandshakeAssumption ==
    {MaxConnection, MaxHello, MaxSequence, MaxAction, MaxSession, MaxGrant} \subseteq Nat \ {0}

Transport == 1..MaxConnection
Session == 1..MaxSession
Grant == 1..MaxGrant
Sequence == 1..MaxSequence
Mode == {"listen", "control", "upload"}

Request == [kind : {"hello", "goodbye", "request"}, session : Session, mode : Mode,
            grant : Grant \cup {0}, sequence : Sequence \cup {0}]
DaemonGrant == [session : Session, mode : Mode, live : BOOLEAN, next : 1..(MaxSequence + 1)]
Answer == [kind : {"ready", "snapshot", "applied", "rejected"}, grant : Grant \cup {0},
           sequence : Sequence \cup {0}]

VARIABLES
    session,    \* the daemon's active session, or 0
    access,     \* the grants the daemon made, in order
    bridge,     \* the host's bridge: phase, session of its transports
    served,     \* this.session of the bridge, or 0
    grants,     \* the bridge's grants: the transport of each, or 0
    latest,     \* latestGrantByTransport, or 0
    handling,   \* {} or the message being handled, with the daemon's verdict
    wire,       \* companion to bridge, by transport: the control channel
    frames,     \* companion to bridge, by transport: the channel of upload chunks
    back,       \* bridge to companion, by transport
    companion,  \* the companion's side of its current connection
    executed,   \* observation: <<transport, sequence>> of what the daemon did
    confirmed   \* observation: ... and of what the companion was told was done

daemonVars == <<session, access, executed>>
bridgeVars == <<bridge, served, grants, latest, handling>>
vars == <<daemonVars, bridgeVars, wire, frames, back, companion, confirmed>>
-----------------------------------------------------------------------------
\* chunking: the last request over the control channel was answered, so chunks may
\* follow.  Observed: slipped, a chunk was not sent, lost, or given up.
Off(t) == [phase |-> "off", transport |-> t, session |-> 1, mode |-> "control",
           hellos |-> 0, grant |-> 0, sequence |-> 1, waiting |-> {},
           chunking |-> FALSE, slipped |-> FALSE]

NoGrants == [g \in Grant |-> 0]

Init ==
    /\ session = 0
    /\ access = <<>>
    /\ bridge = [phase |-> "down", session |-> 0]
    /\ served = 0
    /\ grants = NoGrants
    /\ latest = [t \in Transport |-> 0]
    /\ handling = {}
    /\ wire = [t \in Transport |-> <<>>]
    /\ frames = [t \in Transport |-> <<>>]
    /\ back = [t \in Transport |-> <<>>]
    /\ companion = Off(0)
    /\ executed = {}
    /\ confirmed = {}

-----------------------------------------------------------------------------
(* The host starts, loses and stops its broadcast. *)

\* A session begins at the daemon, for this window or for another one; it ends the
\* one before, whose grants are dropped (as a stop of the session would).
NewSession(mine) ==
    /\ session < MaxSession
    /\ session' = session + 1
    /\ access' = [g \in DOMAIN access |-> [access[g] EXCEPT !.live = FALSE]]
    /\ IF mine
       THEN /\ bridge.phase = "down"
            /\ bridge' = [phase |-> "opening", session |-> session']
       ELSE UNCHANGED bridge
    /\ UNCHANGED <<served, grants, latest, handling, wire, frames, back, companion,
                   executed, confirmed>>

\* start: a stop, of which only the clearing has something to do here, then the
\* transports of the new session.
Open ==
    /\ bridge.phase = "opening"
    /\ bridge' = [bridge EXCEPT !.phase = "up"]
    /\ served' = bridge.session
    /\ grants' = NoGrants
    /\ latest' = [t \in Transport |-> 0]
    /\ UNCHANGED <<daemonVars, handling, wire, frames, back, companion, confirmed>>

\* stop, up to its wait for the message being handled ...
BeginStop ==
    /\ bridge.phase = "up"
    /\ bridge' = [bridge EXCEPT !.phase = "stopping"]
    /\ served' = 0
    /\ grants' = NoGrants
    /\ latest' = [t \in Transport |-> 0]
    /\ UNCHANGED <<daemonVars, handling, wire, frames, back, companion, confirmed>>

\* Mutant: stop does not wait for the control queue.
EndStopAtOnce ==
    /\ bridge.phase = "stopping"
    /\ bridge' = [phase |-> "down", session |-> 0]
    /\ wire' = [t \in Transport |-> <<>>]
    /\ frames' = [t \in Transport |-> <<>>]
    /\ UNCHANGED <<daemonVars, served, grants, latest, handling, back, companion, confirmed>>

\* ... and from there: the transports are closed and what is on its way is lost.
EndStop ==
    /\ bridge.phase = "stopping"
    /\ handling = {}
    /\ bridge' = [phase |-> "down", session |-> 0]
    /\ wire' = [t \in Transport |-> <<>>]
    /\ frames' = [t \in Transport |-> <<>>]
    /\ UNCHANGED <<daemonVars, served, grants, latest, handling, back, companion, confirmed>>

-----------------------------------------------------------------------------
(* The bridge handles control messages. *)

Rejected(n) == [kind |-> "rejected", grant |-> 0, sequence |-> n]
Snapshot == [kind |-> "snapshot", grant |-> 0, sequence |-> 0]

Reply(t, answers) == back' = [back EXCEPT ![t] = @ \o answers]

\* authenticatedGrant: the grant the message names is known for its transport.
Authenticated(t, m) == m.grant # 0 /\ grants[m.grant] = t

\* The next message of the queue.  Without a session it is dropped; a hello and a
\* request that is authenticated wait for the daemon; a goodbye is done at once.
Handle(t) ==
    LET m == Head(wire[t]) IN
    /\ handling = {}
    /\ bridge.phase \in {"up", "stopping"}
    /\ wire[t] # <<>>
    /\ wire' = [wire EXCEPT ![t] = Tail(@)]
    /\ \/ /\ served = 0
          /\ UNCHANGED <<handling, grants, latest, back>>
       \/ /\ served # 0
          /\ m.kind = "hello" \/ (m.kind = "request" /\ Authenticated(t, m))
          /\ handling' = {[from |-> t, message |-> m, verdict |-> "none", grant |-> 0]}
          /\ UNCHANGED <<grants, latest, back>>
       \/ /\ served # 0
          /\ m.kind = "goodbye" /\ Authenticated(t, m)
          /\ grants' = [grants EXCEPT ![m.grant] = 0]
          /\ latest' = [latest EXCEPT ![t] = IF @ = m.grant THEN 0 ELSE @]
          /\ UNCHANGED <<handling, back>>
       \/ /\ served # 0
          /\ m.kind # "hello" /\ ~Authenticated(t, m)
          /\ Reply(t, <<Rejected(m.sequence)>>)
          /\ UNCHANGED <<handling, grants, latest>>
    /\ UNCHANGED <<daemonVars, bridge, served, frames, companion, confirmed>>

\* handleBinaryUpload, from the same queue: a chunk is a request; without a session
\* it is answered.  The answers of both channels share `back`: the companion looks
\* the number up, whichever comes first.
HandleFrame(t) ==
    LET m == Head(frames[t]) IN
    /\ handling = {}
    /\ bridge.phase \in {"up", "stopping"}
    /\ frames[t] # <<>>
    /\ frames' = [frames EXCEPT ![t] = Tail(@)]
    /\ \/ /\ served # 0 /\ Authenticated(t, m)
          /\ handling' = {[from |-> t, message |-> m, verdict |-> "none", grant |-> 0]}
          /\ UNCHANGED back
       \/ /\ served = 0 \/ ~Authenticated(t, m)
          /\ Reply(t, <<Rejected(m.sequence)>>)
          /\ UNCHANGED handling
    /\ UNCHANGED <<daemonVars, bridge, served, grants, latest, wire, companion, confirmed>>

\* Mutant: numbers from zero.
FreshFromZero(m) == [session |-> session, mode |-> m.mode, live |-> TRUE, next |-> 0]

Fresh(m) == [session |-> session, mode |-> m.mode, live |-> TRUE, next |-> 1]

\* remote_verify at the daemon (BroadcastGrants has its critical sections): the
\* hello's session must be the active one; each call makes a grant.
Verify ==
    \E h \in handling :
        /\ h.message.kind = "hello" /\ h.verdict = "none"
        /\ \/ /\ h.message.session = session
              /\ Len(access) < MaxGrant
              /\ access' = Append(access, Fresh(h.message))
              /\ handling' = {[h EXCEPT !.verdict = "yes", !.grant = Len(access')]}
           \/ /\ h.message.session # session
              /\ handling' = {[h EXCEPT !.verdict = "no"]}
              /\ UNCHANGED access
        /\ UNCHANGED <<session, executed, bridge, served, grants, latest, wire,
                       frames, back, companion, confirmed>>

Numbered(h) ==
    LET a == access[h.message.grant]
    IN  /\ a.live /\ a.session = session
        /\ a.mode = h.message.mode
        /\ a.next = h.message.sequence

\* Mutant: a request that fails gives its number back.
ExecuteRefunding ==
    \E h \in handling, ok \in BOOLEAN :
        /\ h.message.kind = "request" /\ h.verdict = "none"
        /\ LET passes == Numbered(h) /\ ok
           IN  /\ access' = IF passes THEN [access EXCEPT ![h.message.grant].next = @ + 1]
                                      ELSE access
               /\ executed' = IF passes
                              THEN executed \cup {<<h.from, h.message.sequence>>}
                              ELSE executed
               /\ handling' = {[h EXCEPT !.verdict = IF passes THEN "yes" ELSE "no"]}
        /\ UNCHANGED <<session, bridge, served, grants, latest, wire, frames, back,
                       companion, confirmed>>

\* remote_action and remote_upload at the daemon: authorize_remote_grant takes the
\* number, whether the operation then succeeds or not.
Execute ==
    \E h \in handling, ok \in BOOLEAN :
        /\ h.message.kind = "request" /\ h.verdict = "none"
        /\ access' = IF Numbered(h) THEN [access EXCEPT ![h.message.grant].next = @ + 1]
                                    ELSE access
        /\ LET done == Numbered(h) /\ ok
           IN  /\ executed' = IF done THEN executed \cup {<<h.from, h.message.sequence>>}
                                      ELSE executed
               /\ handling' = {[h EXCEPT !.verdict = IF done THEN "yes" ELSE "no"]}
        /\ UNCHANGED <<session, bridge, served, grants, latest, wire, frames, back,
                       companion, confirmed>>

Ready(h) == [kind |-> "ready", grant |-> h.grant, sequence |-> 0]

\* The daemon accepted a hello: the new grant replaces the one the transport had;
\* the answer carries the audio route, but for an uploader, and is followed by the
\* library for a controller.  If the bridge was stopped meanwhile, reading that route
\* fails after the grant has been stored, and the companion is rejected.
Welcome ==
    \E h \in handling :
        /\ h.message.kind = "hello" /\ h.verdict = "yes"
        /\ grants' = [g \in Grant |-> IF g = h.grant THEN h.from
                                      ELSE IF g = latest[h.from] THEN 0 ELSE grants[g]]
        /\ latest' = [latest EXCEPT ![h.from] = h.grant]
        /\ Reply(h.from,
               IF h.message.mode # "upload" /\ served = 0 THEN <<Rejected(0)>>
               ELSE IF h.message.mode = "control" THEN <<Ready(h), Snapshot>>
               ELSE <<Ready(h)>>)
        /\ handling' = {}
        /\ UNCHANGED <<daemonVars, bridge, served, wire, frames, companion, confirmed>>

Applied(n) == [kind |-> "applied", grant |-> 0, sequence |-> n]

Controls(t) == \E g \in DOMAIN access : grants[g] = t /\ access[g].mode = "control"

\* The daemon did what a request asked: the acknowledgement, and for an action the
\* new snapshot to every controller that has a grant (SnapshotFeed has the others).
Acknowledge ==
    \E h \in handling :
        /\ h.message.kind = "request" /\ h.verdict = "yes"
        /\ back' = [t \in Transport |->
               back[t] \o (IF t = h.from THEN <<Applied(h.message.sequence)>> ELSE <<>>)
                       \o (IF h.message.mode = "control" /\ Controls(t)
                           THEN <<Snapshot>> ELSE <<>>)]
        /\ handling' = {}
        /\ UNCHANGED <<daemonVars, bridge, served, grants, latest, wire, frames, companion,
                       confirmed>>

\* The daemon refused.
Refuse ==
    \E h \in handling :
        /\ h.verdict = "no"
        /\ Reply(h.from, <<Rejected(h.message.sequence)>>)
        /\ handling' = {}
        /\ UNCHANGED <<daemonVars, bridge, served, grants, latest, wire, frames, companion,
                       confirmed>>

-----------------------------------------------------------------------------
(* The companion. *)

\* The page's data channel leads to a bridge.
Connected ==
    bridge.phase \in {"up", "stopping"} /\ bridge.session = companion.session

Message(kind) ==
    [kind |-> kind, session |-> companion.session, mode |-> companion.mode,
     grant |-> companion.grant,
     sequence |-> IF kind = "request" THEN companion.sequence ELSE 0]

Say(kind) == wire' = [wire EXCEPT ![companion.transport] = Append(@, Message(kind))]

\* The host answers a discovery only while its session is still the daemon's.
Discoverable == bridge.phase = "up" /\ served = session

\* The user chose a mode; the rendezvous answered with the private route.
Connect(mode) ==
    /\ companion.phase = "off"
    /\ companion.transport < MaxConnection
    /\ Discoverable
    /\ companion' = [Off(companion.transport + 1) EXCEPT
           !.phase = "hello", !.session = served, !.mode = mode]
    /\ UNCHANGED <<daemonVars, bridgeVars, wire, frames, back, confirmed>>

\* sendHello: the same message every second, until a "ready" has been taken.
SendHello ==
    /\ companion.phase = "hello"
    /\ companion.hellos < MaxHello
    /\ Connected
    /\ Say("hello")
    /\ companion' = [companion EXCEPT !.hellos = @ + 1]
    /\ UNCHANGED <<daemonVars, bridgeVars, frames, back, confirmed>>

\* connectAudio: a listener is ready once the audio plays.  When it fails the
\* companion stays as it is, until the 12 s are over.
AudioConnected ==
    /\ companion.phase = "audio"
    /\ companion' = [companion EXCEPT !.phase = "ready"]
    /\ UNCHANGED <<daemonVars, bridgeVars, wire, frames, back, confirmed>>

\* Bound: an uploader asks less after a second hello and on a second connection.
MayAsk ==
    /\ companion.phase = "ready"
    /\ companion.sequence <= MaxSequence
    /\ \/ companion.mode = "control" /\ companion.sequence <= MaxAction
       \/ /\ companion.mode = "upload"
          /\ companion.sequence + companion.hellos + 2 * companion.transport <= MaxSequence + 3

\* sendRequest: over the control channel the number moves on only when the message
\* could be sent.  A listener has nothing to ask; uploadBatch, of which one runs at a
\* time, awaits every request, and all its chunks before the next one.
SendRequest ==
    /\ MayAsk
    /\ companion.mode = "upload" => companion.waiting = {}
    /\ Connected
    /\ Say("request")
    /\ companion' = [companion EXCEPT !.sequence = @ + 1, !.waiting = @ \cup {companion.sequence},
                                     !.chunking = FALSE]
    /\ UNCHANGED <<daemonVars, bridgeVars, frames, back, confirmed>>

\* sendUploadChunk: the number moves on before the channel is looked at, and stays
\* moved when the chunk cannot be sent.
SendChunk ==
    /\ MayAsk
    /\ companion.chunking
    /\ \/ /\ Connected
          /\ frames' = [frames EXCEPT ![companion.transport] = Append(@, Message("request"))]
          /\ companion' = [companion EXCEPT !.sequence = @ + 1,
                                           !.waiting = @ \cup {companion.sequence}]
       \/ /\ companion' = [companion EXCEPT !.sequence = @ + 1, !.slipped = TRUE]
          /\ UNCHANGED frames
    /\ UNCHANGED <<daemonVars, bridgeVars, wire, back, confirmed>>

\* The laptop did not acknowledge in time.
RequestTimeout ==
    /\ \E n \in companion.waiting :
         companion' = [companion EXCEPT !.waiting = @ \ {n}, !.slipped = @ \/ companion.chunking]
    /\ UNCHANGED <<daemonVars, bridgeVars, wire, frames, back, confirmed>>

\* disconnect: a goodbye if there is a grant, everything reset; the last messages
\* of the connection may be lost.
Leave ==
    /\ companion' = Off(companion.transport)
    /\ IF Connected /\ companion.grant # 0
       THEN \/ Say("goodbye")
            \/ UNCHANGED wire
       ELSE UNCHANGED wire

\* The user leaves, or the laptop did not complete the authentication in 12 s.
Disconnect ==
    /\ companion.phase # "off"
    /\ Leave
    /\ UNCHANGED <<daemonVars, bridgeVars, frames, back, confirmed>>

\* Mutant: messages of an earlier connection count.
AnyTransport(t) == companion.phase # "off"

\* Only messages of the current connection count.
Current(t) == companion.phase # "off" /\ t = companion.transport

\* The channel of the chunks closes on its own; what was not handled is lost.
LoseFrames(t) ==
    /\ frames[t] # <<>>
    /\ frames' = [frames EXCEPT ![t] = <<>>]
    /\ companion' = [companion EXCEPT !.slipped = @ \/ Current(t)]
    /\ UNCHANGED <<daemonVars, bridgeVars, wire, back, confirmed>>

Opened == [control |-> "loading", listen |-> "audio", upload |-> "ready"]

\* handleControlMessage, handleBinaryUploadReply.  A second "ready" while a listener
\* connects to the audio finds no proof to compare with, and ends the connection.
Receive(t) ==
    /\ back[t] # <<>>
    /\ back' = [back EXCEPT ![t] = Tail(@)]
    /\ LET m == Head(back[t])
           n == m.sequence
       IN  \/ /\ Current(t) /\ m.kind = "ready" /\ companion.phase = "hello"
              /\ companion' = [companion EXCEPT !.grant = m.grant,
                                               !.phase = Opened[companion.mode]]
              /\ UNCHANGED <<wire, confirmed>>
           \/ /\ Current(t) /\ m.kind = "ready" /\ companion.phase = "audio"
              /\ Leave
              /\ UNCHANGED confirmed
           \/ /\ Current(t) /\ m.kind = "snapshot" /\ companion.phase = "loading"
              /\ companion' = [companion EXCEPT !.phase = "ready"]
              /\ UNCHANGED <<wire, confirmed>>
           \/ /\ Current(t) /\ m.kind = "applied" /\ n \in companion.waiting
              /\ companion' = [companion EXCEPT !.waiting = @ \ {n},
                                               !.chunking = companion.mode = "upload"]
              /\ confirmed' = confirmed \cup {<<companion.transport, n>>}
              /\ UNCHANGED wire
           \/ /\ Current(t) /\ m.kind = "rejected" /\ companion.phase = "ready"
              /\ companion' = [companion EXCEPT !.waiting = @ \ {n}]
              /\ UNCHANGED <<wire, confirmed>>
           \/ /\ Current(t) /\ m.kind = "rejected" /\ companion.phase # "ready"
              /\ Leave
              /\ UNCHANGED confirmed
           \/ /\ \/ ~Current(t)
                 \/ m.kind = "ready" /\ companion.phase \notin {"hello", "audio"}
                 \/ m.kind = "snapshot" /\ companion.phase # "loading"
                 \/ m.kind = "applied" /\ n \notin companion.waiting
              /\ UNCHANGED <<companion, wire, confirmed>>
    /\ UNCHANGED <<daemonVars, bridgeVars, frames>>

-----------------------------------------------------------------------------
Next ==
    \/ \E mine \in BOOLEAN : NewSession(mine)
    \/ Open
    \/ BeginStop
    \/ EndStop
    \/ \E t \in Transport : Handle(t) \/ HandleFrame(t) \/ LoseFrames(t) \/ Receive(t)
    \/ Verify
    \/ Execute
    \/ Welcome
    \/ Acknowledge
    \/ Refuse
    \/ \E mode \in Mode : Connect(mode)
    \/ SendHello
    \/ AudioConnected
    \/ SendRequest
    \/ SendChunk
    \/ RequestTimeout
    \/ Disconnect

Spec == Init /\ [][Next]_vars

-----------------------------------------------------------------------------
(* Properties. *)

Pending == [from : Transport, message : Request, verdict : {"none", "yes", "no"},
            grant : Grant \cup {0}]

TypeOK ==
    /\ session \in Session \cup {0}
    /\ access \in Seq(DaemonGrant)
    /\ bridge \in [phase : {"down", "opening", "up", "stopping"}, session : Session \cup {0}]
    /\ served \in Session \cup {0}
    /\ grants \in [Grant -> Transport \cup {0}]
    /\ latest \in [Transport -> Grant \cup {0}]
    /\ handling \subseteq Pending /\ Cardinality(handling) <= 1
    /\ {wire, frames} \subseteq [Transport -> Seq(Request)]
    /\ back \in [Transport -> Seq(Answer)]
    /\ companion.phase \in {"off", "hello", "loading", "audio", "ready"}
    /\ companion.transport \in Transport \cup {0}
    /\ companion.grant \in Grant \cup {0}
    /\ companion.waiting \subseteq Sequence
    /\ executed \subseteq Transport \X Sequence
    /\ confirmed \subseteq Transport \X Sequence

\* What a companion is told was applied was applied, by this request and not by the
\* one with the same number of an earlier connection, although numbers start again and
\* requests time out, and answers come late (docs/architecture.md:186, every action and
\* upload carries "a strictly increasing sequence").
ConfirmedWereExecuted == confirmed \subseteq executed

\* A bridge that serves a session knows grants of this session only: the verdict on a hello
\* that was being verified when the bridge was stopped does not survive the stop.
NoStaleGrants ==
    bridge.phase = "up" =>
        \A g \in Grant : grants[g] # 0 => access[g].session = served

\* A transport has one grant at the bridge, the latest; however hellos are repeated
\* and goodbyes come late (vdo.ts:408).
OneGrantPerTransport ==
    served # 0 =>
        \A g \in Grant, t \in Transport : grants[g] = t <=> latest[t] = g

\* The companion's next number is the daemon's, once its messages of both channels are
\* handled, as long as bridge and daemon know its grant: refused requests, timeouts of
\* requests and chunks that are refused do not put the two out of step.  A chunk that
\* is not sent, is lost or times out does, in an upload: every later request of the
\* grant is refused, the abort included.
InStep ==
    LET t == companion.transport
        g == companion.grant
    IN  /\ companion.phase = "ready" /\ served = companion.session
        /\ grants[g] = t /\ access[g].live
        /\ wire[t] = <<>> /\ frames[t] = <<>> /\ handling = {}
        /\ ~companion.slipped
        => access[g].next = companion.sequence

\* A companion that said hello once and is ready is known to the bridge as long as that
\* serves its session: nothing of an earlier connection, which had a transport of its
\* own, takes its grant away.
OneHelloOneGrant ==
    LET t == companion.transport
    IN  companion.phase = "ready" /\ companion.hellos = 1 /\ served = companion.session
        => grants[companion.grant] = t

\* Each grant the bridge serves is of its session, the only one of its transport, and
\* the one its companion has.
GrantsAgree == NoStaleGrants /\ OneGrantPerTransport /\ OneHelloOneGrant
=============================================================================
