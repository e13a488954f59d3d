--------------------------- MODULE BroadcastOwnership ---------------------------
(***************************************************************************)
(* Which host window keeps the broadcast: the starts, retries, transport   *)
(* recoveries and ownership polls of host.ts, in several windows over one  *)
(* authority, whose start replaces and whose stop ends whatever session    *)
(* there is.                                                               *)
(*                                                                         *)
(* A window is one thread; a step ends where its code awaits.  Its tasks   *)
(* run one after the other (host.ts: task); the poll runs beside them.     *)
(* Delays and the number of attempts are left out: a timer fires at any    *)
(* time after it was set, and a start gives up after any failed attempt.   *)
(***************************************************************************)
EXTENDS Naturals, Sequences, FiniteSets

CONSTANTS
    Window,
    Session,      \* more than are ever remembered at a time; a new one is taken
                  \* from those that nobody remembers
    MaxEvents,    \* bound on windows that are opened, clicked in or closed, and on
                  \* connections that fail or break
    None

Kind == {"auto", "recover", "restart", "start", "stop"}
Step == {"forget", "revoke all", "request", "connect", "check", "revoke"}
PollStage == {"asked", "gone", "other"}
Excuse == {"replaced", "gave up", "cut off"}

ASSUME OwnershipAssumption ==
    /\ MaxEvents \in Nat
    /\ IsFiniteSet(Window)
    /\ IsFiniteSet(Session) => Cardinality(Session) > 2 * Cardinality(Window) + 1
    /\ None \notin Session \cup Kind \cup Step \cup PollStage \cup Excuse

VARIABLES
    authority,   \* the session of the daemon
    page,        \* is a window closed, opening or open
    auto,        \* autoBroadcast, from the address of the page
    session,     \* broadcastSession: what the window shows as discoverable
    bridge,      \* the session its bridge serves, and whether it is connected yet
    task,        \* the task that runs
    waiting,     \* the tasks behind it
    timer,       \* automaticBroadcastRetryTimer is set
    recovering,  \* recoveringBroadcastTransport
    poll,        \* verifyBroadcastOwnership, under checkingBroadcastOwnership
    events,
    (* Observation only. *)
    excuse       \* why a window rests off the air: another one has replaced it, its
                 \* user's restart gave up, or a poll has cut off a bridge it did not
                 \* ask about

window == <<page, auto, session, bridge, task, waiting, timer, recovering, poll>>
vars == <<authority, window, events, excuse>>

NoBridge == [session |-> None, up |-> FALSE]
NoTask == [kind |-> None, step |-> None, mine |-> None]
NoPoll == [step |-> None, owned |-> None]

Init ==
    /\ authority = None
    /\ page = [w \in Window |-> "closed"]
    /\ auto = [w \in Window |-> TRUE]
    /\ session = [w \in Window |-> None]
    /\ bridge = [w \in Window |-> NoBridge]
    /\ task = [w \in Window |-> NoTask]
    /\ waiting = [w \in Window |-> <<>>]
    /\ timer = [w \in Window |-> FALSE]
    /\ recovering = [w \in Window |-> FALSE]
    /\ poll = [w \in Window |-> NoPoll]
    /\ events = 0
    /\ excuse = [w \in Window |-> None]

Remembered ==
    {authority} \cup UNION {{session[w], bridge[w].session, task[w].mine, poll[w].owned} :
                             w \in Window}
Fresh == CHOOSE s \in Session : s \notin Remembered

Busy(w) == task[w] # NoTask \/ waiting[w] # <<>>
Queued(w, kind) == waiting' = [waiting EXCEPT ![w] = Append(@, kind)]
-----------------------------------------------------------------------------
(* The window. *)

\* initialize: the page takes the session there is for its own, and in a moment
\* starts its automatic broadcast.
Open(w, automatic) ==
    /\ page[w] = "closed" /\ events < MaxEvents
    /\ events' = events + 1
    /\ page' = [page EXCEPT ![w] = "opening"]
    /\ auto' = [auto EXCEPT ![w] = automatic]
    /\ session' = [session EXCEPT ![w] = authority]
    /\ UNCHANGED <<authority, bridge, task, waiting, timer, recovering, poll,
                   excuse>>

WindowReady(w) ==
    /\ page[w] = "opening"
    /\ page' = [page EXCEPT ![w] = "open"]
    /\ IF auto[w] THEN Queued(w, "auto") ELSE UNCHANGED waiting
    /\ UNCHANGED <<authority, auto, session, bridge, task, timer, recovering, poll, events, excuse>>

\* The buttons there are; none does anything while a task runs.
Click(w, kind) ==
    /\ page[w] = "open" /\ ~Busy(w) /\ events < MaxEvents
    /\ \/ kind = "restart" /\ session[w] # None
       \/ kind = "stop" /\ session[w] # None /\ ~auto[w]
       \/ kind = "start" /\ session[w] = None /\ ~auto[w]
    /\ events' = events + 1
    /\ timer' = [timer EXCEPT ![w] = FALSE]
    /\ Queued(w, kind)
    /\ UNCHANGED <<authority, page, auto, session, bridge, task, recovering, poll,
                   excuse>>

\* The window is closed or dies; the daemon does not notice.
Close(w) ==
    /\ page[w] # "closed" /\ events < MaxEvents
    /\ events' = events + 1
    /\ page' = [page EXCEPT ![w] = "closed"]
    /\ session' = [session EXCEPT ![w] = None]
    /\ bridge' = [bridge EXCEPT ![w] = NoBridge]
    /\ task' = [task EXCEPT ![w] = NoTask]
    /\ waiting' = [waiting EXCEPT ![w] = <<>>]
    /\ timer' = [timer EXCEPT ![w] = FALSE]
    /\ recovering' = [recovering EXCEPT ![w] = FALSE]
    /\ poll' = [poll EXCEPT ![w] = NoPoll]
    /\ excuse' = [excuse EXCEPT ![w] = None]
    /\ UNCHANGED <<authority, auto>>
-----------------------------------------------------------------------------
(* The tasks. *)

\* Up to the first await: all but a start of a window without a session stop the bridge.
Run(w) ==
    LET kind == Head(waiting[w])
        stops == kind # "start" /\ (kind = "auto" => session[w] # None)
        next == IF kind = "stop" THEN "revoke all"
                ELSE IF kind # "recover" /\ stops THEN "forget" ELSE "request"
    IN  /\ task[w] = NoTask /\ waiting[w] # <<>>
        /\ waiting' = [waiting EXCEPT ![w] = Tail(@)]
        /\ task' = [task EXCEPT ![w] = [NoTask EXCEPT !.kind = kind, !.step = next]]
        /\ bridge' = IF stops THEN [bridge EXCEPT ![w] = NoBridge] ELSE bridge
        /\ session' = IF kind = "recover" THEN [session EXCEPT ![w] = None] ELSE session
        /\ excuse' = [excuse EXCEPT ![w] = None]
        /\ UNCHANGED <<authority, page, auto, timer, recovering, poll, events>>

Forget(w) ==
    /\ task[w].step = "forget"
    /\ session' = [session EXCEPT ![w] = None]
    /\ task' = [task EXCEPT ![w].step = "request"]
    /\ UNCHANGED <<authority, page, auto, bridge, waiting, timer, recovering, poll, events, excuse>>

\* stop-broadcast: whatever session there is.
RevokeAll(w) ==
    /\ task[w].step = "revoke all"
    /\ authority' = None
    /\ session' = [session EXCEPT ![w] = None]
    /\ task' = [task EXCEPT ![w] = NoTask]
    /\ UNCHANGED <<page, auto, bridge, waiting, timer, recovering, poll, events,
                   excuse>>

\* api.startBroadcast, and bridge.start up to its connection.
Request(w) ==
    /\ task[w].step = "request"
    /\ Session \ Remembered # {}    \* bound; TypeOK says that it excludes nothing
    /\ authority' = Fresh
    /\ bridge' = [bridge EXCEPT ![w] = [session |-> Fresh, up |-> FALSE]]
    /\ task' = [task EXCEPT ![w].step = "connect", ![w].mine = Fresh]
    /\ excuse' = [excuse EXCEPT ![w] = None]
    /\ UNCHANGED <<page, auto, session, waiting, timer, recovering, poll, events>>

\* The connection stands; or a poll has stopped the bridge at the last moment, and bridge.start
\* does not notice.
Connected(w) ==
    /\ task[w].step = "connect"
    /\ bridge' = [bridge EXCEPT ![w].up = bridge[w].session = task[w].mine]
    /\ session' = [session EXCEPT ![w] = task[w].mine]
    /\ task' = [task EXCEPT ![w] = NoTask]
    /\ recovering' = IF task[w].kind = "recover" THEN [recovering EXCEPT ![w] = FALSE]
                     ELSE recovering
    /\ UNCHANGED <<authority, page, auto, waiting, timer, poll, events, excuse>>

\* A connection fails by itself, or because a poll has stopped the bridge under it.
ConnectFails(w) ==
    /\ task[w].step = "connect"
    /\ IF bridge[w].session = task[w].mine
       THEN events < MaxEvents /\ events' = events + 1
       ELSE UNCHANGED events
    /\ bridge' = [bridge EXCEPT ![w] = NoBridge]
    /\ task' = [task EXCEPT ![w].step = "check"]
    /\ UNCHANGED <<authority, page, auto, session, waiting, timer, recovering, poll,
                   excuse>>

\* scheduleAutomaticBroadcastRetry, for a window that shows no session.
Schedule(w) == timer' = [timer EXCEPT ![w] = @ \/ auto[w]]

\* Mutant: a recovery that has failed stays the one that is under way.
EndTaskRecovering(w) ==
    /\ task' = [task EXCEPT ![w] = NoTask]
    /\ UNCHANGED recovering

\* The task has failed.
EndTask(w) ==
    /\ task' = [task EXCEPT ![w] = NoTask]
    /\ recovering' = [recovering EXCEPT ![w] = @ /\ task[w].kind # "recover"]

\* Mutant: a recovery that has failed is not tried again.
AgainUnlessRecovering(w) ==
    /\ session' = [session EXCEPT ![w] = None]
    /\ \/ /\ task' = [task EXCEPT ![w].step = "request", ![w].mine = None]
          /\ UNCHANGED <<timer, recovering, excuse>>
       \/ /\ EndTask(w)
          /\ IF task[w].kind = "auto" THEN Schedule(w) ELSE UNCHANGED timer
          /\ UNCHANGED excuse

\* The end of an attempt: another one, of the five there are, or the end of the task,
\* which is tried again later if it is an automatic one.
Again(w) ==
    /\ session' = [session EXCEPT ![w] = None]
    /\ \/ /\ task' = [task EXCEPT ![w].step = "request", ![w].mine = None]
          /\ UNCHANGED <<timer, recovering, excuse>>
       \/ /\ EndTask(w)
          /\ IF task[w].kind \in {"auto", "recover"}
             THEN Schedule(w) /\ UNCHANGED excuse
             ELSE UNCHANGED timer /\ excuse' = [excuse EXCEPT ![w] = "gave up"]

\* stopBroadcastIfOwned asks who is on the air ...
Check(w) ==
    /\ task[w].step = "check"
    /\ IF authority = task[w].mine
       THEN task' = [task EXCEPT ![w].step = "revoke"] 
            /\ UNCHANGED <<session, timer, recovering, excuse>>
       ELSE Again(w)
    /\ UNCHANGED <<authority, page, auto, bridge, waiting, poll, events>>

\* ... and then stops whoever it is now.
Revoke(w) ==
    /\ task[w].step = "revoke"
    /\ authority' = None
    /\ Again(w)
    /\ UNCHANGED <<page, auto, bridge, waiting, poll, events>>

TimerFires(w) ==
    /\ timer[w]
    /\ timer' = [timer EXCEPT ![w] = FALSE]
    /\ Queued(w, "auto")
    /\ UNCHANGED <<authority, page, auto, session, bridge, task, recovering, poll, events, excuse>>
-----------------------------------------------------------------------------
(* What happens beside the tasks. *)

\* The transport gives up: recoverBroadcastTransport.
TransportFails(w) ==
    /\ bridge[w].up /\ events < MaxEvents
    /\ events' = events + 1
    /\ bridge' = [bridge EXCEPT ![w] = NoBridge]
    /\ IF auto[w] /\ session[w] # None /\ ~recovering[w]
       THEN recovering' = [recovering EXCEPT ![w] = TRUE] /\ Queued(w, "recover")
       ELSE UNCHANGED <<recovering, waiting>>
    /\ UNCHANGED <<authority, page, auto, session, task, timer, poll, excuse>>

\* verifyBroadcastOwnership remembers the session it asks about.
Poll(w) ==
    /\ poll[w] = NoPoll /\ session[w] # None
    /\ poll' = [poll EXCEPT ![w] = [step |-> "asked", owned |-> session[w]]]
    /\ UNCHANGED <<authority, page, auto, session, bridge, task, waiting, timer, recovering,
                   events, excuse>>

PollFails(w) ==
    /\ poll[w].step = "asked" /\ events < MaxEvents
    /\ events' = events + 1
    /\ poll' = [poll EXCEPT ![w] = NoPoll]
    /\ UNCHANGED <<authority, page, auto, session, bridge, task, waiting, timer, recovering,
                   excuse>>

\* The answer: if it is another session, the bridge is stopped, whichever it serves.
Answered(w) ==
    /\ poll[w].step = "asked"
    /\ IF authority = poll[w].owned
       THEN poll' = [poll EXCEPT ![w] = NoPoll] /\ UNCHANGED <<bridge, excuse>>
       ELSE /\ poll' = [poll EXCEPT ![w].step = IF authority = None THEN "gone" ELSE "other"]
            /\ bridge' = [bridge EXCEPT ![w] = NoBridge]
            /\ excuse' = IF bridge[w].session \in {None, poll[w].owned} THEN excuse
                         ELSE [excuse EXCEPT ![w] = "cut off"]
    /\ UNCHANGED <<authority, page, auto, session, task, waiting, timer, recovering, events>>

\* Mutant: the session may be another one by now.
UnavailableUnchecked(w) ==
    /\ poll[w].step \in {"gone", "other"}
    /\ poll' = [poll EXCEPT ![w] = NoPoll]
    /\ session' = [session EXCEPT ![w] = None]
    /\ IF poll[w].step = "gone"
       THEN Schedule(w) /\ UNCHANGED excuse
       ELSE excuse' = [excuse EXCEPT ![w] = "replaced"] /\ UNCHANGED timer
    /\ UNCHANGED <<authority, page, auto, bridge, task, waiting, recovering, events>>

\* Mutant: a window that was replaced takes the broadcast back.
UnavailableRetrying(w) ==
    /\ poll[w].step \in {"gone", "other"}
    /\ poll' = [poll EXCEPT ![w] = NoPoll]
    /\ IF session[w] = poll[w].owned
       THEN session' = [session EXCEPT ![w] = None] /\ Schedule(w)
       ELSE UNCHANGED <<session, timer>>
    /\ UNCHANGED <<authority, page, auto, bridge, task, waiting, recovering, events,
                   excuse>>

\* markBroadcastUnavailable, if the window still shows the session that it asked about.
Unavailable(w) ==
    /\ poll[w].step \in {"gone", "other"}
    /\ poll' = [poll EXCEPT ![w] = NoPoll]
    /\ IF session[w] # poll[w].owned
       THEN UNCHANGED <<session, timer, excuse>>
       ELSE /\ session' = [session EXCEPT ![w] = None]
            /\ IF poll[w].step = "gone"
               THEN Schedule(w) /\ UNCHANGED excuse
               ELSE excuse' = [excuse EXCEPT ![w] = "replaced"] /\ UNCHANGED timer
    /\ UNCHANGED <<authority, page, auto, bridge, task, waiting, recovering, events>>

\* handleDiscovery: a companion asks for the beacon of a session that is over, which the
\* rendezvous may answer before the whole bridge is connected.
Discovered(w) ==
    /\ bridge[w].session \notin {None, authority}
    /\ IF bridge[w].up THEN UNCHANGED events
       ELSE events < MaxEvents /\ events' = events + 1
    /\ bridge' = [bridge EXCEPT ![w] = NoBridge]
    /\ poll' = IF poll[w] = NoPoll /\ session[w] # None
               THEN [poll EXCEPT ![w] = [step |-> "asked", owned |-> session[w]]]
               ELSE poll
    /\ UNCHANGED <<authority, page, auto, session, task, waiting, timer, recovering, excuse>>
-----------------------------------------------------------------------------
\* A task that nothing is before starts at once, ahead of any other event of the window.
Due(w) == task[w] = NoTask /\ waiting[w] # <<>>

TaskStep(w) ==
    \/ Run(w)
    \/ ~Due(w) /\ (WindowReady(w) \/ TimerFires(w))
    \/ Forget(w) \/ RevokeAll(w) \/ Request(w)
    \/ Connected(w) \/ ConnectFails(w) \/ Check(w) \/ Revoke(w)

PollStep(w) == ~Due(w) /\ (Poll(w) \/ PollFails(w) \/ Answered(w) \/ Unavailable(w))

Next ==
    \E w \in Window :
        \/ \E automatic \in BOOLEAN : Open(w, automatic)
        \/ \E kind \in {"restart", "start", "stop"} : Click(w, kind)
        \/ Close(w)
        \/ TaskStep(w)
        \/ PollStep(w)
        \/ ~Due(w) /\ (TransportFails(w) \/ Discovered(w))

\* The event loop of a window runs its tasks and its interval.
Fairness == \A w \in Window : WF_vars(TaskStep(w)) /\ WF_vars(PollStep(w))

Spec == Init /\ [][Next]_vars /\ Fairness
-----------------------------------------------------------------------------
(* Properties. *)

TypeOK ==
    /\ authority \in Session \cup {None}
    /\ page \in [Window -> {"closed", "opening", "open"}]
    /\ auto \in [Window -> BOOLEAN]
    /\ session \in [Window -> Session \cup {None}]
    /\ bridge \in [Window -> [session : Session \cup {None}, up : BOOLEAN]]
    /\ \A w \in Window :
        /\ task[w] \in [kind : Kind \cup {None}, step : Step \cup {None}, mine : Session \cup {None}]
        /\ Len(waiting[w]) <= 2
        /\ recovering[w] <=> task[w].kind = "recover" \/ \E i \in DOMAIN waiting[w] :
                                                            waiting[w][i] = "recover"
    /\ timer \in [Window -> BOOLEAN]
    /\ poll \in [Window -> [step : {None} \cup PollStage, owned : Session \cup {None}]]
    /\ excuse \in [Window -> Excuse \cup {None}]
    /\ Session \ Remembered # {}

\* A window serves no session but the one it shows: what happens to the session in one
\* of its tasks or polls happens to the bridge, whatever the others have done meanwhile.
ServedIsShown ==
    \A w \in Window : bridge[w].up => bridge[w].session = session[w]

OnAir(w) == bridge[w].up /\ bridge[w].session = authority

\* What an automatic window rests in: its own session, and on the air with it if it is
\* the session of the authority.
Resting(w) == page[w] = "open" /\ auto[w] /\ ~Busy(w) /\ ~timer[w] /\ poll[w] = NoPoll

\* An automatic window that is about to do nothing serves a session, as long as it is
\* the authority's, or has one of the three reasons: no failure of an attempt, of a
\* recovery or of a poll leaves it idle, and no answer to an old question.
ReadyOrExcused ==
    \A w \in Window : Resting(w) /\ session[w] \in {None, authority} => OnAir(w) \/ excuse[w] # None

\* Windows do not take the broadcast from each other for ever.
ComesToRest == <>[][authority' = authority]_vars

\* An automatic window is on the air in the end, or has one of the three reasons.
OnAirOrExcused ==
    \A w \in Window :
        (page[w] = "open" /\ auto[w]) ~> (page[w] = "closed" \/ excuse[w] # None \/ OnAir(w))
=============================================================================
