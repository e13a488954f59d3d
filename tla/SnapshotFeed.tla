------------------------------ MODULE SnapshotFeed ------------------------------
(***************************************************************************)
(* How a new revision reaches the eyes: from the authority through the     *)
(* daemon's broadcast channel and its answers to the host page, and from   *)
(* the page to the controllers (server.rs: action, scan, event_loop,       *)
(* publish_snapshot; api.ts; host.ts: perform, subscribe; vdo.ts:          *)
(* handleControl, publishState, handleControlMessage).                     *)
(*                                                                         *)
(* A snapshot is its revision.  A change is one step under the core's      *)
(* lock; reading the snapshot to publish takes the lock again, sending it  *)
(* takes none, and the answer, the page's own read and its use of the      *)
(* result are further steps, so snapshots overtake each other.             *)
(***************************************************************************)
EXTENDS Integers, Sequences

CONSTANTS
    Controller,    \* companions with a control grant, already connected
    Capacity,      \* snapshots the broadcast channel keeps (64 in the code)
    MaxRevision    \* bound on the revision

ASSUME FeedAssumption ==
    /\ Capacity \in Nat \ {0}
    /\ MaxRevision \in Nat \ {0}

\* Who calls the daemon, one call at a time each: the page's chain of tasks, the
\* bridge's queue of controller messages, and anybody else (the CLI, recognition).
Caller == {"task", "control", "elsewhere"}

\* The stages of a call, in order; an import skips "changed", "replied", "syncing",
\* and a command that the daemon refused begins with "replied" and skips "syncing".
Stage == {"idle", "changed", "read", "replied", "fetched", "syncing"}

\* made is the revision the call produced, carried the snapshot it holds, from the
\* controller whose command it is.
Revision == 0..MaxRevision
Call == [stage : Stage, kind : {"command", "import", "refused"}, made : Revision,
         carried : Revision, from : SUBSET Controller]

Message == [kind : {"snapshot", "applied", "rejected"}, revision : Revision]

VARIABLES
    revision,    \* of the authority
    call,        \* the call in flight of each caller
    socket,      \* the page's event socket: "none", "greeted", "open", "lagged"
    since,       \* observation: the revision when the socket subscribed
    channel,     \* snapshots sent to the socket that the page has not handled
    page,        \* api.snapshotValue
    inbox,       \* controller commands waiting in the bridge's queue
    link,        \* messages from the bridge to each controller
    remote       \* each controller: the revision it names, the one it shows

vars == <<revision, call, socket, since, channel, page, inbox, link, remote>>
-----------------------------------------------------------------------------
Idle == [stage |-> "idle", kind |-> "command", made |-> 0, carried |-> 0, from |-> {}]

Init ==
    /\ revision = 1
    /\ call = [w \in Caller |-> Idle]
    /\ socket = "none"
    /\ since = 0
    /\ channel = <<>>
    /\ page = 1
    /\ inbox = <<>>
    /\ link = [c \in Controller |-> <<>>]
    /\ remote = [c \in Controller |-> [believed |-> 1, shown |-> 1, pending |-> FALSE]]

MaxOf(a, b) == IF a >= b THEN a ELSE b

Snapshot(r) == [kind |-> "snapshot", revision |-> r]

\* publishState: the snapshot to every controller, after what `answers` holds.
PublishState(r, answers) ==
    link' = [c \in Controller |-> link[c] \o answers[c] \o <<Snapshot(r)>>]

NoAnswers == [c \in Controller |-> <<>>]

-----------------------------------------------------------------------------
(* Changes. *)

Change(w, kind, stage, from) ==
    /\ call[w].stage = "idle"
    /\ revision < MaxRevision
    /\ revision' = revision + 1
    /\ call' = [call EXCEPT ![w] =
           [stage |-> stage, kind |-> kind, made |-> revision',
            carried |-> IF stage = "read" THEN revision' ELSE 0, from |-> from]]
    /\ UNCHANGED <<socket, since, channel, page, link, remote>>

\* A command of the laptop, the CLI or another page: /action.
Command(w) ==
    /\ w # "control"
    /\ Change(w, "command", "changed", {})
    /\ UNCHANGED inbox

\* A seek of the laptop for a track that is no longer the current one: a conflict
\* changes nothing, and the page reads the snapshot (api.action, catch).
Conflict ==
    /\ call["task"].stage = "idle"
    /\ call' = [call EXCEPT !["task"] = [Idle EXCEPT !.stage = "replied", !.kind = "refused"]]
    /\ UNCHANGED <<revision, socket, since, channel, page, inbox, link, remote>>

\* /scan, a finished upload, a recognition result: the snapshot is read under the
\* same lock as the change.
Import(w) ==
    /\ Change(w, "import", "read", {})
    /\ UNCHANGED inbox

\* A controller sends a command naming the revision it believes in.
Ask(c) ==
    /\ ~remote[c].pending
    /\ remote' = [remote EXCEPT ![c].pending = TRUE]
    /\ inbox' = Append(inbox, [from |-> c, expected |-> remote[c].believed])
    /\ UNCHANGED <<revision, call, socket, since, channel, page, link>>

\* The bridge's queue comes to a controller command that is up to date ...
ApplyRemote ==
    /\ inbox # <<>>
    /\ Head(inbox).expected = revision
    /\ Change("control", "command", "changed", {Head(inbox).from})
    /\ inbox' = Tail(inbox)

\* ... or to one that is not, or that is refused for what it asks: the daemon
\* answers with an error, a conflict with its revision too, and the bridge tells the
\* controller that it was rejected, without that revision (it is in the message
\* here for the properties; 0 means no conflict).
RefuseRemote ==
    /\ inbox # <<>>
    /\ call["control"].stage = "idle"
    /\ \E conflict \in {Head(inbox).expected # revision} \cup {FALSE} :
         link' = [link EXCEPT ![Head(inbox).from] =
             Append(@, [kind |-> "rejected", revision |-> IF conflict THEN revision ELSE 0])]
    /\ inbox' = Tail(inbox)
    /\ UNCHANGED <<revision, call, socket, since, channel, page, remote>>

-----------------------------------------------------------------------------
(* The daemon publishes. *)

\* publish_snapshot, first half: lock the core again and read.
ReadToPublish(w) ==
    /\ call[w].stage = "changed"
    /\ call' = [call EXCEPT ![w].stage = "read", ![w].carried = revision]
    /\ UNCHANGED <<revision, socket, since, channel, page, inbox, link, remote>>

\* The answer to an import is the snapshot, the one to a command is not.
Answered(w) == IF call[w].kind = "import" THEN "fetched" ELSE "replied"

\* events.send, and the answer to the caller.  A receiver that is Capacity behind
\* gets an error instead of the oldest snapshot, which ends the socket's loop.
Publish(w) ==
    /\ call[w].stage = "read"
    /\ LET full == socket = "open" /\ Len(channel) >= Capacity
       IN  /\ socket' = IF full THEN "lagged" ELSE socket
           /\ channel' = IF full THEN <<>>
                         ELSE IF socket = "open" THEN Append(channel, call[w].carried)
                         ELSE channel
    /\ call' = [call EXCEPT ![w] =
           IF w = "elsewhere" THEN Idle ELSE [@ EXCEPT !.stage = Answered(w)]]
    /\ UNCHANGED <<revision, since, page, inbox, link, remote>>

\* The socket is accepted: the first snapshot is read and sent ...
Greet ==
    /\ socket = "none"
    /\ socket' = "greeted"
    /\ channel' = <<revision>>
    /\ UNCHANGED <<revision, call, since, page, inbox, link, remote>>

\* ... and only then the loop subscribes.
Subscribe ==
    /\ socket = "greeted"
    /\ socket' = "open"
    /\ since' = revision
    /\ UNCHANGED <<revision, call, channel, page, inbox, link, remote>>

-----------------------------------------------------------------------------
(* The host page. *)

\* Mutant: an event that does not follow on the last one is taken for a duplicate.
HandleNextOnly ==
    /\ channel # <<>>
    /\ channel' = Tail(channel)
    /\ IF Head(channel) = page + 1
       THEN page' = Head(channel) /\ PublishState(Head(channel), NoAnswers)
       ELSE UNCHANGED <<page, link>>
    /\ UNCHANGED <<revision, call, socket, since, inbox, remote>>

\* An event: only a later revision is taken, and only then the listener runs.
HandleEvent ==
    /\ channel # <<>>
    /\ channel' = Tail(channel)
    /\ IF Head(channel) > page
       THEN page' = Head(channel) /\ PublishState(Head(channel), NoAnswers)
       ELSE UNCHANGED <<page, link>>
    /\ UNCHANGED <<revision, call, socket, since, inbox, remote>>

\* api.snapshot() after an answer: the daemon's side of it.
Fetch(w) ==
    /\ call[w].stage = "replied"
    /\ call' = [call EXCEPT ![w].stage = "fetched", ![w].carried = revision]
    /\ UNCHANGED <<revision, socket, since, channel, page, inbox, link, remote>>

\* Mutant: an answer is taken although an event with a later snapshot overtook it.
AcceptAny(w) ==
    /\ call[w].stage = "fetched"
    /\ page' = call[w].carried
    /\ call' = [call EXCEPT ![w] =
           IF @.kind = "command" THEN [@ EXCEPT !.stage = "syncing"] ELSE Idle]
    /\ UNCHANGED <<revision, socket, since, channel, inbox, link, remote>>

\* acceptSnapshot.  After a command the page goes on to audio.sync and publishes;
\* after a conflict or a scan it does not, nor after an upload, whose compact answer is stripped
\* of the snapshot before the bridge asks whether to publish it.
Accept(w) ==
    /\ call[w].stage = "fetched"
    /\ page' = MaxOf(page, call[w].carried)
    /\ call' = [call EXCEPT ![w] =
           IF @.kind = "command" THEN [@ EXCEPT !.stage = "syncing"] ELSE Idle]
    /\ UNCHANGED <<revision, socket, since, channel, inbox, link, remote>>

\* To the controller whose command it was; nothing to the others.
Applied(w) ==
    [c \in Controller |-> IF c \in call[w].from
                          THEN <<[kind |-> "applied", revision |-> page]>> ELSE <<>>]

\* audio.sync is done: perform publishes what the page holds by now; the bridge
\* first tells the controller that its command was applied.
Show(w) ==
    /\ call[w].stage = "syncing"
    /\ PublishState(page, Applied(w))
    /\ call' = [call EXCEPT ![w] = Idle]
    /\ UNCHANGED <<revision, socket, since, channel, page, inbox, remote>>

-----------------------------------------------------------------------------
(* The controllers. *)

\* Mutant: the revision that is already known is skipped.
ReceiveNewer(c) ==
    /\ link[c] # <<>>
    /\ LET m == Head(link[c])
       IN  remote' = [remote EXCEPT ![c] =
             CASE m.kind = "applied"  -> [@ EXCEPT !.believed = m.revision, !.pending = FALSE]
               [] m.kind = "rejected" -> [@ EXCEPT !.pending = FALSE]
               [] m.kind = "snapshot" /\ m.revision > @.believed ->
                    [@ EXCEPT !.believed = m.revision, !.shown = m.revision]
               [] OTHER -> @]
    /\ link' = [link EXCEPT ![c] = Tail(@)]
    /\ UNCHANGED <<revision, call, socket, since, channel, page, inbox>>

\* The acknowledgement of a command sets the revision before the snapshot that
\* goes with it arrives; a snapshot is shown unless it is older than that.
Receive(c) ==
    /\ link[c] # <<>>
    /\ LET m == Head(link[c])
       IN  remote' = [remote EXCEPT ![c] =
             CASE m.kind = "applied"  -> [@ EXCEPT !.believed = m.revision, !.pending = FALSE]
               [] m.kind = "rejected" -> [@ EXCEPT !.pending = FALSE]
               [] m.kind = "snapshot" /\ m.revision >= @.believed ->
                    [@ EXCEPT !.believed = m.revision, !.shown = m.revision]
               [] OTHER -> @]
    /\ link' = [link EXCEPT ![c] = Tail(@)]
    /\ UNCHANGED <<revision, call, socket, since, channel, page, inbox>>

-----------------------------------------------------------------------------
Proceed(w) ==
    \/ ReadToPublish(w)
    \/ Publish(w)
    \/ Fetch(w)
    \/ Accept(w)
    \/ Show(w)

Next ==
    \/ \E w \in Caller : Command(w) \/ Import(w) \/ Proceed(w)
    \/ \E c \in Controller : Ask(c) \/ Receive(c)
    \/ Conflict
    \/ ApplyRemote
    \/ RefuseRemote
    \/ Greet
    \/ Subscribe
    \/ HandleEvent

\* A call that was taken up is carried through, and what was sent arrives; nobody
\* has to send a command, scan or upload anything.
Fairness ==
    /\ \A w \in Caller : WF_vars(Proceed(w))
    /\ \A c \in Controller : WF_vars(Receive(c))
    /\ WF_vars(ApplyRemote \/ RefuseRemote)
    /\ WF_vars(Greet)
    /\ WF_vars(Subscribe)
    /\ WF_vars(HandleEvent)

Spec == Init /\ [][Next]_vars /\ Fairness

-----------------------------------------------------------------------------
(* Properties. *)

TypeOK ==
    /\ revision \in Revision
    /\ call \in [Caller -> Call]
    /\ socket \in {"none", "greeted", "open", "lagged"}
    /\ since \in Revision
    /\ channel \in Seq(Revision) /\ Len(channel) <= Capacity
    /\ page \in 1..revision
    /\ inbox \in Seq([from : Controller, expected : Revision])
    /\ link \in [Controller -> Seq(Message)]
    /\ remote \in [Controller ->
           [believed : Revision, shown : Revision, pending : BOOLEAN]]

\* What a controller shows, the revision it names, the messages on their way to it and
\* the page stand in this order, but for rejections, which carry no snapshot.
OnTheWay(c) ==
    /\ remote[c].shown <= remote[c].believed /\ remote[c].believed <= page
    /\ \A i \in DOMAIN link[c] : link[c][i].kind # "rejected" =>
         /\ remote[c].believed <= link[c][i].revision /\ link[c][i].revision <= page
         /\ \A j \in i..Len(link[c]) :
              link[c][j].kind # "rejected" => link[c][i].revision <= link[c][j].revision

\* Nobody is taken back to an older state, however events, answers and acknowledgements
\* overtake each other: acceptSnapshot and subscribe (api.ts) compare revisions, and a
\* controller that takes over the revision of an acknowledgement without comparing it
\* (vdo.ts) relies on that.
FeedInOrder == TypeOK /\ \A c \in Controller : OnTheWay(c)

\* Everybody starts with revision 1.
Produced == 2..MaxRevision

\* Whatever changes after the page's socket has subscribed, by whomever, reaches the page
\* (docs/architecture.md:63, accepted commands "emit canonical state"), although snapshots are
\* read and sent under no common lock and the page drops what looks old; unless
\* the socket ends because the page was too slow.
PageHears ==
    \A n \in Produced :
        socket = "open" /\ since < n /\ n <= revision ~> page >= n \/ socket = "lagged"

\* A command of the laptop or of a controller is shown by every controller, also
\* while conflicts, scans and uploads move the page's revision silently, and while the event
\* socket is late, not there yet, or dead.
CommandsReachControllers ==
    \A n \in Produced, w \in {"task", "control"}, c \in Controller :
        call[w].kind = "command" /\ call[w].made = n ~> remote[c].shown >= n

\* A change is heard all the way: by the page, and by every controller for those the page
\* or a controller made.
ChangesAreHeard == PageHears /\ CommandsReachControllers

\* The revision a controller names in its next command is one it comes to show: the
\* acknowledgement, which moves the revision first, does not hide the snapshot.
AcknowledgedIsShown ==
    \A n \in Produced, c \in Controller :
        remote[c].believed >= n ~> remote[c].shown >= n

\* docs/architecture.md:64, "Stale writes receive a conflict plus a fresh snapshot": a
\* controller that was refused comes to show the revision that refused it.
StaleWriteIsRefreshed ==
    \A n \in Produced, c \in Controller :
        link[c] # <<>> /\ Head(link[c]) = [kind |-> "rejected", revision |-> n]
            ~> remote[c].shown >= n
=============================================================================
