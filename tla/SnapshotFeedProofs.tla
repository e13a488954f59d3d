--------------------------- MODULE SnapshotFeedProofs ---------------------------
(***************************************************************************)
(* Proofs about SnapshotFeed, for any controllers, any size of the event   *)
(* channel and any number of revisions.                                    *)
(***************************************************************************)
EXTENDS SnapshotFeed, SequenceTheorems, TLAPS

-----------------------------------------------------------------------------
(* The types.  What is on its way to the page, in the event channel or in  *)
(* an answer, is a revision that exists: that is why the page never gets   *)
(* ahead of the authority.                                                 *)

Waiting == [from : Controller, expected : Revision]
Companion == [believed : Revision, shown : Revision, pending : BOOLEAN]

Typed ==
    /\ revision \in Revision
    /\ call \in [Caller -> Call]
    /\ \A w \in Caller : call[w].carried <= revision
    /\ socket \in {"none", "greeted", "open", "lagged"}
    /\ since \in Revision
    /\ channel \in Seq(Revision) /\ Len(channel) <= Capacity
    /\ \A i \in 1..Len(channel) : channel[i] <= revision
    /\ page \in 1..revision
    /\ inbox \in Seq(Waiting)
    /\ link \in [Controller -> Seq(Message)]
    /\ remote \in [Controller -> Companion]

LEMMA TypedImpliesTypeOK == Typed => TypeOK
BY DEF Typed, TypeOK, Waiting, Companion

LEMMA RevisionFacts == Revision \subseteq Nat /\ 0 \in Revision /\ 1 \in Revision
BY FeedAssumption DEF Revision

LEMMA TypedInit == Init => Typed
<1> SUFFICES ASSUME Init PROVE Typed
  OBVIOUS
<1>1. Idle \in Call /\ Idle.carried = 0
  BY RevisionFacts DEF Idle, Call, Stage
<1>2. /\ call = [w \in Caller |-> Idle] /\ revision = 1 /\ page = 1 /\ channel = <<>>
      /\ link = [c \in Controller |-> <<>>] /\ inbox = <<>> /\ since = 0 /\ socket = "none"
      /\ remote = [c \in Controller |-> [believed |-> 1, shown |-> 1, pending |-> FALSE]]
  BY DEF Init
<1>3. call \in [Caller -> Call] /\ \A w \in Caller : call[w].carried <= revision
  BY <1>1, <1>2
<1>4. channel \in Seq(Revision) /\ Len(channel) = 0 /\ 0 <= Capacity
  BY <1>2, FeedAssumption
<1>5. link \in [Controller -> Seq(Message)] /\ inbox \in Seq(Waiting)
  BY <1>2
<1>6. remote \in [Controller -> Companion]
  BY <1>2, RevisionFacts DEF Companion
<1> QED BY <1>2, <1>3, <1>4, <1>5, <1>6, RevisionFacts DEF Typed

\* A change begins a call that carries no revision but the new one.
LEMMA TypedChange ==
    ASSUME Typed, NEW w \in Caller, NEW kind \in {"command", "import"},
           NEW stage \in {"changed", "read"}, NEW from \in SUBSET Controller,
           Change(w, kind, stage, from), inbox' \in Seq(Waiting)
    PROVE  Typed'
<1> DEFINE new == [stage |-> stage, kind |-> kind, made |-> revision + 1,
                   carried |-> IF stage = "read" THEN revision + 1 ELSE 0, from |-> from]
<1>1. revision + 1 \in Revision /\ revision \in Nat /\ Revision \subseteq Nat
  BY FeedAssumption, RevisionFacts DEF Change, Revision, Typed
<1>2. revision' = revision + 1 /\ call' = [call EXCEPT ![w] = new]
  BY DEF Change
<1>3. new \in Call /\ new.carried <= revision + 1 /\ call \in [Caller -> Call]
  BY <1>1, RevisionFacts DEF Call, Stage, Typed
<1> HIDE DEF new
<1>4. call' \in [Caller -> Call]
  BY <1>2, <1>3
<1>5. ASSUME NEW v \in Caller PROVE call'[v].carried <= revision'
  <2>1. call[v].carried \in Nat /\ call[v].carried <= revision
    BY <1>1, <1>3 DEF Typed, Call
  <2>2. CASE v = w
    BY <1>2, <1>3, <2>2
  <2>3. CASE v # w
    BY <1>1, <1>2, <1>3, <2>1, <2>3
  <2> QED BY <2>2, <2>3
<1>6. ASSUME NEW i \in 1..Len(channel) PROVE channel[i] <= revision'
  <2>1. channel[i] \in Nat /\ channel[i] <= revision
    <3>1. channel \in Seq(Revision) /\ \A j \in 1..Len(channel) : channel[j] <= revision
      BY DEF Typed
    <3>2. channel[i] \in Revision
      BY <3>1
    <3> QED BY <1>1, <3>1, <3>2
  <2> QED BY <1>1, <1>2, <2>1
<1>7. page \in 1..revision'
  BY <1>1, <1>2 DEF Typed
<1> QED BY <1>1, <1>2, <1>4, <1>5, <1>6, <1>7 DEF Change, Typed

LEMMA TypedChanges ==
    ASSUME Typed,
           \/ \E w \in Caller : Command(w) \/ Import(w)
           \/ ApplyRemote
    PROVE  Typed'
<1>1. ASSUME NEW w \in Caller, Command(w) PROVE Typed'
  BY <1>1, TypedChange DEF Command, Typed
<1>2. ASSUME NEW w \in Caller, Import(w) PROVE Typed'
  BY <1>2, TypedChange DEF Import, Typed
<1>3. ASSUME ApplyRemote PROVE Typed'
  <2>1. /\ inbox \in Seq(Waiting) /\ inbox # <<>>
        /\ Change("control", "command", "changed", {Head(inbox).from}) /\ inbox' = Tail(inbox)
    BY <1>3 DEF ApplyRemote, Typed
  <2>2. Head(inbox) \in Waiting /\ Tail(inbox) \in Seq(Waiting)
    BY <2>1
  <2>3. {Head(inbox).from} \in SUBSET Controller /\ "control" \in Caller
    BY <2>2 DEF Waiting, Caller
  <2> QED BY <2>1, <2>2, <2>3, TypedChange
<1> QED BY <1>1, <1>2, <1>3

\* A call goes to another stage, with a revision that exists.
LEMMA TypedCall ==
    ASSUME Typed, NEW w \in Caller, NEW new \in Call, new.carried <= revision,
           call' = [call EXCEPT ![w] = new]
    PROVE  call' \in [Caller -> Call] /\ \A v \in Caller : call'[v].carried <= revision
<1>1. call \in [Caller -> Call] /\ \A v \in Caller : call[v].carried <= revision
  BY DEF Typed
<1> QED BY <1>1

LEMMA IdleCall == Idle \in Call /\ Idle.carried = 0 /\ [Idle EXCEPT !.stage = "replied", !.kind = "refused"] \in Call
BY RevisionFacts DEF Idle, Call, Stage

LEMMA ReadCall ==
    ASSUME NEW old \in Call, NEW stage \in Stage, NEW r \in Revision
    PROVE  /\ [old EXCEPT !.stage = stage, !.carried = r] \in Call
           /\ [old EXCEPT !.stage = stage, !.carried = r].carried = r
BY DEF Call

\* The stages of a call, up to its end.
LEMMA TypedStages ==
    ASSUME Typed, NEW w \in Caller, ReadToPublish(w) \/ Fetch(w) \/ Accept(w)
    PROVE  Typed'
<1>1. /\ revision \in Nat /\ revision \in Revision /\ call[w] \in Call /\ call[w].carried <= revision
      /\ call[w].carried \in Nat /\ page \in 1..revision
  BY RevisionFacts DEF Typed, Call
<1>2. CASE ReadToPublish(w)
  <2> DEFINE new == [call[w] EXCEPT !.stage = "read", !.carried = revision]
  <2>1. new \in Call /\ new.carried <= revision
    <3>1. new \in Call /\ new.carried = revision
      BY <1>1, ReadCall DEF Stage
    <3> HIDE DEF new
    <3> QED BY <1>1, <3>1
  <2>2. call' = [call EXCEPT ![w] = new]
    <3>1. call' = [[call EXCEPT ![w].stage = "read"] EXCEPT ![w].carried = revision]
      BY <1>2 DEF ReadToPublish
    <3> QED BY <3>1 DEF Typed
  <2> HIDE DEF new
  <2> QED BY <1>2, <2>1, <2>2, TypedCall DEF ReadToPublish, Typed
<1>3. CASE Fetch(w)
  <2> DEFINE new == [call[w] EXCEPT !.stage = "fetched", !.carried = revision]
  <2>1. new \in Call /\ new.carried <= revision
    <3>1. new \in Call /\ new.carried = revision
      BY <1>1, ReadCall DEF Stage
    <3> HIDE DEF new
    <3> QED BY <1>1, <3>1
  <2>2. call' = [call EXCEPT ![w] = new]
    <3>1. call' = [[call EXCEPT ![w].stage = "fetched"] EXCEPT ![w].carried = revision]
      BY <1>3 DEF Fetch
    <3> QED BY <3>1 DEF Typed
  <2> HIDE DEF new
  <2> QED BY <1>3, <2>1, <2>2, TypedCall DEF Fetch, Typed
<1>4. CASE Accept(w)
  <2> DEFINE new == IF call[w].kind = "command" THEN [call[w] EXCEPT !.stage = "syncing"] ELSE Idle
  <2>1. new \in Call /\ new.carried <= revision
    <3>1. [call[w] EXCEPT !.stage = "syncing"] \in Call
          /\ [call[w] EXCEPT !.stage = "syncing"].carried = call[w].carried
      BY <1>1 DEF Call, Stage
    <3> QED BY <1>1, <3>1, IdleCall
  <2>2. call' = [call EXCEPT ![w] = new]
    BY <1>4 DEF Accept
  <2> HIDE DEF new
  <2>3. page' \in 1..revision
    BY <1>1, <1>4 DEF Accept, MaxOf
  <2> QED BY <1>4, <2>1, <2>2, <2>3, TypedCall DEF Accept, Typed
<1> QED BY <1>2, <1>3, <1>4

\* A snapshot is sent to the event socket, or ends it.
LEMMA TypedPublish ==
    ASSUME Typed, NEW w \in Caller, Publish(w)
    PROVE  Typed'
<1>1. /\ revision \in Nat /\ call[w] \in Call /\ call[w].carried <= revision
      /\ call[w].carried \in Revision /\ Capacity \in Nat
  BY RevisionFacts, FeedAssumption DEF Typed, Call
<1> DEFINE r == call[w].carried
           done == IF w = "elsewhere" THEN Idle ELSE [call[w] EXCEPT !.stage = Answered(w)]
<1>2. done \in Call /\ done.carried <= revision
  <2>1. Answered(w) \in Stage
    BY DEF Answered, Stage
  <2>2. [call[w] EXCEPT !.stage = Answered(w)] \in Call
        /\ [call[w] EXCEPT !.stage = Answered(w)].carried = call[w].carried
    BY <1>1, <2>1 DEF Call
  <2> QED BY <1>1, <2>2, IdleCall
<1>3. call' = [call EXCEPT ![w] = done]
  BY DEF Publish
<1>4. /\ channel \in Seq(Revision) /\ Len(channel) \in Nat /\ Len(channel) <= Capacity
      /\ \A i \in 1..Len(channel) : channel[i] <= revision
  BY DEF Typed
<1>5. \/ channel' = <<>> \/ channel' = channel
      \/ channel' = Append(channel, r) /\ Len(channel) < Capacity
  BY <1>1, <1>4 DEF Publish
<1> HIDE DEF done, r
<1>6. /\ channel' \in Seq(Revision) /\ Len(channel') <= Capacity
      /\ \A i \in 1..Len(channel') : channel'[i] <= revision
  <2>1. CASE channel' = <<>>
    <3>1. Len(channel') = 0 /\ channel' \in Seq(Revision)
      BY <2>1
    <3> QED BY <1>1, <3>1
  <2>2. CASE channel' = channel
    BY <1>4, <2>2
  <2>3. CASE channel' = Append(channel, r) /\ Len(channel) < Capacity
    <3>1. r \in Revision /\ r <= revision
      BY <1>1 DEF r
    <3>2. /\ channel' \in Seq(Revision) /\ Len(channel') = Len(channel) + 1
          /\ channel'[Len(channel) + 1] = r
          /\ \A i \in 1..Len(channel) : channel'[i] = channel[i]
      BY <1>4, <2>3, <3>1
    <3> QED BY <1>1, <1>4, <2>3, <3>1, <3>2
  <2> QED BY <1>5, <2>1, <2>2, <2>3
<1>7. socket' \in {"none", "greeted", "open", "lagged"}
  BY DEF Publish, Typed
<1> QED BY <1>2, <1>3, <1>6, <1>7, TypedCall DEF Publish, Typed

\* The socket's first snapshot and its subscription.
LEMMA TypedSocket == Typed /\ (Greet \/ Subscribe) => Typed'
<1>1. ASSUME Typed, Greet PROVE Typed'
  <2>1. channel' = <<revision>> /\ revision \in Revision /\ revision \in Nat
    BY <1>1, RevisionFacts DEF Greet, Typed
  <2>2. /\ channel' \in Seq(Revision) /\ Len(channel') = 1 /\ 1 <= Capacity
        /\ \A i \in 1..Len(channel') : channel'[i] = revision
    BY <2>1, FeedAssumption
  <2> QED BY <1>1, <2>1, <2>2 DEF Greet, Typed
<1>2. ASSUME Typed, Subscribe PROVE Typed'
  BY <1>2 DEF Subscribe, Typed
<1> QED BY <1>1, <1>2

LEMMA TypedConflict == Typed /\ Conflict => Typed'
<1> SUFFICES ASSUME Typed, Conflict PROVE Typed'
  OBVIOUS
<1> DEFINE new == [Idle EXCEPT !.stage = "replied", !.kind = "refused"]
<1>1. new \in Call /\ new.carried = 0 /\ revision \in Nat
  BY IdleCall, RevisionFacts DEF Idle, Typed
<1>2. call' = [call EXCEPT !["task"] = new] /\ "task" \in Caller
  BY DEF Conflict, Caller
<1> HIDE DEF new
<1>3. call' \in [Caller -> Call] /\ \A v \in Caller : call'[v].carried <= revision
  <2>1. new.carried <= revision
    BY <1>1
  <2> QED BY <1>1, <1>2, <2>1, TypedCall
<1>4. UNCHANGED <<revision, socket, since, channel, page, inbox, link, remote>>
  BY DEF Conflict
<1> QED BY <1>3, <1>4 DEF Typed

-----------------------------------------------------------------------------
(* The messages to a controller.                                           *)

\* publishState sends each controller its answers and the snapshot.
LEMMA PublishedFacts ==
    ASSUME Typed, NEW r \in Revision, NEW answers, PublishState(r, answers),
           \A c \in Controller : answers[c] \in Seq(Message)
    PROVE  /\ link' \in [Controller -> Seq(Message)]
           /\ \A c \in Controller : link'[c] = link[c] \o (answers[c] \o <<Snapshot(r)>>)
<1>1. Snapshot(r) \in Message
  BY DEF Snapshot, Message
<1>2. \A c \in Controller : link[c] \in Seq(Message)
  BY DEF Typed
<1>3. <<Snapshot(r)>> \in Seq(Message)
  <2> DEFINE m == Snapshot(r)
  <2>1. m \in Message
    BY <1>1
  <2> HIDE DEF m
  <2>2. <<m>> \in Seq(Message)
    BY <2>1
  <2> QED BY <2>2 DEF m
<1>4. ASSUME NEW c \in Controller
      PROVE  /\ link[c] \o answers[c] \o <<Snapshot(r)>> = link[c] \o (answers[c] \o <<Snapshot(r)>>)
             /\ link[c] \o answers[c] \o <<Snapshot(r)>> \in Seq(Message)
  <2> DEFINE s == link[c]
             a == answers[c]
             u == <<Snapshot(r)>>
  <2>1. s \in Seq(Message) /\ a \in Seq(Message) /\ u \in Seq(Message)
    BY <1>2, <1>3
  <2> HIDE DEF s, a, u
  <2>2. (s \o a) \o u = s \o (a \o u) /\ s \o a \in Seq(Message)
    BY <2>1, ConcatAssociative, ConcatProperties
  <2>3. (s \o a) \o u \in Seq(Message)
    BY <2>1, <2>2, ConcatProperties
  <2> QED BY <2>2, <2>3 DEF s, a, u
<1>5. link' = [c \in Controller |-> link[c] \o answers[c] \o <<Snapshot(r)>>]
  BY DEF PublishState
<1> QED BY <1>4, <1>5

LEMMA NoAnswersFacts == \A c \in Controller : NoAnswers[c] = <<>> /\ NoAnswers[c] \in Seq(Message)
BY DEF NoAnswers

LEMMA AppliedFacts ==
    ASSUME Typed, NEW w \in Caller, NEW c \in Controller
    PROVE  /\ Applied(w)[c] \in Seq(Message)
           /\ \A i \in 1..Len(Applied(w)[c]) : Applied(w)[c][i].revision = page
<1>1. page \in Revision
  BY FeedAssumption DEF Typed, Revision
<1>2. [kind |-> "applied", revision |-> page] \in Message
  BY <1>1 DEF Message
<1>3. CASE c \in call[w].from
  <2>1. Applied(w)[c] = <<[kind |-> "applied", revision |-> page]>>
    BY <1>3 DEF Applied
  <2> QED BY <1>2, <2>1
<1>4. CASE c \notin call[w].from
  <2>1. Applied(w)[c] = <<>>
    BY <1>4 DEF Applied
  <2> QED BY <2>1
<1> QED BY <1>3, <1>4

\* The end of a call, an event, and the messages between controllers and bridge.
LEMMA TypedLink ==
    ASSUME Typed,
           \/ \E w \in Caller : Show(w)
           \/ HandleEvent
           \/ RefuseRemote
    PROVE  Typed'
<1>0. revision \in Nat /\ page \in 1..revision /\ page \in Revision /\ revision \in Revision
  BY RevisionFacts, FeedAssumption DEF Typed, Revision
<1>1. ASSUME NEW w \in Caller, Show(w) PROVE Typed'
  <2>1. PublishState(page, Applied(w)) /\ call' = [call EXCEPT ![w] = Idle]
    BY <1>1 DEF Show
  <2>2. \A c \in Controller : Applied(w)[c] \in Seq(Message)
    BY AppliedFacts
  <2>3. link' \in [Controller -> Seq(Message)]
    BY <1>0, <2>1, <2>2, PublishedFacts
  <2>4. Idle \in Call /\ Idle.carried <= revision
    BY <1>0, IdleCall
  <2> QED BY <1>1, <2>1, <2>3, <2>4, TypedCall DEF Show, Typed
<1>2. ASSUME HandleEvent PROVE Typed'
  <2>1. /\ channel \in Seq(Revision) /\ channel # <<>> /\ channel' = Tail(channel)
        /\ Len(channel) \in Nat /\ Len(channel) <= Capacity /\ Capacity \in Nat
        /\ \A i \in 1..Len(channel) : channel[i] <= revision
    BY <1>2, FeedAssumption DEF HandleEvent, Typed
  <2>2. /\ Len(channel) >= 1 /\ Head(channel) = channel[1] /\ Head(channel) \in Revision
        /\ Tail(channel) \in Seq(Revision) /\ Len(Tail(channel)) = Len(channel) - 1
        /\ \A i \in 1..Len(Tail(channel)) : Tail(channel)[i] = channel[i + 1]
    BY <2>1
  <2>3. Head(channel) \in Nat /\ Head(channel) <= revision
    <3>1. 1 \in 1..Len(channel)
      BY <2>1, <2>2
    <3>2. channel[1] <= revision /\ channel[1] \in Revision
      BY <2>1, <2>2, <3>1
    <3> QED BY <2>2, <3>2, RevisionFacts
  <2>4. /\ channel' \in Seq(Revision) /\ Len(channel') <= Capacity
        /\ \A i \in 1..Len(channel') : channel'[i] <= revision
    <3>1. ASSUME NEW i \in 1..Len(Tail(channel)) PROVE i + 1 \in 1..Len(channel)
      BY <2>1, <2>2
    <3> QED BY <2>1, <2>2, <3>1
  <2>5. page' \in 1..revision /\ link' \in [Controller -> Seq(Message)]
    <3>1. CASE Head(channel) > page
      <4>1. PublishState(Head(channel), NoAnswers) /\ page' = Head(channel)
        BY <1>2, <3>1 DEF HandleEvent
      <4>2. link' \in [Controller -> Seq(Message)]
        BY <2>2, <4>1, NoAnswersFacts, PublishedFacts
      <4> QED BY <1>0, <2>3, <3>1, <4>1, <4>2
    <3>2. CASE ~(Head(channel) > page)
      BY <1>2, <3>2 DEF HandleEvent, Typed
    <3> QED BY <3>1, <3>2
  <2> QED BY <1>2, <2>4, <2>5 DEF HandleEvent, Typed
<1>3. ASSUME RefuseRemote PROVE Typed'
  <2>1. inbox \in Seq(Waiting) /\ inbox # <<>>
    BY <1>3 DEF RefuseRemote, Typed
  <2>2. Head(inbox) \in Waiting /\ Tail(inbox) \in Seq(Waiting)
    BY <2>1
  <2> DEFINE c == Head(inbox).from
  <2>3. c \in Controller
    BY <2>2 DEF Waiting
  <2>4. PICK r \in {0, revision} :
          link' = [link EXCEPT ![c] = Append(@, [kind |-> "rejected", revision |-> r])]
    BY <1>3 DEF RefuseRemote
  <2> DEFINE m == [kind |-> "rejected", revision |-> r]
  <2>5. m \in Message
    BY <1>0, RevisionFacts DEF Message
  <2> HIDE DEF c, m
  <2>6. Append(link[c], m) \in Seq(Message)
    BY <2>3, <2>5 DEF Typed
  <2>7. link' = [link EXCEPT ![c] = Append(link[c], m)]
    BY <2>4 DEF m
  <2>8. link' \in [Controller -> Seq(Message)]
    BY <2>3, <2>6, <2>7 DEF Typed
  <2> QED BY <1>3, <2>2, <2>8 DEF RefuseRemote, Typed
<1> QED BY <1>1, <1>2, <1>3

\* A controller asks, or takes the next message.
LEMMA TypedController ==
    ASSUME Typed, NEW c \in Controller, Ask(c) \/ Receive(c)
    PROVE  Typed'
<1>0. remote[c] \in Companion /\ remote \in [Controller -> Companion]
  BY DEF Typed
<1>1. CASE Ask(c)
  <2> DEFINE m == [from |-> c, expected |-> remote[c].believed]
             asking == [remote[c] EXCEPT !.pending = TRUE]
  <2>1. m \in Waiting /\ asking \in Companion
    BY <1>0 DEF Companion, Waiting
  <2>2. inbox' = Append(inbox, m) /\ remote' = [remote EXCEPT ![c] = asking]
    BY <1>1 DEF Ask
  <2> HIDE DEF m, asking
  <2>3. inbox' \in Seq(Waiting)
    BY <2>1, <2>2 DEF Typed
  <2>4. remote' \in [Controller -> Companion]
    BY <1>0, <2>1, <2>2
  <2> QED BY <1>1, <2>3, <2>4 DEF Ask, Typed
<1>2. CASE Receive(c)
  <2>1. link[c] \in Seq(Message) /\ link[c] # <<>> /\ link' = [link EXCEPT ![c] = Tail(link[c])]
    BY <1>2 DEF Receive, Typed
  <2>2. Head(link[c]) \in Message /\ Tail(link[c]) \in Seq(Message)
    BY <2>1
  <2>3. link' \in [Controller -> Seq(Message)]
    BY <2>1, <2>2 DEF Typed
  <2> DEFINE m == Head(link[c])
             told == CASE m.kind = "applied"  ->
                            [remote[c] EXCEPT !.believed = m.revision, !.pending = FALSE]
                       [] m.kind = "rejected" -> [remote[c] EXCEPT !.pending = FALSE]
                       [] m.kind = "snapshot" /\ m.revision >= remote[c].believed ->
                            [remote[c] EXCEPT !.believed = m.revision, !.shown = m.revision]
                       [] OTHER -> remote[c]
  <2>4. m.revision \in Revision /\ m.kind \in {"snapshot", "applied", "rejected"}
    BY <2>2 DEF Message
  <2>5. told \in Companion
    BY <1>0, <2>4 DEF Companion
  <2>6. remote' = [remote EXCEPT ![c] = told]
    BY <1>2 DEF Receive
  <2> HIDE DEF told
  <2>7. remote' \in [Controller -> Companion]
    BY <1>0, <2>5, <2>6
  <2> QED BY <1>2, <2>3, <2>7 DEF Receive, Typed
<1> QED BY <1>1, <1>2

LEMMA TypedStep == Typed /\ [Next]_vars => Typed'
<1> SUFFICES ASSUME Typed, [Next]_vars PROVE Typed'
  OBVIOUS
<1>1. CASE UNCHANGED vars
  BY <1>1 DEF vars, Typed
<1>2. ASSUME NEW w \in Caller, Proceed(w) PROVE Typed'
  BY <1>2, TypedStages, TypedPublish, TypedLink DEF Proceed
<1>3. CASE Next
  BY <1>2, <1>3, TypedChanges, TypedConflict, TypedController, TypedLink, TypedSocket DEF Next
<1> QED BY <1>1, <1>3

\* The types hold throughout, whatever calls, events and answers overtake each other.
THEOREM TypedInvariant == Spec => []Typed
BY TypedInit, TypedStep, PTL DEF Spec

-----------------------------------------------------------------------------
(* The order.  OnTheWay, with the revision shown, the revision named, the  *)
(* messages on their way and the page's revision as parameters.            *)

Carries(m) == m.kind # "rejected"

Ascending(shown, believed, messages, top) ==
    /\ shown <= believed
    /\ believed <= top
    /\ \A i \in 1..Len(messages) : Carries(messages[i]) =>
         /\ believed <= messages[i].revision
         /\ messages[i].revision <= top
    /\ \A i, j \in 1..Len(messages) :
         i <= j /\ Carries(messages[i]) /\ Carries(messages[j]) =>
           messages[i].revision <= messages[j].revision

LEMMA OnTheWayIsAscending ==
    ASSUME Typed, NEW c \in Controller
    PROVE  OnTheWay(c) <=> Ascending(remote[c].shown, remote[c].believed, link[c], page)
<1>1. link[c] \in Seq(Message) /\ DOMAIN link[c] = 1..Len(link[c]) /\ Len(link[c]) \in Nat
  BY DEF Typed
<1>2. \A i, j \in 1..Len(link[c]) : j \in i..Len(link[c]) <=> i <= j
  BY <1>1
<1> QED BY <1>1, <1>2 DEF OnTheWay, Ascending, Carries

LEMMA OnTheWayIsAscendingNext ==
    ASSUME Typed', NEW c \in Controller
    PROVE  OnTheWay(c)' <=> Ascending(remote[c].shown, remote[c].believed, link[c], page)'
<1>1. link'[c] \in Seq(Message) /\ DOMAIN link'[c] = 1..Len(link'[c]) /\ Len(link'[c]) \in Nat
  BY DEF Typed
<1>2. \A i, j \in 1..Len(link'[c]) : j \in i..Len(link'[c]) <=> i <= j
  BY <1>1
<1> QED BY <1>1, <1>2 DEF OnTheWay, Ascending, Carries

LEMMA MessageFacts ==
    ASSUME NEW s \in Seq(Message)
    PROVE  \A i \in 1..Len(s) : s[i] \in Message /\ s[i].revision \in Nat
<1> SUFFICES ASSUME NEW i \in 1..Len(s) PROVE s[i] \in Message /\ s[i].revision \in Nat
  OBVIOUS
<1>1. s[i] \in Message
  OBVIOUS
<1>2. s[i].revision \in Revision
  BY <1>1 DEF Message
<1> QED BY <1>1, <1>2, RevisionFacts

\* Messages of the newest revision at the end keep the order.
LEMMA AscendingWithMore ==
    ASSUME NEW shown \in Nat, NEW believed \in Nat, NEW top \in Nat, NEW r \in Nat, top <= r,
           NEW old \in Seq(Message), NEW more \in Seq(Message),
           \A i \in 1..Len(more) : Carries(more[i]) => more[i].revision = r,
           Ascending(shown, believed, old, top)
    PROVE  Ascending(shown, believed, old \o more, r)
<1> DEFINE all == old \o more
<1>1. /\ Len(old) \in Nat /\ Len(more) \in Nat /\ Len(all) = Len(old) + Len(more)
      /\ \A i \in 1..(Len(old) + Len(more)) :
            all[i] = IF i <= Len(old) THEN old[i] ELSE more[i - Len(old)]
  BY ConcatProperties
<1>2. \A i \in 1..Len(old) : old[i].revision \in Nat
  BY MessageFacts
<1> HIDE DEF all
<1>3. ASSUME NEW i \in 1..Len(all), Carries(all[i])
      PROVE  /\ i <= Len(old) => /\ i \in 1..Len(old) /\ all[i] = old[i]
                                 /\ believed <= all[i].revision /\ all[i].revision <= top
                                 /\ all[i].revision \in Nat
             /\ i > Len(old) => all[i].revision = r
  <2>1. CASE i <= Len(old)
    BY <1>1, <1>2, <1>3, <2>1 DEF Ascending
  <2>2. CASE i > Len(old)
    <3>1. i - Len(old) \in 1..Len(more) /\ all[i] = more[i - Len(old)]
      BY <1>1, <2>2
    <3> QED BY <1>1, <1>3, <2>2, <3>1
  <2> QED BY <1>1, <2>1, <2>2
<1>4. shown <= believed /\ believed <= top /\ believed <= r
  BY DEF Ascending
<1>5. ASSUME NEW i \in 1..Len(all), Carries(all[i])
      PROVE  believed <= all[i].revision /\ all[i].revision <= r
  BY <1>1, <1>3, <1>4, <1>5
<1>6. ASSUME NEW i \in 1..Len(all), NEW j \in 1..Len(all), i <= j,
             Carries(all[i]), Carries(all[j])
      PROVE  all[i].revision <= all[j].revision
  <2>1. CASE j <= Len(old)
    <3>1. i <= Len(old) /\ i \in 1..Len(old) /\ j \in 1..Len(old)
      BY <1>1, <1>6, <2>1
    <3>2. all[i] = old[i] /\ all[j] = old[j]
      BY <1>1, <3>1
    <3> QED BY <1>6, <3>1, <3>2 DEF Ascending
  <2>2. CASE j > Len(old)
    BY <1>1, <1>3, <1>5, <1>6, <2>2
  <2> QED BY <1>1, <2>1, <2>2
<1> QED BY <1>4, <1>5, <1>6 DEF Ascending, all

\* The page may move on alone, and a rejection changes no order.
LEMMA AscendingHigher ==
    ASSUME NEW shown \in Nat, NEW believed \in Nat, NEW top \in Nat, NEW r \in Nat, top <= r,
           NEW old \in Seq(Message), Ascending(shown, believed, old, top)
    PROVE  Ascending(shown, believed, old, r)
<1>1. \A i \in 1..Len(old) : old[i].revision \in Nat
  BY MessageFacts
<1> QED BY <1>1 DEF Ascending

\* The first message is taken: what it says is at most what the rest says.
LEMMA AscendingTail ==
    ASSUME NEW shown \in Nat, NEW believed \in Nat, NEW top \in Nat,
           NEW old \in Seq(Message), old # <<>>, Ascending(shown, believed, old, top)
    PROVE  /\ Ascending(shown, believed, Tail(old), top)
           /\ Carries(Head(old)) =>
                /\ believed <= Head(old).revision
                /\ \A s \in {shown, Head(old).revision} :
                     Ascending(s, Head(old).revision, Tail(old), top)
<1>1. /\ Len(old) \in Nat /\ Len(old) >= 1 /\ Head(old) = old[1]
      /\ Tail(old) \in Seq(Message) /\ Len(Tail(old)) = Len(old) - 1
      /\ \A i \in 1..(Len(old) - 1) : Tail(old)[i] = old[i + 1]
      /\ \A i \in 1..Len(old) : old[i] \in Message
  OBVIOUS
<1>2. \A i \in 1..Len(old) : old[i].revision \in Nat
  BY <1>1, RevisionFacts DEF Message
<1>3. \A i \in 1..Len(Tail(old)) : i + 1 \in 1..Len(old)
  BY <1>1
<1>4. 1 \in 1..Len(old)
  BY <1>1
<1>5. Ascending(shown, believed, Tail(old), top)
  <2>1. ASSUME NEW i \in 1..Len(Tail(old)), NEW j \in 1..Len(Tail(old)), i <= j,
               Carries(Tail(old)[i]), Carries(Tail(old)[j])
        PROVE  Tail(old)[i].revision <= Tail(old)[j].revision
    <3>1. i + 1 \in 1..Len(old) /\ j + 1 \in 1..Len(old) /\ i + 1 <= j + 1
      BY <1>1, <2>1
    <3>2. Tail(old)[i] = old[i + 1] /\ Tail(old)[j] = old[j + 1]
      BY <1>1
    <3> QED BY <2>1, <3>1, <3>2 DEF Ascending
  <2> QED BY <1>1, <1>3, <2>1 DEF Ascending
<1>6. ASSUME Carries(Head(old))
      PROVE  /\ believed <= Head(old).revision /\ Head(old).revision <= top
             /\ \A i \in 1..Len(Tail(old)) : Carries(Tail(old)[i]) =>
                  Head(old).revision <= Tail(old)[i].revision
  <2>1. believed <= Head(old).revision /\ Head(old).revision <= top
    BY <1>1, <1>4, <1>6 DEF Ascending
  <2>2. ASSUME NEW i \in 1..Len(Tail(old)), Carries(Tail(old)[i])
        PROVE  Head(old).revision <= Tail(old)[i].revision
    <3>1. i + 1 \in 1..Len(old) /\ 1 <= i + 1 /\ Tail(old)[i] = old[i + 1]
      BY <1>1, <1>3
    <3> QED BY <1>1, <1>4, <1>6, <2>2, <3>1 DEF Ascending
  <2> QED BY <2>1, <2>2
<1>7. ASSUME Carries(Head(old)), NEW s \in {shown, Head(old).revision}
      PROVE  Ascending(s, Head(old).revision, Tail(old), top)
  <2>1. Head(old).revision \in Nat /\ shown <= believed
    BY <1>1, <1>2, <1>4 DEF Ascending
  <2>2. s <= Head(old).revision
    BY <1>6, <1>7, <2>1
  <2>3. \A i, j \in 1..Len(Tail(old)) :
          i <= j /\ Carries(Tail(old)[i]) /\ Carries(Tail(old)[j]) =>
            Tail(old)[i].revision <= Tail(old)[j].revision
    BY <1>5 DEF Ascending
  <2>4. \A i \in 1..Len(Tail(old)) : Carries(Tail(old)[i]) => Tail(old)[i].revision <= top
    BY <1>5 DEF Ascending
  <2> QED BY <1>6, <1>7, <2>2, <2>3, <2>4 DEF Ascending
<1> QED BY <1>5, <1>6, <1>7

\* The types of what the order is about.
LEMMA FeedFacts ==
    ASSUME Typed, NEW c \in Controller
    PROVE  /\ remote[c].shown \in Nat /\ remote[c].believed \in Nat
           /\ page \in Nat /\ page \in Revision /\ link[c] \in Seq(Message)
<1>1. remote[c] \in Companion /\ link[c] \in Seq(Message) /\ page \in 1..revision
  BY DEF Typed
<1>2. page \in Nat /\ page \in Revision
  BY <1>1, FeedAssumption DEF Typed, Revision
<1> QED BY <1>1, <1>2, RevisionFacts DEF Companion

FeedInv == Typed /\ \A c \in Controller : OnTheWay(c)

\* A step that publishes the page's new revision keeps the order.
LEMMA OrderPublish ==
    ASSUME FeedInv, NEW answers, page <= page', page' \in Revision,
           PublishState(page', answers), UNCHANGED remote, NEW c \in Controller,
           \A d \in Controller : /\ answers[d] \in Seq(Message)
                                 /\ \A i \in 1..Len(answers[d]) : answers[d][i].revision = page'
    PROVE  Ascending(remote[c].shown, remote[c].believed, link[c], page)'
<1> DEFINE more == answers[c] \o <<Snapshot(page')>>
<1>1. /\ remote[c].shown \in Nat /\ remote[c].believed \in Nat /\ page \in Nat
      /\ link[c] \in Seq(Message) /\ page' \in Nat
      /\ Ascending(remote[c].shown, remote[c].believed, link[c], page)
  BY FeedFacts, OnTheWayIsAscending, RevisionFacts DEF FeedInv
<1>2. link'[c] = link[c] \o more
  BY PublishedFacts DEF FeedInv
<1>3. more \in Seq(Message) /\ \A i \in 1..Len(more) : more[i].revision = page'
  <2> DEFINE m == Snapshot(page')
             a == answers[c]
  <2>1. m \in Message /\ m.revision = page' /\ a \in Seq(Message)
        /\ \A i \in 1..Len(a) : a[i].revision = page'
    BY DEF Snapshot, Message
  <2> HIDE DEF m, a
  <2>2. <<m>> \in Seq(Message) /\ Len(<<m>>) = 1 /\ <<m>>[1] = m
    BY <2>1
  <2>3. /\ a \o <<m>> \in Seq(Message) /\ Len(a \o <<m>>) = Len(a) + 1 /\ Len(a) \in Nat
        /\ \A i \in 1..(Len(a) + 1) : (a \o <<m>>)[i] = IF i <= Len(a) THEN a[i] ELSE <<m>>[i - Len(a)]
    BY <2>1, <2>2, ConcatProperties
  <2>4. ASSUME NEW i \in 1..(Len(a) + 1) PROVE (a \o <<m>>)[i].revision = page'
    <3>1. CASE i <= Len(a)
      BY <2>1, <2>3, <3>1
    <3>2. CASE ~(i <= Len(a))
      <4>1. i - Len(a) = 1
        BY <2>3, <3>2
      <4> QED BY <2>1, <2>2, <2>3, <3>2, <4>1
    <3> QED BY <3>1, <3>2
  <2> QED BY <2>3, <2>4 DEF m, a
<1> HIDE DEF more
<1>4. Ascending(remote[c].shown, remote[c].believed, link[c] \o more, page')
  BY <1>1, <1>3, AscendingWithMore
<1>5. remote' = remote
  OBVIOUS
<1>6. Ascending(remote'[c].shown, remote'[c].believed, link'[c], page')
  BY <1>2, <1>4, <1>5
<1> QED BY <1>6

\* Whoever gets a message, everybody's order survives.
LEMMA OrderReceive ==
    ASSUME FeedInv, NEW c \in Controller, Receive(c), NEW d \in Controller
    PROVE  /\ Ascending(remote[d].shown, remote[d].believed, link[d], page)'
           /\ remote[d].shown <= remote'[d].shown /\ remote[d].believed <= remote'[d].believed
<1>0. /\ remote \in [Controller -> Companion] /\ link \in [Controller -> Seq(Message)]
      /\ remote[d].shown \in Nat /\ remote[d].believed \in Nat
      /\ remote[c].shown \in Nat /\ remote[c].believed \in Nat
      /\ page \in Nat /\ link[c] \in Seq(Message)
      /\ \A x \in Controller :
            Ascending(remote[x].shown, remote[x].believed, link[x], page)
  BY FeedFacts, OnTheWayIsAscending DEF FeedInv, Typed
<1> DEFINE m == Head(link[c])
           told == CASE m.kind = "applied"  ->
                          [remote[c] EXCEPT !.believed = m.revision, !.pending = FALSE]
                     [] m.kind = "rejected" -> [remote[c] EXCEPT !.pending = FALSE]
                     [] m.kind = "snapshot" /\ m.revision >= remote[c].believed ->
                          [remote[c] EXCEPT !.believed = m.revision, !.shown = m.revision]
                     [] OTHER -> remote[c]
<1>1. /\ link[c] # <<>> /\ link' = [link EXCEPT ![c] = Tail(link[c])]
      /\ remote' = [remote EXCEPT ![c] = told] /\ page' = page
  BY DEF Receive
<1>2. CASE d # c
  <2>1. remote'[d] = remote[d] /\ link'[d] = link[d]
    BY <1>0, <1>1, <1>2
  <2>2. Ascending(remote'[d].shown, remote'[d].believed, link'[d], page')
    BY <1>0, <1>1, <2>1
  <2> QED BY <1>0, <2>1, <2>2
<1>3. CASE d = c
  <2>1. m \in Message /\ m.revision \in Nat /\ m.kind \in {"applied", "rejected", "snapshot"}
    <3>1. m \in Message
      BY <1>0, <1>1
    <3> QED BY <3>1, RevisionFacts DEF Message
  <2>2. remote[c] \in Companion
    BY <1>0
  <2>3. \/ told.shown = remote[c].shown /\ told.believed = remote[c].believed
        \/ /\ Carries(m) /\ told.believed = m.revision
           /\ told.shown \in {remote[c].shown, m.revision}
    <3>1. CASE m.kind = "applied"
      BY <2>2, <3>1 DEF Companion, Carries
    <3>2. CASE m.kind = "rejected"
      BY <2>2, <3>2 DEF Companion
    <3>3. CASE m.kind = "snapshot" /\ m.revision >= remote[c].believed
      BY <2>2, <3>3 DEF Companion, Carries
    <3>4. CASE m.kind = "snapshot" /\ ~(m.revision >= remote[c].believed)
      BY <2>2, <3>4 DEF Companion
    <3> QED BY <2>1, <3>1, <3>2, <3>3, <3>4
  <2>4. remote'[c] = told /\ link'[c] = Tail(link[c])
    BY <1>0, <1>1
  <2>5. Ascending(remote[c].shown, remote[c].believed, link[c], page)
    BY <1>0
  <2> HIDE DEF told
  <2>6. /\ Ascending(remote[c].shown, remote[c].believed, Tail(link[c]), page)
        /\ Carries(m) =>
             /\ remote[c].believed <= m.revision
             /\ \A s \in {remote[c].shown, m.revision} :
                  Ascending(s, m.revision, Tail(link[c]), page)
    BY <1>0, <1>1, <2>5, AscendingTail
  <2> HIDE DEF m
  <2>7. Ascending(told.shown, told.believed, Tail(link[c]), page)
    BY <2>3, <2>6
  <2>8. Ascending(remote'[c].shown, remote'[c].believed, link'[c], page')
    BY <1>1, <2>4, <2>7
  <2>9. remote[c].shown <= remote[c].believed
    BY <2>5 DEF Ascending
  <2>10. remote[c].shown <= told.shown /\ remote[c].believed <= told.believed
    BY <1>0, <2>1, <2>3, <2>6, <2>9
  <2> QED BY <1>3, <2>4, <2>8, <2>10
<1> QED BY <1>2, <1>3

\* A rejection at the end carries no revision that could be out of order.
LEMMA AscendingWithRejection ==
    ASSUME NEW shown \in Nat, NEW believed \in Nat, NEW top \in Nat,
           NEW old \in Seq(Message), NEW m \in Message, m.kind = "rejected",
           Ascending(shown, believed, old, top)
    PROVE  Ascending(shown, believed, Append(old, m), top)
<1> DEFINE all == Append(old, m)
<1>1. /\ Len(old) \in Nat /\ Len(all) = Len(old) + 1 /\ all[Len(old) + 1] = m
      /\ \A i \in 1..Len(old) : all[i] = old[i]
  OBVIOUS
<1> HIDE DEF all
<1>2. ASSUME NEW i \in 1..Len(all), Carries(all[i]) PROVE i \in 1..Len(old) /\ all[i] = old[i]
  <2>1. i # Len(old) + 1
    BY <1>1, <1>2 DEF Carries
  <2> QED BY <1>1, <2>1
<1> QED BY <1>2 DEF Ascending, all

LEMMA OrderRefuse ==
    ASSUME FeedInv, RefuseRemote, NEW d \in Controller
    PROVE  Ascending(remote[d].shown, remote[d].believed, link[d], page)'
<1>1. /\ remote[d].shown \in Nat /\ remote[d].believed \in Nat /\ page \in Nat
      /\ link[d] \in Seq(Message) /\ link \in [Controller -> Seq(Message)]
      /\ Ascending(remote[d].shown, remote[d].believed, link[d], page)
  BY FeedFacts, OnTheWayIsAscending DEF FeedInv, Typed
<1>2. UNCHANGED <<page, remote>>
  BY DEF RefuseRemote
<1> DEFINE c == Head(inbox).from
<1>3. PICK r \in {0, revision} :
        link' = [link EXCEPT ![c] = Append(@, [kind |-> "rejected", revision |-> r])]
  BY DEF RefuseRemote
<1> DEFINE m == [kind |-> "rejected", revision |-> r]
<1>4. m \in Message /\ m.kind = "rejected"
  BY RevisionFacts DEF Message, FeedInv, Typed
<1> HIDE DEF c, m
<1>5. link' = [link EXCEPT ![c] = Append(@, m)]
  BY <1>3 DEF m
<1>6. Ascending(remote[d].shown, remote[d].believed, link'[d], page)
  <2>1. CASE c = d
    <3>1. link'[d] = Append(link[d], m)
      BY <1>1, <1>5, <2>1
    <3> QED BY <1>1, <1>4, <3>1, AscendingWithRejection
  <2>2. CASE c # d
    <3>1. link'[d] = link[d]
      BY <1>1, <1>5, <2>2
    <3> QED BY <1>1, <3>1
  <2> QED BY <2>1, <2>2
<1> QED BY <1>2, <1>6

\* An event, an answer, and the end of a command.
LEMMA OrderPage ==
    ASSUME FeedInv, Typed', NEW d \in Controller,
           HandleEvent \/ \E w \in Caller : Accept(w) \/ Show(w)
    PROVE  /\ Ascending(remote[d].shown, remote[d].believed, link[d], page)'
           /\ page <= page' /\ UNCHANGED remote
<1>1. /\ remote[d].shown \in Nat /\ remote[d].believed \in Nat /\ page \in Nat
      /\ link[d] \in Seq(Message)
      /\ Ascending(remote[d].shown, remote[d].believed, link[d], page)
  BY FeedFacts, OnTheWayIsAscending DEF FeedInv
<1>2. page' \in Nat /\ page' \in Revision
  BY FeedAssumption DEF Typed, Revision
<1>3. UNCHANGED remote
  BY DEF HandleEvent, Accept, Show
<1>4. ASSUME page <= page', UNCHANGED link
      PROVE  Ascending(remote[d].shown, remote[d].believed, link[d], page)'
  <2>1. Ascending(remote[d].shown, remote[d].believed, link[d], page')
    BY <1>1, <1>2, <1>4, AscendingHigher
  <2> QED BY <1>3, <1>4, <2>1
<1>5. CASE HandleEvent
  <2>1. CASE Head(channel) > page
    <3>1. PublishState(page', NoAnswers) /\ page <= page'
      BY <1>1, <1>2, <1>5, <2>1 DEF HandleEvent
    <3>2. \A c \in Controller : /\ NoAnswers[c] \in Seq(Message)
                                /\ \A i \in 1..Len(NoAnswers[c]) : NoAnswers[c][i].revision = page'
      BY NoAnswersFacts
    <3> QED BY <1>2, <1>3, <3>1, <3>2, OrderPublish
  <2>2. CASE ~(Head(channel) > page)
    <3>1. UNCHANGED <<page, link>>
      BY <1>5, <2>2 DEF HandleEvent
    <3> QED BY <1>1, <1>3, <1>4, <3>1
  <2> QED BY <2>1, <2>2
<1>6. ASSUME NEW w \in Caller, Accept(w)
      PROVE  /\ Ascending(remote[d].shown, remote[d].believed, link[d], page)'
             /\ page <= page'
  <2>1. call[w].carried \in Nat
    BY RevisionFacts DEF FeedInv, Typed, Call
  <2>2. page <= page' /\ UNCHANGED link
    BY <1>1, <1>6, <2>1 DEF Accept, MaxOf
  <2> QED BY <1>4, <2>2
<1>7. ASSUME NEW w \in Caller, Show(w)
      PROVE  /\ Ascending(remote[d].shown, remote[d].believed, link[d], page)'
             /\ page <= page'
  <2>1. page' = page /\ PublishState(page', Applied(w))
    BY <1>7 DEF Show
  <2>2. \A c \in Controller : /\ Applied(w)[c] \in Seq(Message)
                              /\ \A i \in 1..Len(Applied(w)[c]) : Applied(w)[c][i].revision = page'
    BY <2>1, AppliedFacts DEF FeedInv
  <2>3. page <= page'
    BY <1>1, <2>1
  <2> QED BY <1>2, <1>3, <2>1, <2>2, <2>3, OrderPublish
<1> QED BY <1>3, <1>5, <1>6, <1>7

\* What one step does to the order, to what a controller shows and to the page.
LEMMA OrderStep ==
    ASSUME FeedInv, [Next]_vars, NEW d \in Controller
    PROVE  /\ OnTheWay(d)'
           /\ remote[d].shown <= remote'[d].shown
           /\ remote[d].believed <= remote'[d].believed
           /\ page <= page'
<1>0. Typed'
  BY TypedStep DEF FeedInv
<1>1. /\ remote[d].shown \in Nat /\ remote[d].believed \in Nat /\ page \in Nat
      /\ Ascending(remote[d].shown, remote[d].believed, link[d], page)
      /\ remote \in [Controller -> Companion]
  BY FeedFacts, OnTheWayIsAscending DEF FeedInv, Typed
<1> DEFINE Goal == /\ Ascending(remote[d].shown, remote[d].believed, link[d], page)'
                   /\ remote[d].shown <= remote'[d].shown
                   /\ remote[d].believed <= remote'[d].believed
                   /\ page <= page'
<1>a. SUFFICES Goal
  BY <1>0, OnTheWayIsAscendingNext
<1>2. ASSUME UNCHANGED <<page, link>>, remote'[d].shown = remote[d].shown,
             remote'[d].believed = remote[d].believed
      PROVE  Goal
  <2>1. Ascending(remote'[d].shown, remote'[d].believed, link'[d], page')
    BY <1>1, <1>2
  <2> QED BY <1>1, <1>2, <2>1
<1>3. CASE \/ \E w \in Caller : \/ Command(w) \/ Import(w) \/ ReadToPublish(w)
                                \/ Publish(w) \/ Fetch(w)
           \/ Conflict \/ ApplyRemote \/ Greet \/ Subscribe
           \/ UNCHANGED vars
  <2>1. UNCHANGED <<page, link, remote>>
    BY <1>3 DEF Command, Import, Change, ReadToPublish, Publish, Fetch, Conflict, ApplyRemote,
                Greet, Subscribe, vars
  <2> QED BY <1>2, <2>1
<1>4. CASE \E c \in Controller : Ask(c)
  <2> PICK c \in Controller : Ask(c)
    BY <1>4
  <2> DEFINE asking == [remote[c] EXCEPT !.pending = TRUE]
  <2>1. /\ remote' = [remote EXCEPT ![c] = asking] /\ UNCHANGED <<page, link>>
        /\ asking.shown = remote[c].shown /\ asking.believed = remote[c].believed
    BY <1>1 DEF Ask, Companion
  <2> HIDE DEF asking
  <2>2. remote'[d].shown = remote[d].shown /\ remote'[d].believed = remote[d].believed
    BY <1>1, <2>1
  <2> QED BY <1>2, <2>1, <2>2
<1>5. CASE \E c \in Controller : Receive(c)
  <2>1. page' = page
    BY <1>5 DEF Receive
  <2> QED BY <1>1, <1>5, <2>1, OrderReceive
<1>6. CASE RefuseRemote
  <2>1. UNCHANGED <<page, remote>>
    BY <1>6 DEF RefuseRemote
  <2> QED BY <1>1, <1>6, <2>1, OrderRefuse
<1>7. CASE HandleEvent \/ \E w \in Caller : Accept(w) \/ Show(w)
  BY <1>0, <1>1, <1>7, OrderPage
<1> HIDE DEF Goal
<1> QED BY <1>3, <1>4, <1>5, <1>6, <1>7 DEF Next, Proceed

LEMMA FeedInit == Init => FeedInv
<1> SUFFICES ASSUME Init PROVE FeedInv
  OBVIOUS
<1>1. Typed
  BY TypedInit
<1>2. \A c \in Controller : /\ link[c] = <<>> /\ remote[c].shown = 1 /\ remote[c].believed = 1
                            /\ page = 1
  BY DEF Init
<1> QED BY <1>1, <1>2 DEF FeedInv, OnTheWay

LEMMA FeedStep == FeedInv /\ [Next]_vars => FeedInv'
BY TypedStep, OrderStep DEF FeedInv

\* Types, and the order of what is shown, named, on its way and at the page.
THEOREM FeedIsInOrder == Spec => []FeedInOrder
<1>1. FeedInv => FeedInOrder
  BY TypedImpliesTypeOK DEF FeedInv, FeedInOrder
<1> QED BY <1>1, FeedInit, FeedStep, PTL DEF Spec

\* No step takes the page or a controller back to an earlier revision, and none
\* takes back the revision a controller names in its next command.
THEOREM NobodyGoesBack ==
    Spec => [][/\ page <= page'
               /\ \A c \in Controller : /\ remote[c].shown <= remote'[c].shown
                                        /\ remote[c].believed <= remote'[c].believed]_vars
<1> DEFINE Forward == /\ page <= page'
                      /\ \A c \in Controller : /\ remote[c].shown <= remote'[c].shown
                                               /\ remote[c].believed <= remote'[c].believed
<1>1. FeedInv /\ [Next]_vars => [Forward]_vars
  <2> SUFFICES ASSUME FeedInv, Next PROVE Forward
    OBVIOUS
  <2>1. \A c \in Controller : /\ remote[c].shown <= remote'[c].shown
                              /\ remote[c].believed <= remote'[c].believed
    BY OrderStep
  <2>2. page <= page'
    <3>1. Typed /\ Typed'
      BY TypedStep DEF FeedInv
    <3>2. page \in Nat /\ page' \in Nat
      BY <3>1, FeedAssumption DEF Typed, Revision
    <3>3. CASE HandleEvent
      BY <3>2, <3>3 DEF HandleEvent
    <3>4. ASSUME NEW w \in Caller, Accept(w) PROVE page <= page'
      <4>1. call[w].carried \in Nat
        BY <3>1, RevisionFacts DEF Typed, Call
      <4> QED BY <3>2, <3>4, <4>1 DEF Accept, MaxOf
    <3>5. ASSUME UNCHANGED page PROVE page <= page'
      BY <3>2, <3>5
    <3> QED BY <3>3, <3>4, <3>5
            DEF Next, Proceed, Command, Import, Change, ReadToPublish, Publish, Fetch, Show,
                Conflict, ApplyRemote, RefuseRemote, Greet, Subscribe, Ask, Receive
  <2> QED BY <2>1, <2>2
<1>2. Spec => []FeedInv
  BY FeedInit, FeedStep, PTL DEF Spec
<1> QED BY <1>1, <1>2, PTL DEF Spec
=============================================================================
