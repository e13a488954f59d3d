------------------------ MODULE BroadcastOwnershipProofs ------------------------
(***************************************************************************)
(* Proofs about BroadcastOwnership, for any number of windows, sessions    *)
(* and events.                                                             *)
(***************************************************************************)
EXTENDS BroadcastOwnership, FiniteSetTheorems, TLAPS

Task == [kind : Kind \cup {None}, step : Step \cup {None}, mine : Session \cup {None}]

Typed ==
    /\ page \in [Window -> {"closed", "opening", "open"}]
    /\ auto \in [Window -> BOOLEAN]
    /\ session \in [Window -> Session \cup {None}]
    /\ bridge \in [Window -> [session : Session \cup {None}, up : BOOLEAN]]
    /\ task \in [Window -> Task]
    /\ waiting \in [Window -> Seq(Kind)]
    /\ timer \in [Window -> BOOLEAN]
    /\ recovering \in [Window -> BOOLEAN]
    /\ poll \in [Window -> [step : {None} \cup PollStage, owned : Session \cup {None}]]
    /\ authority \in Session \cup {None}

(* What makes ServedIsShown hold, window by window. *)

\* A closed window has nothing.
ClosedIsQuiet(w) ==
    page[w] = "closed" =>
        /\ session[w] = None /\ ~bridge[w].up /\ ~timer[w]
        /\ task[w] = NoTask /\ waiting[w] = <<>> /\ poll[w].step = None

Served(w) == bridge[w].up => bridge[w].session = session[w] /\ session[w] # None

\* A task has stopped the bridge; from its request on the window shows no session.
AtWork(w) ==
    task[w].step \in Step =>
        /\ ~bridge[w].up
        /\ task[w].step \notin {"forget", "revoke all"} => session[w] = None
        /\ task[w].step = "connect" => task[w].mine # None

\* A start waits for nothing, and the window shows no session.
StartIsFirst(w) ==
    \A i \in 1..Len(waiting[w]) :
        waiting[w][i] = "start" => i = 1 /\ task[w] = NoTask /\ session[w] = None

\* An answer about the session that the window shows has stopped the bridge; and a task
\* connects to another session than the one that was asked about.
OldQuestion(w) ==
    /\ poll[w].step \in {"gone", "other"} /\ bridge[w].up => session[w] # poll[w].owned
    /\ task[w].step = "connect" /\ poll[w].step # None => task[w].mine # poll[w].owned

Good(w) == ClosedIsQuiet(w) /\ Served(w) /\ AtWork(w) /\ StartIsFirst(w) /\ OldQuestion(w)

Inv == Typed /\ \A w \in Window : Good(w)

\* The other windows.
Same(u) ==
    /\ page'[u] = page[u] /\ session'[u] = session[u] /\ bridge'[u] = bridge[u]
    /\ task'[u] = task[u] /\ waiting'[u] = waiting[u] /\ timer'[u] = timer[u]
    /\ poll'[u] = poll[u]

LEMMA OneWindow ==
    ASSUME Inv, Typed', NEW w \in Window, Good(w)', \A u \in Window \ {w} : Same(u)
    PROVE  Inv'
<1>1. ASSUME NEW u \in Window \ {w} PROVE Good(u)'
  <2>0. Same(u) /\ Good(u)
    BY DEF Inv
  <2>1. ClosedIsQuiet(u)' /\ Served(u)'
    BY <2>0 DEF Same, Good, ClosedIsQuiet, Served
  <2>2. AtWork(u)'
    BY <2>0 DEF Same, Good, AtWork
  <2>3. StartIsFirst(u)'
    BY <2>0 DEF Same, Good, StartIsFirst
  <2>4. OldQuestion(u)'
    BY <2>0 DEF Same, Good, OldQuestion
  <2> QED BY <2>1, <2>2, <2>3, <2>4 DEF Good
<1> QED BY <1>1 DEF Inv

\* No start waits behind a task, nor in a window where nothing is due.
LEMMA StartFacts ==
    ASSUME Inv, NEW w \in Window, task[w].step # None \/ ~Due(w)
    PROVE  \A i \in 1..Len(waiting[w]) : waiting[w][i] # "start"
<1> SUFFICES ASSUME NEW i \in 1..Len(waiting[w]), waiting[w][i] = "start" PROVE FALSE
  OBVIOUS
<1>1. task[w] = NoTask
  BY DEF Inv, Good, StartIsFirst
<1>2. waiting[w] \in Seq(Kind)
  BY DEF Inv, Typed
<1>3. waiting[w] # <<>>
  BY <1>2
<1> QED BY <1>1, <1>3 DEF Due, NoTask

LEMMA InvImplies == Inv => ServedIsShown
BY DEF Inv, Good, Served, ServedIsShown

LEMMA InvInit == Init => Inv
<1> SUFFICES ASSUME Init PROVE Inv
  OBVIOUS
<1>1. Typed
  BY DEF Init, Typed, NoBridge, NoTask, NoPoll, Task
<1>2. ASSUME NEW w \in Window PROVE Good(w)
  <2>1. /\ page[w] = "closed" /\ session[w] = None /\ bridge[w] = NoBridge /\ timer[w] = FALSE
        /\ task[w] = NoTask /\ waiting[w] = <<>> /\ poll[w] = NoPoll
    BY DEF Init
  <2>2. ~bridge[w].up /\ task[w].step = None /\ poll[w].step = None
    BY <2>1 DEF NoBridge, NoTask, NoPoll
  <2>3. None \notin Step /\ None \notin PollStage
    BY OwnershipAssumption
  <2>4. ClosedIsQuiet(w) /\ Served(w) /\ AtWork(w) /\ StartIsFirst(w)
    BY <2>1, <2>2, <2>3 DEF ClosedIsQuiet, Served, AtWork, StartIsFirst
  <2>5. OldQuestion(w)
    BY <2>2, <2>3 DEF OldQuestion, PollStage
  <2> QED BY <2>4, <2>5 DEF Good
<1> QED BY <1>1, <1>2 DEF Inv

\* A task goes to its next step, with the same session or another one.
LEMMA StepTo ==
    ASSUME Typed, NEW w \in Window, NEW s \in Step, task' = [task EXCEPT ![w].step = s]
    PROVE  /\ task' \in [Window -> Task]
           /\ task'[w].step = s /\ task'[w].mine = task[w].mine /\ task'[w].kind = task[w].kind
           /\ \A u \in Window \ {w} : task'[u] = task[u]
<1> DEFINE next == [task[w] EXCEPT !.step = s]
<1>1. task[w] \in Task /\ task \in [Window -> Task]
  BY DEF Typed
<1>2. next \in Task /\ next.step = s /\ next.mine = task[w].mine /\ next.kind = task[w].kind
  BY <1>1 DEF Task
<1>3. task' = [task EXCEPT ![w] = next]
  OBVIOUS
<1> HIDE DEF next
<1> QED BY <1>1, <1>2, <1>3

LEMMA StepWith ==
    ASSUME Typed, NEW w \in Window, NEW s \in Step, NEW m \in Session \cup {None},
           task' = [task EXCEPT ![w].step = s, ![w].mine = m]
    PROVE  /\ task' \in [Window -> Task]
           /\ task'[w].step = s /\ task'[w].mine = m /\ task'[w].kind = task[w].kind
           /\ \A u \in Window \ {w} : task'[u] = task[u]
<1> DEFINE next == [task[w] EXCEPT !.step = s, !.mine = m]
<1>1. task[w] \in Task /\ task \in [Window -> Task]
  BY DEF Typed
<1>2. next \in Task /\ next.step = s /\ next.mine = m /\ next.kind = task[w].kind
  BY <1>1 DEF Task
<1>3. task' = [[task EXCEPT ![w].step = s] EXCEPT ![w].mine = m]
  OBVIOUS
<1>4. task' = [task EXCEPT ![w] = next]
  BY <1>1, <1>3
<1> HIDE DEF next
<1> QED BY <1>1, <1>2, <1>4

\* None is neither a step nor a stage.
LEMMA NoneIsNone ==
    /\ None \notin Step /\ None \notin PollStage /\ None \notin Session
    /\ NoTask \in Task /\ NoTask.step = None
    /\ NoBridge.up = FALSE /\ NoBridge \in [session : Session \cup {None}, up : BOOLEAN]
    /\ NoPoll.step = None
    /\ NoPoll \in [step : {None} \cup PollStage, owned : Session \cup {None}]
BY OwnershipAssumption DEF NoTask, NoBridge, NoPoll, Task

\* What the parts of Good say of a window whose bridge is down.
LEMMA GoodDown ==
    ASSUME NEW w \in Window, ~bridge'[w].up,
           page'[w] = "closed" =>
               /\ session'[w] = None /\ ~timer'[w]
               /\ task'[w] = NoTask /\ waiting'[w] = <<>> /\ poll'[w].step = None,
           task'[w].step \in Step \ {"forget", "revoke all"} => session'[w] = None,
           task'[w].step = "connect" =>
               task'[w].mine # None /\ (poll'[w].step # None => task'[w].mine # poll'[w].owned),
           StartIsFirst(w)'
    PROVE  Good(w)'
BY DEF Good, ClosedIsQuiet, Served, AtWork, OldQuestion

\* The actions that change what a window shows or asks, not its tasks.
LEMMA OpenStep ==
    ASSUME Inv, NEW w \in Window, NEW automatic \in BOOLEAN, Open(w, automatic)
    PROVE  Inv'
<1>1. Typed'
  BY DEF Open, Inv, Typed
<1>2. \A u \in Window \ {w} : Same(u)
  BY DEF Open, Inv, Typed, Same
<1>3. /\ page'[w] = "opening"
      /\ bridge' = bridge /\ task' = task /\ waiting' = waiting /\ poll' = poll
      /\ ~bridge[w].up /\ task[w] = NoTask /\ waiting[w] = <<>> /\ poll[w].step = None
  BY DEF Open, Inv, Typed, Good, ClosedIsQuiet
<1>4. StartIsFirst(w)'
  BY <1>3 DEF StartIsFirst
<1>5. Good(w)'
  BY <1>3, <1>4, NoneIsNone, GoodDown DEF Step
<1> QED BY <1>1, <1>2, <1>5, OneWindow

LEMMA ForgetStep ==
    ASSUME Inv, NEW w \in Window, Forget(w)
    PROVE  Inv'
<1>0. /\ task[w].step = "forget" /\ "request" \in Step /\ "forget" \in Step
      /\ task' = [task EXCEPT ![w].step = "request"]
      /\ session' = [session EXCEPT ![w] = None]
      /\ UNCHANGED <<authority, page, auto, bridge, waiting, timer, recovering, poll>>
  BY DEF Forget, Step
<1>1. Typed'
  BY <1>0, StepTo DEF Inv, Typed
<1>2. \A u \in Window \ {w} : Same(u)
  BY <1>0, StepTo DEF Inv, Typed, Same
<1>3. ~bridge[w].up /\ session'[w] = None /\ page[w] # "closed"
  BY <1>0, NoneIsNone DEF Inv, Typed, Good, AtWork, ClosedIsQuiet
<1>4. StartIsFirst(w)'
  BY <1>0, StartFacts, NoneIsNone DEF StartIsFirst
<1>5. task'[w].step = "request"
  BY <1>0, StepTo DEF Inv
<1>6. Good(w)'
  BY <1>0, <1>3, <1>4, <1>5, GoodDown
<1> QED BY <1>1, <1>2, <1>6, OneWindow

\* A task is queued.
LEMMA QueuedFacts ==
    ASSUME Typed, NEW w \in Window, NEW kind \in Kind, Queued(w, kind)
    PROVE  /\ waiting' \in [Window -> Seq(Kind)]
           /\ \A u \in Window \ {w} : waiting'[u] = waiting[u]
           /\ Len(waiting'[w]) = Len(waiting[w]) + 1
           /\ \A i \in 1..Len(waiting[w]) : waiting'[w][i] = waiting[w][i]
           /\ waiting'[w][Len(waiting[w]) + 1] = kind
<1>1. waiting \in [Window -> Seq(Kind)] /\ waiting[w] \in Seq(Kind)
  BY DEF Typed
<1>2. Append(waiting[w], kind) \in Seq(Kind)
  BY <1>1
<1>3. waiting' = [waiting EXCEPT ![w] = Append(waiting[w], kind)]
  BY DEF Queued
<1>4. waiting'[w] = Append(waiting[w], kind)
  BY <1>1, <1>3
<1> QED BY <1>1, <1>2, <1>3, <1>4

\* Nothing but a click queues a start.
LEMMA QueuedBehind ==
    ASSUME Typed, NEW w \in Window, NEW kind \in Kind \ {"start"}, Queued(w, kind),
           \A i \in 1..Len(waiting[w]) : waiting[w][i] # "start"
    PROVE  StartIsFirst(w)'
<1>1. waiting[w] \in Seq(Kind)
  BY DEF Typed
<1>2. ASSUME NEW i \in 1..Len(waiting'[w]) PROVE waiting'[w][i] # "start"
  <2>1. i \in 1..Len(waiting[w]) \/ i = Len(waiting[w]) + 1
    BY <1>1, QueuedFacts
  <2> QED BY <2>1, QueuedFacts
<1> QED BY <1>2 DEF StartIsFirst

\* Only the tasks that wait have changed.
LEMMA GoodStill ==
    ASSUME NEW w \in Window, Good(w), page'[w] # "closed", StartIsFirst(w)',
           session'[w] = session[w], bridge'[w] = bridge[w], task'[w] = task[w],
           poll'[w] = poll[w]
    PROVE  Good(w)'
BY DEF Good, ClosedIsQuiet, Served, AtWork, OldQuestion

LEMMA WindowReadyStep ==
    ASSUME Inv, NEW w \in Window, ~Due(w), WindowReady(w)
    PROVE  Inv'
<1>1. CASE auto[w]
  <2>1. Queued(w, "auto") /\ "auto" \in Kind \ {"start"}
    BY <1>1 DEF WindowReady, Kind
  <2>2. Typed'
    BY <2>1, QueuedFacts DEF WindowReady, Inv, Typed
  <2>3. \A u \in Window \ {w} : Same(u)
    BY <2>1, QueuedFacts DEF WindowReady, Inv, Typed, Same
  <2>4. StartIsFirst(w)'
    BY <2>1, StartFacts, QueuedBehind DEF Inv
  <2>5. Good(w)'
    BY <2>4, GoodStill DEF WindowReady, Inv, Typed
  <2> QED BY <2>2, <2>3, <2>5, OneWindow
<1>2. CASE ~auto[w]
  <2>1. UNCHANGED waiting
    BY <1>2 DEF WindowReady
  <2>2. Typed'
    BY <2>1 DEF WindowReady, Inv, Typed
  <2>3. \A u \in Window \ {w} : Same(u)
    BY <2>1 DEF WindowReady, Inv, Typed, Same
  <2>4. StartIsFirst(w)'
    BY <2>1 DEF WindowReady, Inv, Good, StartIsFirst
  <2>5. Good(w)'
    BY <2>4, GoodStill DEF WindowReady, Inv, Typed
  <2> QED BY <2>2, <2>3, <2>5, OneWindow
<1> QED BY <1>1, <1>2

LEMMA ClickStep ==
    ASSUME Inv, NEW w \in Window, NEW kind \in {"restart", "start", "stop"}, Click(w, kind)
    PROVE  Inv'
<1>1. /\ Queued(w, kind) /\ kind \in Kind
      /\ page[w] = "open" /\ task[w] = NoTask /\ waiting[w] = <<>>
      /\ kind = "start" => session[w] = None
      /\ timer' = [timer EXCEPT ![w] = FALSE]
      /\ UNCHANGED <<authority, page, auto, session, bridge, task, recovering, poll>>
  BY DEF Click, Busy, Kind
<1>2. Typed'
  BY <1>1, QueuedFacts DEF Inv, Typed
<1>3. \A u \in Window \ {w} : Same(u)
  BY <1>1, QueuedFacts DEF Inv, Typed, Same
<1>4. Len(waiting'[w]) = 1 /\ waiting'[w][1] = kind
  <2>1. Len(waiting[w]) = 0
    BY <1>1
  <2>2. /\ Len(waiting'[w]) = Len(waiting[w]) + 1
        /\ waiting'[w][Len(waiting[w]) + 1] = kind
    BY <1>1, QueuedFacts DEF Inv
  <2> QED BY <2>1, <2>2
<1>5. StartIsFirst(w)'
  BY <1>1, <1>4 DEF StartIsFirst
<1>6. Good(w)'
  BY <1>1, <1>5, GoodStill DEF Inv
<1> QED BY <1>2, <1>3, <1>6, OneWindow

LEMMA CloseStep ==
    ASSUME Inv, NEW w \in Window, Close(w)
    PROVE  Inv'
<1>1. Typed'
  BY NoneIsNone DEF Close, Inv, Typed
<1>2. \A u \in Window \ {w} : Same(u)
  BY DEF Close, Inv, Typed, Same
<1>3. /\ bridge'[w] = NoBridge /\ session'[w] = None /\ timer'[w] = FALSE
      /\ task'[w] = NoTask /\ waiting'[w] = <<>> /\ poll'[w] = NoPoll
  BY DEF Close, Inv, Typed
<1>4. StartIsFirst(w)'
  BY <1>3 DEF StartIsFirst
<1>5. Good(w)'
  BY <1>3, <1>4, NoneIsNone, GoodDown DEF Step
<1> QED BY <1>1, <1>2, <1>5, OneWindow

LEMMA TimerFiresStep ==
    ASSUME Inv, NEW w \in Window, ~Due(w), TimerFires(w)
    PROVE  Inv'
<1>1. Queued(w, "auto") /\ "auto" \in Kind \ {"start"}
  BY DEF TimerFires, Kind
<1>2. Typed'
  BY <1>1, QueuedFacts DEF TimerFires, Inv, Typed
<1>3. \A u \in Window \ {w} : Same(u)
  BY <1>1, QueuedFacts DEF TimerFires, Inv, Typed, Same
<1>4. StartIsFirst(w)'
  BY <1>1, StartFacts, QueuedBehind DEF Inv
<1>5. page'[w] # "closed"
  BY DEF TimerFires, Inv, Good, ClosedIsQuiet
<1>6. Good(w)'
  BY <1>4, <1>5, GoodStill DEF TimerFires, Inv
<1> QED BY <1>2, <1>3, <1>6, OneWindow


\* The actions of a task.
LEMMA RunStep ==
    ASSUME Inv, NEW w \in Window, Run(w)
    PROVE  Inv'
<1> DEFINE kind == Head(waiting[w])
           stops == kind # "start" /\ (kind = "auto" => session[w] # None)
           next == IF kind = "stop" THEN "revoke all"
                   ELSE IF kind # "recover" /\ stops THEN "forget" ELSE "request"
           started == [NoTask EXCEPT !.kind = kind, !.step = next]
<1>1. /\ waiting[w] \in Seq(Kind) /\ waiting[w] # <<>>
      /\ kind \in Kind /\ Tail(waiting[w]) \in Seq(Kind)
      /\ Len(Tail(waiting[w])) = Len(waiting[w]) - 1
      /\ \A i \in 1..Len(Tail(waiting[w])) : Tail(waiting[w])[i] = waiting[w][i + 1]
      /\ kind = waiting[w][1]
  BY DEF Run, Inv, Typed
<1>2. /\ next \in {"forget", "revoke all", "request"}
      /\ ~stops => kind \in {"start", "auto"} /\ (kind = "auto" => session[w] = None)
      /\ next = "request" => kind = "recover" \/ ~stops
      /\ kind = "recover" => stops
  OBVIOUS
<1>3. started \in Task /\ started.step = next
  BY <1>1, <1>2 DEF Task, NoTask, Step
<1>4. /\ task[w] = NoTask
      /\ waiting' = [waiting EXCEPT ![w] = Tail(waiting[w])]
      /\ task' = [task EXCEPT ![w] = started]
      /\ bridge' = IF stops THEN [bridge EXCEPT ![w] = NoBridge] ELSE bridge
      /\ session' = IF kind = "recover" THEN [session EXCEPT ![w] = None] ELSE session
      /\ UNCHANGED <<authority, page, auto, timer, recovering, poll>>
  BY DEF Run
<1>5. kind = "start" => session[w] = None
  <2>1. 1 \in 1..Len(waiting[w])
    BY <1>1
  <2> QED BY <1>1, <2>1 DEF Inv, Good, StartIsFirst
<1>6. ASSUME NEW i \in 1..Len(Tail(waiting[w])) PROVE Tail(waiting[w])[i] # "start"
  <2>1. i + 1 \in 1..Len(waiting[w]) /\ i + 1 # 1
    BY <1>1
  <2>2. waiting[w][i + 1] # "start"
    BY <2>1 DEF Inv, Good, StartIsFirst
  <2> QED BY <1>1, <2>2
<1> HIDE DEF kind, stops, next, started
<1>7. Typed'
  BY <1>1, <1>3, <1>4, NoneIsNone DEF Inv, Typed
<1>8. \A u \in Window \ {w} : Same(u)
  BY <1>4 DEF Inv, Typed, Same
<1>9. page[w] # "closed"
  BY <1>1 DEF Inv, Good, ClosedIsQuiet
<1>10. ~bridge'[w].up
  <2>1. CASE stops
    BY <1>4, <2>1, NoneIsNone DEF Inv, Typed
  <2>2. CASE ~stops
    BY <1>2, <1>4, <1>5, <2>2 DEF Inv, Good, Served
  <2> QED BY <2>1, <2>2
<1>11. task'[w] = started /\ waiting'[w] = Tail(waiting[w])
  BY <1>4 DEF Inv, Typed
<1>12. next = "request" => session'[w] = None
  <2>1. CASE kind = "recover"
    BY <1>4, <2>1 DEF Inv, Typed
  <2>2. CASE kind # "recover"
    BY <1>2, <1>4, <1>5, <2>2
  <2> QED BY <2>1, <2>2
<1>13. StartIsFirst(w)'
  BY <1>6, <1>11 DEF StartIsFirst
<1>14. Good(w)'
  BY <1>2, <1>3, <1>4, <1>9, <1>10, <1>11, <1>12, <1>13, GoodDown
<1> QED BY <1>7, <1>8, <1>14, OneWindow

\* No start waits behind a task, and none is queued by one.
LEMMA NoStartWaits ==
    ASSUME Inv, NEW w \in Window, task[w].step # None, waiting' = waiting
    PROVE  StartIsFirst(w)'
BY StartFacts DEF StartIsFirst

\* The window of a task is there, and what it has not stopped is its bridge only at the
\* connection.
LEMMA AtWorkFacts ==
    ASSUME Inv, NEW w \in Window, task[w].step \in Step
    PROVE  /\ page[w] # "closed" /\ ~bridge[w].up /\ task[w].step # None
           /\ task[w].step \notin {"forget", "revoke all"} => session[w] = None
           /\ task[w].step = "connect" =>
                /\ task[w].mine # None
                /\ poll[w].step # None => task[w].mine # poll[w].owned
BY NoneIsNone DEF Inv, Good, AtWork, ClosedIsQuiet, OldQuestion

LEMMA RevokeAllStep ==
    ASSUME Inv, NEW w \in Window, RevokeAll(w)
    PROVE  Inv'
<1>1. task[w].step = "revoke all" /\ "revoke all" \in Step
  BY DEF RevokeAll, Step
<1>2. Typed'
  BY NoneIsNone DEF RevokeAll, Inv, Typed
<1>3. \A u \in Window \ {w} : Same(u)
  BY DEF RevokeAll, Inv, Typed, Same
<1>4. task'[w] = NoTask /\ page'[w] # "closed" /\ ~bridge'[w].up
  BY <1>1, AtWorkFacts DEF RevokeAll, Inv, Typed
<1>5. StartIsFirst(w)'
  BY <1>1, AtWorkFacts, NoStartWaits DEF RevokeAll
<1>6. Good(w)'
  BY <1>4, <1>5, NoneIsNone, GoodDown DEF Step
<1> QED BY <1>2, <1>3, <1>6, OneWindow

LEMMA RequestStep ==
    ASSUME Inv, NEW w \in Window, Request(w)
    PROVE  Inv'
<1>1. /\ task[w].step = "request" /\ "request" \in Step /\ "connect" \in Step
      /\ UNCHANGED <<page, auto, session, waiting, timer, recovering, poll>>
  BY DEF Request, Step
<1>2. Fresh \in Session /\ Fresh \notin Remembered
  BY DEF Request, Fresh
<1>3. Fresh # poll[w].owned /\ Fresh # None
  BY <1>2, NoneIsNone DEF Remembered
<1>4. /\ task' = [task EXCEPT ![w].step = "connect", ![w].mine = Fresh]
      /\ authority' = Fresh
      /\ bridge' = [bridge EXCEPT ![w] = [session |-> Fresh, up |-> FALSE]]
  BY DEF Request
<1> HIDE DEF Fresh
<1>5. /\ task' \in [Window -> Task]
      /\ task'[w].step = "connect" /\ task'[w].mine = Fresh
      /\ \A u \in Window \ {w} : task'[u] = task[u]
  BY <1>1, <1>2, <1>4, StepWith DEF Inv
<1>6. Typed'
  BY <1>1, <1>2, <1>4, <1>5 DEF Inv, Typed
<1>7. \A u \in Window \ {w} : Same(u)
  BY <1>1, <1>4, <1>5 DEF Inv, Typed, Same
<1>8. page'[w] # "closed" /\ session'[w] = None /\ ~bridge'[w].up
  BY <1>1, <1>4, AtWorkFacts DEF Inv, Typed
<1>9. StartIsFirst(w)'
  BY <1>1, AtWorkFacts, NoStartWaits
<1>10. Good(w)'
  BY <1>1, <1>3, <1>5, <1>8, <1>9, GoodDown
<1> QED BY <1>6, <1>7, <1>10, OneWindow

LEMMA ConnectedStep ==
    ASSUME Inv, NEW w \in Window, Connected(w)
    PROVE  Inv'
<1>1. task[w].step = "connect" /\ "connect" \in Step
  BY DEF Connected, Step
<1>2. task[w] \in Task /\ bridge[w] \in [session : Session \cup {None}, up : BOOLEAN]
  BY DEF Inv, Typed
<1>3. /\ task' = [task EXCEPT ![w] = NoTask]
      /\ session' = [session EXCEPT ![w] = task[w].mine]
      /\ bridge' = [bridge EXCEPT ![w].up = bridge[w].session = task[w].mine]
      /\ UNCHANGED <<authority, page, auto, waiting, timer, poll>>
      /\ recovering' \in [Window -> BOOLEAN]
  BY DEF Connected, Inv, Typed
<1>4. task[w].mine \in Session \cup {None}
  BY <1>2 DEF Task
<1>5. /\ bridge' \in [Window -> [session : Session \cup {None}, up : BOOLEAN]]
      /\ bridge'[w].session = bridge[w].session
      /\ bridge'[w].up => bridge[w].session = task[w].mine
      /\ \A u \in Window \ {w} : bridge'[u] = bridge[u]
  BY <1>2, <1>3 DEF Inv, Typed
<1>6. Typed'
  BY <1>3, <1>4, <1>5, NoneIsNone DEF Inv, Typed
<1>7. \A u \in Window \ {w} : Same(u)
  BY <1>3, <1>5 DEF Inv, Typed, Same
<1>8. /\ page'[w] # "closed" /\ task'[w] = NoTask
      /\ session'[w] = task[w].mine /\ task[w].mine # None
      /\ poll'[w].step # None => task[w].mine # poll'[w].owned
  BY <1>1, <1>3, AtWorkFacts DEF Inv, Typed
<1>9. StartIsFirst(w)'
  BY <1>1, <1>3, AtWorkFacts, NoStartWaits
<1>10. ClosedIsQuiet(w)' /\ Served(w)'
  BY <1>5, <1>8 DEF ClosedIsQuiet, Served
<1>11. AtWork(w)' /\ OldQuestion(w)'
  BY <1>8, NoneIsNone DEF AtWork, OldQuestion, Step, PollStage
<1> QED BY <1>6, <1>7, <1>9, <1>10, <1>11, OneWindow DEF Good


LEMMA ConnectFailsStep ==
    ASSUME Inv, NEW w \in Window, ConnectFails(w)
    PROVE  Inv'
<1>1. /\ task[w].step = "connect" /\ "connect" \in Step /\ "check" \in Step
      /\ task' = [task EXCEPT ![w].step = "check"]
      /\ bridge' = [bridge EXCEPT ![w] = NoBridge]
      /\ UNCHANGED <<authority, page, auto, session, waiting, timer, recovering, poll>>
  BY DEF ConnectFails, Step
<1>2. Typed'
  BY <1>1, StepTo, NoneIsNone DEF Inv, Typed
<1>3. \A u \in Window \ {w} : Same(u)
  BY <1>1, StepTo DEF Inv, Typed, Same
<1>4. /\ page'[w] # "closed" /\ session'[w] = None /\ ~bridge'[w].up
      /\ task'[w].step = "check"
  <2>1. task'[w].step = "check"
    BY <1>1, StepTo DEF Inv
  <2>2. page[w] # "closed" /\ session[w] = None
    BY <1>1, AtWorkFacts
  <2>3. ~bridge'[w].up
    BY <1>1, NoneIsNone DEF Inv, Typed
  <2> QED BY <1>1, <2>1, <2>2, <2>3
<1>5. StartIsFirst(w)'
  BY <1>1, AtWorkFacts, NoStartWaits
<1>6. Good(w)'
  BY <1>4, <1>5, GoodDown
<1> QED BY <1>2, <1>3, <1>6, OneWindow

\* After an attempt the window shows nothing, and asks again or not.
LEMMA AgainStep ==
    ASSUME Inv, NEW w \in Window, task[w].step \in Step, Again(w),
           UNCHANGED <<page, auto, bridge, waiting, poll>>,
           authority' \in Session \cup {None}
    PROVE  Inv'
<1>1. "request" \in Step /\ session' = [session EXCEPT ![w] = None]
  BY DEF Again, Step
<1>2. /\ timer' \in [Window -> BOOLEAN] /\ recovering' \in [Window -> BOOLEAN]
      /\ \A u \in Window \ {w} : timer'[u] = timer[u]
  BY DEF Again, Schedule, EndTask, Inv, Typed
<1>3. /\ task' \in [Window -> Task]
      /\ task'[w].step \in {"request", None}
      /\ \A u \in Window \ {w} : task'[u] = task[u]
  <2>1. CASE task' = [task EXCEPT ![w].step = "request", ![w].mine = None]
    BY <1>1, <2>1, StepWith DEF Inv
  <2>2. CASE EndTask(w)
    BY <2>2, NoneIsNone DEF EndTask, Inv, Typed
  <2> QED BY <2>1, <2>2 DEF Again
<1>4. Typed'
  BY <1>1, <1>2, <1>3 DEF Inv, Typed
<1>5. \A u \in Window \ {w} : Same(u)
  BY <1>1, <1>2, <1>3 DEF Inv, Typed, Same
<1>6. page'[w] # "closed" /\ session'[w] = None /\ ~bridge'[w].up
  BY <1>1, AtWorkFacts DEF Inv, Typed
<1>7. StartIsFirst(w)'
  BY AtWorkFacts, NoStartWaits
<1>8. task'[w].step # "connect"
  BY <1>3, NoneIsNone DEF Step
<1>9. Good(w)'
  BY <1>6, <1>7, <1>8, GoodDown
<1> QED BY <1>4, <1>5, <1>9, OneWindow

LEMMA CheckStep ==
    ASSUME Inv, NEW w \in Window, Check(w)
    PROVE  Inv'
<1>1. /\ task[w].step = "check" /\ "check" \in Step /\ "revoke" \in Step
      /\ UNCHANGED <<authority, page, auto, bridge, waiting, poll>>
  BY DEF Check, Step
<1>2. CASE authority = task[w].mine
  <2>1. /\ task' = [task EXCEPT ![w].step = "revoke"]
        /\ UNCHANGED <<session, timer, recovering>>
    BY <1>2 DEF Check
  <2>2. Typed'
    BY <1>1, <2>1, StepTo DEF Inv, Typed
  <2>3. \A u \in Window \ {w} : Same(u)
    BY <1>1, <2>1, StepTo DEF Inv, Typed, Same
  <2>4. /\ page'[w] # "closed" /\ session'[w] = None /\ ~bridge'[w].up
        /\ task'[w].step = "revoke"
    <3>1. task'[w].step = "revoke"
      BY <1>1, <2>1, StepTo DEF Inv
    <3>2. page[w] # "closed" /\ session[w] = None /\ ~bridge[w].up
      BY <1>1, AtWorkFacts
    <3> QED BY <1>1, <2>1, <3>1, <3>2
  <2>5. StartIsFirst(w)'
    BY <1>1, AtWorkFacts, NoStartWaits
  <2>6. Good(w)'
    BY <2>4, <2>5, GoodDown
  <2> QED BY <2>2, <2>3, <2>6, OneWindow
<1>3. CASE authority # task[w].mine
  <2>1. Again(w) /\ authority' \in Session \cup {None}
    BY <1>1, <1>3 DEF Check, Inv, Typed
  <2> QED BY <1>1, <2>1, AgainStep
<1> QED BY <1>2, <1>3

LEMMA RevokeStep ==
    ASSUME Inv, NEW w \in Window, Revoke(w)
    PROVE  Inv'
BY AgainStep DEF Revoke, Step

\* What happens beside the tasks.
LEMMA TransportFailsStep ==
    ASSUME Inv, NEW w \in Window, ~Due(w), TransportFails(w)
    PROVE  Inv'
<1>1. /\ bridge[w].up /\ bridge' = [bridge EXCEPT ![w] = NoBridge]
      /\ UNCHANGED <<authority, page, auto, session, task, timer, poll>>
      /\ recovering' \in [Window -> BOOLEAN]
  BY DEF TransportFails, Inv, Typed
<1>2. page[w] # "closed" /\ task[w].step \notin Step
  BY <1>1 DEF Inv, Good, AtWork, ClosedIsQuiet
<1>3. /\ waiting' \in [Window -> Seq(Kind)]
      /\ \A u \in Window \ {w} : waiting'[u] = waiting[u]
      /\ StartIsFirst(w)'
  <2>1. CASE Queued(w, "recover")
    BY <2>1, QueuedFacts, QueuedBehind, StartFacts DEF Inv, Kind
  <2>2. CASE UNCHANGED waiting
    BY <2>2, StartFacts DEF Inv, Typed, StartIsFirst
  <2> QED BY <2>1, <2>2 DEF TransportFails
<1>4. Typed'
  BY <1>1, <1>3, NoneIsNone DEF Inv, Typed
<1>5. \A u \in Window \ {w} : Same(u)
  BY <1>1, <1>3 DEF Inv, Typed, Same
<1>6. ~bridge'[w].up /\ page'[w] # "closed" /\ task'[w].step \notin Step
  BY <1>1, <1>2, NoneIsNone DEF Inv, Typed
<1>7. Good(w)'
  BY <1>3, <1>6, GoodDown DEF Step
<1> QED BY <1>4, <1>5, <1>7, OneWindow

LEMMA PollBegins ==
    ASSUME Inv, NEW w \in Window, Poll(w)
    PROVE  Inv'
<1>1. /\ session[w] # None
      /\ poll' = [poll EXCEPT ![w] = [step |-> "asked", owned |-> session[w]]]
      /\ UNCHANGED <<authority, page, auto, session, bridge, task, waiting, timer, recovering>>
  BY DEF Poll
<1>2. Typed'
  BY <1>1 DEF Inv, Typed, PollStage
<1>3. \A u \in Window \ {w} : Same(u)
  BY <1>1 DEF Inv, Typed, Same
<1>4. poll'[w].step = "asked" /\ page[w] # "closed" /\ task[w].step # "connect"
  BY <1>1 DEF Inv, Typed, Good, ClosedIsQuiet, AtWork, Step
<1>5. ClosedIsQuiet(w)' /\ Served(w)' /\ AtWork(w)' /\ StartIsFirst(w)'
  BY <1>1, <1>4 DEF Inv, Good, ClosedIsQuiet, Served, AtWork, StartIsFirst
<1>6. OldQuestion(w)'
  BY <1>1, <1>4 DEF OldQuestion
<1> QED BY <1>2, <1>3, <1>5, <1>6, OneWindow DEF Good

\* The poll is over, or stays with its question, and the bridge is left alone.
LEMMA PollEnds ==
    ASSUME Inv, NEW w \in Window, poll' = [poll EXCEPT ![w] = NoPoll],
           UNCHANGED <<authority, page, auto, session, bridge, task, waiting, timer, recovering>>
    PROVE  Inv'
<1>1. Typed'
  BY NoneIsNone DEF Inv, Typed
<1>2. \A u \in Window \ {w} : Same(u)
  BY DEF Inv, Typed, Same
<1>3. poll'[w].step = None
  BY NoneIsNone DEF Inv, Typed
<1>4. ClosedIsQuiet(w)' /\ Served(w)' /\ AtWork(w)' /\ StartIsFirst(w)'
  BY <1>3 DEF Inv, Good, ClosedIsQuiet, Served, AtWork, StartIsFirst
<1>5. OldQuestion(w)'
  BY <1>3, NoneIsNone DEF OldQuestion, PollStage
<1> QED BY <1>1, <1>2, <1>4, <1>5, OneWindow DEF Good

LEMMA AnsweredStep ==
    ASSUME Inv, NEW w \in Window, Answered(w)
    PROVE  Inv'
<1>1. CASE authority = poll[w].owned
  BY <1>1, PollEnds DEF Answered
<1>2. CASE authority # poll[w].owned
  <2> DEFINE answer == IF authority = None THEN "gone" ELSE "other"
  <2>1. /\ poll[w].step = "asked" /\ answer \in PollStage
        /\ poll' = [poll EXCEPT ![w].step = answer]
        /\ bridge' = [bridge EXCEPT ![w] = NoBridge]
        /\ UNCHANGED <<authority, page, auto, session, task, waiting, timer, recovering>>
    BY <1>2 DEF Answered, PollStage
  <2> HIDE DEF answer
  <2>2. /\ poll'[w].owned = poll[w].owned
        /\ poll' \in [Window -> [step : {None} \cup PollStage, owned : Session \cup {None}]]
        /\ \A u \in Window \ {w} : poll'[u] = poll[u]
    BY <2>1 DEF Inv, Typed
  <2>3. Typed'
    BY <2>1, <2>2, NoneIsNone DEF Inv, Typed
  <2>4. \A u \in Window \ {w} : Same(u)
    BY <2>1, <2>2 DEF Inv, Typed, Same
  <2>5. poll[w].step # None
    BY <2>1, NoneIsNone DEF PollStage
  <2>6. ~bridge'[w].up /\ page'[w] # "closed"
    BY <2>1, <2>5, NoneIsNone DEF Inv, Typed, Good, ClosedIsQuiet
  <2>7. /\ task'[w].step \in Step \ {"forget", "revoke all"} => session'[w] = None
        /\ task'[w].step = "connect" => task'[w].mine # None /\ task'[w].mine # poll'[w].owned
    BY <2>1, <2>2, <2>5 DEF Inv, Good, AtWork, OldQuestion, Step
  <2>8. StartIsFirst(w)'
    BY <2>1 DEF Inv, Good, StartIsFirst
  <2>9. Good(w)'
    BY <2>6, <2>7, <2>8, GoodDown
  <2> QED BY <2>3, <2>4, <2>9, OneWindow
<1> QED BY <1>1, <1>2

LEMMA UnavailableStep ==
    ASSUME Inv, NEW w \in Window, Unavailable(w)
    PROVE  Inv'
<1>1. /\ poll[w].step \in {"gone", "other"} /\ poll' = [poll EXCEPT ![w] = NoPoll]
      /\ UNCHANGED <<authority, page, auto, bridge, task, waiting, recovering>>
  BY DEF Unavailable
<1>2. CASE session[w] # poll[w].owned
  BY <1>1, <1>2, PollEnds DEF Unavailable
<1>3. CASE session[w] = poll[w].owned
  <2>1. session' = [session EXCEPT ![w] = None]
    BY <1>3 DEF Unavailable
  <2>2. /\ timer' \in [Window -> BOOLEAN]
        /\ \A u \in Window \ {w} : timer'[u] = timer[u]
    BY DEF Unavailable, Schedule, Inv, Typed
  <2>3. Typed'
    BY <1>1, <2>1, <2>2, NoneIsNone DEF Inv, Typed
  <2>4. \A u \in Window \ {w} : Same(u)
    BY <1>1, <2>1, <2>2 DEF Inv, Typed, Same
  <2>5. poll[w].step # None
    BY <1>1, NoneIsNone DEF PollStage
  <2>6. ~bridge'[w].up /\ page'[w] # "closed"
    BY <1>1, <1>3, <2>5 DEF Inv, Good, OldQuestion, ClosedIsQuiet
  <2>7. session'[w] = None /\ poll'[w].step = None
    BY <1>1, <2>1, NoneIsNone DEF Inv, Typed
  <2>8. task'[w].step = "connect" => task'[w].mine # None
    BY <1>1 DEF Inv, Good, AtWork, Step
  <2>9. StartIsFirst(w)'
    BY <1>1, <2>7 DEF Inv, Good, StartIsFirst
  <2>10. Good(w)'
    BY <2>6, <2>7, <2>8, <2>9, GoodDown
  <2> QED BY <2>3, <2>4, <2>10, OneWindow
<1> QED BY <1>2, <1>3

LEMMA DiscoveredStep ==
    ASSUME Inv, NEW w \in Window, Discovered(w)
    PROVE  Inv'
<1>1. /\ bridge' = [bridge EXCEPT ![w] = NoBridge]
      /\ UNCHANGED <<authority, page, auto, session, task, waiting, timer, recovering>>
  BY DEF Discovered
<1>2. /\ poll' \in [Window -> [step : {None} \cup PollStage, owned : Session \cup {None}]]
      /\ \A u \in Window \ {w} : poll'[u] = poll[u]
      /\ session[w] = None => poll' = poll
  BY DEF Discovered, Inv, Typed, PollStage
<1>3. Typed'
  BY <1>1, <1>2, NoneIsNone DEF Inv, Typed
<1>4. \A u \in Window \ {w} : Same(u)
  BY <1>1, <1>2 DEF Inv, Typed, Same
<1>5. ~bridge'[w].up
  BY <1>1, NoneIsNone DEF Inv, Typed
<1>6. Good(w)
  BY DEF Inv
<1>7. page'[w] = "closed" =>
        /\ session'[w] = None /\ ~timer'[w]
        /\ task'[w] = NoTask /\ waiting'[w] = <<>> /\ poll'[w].step = None
  BY <1>1, <1>2, <1>6 DEF Good, ClosedIsQuiet
<1>8. task'[w].step \in Step \ {"forget", "revoke all"} => session'[w] = None
  BY <1>1, <1>6 DEF Good, AtWork
<1>9. task'[w].step = "connect" =>
        task'[w].mine # None /\ (poll'[w].step # None => task'[w].mine # poll'[w].owned)
  <2> SUFFICES ASSUME task[w].step = "connect"
               PROVE  /\ task[w].mine # None
                      /\ poll'[w].step # None => task[w].mine # poll'[w].owned
    BY <1>1
  <2>1. "connect" \in Step
    BY DEF Step
  <2>2. session[w] = None /\ task[w].mine # None
    BY <1>6, <2>1 DEF Good, AtWork
  <2>3. poll' = poll
    BY <1>2, <2>2
  <2> QED BY <1>6, <2>2, <2>3 DEF Good, OldQuestion
<1>10. StartIsFirst(w)'
  BY <1>1, <1>6 DEF Good, StartIsFirst
<1>11. Good(w)'
  BY <1>5, <1>7, <1>8, <1>9, <1>10, GoodDown
<1> QED BY <1>3, <1>4, <1>11, OneWindow

LEMMA InvStep == Inv /\ [Next]_vars => Inv'
<1> SUFFICES ASSUME Inv, [Next]_vars PROVE Inv'
  OBVIOUS
<1>1. ASSUME NEW w \in Window, TaskStep(w) PROVE Inv'
  BY <1>1, RunStep, WindowReadyStep, TimerFiresStep, ForgetStep, RevokeAllStep, RequestStep,
     ConnectedStep, ConnectFailsStep, CheckStep, RevokeStep DEF TaskStep
<1>2. ASSUME NEW w \in Window, PollStep(w) PROVE Inv'
  <2>1. CASE PollFails(w)
    BY <2>1, PollEnds DEF PollFails
  <2> QED BY <1>2, <2>1, PollBegins, AnsweredStep, UnavailableStep DEF PollStep
<1>3. ASSUME NEW w \in Window, NEW automatic \in BOOLEAN, Open(w, automatic) PROVE Inv'
  BY <1>3, OpenStep
<1>4. ASSUME NEW w \in Window, NEW kind \in {"restart", "start", "stop"}, Click(w, kind)
      PROVE  Inv'
  BY <1>4, ClickStep
<1>5. ASSUME NEW w \in Window, Close(w) PROVE Inv'
  BY <1>5, CloseStep
<1>6. ASSUME NEW w \in Window, ~Due(w), TransportFails(w) \/ Discovered(w) PROVE Inv'
  BY <1>6, TransportFailsStep, DiscoveredStep
<1>7. CASE UNCHANGED vars
  BY <1>7 DEF vars, window, Inv, Typed, Good, ClosedIsQuiet, Served, AtWork, StartIsFirst,
              OldQuestion
<1> QED BY <1>1, <1>2, <1>3, <1>4, <1>5, <1>6, <1>7 DEF Next

\* A window never serves a session other than the one it shows: what a task or a poll, with
\* an answer of any age, does to the session it does to the bridge (host.ts: activateBroadcast,
\* verifyBroadcastOwnership, markBroadcastUnavailable, recoverBroadcastTransport).
THEOREM ServedSessionIsShown == Spec => []ServedIsShown
<1>1. Spec => []Inv
  BY InvInit, InvStep, PTL DEF Spec
<1> QED BY <1>1, InvImplies, PTL

-----------------------------------------------------------------------------
(* A window that rests off the air has a reason. *)

\* The tasks of an automatic window are not those of the buttons it does not have.
AutoRuns(w) ==
    /\ task[w].step = "revoke all" => task[w].kind = "stop"
    /\ auto[w] => /\ task[w].kind # "stop"
                  /\ \A i \in 1..Len(waiting[w]) : waiting[w][i] # "stop"

\* A recovery that is under way is a task that runs or waits.
Recovers(w) ==
    recovering[w] => \/ task[w].kind = "recover"
                     \/ \E i \in 1..Len(waiting[w]) : waiting[w][i] = "recover"

\* A start connects its bridge, unless a poll has cut it off, or the session is over.
Connects(w) ==
    task[w].step = "connect" =>
        \/ bridge[w].session = task[w].mine
        \/ task[w].mine # authority
        \/ excuse[w] # None

\* ReadyOrExcused, which does not depend on the poll.
Calm(w) ==
    /\ page[w] = "open" /\ auto[w] /\ task[w] = NoTask /\ waiting[w] = <<>> /\ ~timer[w]
    /\ session[w] \in {None, authority} /\ ~bridge[w].up
    => excuse[w] # None

Ready(w) == AutoRuns(w) /\ Recovers(w) /\ Connects(w) /\ Calm(w)

ReadyInv ==
    /\ excuse \in [Window -> Excuse \cup {None}]
    /\ \A w \in Window : Ready(w)

\* The other windows see no more of a step than the daemon's session.
Beside(u) ==
    /\ Same(u)
    /\ auto'[u] = auto[u] /\ recovering'[u] = recovering[u] /\ excuse'[u] = excuse[u]

Turn == authority' = authority \/ authority' = None \/ authority' \notin Remembered

LEMMA ReadyBeside ==
    ASSUME Inv, NEW u \in Window, Ready(u), Beside(u), Turn
    PROVE  Ready(u)'
<1>1. AutoRuns(u)' /\ Recovers(u)'
  BY DEF Ready, AutoRuns, Recovers, Beside, Same
<1>2. authority' \in {authority, None} \/ authority' \notin {session[u], task[u].mine}
  BY DEF Turn, Remembered
<1>3. Connects(u)'
  <2>1. task[u].step = "connect" => task[u].mine # None
    BY DEF Inv, Good, AtWork, Step
  <2> QED BY <1>2, <2>1 DEF Ready, Connects, Beside, Same
<1>4. Calm(u)'
  BY <1>2 DEF Ready, Calm, Beside, Same
<1> QED BY <1>1, <1>3, <1>4 DEF Ready

LEMMA ReadyWindow ==
    ASSUME Inv, ReadyInv, Turn, excuse' \in [Window -> Excuse \cup {None}],
           NEW w \in Window, Ready(w)', \A u \in Window \ {w} : Beside(u)
    PROVE  ReadyInv'
<1>1. ASSUME NEW u \in Window \ {w} PROVE Ready(u)'
  BY <1>1, ReadyBeside DEF ReadyInv
<1> QED BY <1>1 DEF ReadyInv

LEMMA NothingWaits == 1..Len(<<>>) = {}
OBVIOUS

LEMMA ReadyInit == Init => ReadyInv
<1> SUFFICES ASSUME Init PROVE ReadyInv
  OBVIOUS
<1>1. ASSUME NEW w \in Window PROVE Ready(w)
  <2>1. /\ page[w] = "closed" /\ task[w] = NoTask /\ waiting[w] = <<>> /\ ~recovering[w]
    BY DEF Init
  <2>2. task[w].step = None /\ task[w].kind = None
    BY <2>1 DEF NoTask
  <2>3. /\ task[w].step \notin {"revoke all", "connect"} /\ task[w].kind # "stop"
        /\ 1..Len(waiting[w]) = {} /\ page[w] # "open"
    BY <2>1, <2>2, NothingWaits, OwnershipAssumption DEF Step, Kind
  <2>4. AutoRuns(w) /\ Recovers(w)
    BY <2>1, <2>3 DEF AutoRuns, Recovers
  <2>5. Connects(w) /\ Calm(w)
    BY <2>3 DEF Connects, Calm
  <2> QED BY <2>4, <2>5 DEF Ready
<1> QED BY <1>1 DEF ReadyInv, Init

LEMMA ReadyImplies == Inv /\ ReadyInv => ReadyOrExcused
<1> SUFFICES ASSUME Inv, ReadyInv, NEW w \in Window, Resting(w), session[w] \in {None, authority}
             PROVE  OnAir(w) \/ excuse[w] # None
  BY DEF ReadyOrExcused
<1>1. CASE bridge[w].up
  BY <1>1 DEF Inv, Good, Served, OnAir
<1>2. CASE ~bridge[w].up
  BY <1>2 DEF ReadyInv, Ready, Calm, Resting, Busy
<1> QED BY <1>1, <1>2

\* A task is queued: the window is not at rest.
LEMMA ReadyQueued ==
    ASSUME Typed, NEW w \in Window, Ready(w), NEW kind \in Kind, Queued(w, kind),
           kind = "stop" => ~auto[w], auto'[w] = auto[w], task'[w] = task[w],
           recovering'[w] => recovering[w] \/ kind = "recover",
           Connects(w)'
    PROVE  Ready(w)'
<1>1. /\ waiting[w] \in Seq(Kind)
      /\ Len(waiting[w]) \in Nat
      /\ Len(waiting'[w]) = Len(waiting[w]) + 1
      /\ \A i \in 1..Len(waiting[w]) : waiting'[w][i] = waiting[w][i]
      /\ waiting'[w][Len(waiting[w]) + 1] = kind
  BY QueuedFacts DEF Typed
<1>2. AutoRuns(w)'
  <2>1. ASSUME auto[w], NEW i \in 1..Len(waiting'[w]) PROVE waiting'[w][i] # "stop"
    <3>1. i \in 1..Len(waiting[w]) \/ i = Len(waiting[w]) + 1
      BY <1>1
    <3> QED BY <1>1, <2>1, <3>1 DEF Ready, AutoRuns
  <2> QED BY <2>1 DEF Ready, AutoRuns
<1>3. Recovers(w)'
  <2>1. CASE \E i \in 1..Len(waiting[w]) : waiting[w][i] = "recover"
    BY <1>1, <2>1 DEF Recovers
  <2>2. CASE kind = "recover"
    <3>1. Len(waiting[w]) + 1 \in 1..Len(waiting'[w])
      BY <1>1
    <3> QED BY <1>1, <2>2, <3>1 DEF Recovers
  <2> QED BY <2>1, <2>2 DEF Ready, Recovers
<1>4. Calm(w)'
  <2>1. waiting'[w] # <<>>
    BY <1>1
  <2> QED BY <2>1 DEF Calm
<1> QED BY <1>2, <1>3, <1>4 DEF Ready

\* The tasks are as they were.
LEMMA ReadySame ==
    ASSUME NEW w \in Window, Ready(w), auto'[w] = auto[w], task'[w] = task[w],
           waiting'[w] = waiting[w], recovering'[w] = recovering[w]
    PROVE  AutoRuns(w)' /\ Recovers(w)'
BY DEF Ready, AutoRuns, Recovers

\* The task goes on.
LEMMA ReadyGoesOn ==
    ASSUME NEW w \in Window, Ready(w), task'[w].kind = task[w].kind,
           task'[w].step \in Step \ {"revoke all"}, Connects(w)',
           auto'[w] = auto[w], waiting'[w] = waiting[w], recovering'[w] = recovering[w]
    PROVE  Ready(w)'
<1>1. AutoRuns(w)' /\ Recovers(w)'
  BY DEF Ready, AutoRuns, Recovers
<1>2. Calm(w)'
  BY NoneIsNone DEF Calm
<1> QED BY <1>1, <1>2 DEF Ready

\* The task is over.
LEMMA ReadyOver ==
    ASSUME NEW w \in Window, Ready(w), task'[w] = NoTask, auto'[w] = auto[w],
           waiting'[w] = waiting[w],
           recovering'[w] => recovering[w] /\ task[w].kind # "recover", Calm(w)'
    PROVE  Ready(w)'
<1>1. task'[w].step = None /\ task'[w].kind = None /\ None \notin Step /\ None \notin Kind
  BY OwnershipAssumption DEF NoTask
<1>2. AutoRuns(w)' /\ Connects(w)'
  BY <1>1 DEF Ready, AutoRuns, Connects, Step, Kind
<1>3. Recovers(w)'
  BY DEF Ready, Recovers
<1> QED BY <1>2, <1>3 DEF Ready

\* A closed window has no recovery under way.
LEMMA ReadyOpen ==
    ASSUME Inv, ReadyInv, NEW w \in Window, NEW automatic \in BOOLEAN, Open(w, automatic)
    PROVE  ReadyInv'
<1>1. /\ task[w] = NoTask /\ waiting[w] = <<>> /\ page'[w] = "opening" /\ Ready(w)
      /\ UNCHANGED <<authority, bridge, task, waiting, recovering, excuse>>
  BY DEF Open, Inv, Typed, Good, ClosedIsQuiet, ReadyInv
<1>2. task[w].step = None /\ task[w].kind = None
  BY <1>1 DEF NoTask
<1>3. AutoRuns(w)' /\ Recovers(w)' /\ Connects(w)' /\ Calm(w)'
  <2>1. /\ task[w].step \notin {"revoke all", "connect"} /\ task[w].kind \notin {"stop", "recover"}
        /\ 1..Len(waiting[w]) = {}
    BY <1>1, <1>2, NothingWaits, OwnershipAssumption DEF Step, Kind
  <2>2. ~recovering[w]
    BY <1>1, <2>1 DEF Ready, Recovers
  <2>3. AutoRuns(w)' /\ Recovers(w)'
    BY <1>1, <2>1, <2>2 DEF AutoRuns, Recovers
  <2>4. Connects(w)' /\ Calm(w)'
    BY <1>1, <2>1 DEF Connects, Calm
  <2> QED BY <2>3, <2>4
<1>4. \A u \in Window \ {w} : Beside(u)
  BY DEF Open, Inv, Typed, Beside, Same
<1>5. Turn /\ excuse' \in [Window -> Excuse \cup {None}]
  BY <1>1 DEF Turn, ReadyInv
<1> QED BY <1>3, <1>4, <1>5, ReadyWindow DEF Ready

LEMMA ReadyWindowReady ==
    ASSUME Inv, ReadyInv, NEW w \in Window, WindowReady(w)
    PROVE  ReadyInv'
<1>1. Ready(w) /\ Typed
  BY DEF ReadyInv, Inv
<1>2. /\ UNCHANGED <<authority, auto, session, bridge, task, recovering, excuse>>
      /\ Connects(w)'
  BY <1>1 DEF WindowReady, Ready, Connects
<1>3. CASE auto[w]
  <2>1. Queued(w, "auto") /\ "auto" \in Kind
    BY <1>3 DEF WindowReady, Kind
  <2>2. Ready(w)'
    BY <1>1, <1>2, <2>1, ReadyQueued
  <2>3. \A u \in Window \ {w} : Beside(u)
    BY <1>1, <1>2, <2>1, QueuedFacts DEF WindowReady, Typed, Beside, Same
  <2> QED BY <1>2, <2>2, <2>3, ReadyWindow DEF Turn, ReadyInv
<1>4. CASE ~auto[w]
  <2>1. UNCHANGED waiting
    BY <1>4 DEF WindowReady
  <2>2. Ready(w)'
    BY <1>1, <1>2, <1>4, <2>1, ReadySame DEF Ready, Calm
  <2>3. \A u \in Window \ {w} : Beside(u)
    BY <1>1, <1>2, <2>1 DEF WindowReady, Typed, Beside, Same
  <2> QED BY <1>2, <2>2, <2>3, ReadyWindow DEF Turn, ReadyInv
<1> QED BY <1>3, <1>4

LEMMA ReadyClick ==
    ASSUME Inv, ReadyInv, NEW w \in Window, NEW kind \in {"restart", "start", "stop"},
           Click(w, kind)
    PROVE  ReadyInv'
<1>1. Ready(w) /\ Typed
  BY DEF ReadyInv, Inv
<1>2. /\ UNCHANGED <<authority, page, auto, session, bridge, task, recovering, poll, excuse>>
      /\ Queued(w, kind) /\ kind \in Kind /\ (kind = "stop" => ~auto[w])
      /\ timer' = [timer EXCEPT ![w] = FALSE]
  BY DEF Click, Kind
<1>3. Connects(w)'
  BY <1>1, <1>2 DEF Ready, Connects
<1>4. Ready(w)'
  BY <1>1, <1>2, <1>3, ReadyQueued
<1>5. \A u \in Window \ {w} : Beside(u)
  BY <1>1, <1>2, QueuedFacts DEF Typed, Beside, Same
<1> QED BY <1>2, <1>4, <1>5, ReadyWindow DEF Turn, ReadyInv

LEMMA ReadyClose ==
    ASSUME Inv, ReadyInv, NEW w \in Window, Close(w)
    PROVE  ReadyInv'
<1>1. /\ task'[w] = NoTask /\ waiting'[w] = <<>> /\ page'[w] = "closed"
      /\ recovering'[w] = FALSE /\ authority' = authority
      /\ excuse' \in [Window -> Excuse \cup {None}]
  BY DEF Close, Inv, Typed, ReadyInv
<1>2. task'[w].step = None /\ task'[w].kind = None
  BY <1>1 DEF NoTask
<1>3. AutoRuns(w)' /\ Recovers(w)' /\ Connects(w)' /\ Calm(w)'
  <2>1. /\ task'[w].step \notin {"revoke all", "connect"} /\ task'[w].kind # "stop"
        /\ 1..Len(waiting'[w]) = {}
    BY <1>1, <1>2, NothingWaits, OwnershipAssumption DEF Step, Kind
  <2>2. AutoRuns(w)' /\ Recovers(w)'
    BY <1>1, <2>1 DEF AutoRuns, Recovers
  <2>3. Connects(w)' /\ Calm(w)'
    BY <1>1, <2>1 DEF Connects, Calm
  <2> QED BY <2>2, <2>3
<1>4. \A u \in Window \ {w} : Beside(u)
  BY DEF Close, Inv, Typed, ReadyInv, Beside, Same
<1> QED BY <1>1, <1>3, <1>4, ReadyWindow DEF Ready, Turn

LEMMA ReadyTimerFires ==
    ASSUME Inv, ReadyInv, NEW w \in Window, TimerFires(w)
    PROVE  ReadyInv'
<1>1. Ready(w) /\ Typed
  BY DEF ReadyInv, Inv
<1>2. /\ UNCHANGED <<authority, page, auto, session, bridge, task, recovering, poll, excuse>>
      /\ Queued(w, "auto") /\ "auto" \in Kind
      /\ timer' = [timer EXCEPT ![w] = FALSE]
  BY DEF TimerFires, Kind
<1>3. Connects(w)'
  BY <1>1, <1>2 DEF Ready, Connects
<1>4. Ready(w)'
  BY <1>1, <1>2, <1>3, ReadyQueued
<1>5. \A u \in Window \ {w} : Beside(u)
  BY <1>1, <1>2, QueuedFacts DEF Typed, Beside, Same
<1> QED BY <1>2, <1>4, <1>5, ReadyWindow DEF Turn, ReadyInv

\* The actions of a task.
LEMMA ReadyRun ==
    ASSUME Inv, ReadyInv, NEW w \in Window, Run(w)
    PROVE  ReadyInv'
<1> DEFINE kind == Head(waiting[w])
           stops == kind # "start" /\ (kind = "auto" => session[w] # None)
           next == IF kind = "stop" THEN "revoke all"
                   ELSE IF kind # "recover" /\ stops THEN "forget" ELSE "request"
           started == [NoTask EXCEPT !.kind = kind, !.step = next]
<1>1. Ready(w) /\ Typed
  BY DEF ReadyInv, Inv
<1>2. /\ waiting[w] \in Seq(Kind) /\ waiting[w] # <<>>
      /\ Len(waiting[w]) \in Nat
      /\ Len(Tail(waiting[w])) = Len(waiting[w]) - 1
      /\ \A i \in 1..Len(Tail(waiting[w])) : Tail(waiting[w])[i] = waiting[w][i + 1]
      /\ kind = waiting[w][1] /\ 1 \in 1..Len(waiting[w])
      /\ task[w] = NoTask
  BY <1>1 DEF Run, Typed
<1>3. /\ next \in {"forget", "revoke all", "request"}
      /\ next = "revoke all" => kind = "stop"
  OBVIOUS
<1>4. started.kind = kind /\ started.step = next
  BY DEF NoTask
<1>5. /\ waiting' = [waiting EXCEPT ![w] = Tail(waiting[w])]
      /\ task' = [task EXCEPT ![w] = started]
      /\ bridge' = IF stops THEN [bridge EXCEPT ![w] = NoBridge] ELSE bridge
      /\ session' = IF kind = "recover" THEN [session EXCEPT ![w] = None] ELSE session
      /\ excuse' = [excuse EXCEPT ![w] = None]
      /\ UNCHANGED <<authority, page, auto, timer, recovering, poll>>
  BY DEF Run
<1> HIDE DEF kind, stops, next, started
<1>6. task'[w] = started /\ waiting'[w] = Tail(waiting[w])
  BY <1>1, <1>5 DEF Typed
<1>7. AutoRuns(w)'
  <2>1. ASSUME auto[w], NEW i \in 1..Len(Tail(waiting[w])) PROVE Tail(waiting[w])[i] # "stop"
    <3>1. i + 1 \in 1..Len(waiting[w])
      BY <1>2
    <3> QED BY <1>1, <1>2, <2>1, <3>1 DEF Ready, AutoRuns
  <2>2. auto[w] => kind # "stop"
    BY <1>1, <1>2 DEF Ready, AutoRuns
  <2> QED BY <1>3, <1>4, <1>5, <1>6, <2>1, <2>2 DEF AutoRuns
<1>8. Recovers(w)'
  <2> SUFFICES ASSUME recovering[w], kind # "recover"
               PROVE  \E i \in 1..Len(Tail(waiting[w])) : Tail(waiting[w])[i] = "recover"
    BY <1>4, <1>5, <1>6 DEF Recovers
  <2>1. NoTask.kind # "recover"
    BY OwnershipAssumption DEF NoTask, Kind
  <2>2. PICK j \in 1..Len(waiting[w]) : waiting[w][j] = "recover"
    BY <1>1, <1>2, <2>1 DEF Ready, Recovers
  <2>3. j - 1 \in 1..Len(Tail(waiting[w])) /\ j = (j - 1) + 1
    BY <1>2, <2>2
  <2>4. Tail(waiting[w])[j - 1] = waiting[w][j]
    BY <1>2, <2>3
  <2> QED BY <2>2, <2>3, <2>4
<1>9. Connects(w)' /\ Calm(w)'
  <2>1. task'[w].step # "connect" /\ task'[w] # NoTask
    <3>1. NoTask.step \notin Step
      BY NoneIsNone
    <3> QED BY <1>3, <1>4, <1>6, <3>1 DEF Step
  <2> QED BY <2>1 DEF Connects, Calm
<1>10. \A u \in Window \ {w} : Beside(u)
  BY <1>1, <1>5 DEF Typed, ReadyInv, Beside, Same
<1>11. Turn /\ excuse' \in [Window -> Excuse \cup {None}]
  BY <1>5 DEF Turn, ReadyInv
<1> QED BY <1>7, <1>8, <1>9, <1>10, <1>11, ReadyWindow DEF Ready

LEMMA ReadyForget ==
    ASSUME Inv, ReadyInv, NEW w \in Window, Forget(w)
    PROVE  ReadyInv'
<1>1. Ready(w) /\ Typed
  BY DEF ReadyInv, Inv
<1>2. /\ "request" \in Step /\ task' = [task EXCEPT ![w].step = "request"]
      /\ session' = [session EXCEPT ![w] = None]
      /\ UNCHANGED <<authority, page, auto, bridge, waiting, timer, recovering, poll, excuse>>
  BY DEF Forget, Step
<1>3. /\ task'[w].step = "request" /\ task'[w].kind = task[w].kind
      /\ \A u \in Window \ {w} : task'[u] = task[u]
  BY <1>1, <1>2, StepTo
<1>4. Ready(w)'
  BY <1>1, <1>2, <1>3, ReadyGoesOn DEF Connects
<1>5. \A u \in Window \ {w} : Beside(u)
  BY <1>1, <1>2, <1>3 DEF Typed, Beside, Same
<1> QED BY <1>2, <1>4, <1>5, ReadyWindow DEF Turn, ReadyInv

LEMMA ReadyRevokeAll ==
    ASSUME Inv, ReadyInv, NEW w \in Window, RevokeAll(w)
    PROVE  ReadyInv'
<1>1. Ready(w) /\ Typed
  BY DEF ReadyInv, Inv
<1>2. /\ task[w].step = "revoke all" /\ authority' = None
      /\ task' = [task EXCEPT ![w] = NoTask] /\ session' = [session EXCEPT ![w] = None]
      /\ UNCHANGED <<page, auto, bridge, waiting, timer, recovering, poll, excuse>>
  BY DEF RevokeAll
<1>3. task[w].kind = "stop" /\ ~auto[w]
  BY <1>1, <1>2 DEF Ready, AutoRuns, Typed
<1>4. Calm(w)'
  BY <1>2, <1>3 DEF Calm
<1>5. Ready(w)'
  BY <1>1, <1>2, <1>3, <1>4, ReadyOver DEF Typed
<1>6. \A u \in Window \ {w} : Beside(u)
  BY <1>1, <1>2 DEF Typed, Beside, Same
<1> QED BY <1>2, <1>5, <1>6, ReadyWindow DEF Turn, ReadyInv

LEMMA ReadyRequest ==
    ASSUME Inv, ReadyInv, NEW w \in Window, Request(w)
    PROVE  ReadyInv'
<1>1. Ready(w) /\ Typed
  BY DEF ReadyInv, Inv
<1>2. Fresh \in Session /\ Fresh \notin Remembered
  BY DEF Request, Fresh
<1>3. /\ authority' = Fresh /\ "connect" \in Step
      /\ bridge' = [bridge EXCEPT ![w] = [session |-> Fresh, up |-> FALSE]]
      /\ task' = [task EXCEPT ![w].step = "connect", ![w].mine = Fresh]
      /\ excuse' = [excuse EXCEPT ![w] = None]
      /\ UNCHANGED <<page, auto, session, waiting, timer, recovering, poll>>
  BY DEF Request, Step
<1> HIDE DEF Fresh
<1>4. /\ task'[w].step = "connect" /\ task'[w].mine = Fresh /\ task'[w].kind = task[w].kind
      /\ \A u \in Window \ {w} : task'[u] = task[u]
  <2>1. /\ task' \in [Window -> Task]
        /\ task'[w].step = "connect" /\ task'[w].mine = Fresh /\ task'[w].kind = task[w].kind
        /\ \A u \in Window \ {w} : task'[u] = task[u]
    BY <1>1, <1>2, <1>3, StepWith
  <2> QED BY <2>1
<1>5. bridge'[w].session = Fresh
  BY <1>1, <1>3 DEF Typed
<1>6. Ready(w)'
  BY <1>1, <1>3, <1>4, <1>5, ReadyGoesOn DEF Connects
<1>7. \A u \in Window \ {w} : Beside(u)
  BY <1>1, <1>3, <1>4 DEF Typed, ReadyInv, Beside, Same
<1>8. Turn /\ excuse' \in [Window -> Excuse \cup {None}]
  BY <1>2, <1>3 DEF Turn, ReadyInv
<1> QED BY <1>6, <1>7, <1>8, ReadyWindow

\* A window that has just connected is on the air, unless it has been cut off or replaced.
LEMMA ReadyConnected ==
    ASSUME Inv, ReadyInv, NEW w \in Window, Connected(w)
    PROVE  ReadyInv'
<1>1. Ready(w) /\ Typed /\ "connect" \in Step
  BY DEF ReadyInv, Inv, Step
<1>2. /\ task[w].step = "connect"
      /\ bridge' = [bridge EXCEPT ![w].up = bridge[w].session = task[w].mine]
      /\ session' = [session EXCEPT ![w] = task[w].mine]
      /\ task' = [task EXCEPT ![w] = NoTask]
      /\ recovering' = IF task[w].kind = "recover" THEN [recovering EXCEPT ![w] = FALSE]
                       ELSE recovering
      /\ UNCHANGED <<authority, page, auto, waiting, timer, poll, excuse>>
  BY DEF Connected
<1>3. /\ bridge'[w].up <=> bridge[w].session = task[w].mine
      /\ session'[w] = task[w].mine /\ task[w].mine # None
  BY <1>1, <1>2, AtWorkFacts DEF Typed
<1>4. Calm(w)'
  BY <1>1, <1>2, <1>3 DEF Ready, Connects, Calm
<1>5. recovering'[w] => recovering[w] /\ task[w].kind # "recover"
  BY <1>1, <1>2 DEF Typed
<1>6. task'[w] = NoTask
  BY <1>1, <1>2 DEF Typed
<1>7. Ready(w)'
  BY <1>1, <1>2, <1>4, <1>5, <1>6, ReadyOver
<1>8. \A u \in Window \ {w} : Beside(u)
  BY <1>1, <1>2 DEF Typed, Beside, Same
<1> QED BY <1>2, <1>7, <1>8, ReadyWindow DEF Turn, ReadyInv

LEMMA ReadyConnectFails ==
    ASSUME Inv, ReadyInv, NEW w \in Window, ConnectFails(w)
    PROVE  ReadyInv'
<1>1. Ready(w) /\ Typed
  BY DEF ReadyInv, Inv
<1>2. /\ "check" \in Step /\ task' = [task EXCEPT ![w].step = "check"]
      /\ bridge' = [bridge EXCEPT ![w] = NoBridge]
      /\ UNCHANGED <<authority, page, auto, session, waiting, timer, recovering, poll, excuse>>
  BY DEF ConnectFails, Step
<1>3. /\ task'[w].step = "check" /\ task'[w].kind = task[w].kind
      /\ \A u \in Window \ {w} : task'[u] = task[u]
  BY <1>1, <1>2, StepTo
<1>4. Ready(w)'
  BY <1>1, <1>2, <1>3, ReadyGoesOn DEF Connects
<1>5. \A u \in Window \ {w} : Beside(u)
  BY <1>1, <1>2, <1>3 DEF Typed, Beside, Same
<1> QED BY <1>2, <1>4, <1>5, ReadyWindow DEF Turn, ReadyInv

\* A failed attempt is repeated, tried again later, or has been its user's.
LEMMA ReadyAgain ==
    ASSUME Inv, ReadyInv, NEW w \in Window, task[w].step \in {"check", "revoke"}, Again(w),
           UNCHANGED <<page, auto, bridge, waiting, poll>>,
           authority' \in {authority, None}
    PROVE  ReadyInv'
<1>1. Ready(w) /\ Typed /\ "request" \in Step
  BY DEF ReadyInv, Inv, Step
<1>2. session' = [session EXCEPT ![w] = None]
  BY DEF Again
<1>3. CASE /\ task' = [task EXCEPT ![w].step = "request", ![w].mine = None]
           /\ UNCHANGED <<timer, recovering, excuse>>
  <2>1. /\ task'[w].step = "request" /\ task'[w].kind = task[w].kind
        /\ \A u \in Window \ {w} : task'[u] = task[u]
    BY <1>1, <1>3, StepWith
  <2>2. Ready(w)'
    BY <1>1, <1>3, <2>1, ReadyGoesOn DEF Connects
  <2>3. \A u \in Window \ {w} : Beside(u)
    BY <1>1, <1>2, <1>3, <2>1 DEF Typed, Beside, Same
  <2> QED BY <1>3, <2>2, <2>3, ReadyWindow DEF Turn, ReadyInv
<1>4. CASE /\ EndTask(w)
           /\ \/ Schedule(w) /\ UNCHANGED excuse
              \/ UNCHANGED timer /\ excuse' = [excuse EXCEPT ![w] = "gave up"]
  <2>1. /\ task' = [task EXCEPT ![w] = NoTask]
        /\ recovering' = [recovering EXCEPT ![w] = recovering[w] /\ task[w].kind # "recover"]
    BY <1>4 DEF EndTask
  <2>2. excuse' \in [Window -> Excuse \cup {None}]
    BY <1>4 DEF ReadyInv, Excuse
  <2>3. Calm(w)'
    <3>1. CASE Schedule(w)
      BY <1>1, <3>1 DEF Schedule, Calm, Typed
    <3>2. CASE excuse' = [excuse EXCEPT ![w] = "gave up"]
      <4>1. excuse'[w] = "gave up" /\ None \notin Excuse
        BY <3>2, OwnershipAssumption DEF ReadyInv
      <4> QED BY <4>1 DEF Calm, Excuse
    <3> QED BY <1>4, <3>1, <3>2
  <2>4. /\ task'[w] = NoTask
        /\ recovering'[w] => recovering[w] /\ task[w].kind # "recover"
    BY <1>1, <2>1 DEF Typed
  <2>5. Ready(w)'
    BY <1>1, <2>3, <2>4, ReadyOver
  <2>6. \A u \in Window \ {w} : timer'[u] = timer[u] /\ excuse'[u] = excuse[u]
    BY <1>4 DEF Schedule, Typed, Inv, ReadyInv
  <2>7. \A u \in Window \ {w} : Beside(u)
    BY <1>1, <1>2, <2>1, <2>6 DEF Typed, Beside, Same
  <2> QED BY <2>2, <2>5, <2>7, ReadyWindow DEF Turn
<1> QED BY <1>3, <1>4 DEF Again

LEMMA ReadyCheck ==
    ASSUME Inv, ReadyInv, NEW w \in Window, Check(w)
    PROVE  ReadyInv'
<1>1. /\ task[w].step = "check" /\ Ready(w) /\ Typed
      /\ UNCHANGED <<authority, page, auto, bridge, waiting, poll>>
  BY DEF Check, ReadyInv, Inv
<1>2. CASE authority = task[w].mine
  <2>1. /\ "revoke" \in Step /\ task' = [task EXCEPT ![w].step = "revoke"]
        /\ UNCHANGED <<session, timer, recovering, excuse>>
    BY <1>2 DEF Check, Step
  <2>2. /\ task'[w].step = "revoke" /\ task'[w].kind = task[w].kind
        /\ \A u \in Window \ {w} : task'[u] = task[u]
    BY <1>1, <2>1, StepTo
  <2>3. Ready(w)'
    BY <1>1, <2>1, <2>2, ReadyGoesOn DEF Connects
  <2>4. \A u \in Window \ {w} : Beside(u)
    BY <1>1, <2>1, <2>2 DEF Typed, Beside, Same
  <2> QED BY <1>1, <2>1, <2>3, <2>4, ReadyWindow DEF Turn, ReadyInv
<1>3. CASE authority # task[w].mine
  BY <1>1, <1>3, ReadyAgain DEF Check
<1> QED BY <1>2, <1>3

LEMMA ReadyRevoke ==
    ASSUME Inv, ReadyInv, NEW w \in Window, Revoke(w)
    PROVE  ReadyInv'
BY ReadyAgain DEF Revoke

\* What happens beside the tasks.
LEMMA ReadyTransportFails ==
    ASSUME Inv, ReadyInv, NEW w \in Window, TransportFails(w)
    PROVE  ReadyInv'
<1>1. Ready(w) /\ Typed
  BY DEF ReadyInv, Inv
<1>2. /\ bridge[w].up /\ bridge' = [bridge EXCEPT ![w] = NoBridge]
      /\ UNCHANGED <<authority, page, auto, session, task, timer, poll, excuse>>
  BY DEF TransportFails
<1>3. /\ session[w] # None /\ task[w].step # "connect"
      /\ Connects(w)'
  <2>1. task[w].step \notin Step
    BY <1>2 DEF Inv, Good, AtWork
  <2>2. task[w].step # "connect"
    BY <2>1 DEF Step
  <2> QED BY <1>2, <2>2 DEF Inv, Good, Served, Connects
<1>4. CASE recovering' = [recovering EXCEPT ![w] = TRUE] /\ Queued(w, "recover")
  <2>1. "recover" \in Kind
    BY DEF Kind
  <2>2. Ready(w)'
    BY <1>1, <1>2, <1>3, <1>4, <2>1, ReadyQueued
  <2>3. \A u \in Window \ {w} : Beside(u)
    BY <1>1, <1>2, <1>4, <2>1, QueuedFacts DEF Typed, Beside, Same
  <2> QED BY <1>2, <2>2, <2>3, ReadyWindow DEF Turn, ReadyInv
<1>5. CASE /\ UNCHANGED <<recovering, waiting>>
           /\ ~(auto[w] /\ session[w] # None /\ ~recovering[w])
  <2>1. Calm(w)'
    <3>1. CASE ~auto[w]
      BY <1>2, <3>1 DEF Calm
    <3>2. CASE recovering[w]
      <4>1. task[w] # NoTask \/ waiting[w] # <<>>
        <5>1. NoTask.kind # "recover"
          BY OwnershipAssumption DEF NoTask, Kind
        <5>2. waiting[w] \in Seq(Kind)
          BY <1>1 DEF Typed
        <5> QED BY <1>1, <3>2, <5>1, <5>2 DEF Ready, Recovers
      <4> QED BY <1>2, <1>5, <4>1 DEF Calm
    <3> QED BY <1>3, <1>5, <3>1, <3>2
  <2>2. Ready(w)'
    BY <1>1, <1>2, <1>3, <1>5, <2>1, ReadySame DEF Ready
  <2>3. \A u \in Window \ {w} : Beside(u)
    BY <1>1, <1>2, <1>5 DEF Typed, Beside, Same
  <2> QED BY <1>2, <2>2, <2>3, ReadyWindow DEF Turn, ReadyInv
<1> QED BY <1>4, <1>5 DEF TransportFails

\* A poll asks, or is over without an answer that counts.
LEMMA ReadyPoll ==
    ASSUME Inv, ReadyInv, NEW w \in Window, \A u \in Window \ {w} : poll'[u] = poll[u],
           UNCHANGED <<authority, page, auto, session, bridge, task, waiting, timer, recovering,
                       excuse>>
    PROVE  ReadyInv'
<1>1. Ready(w)'
  BY DEF ReadyInv, Ready, AutoRuns, Recovers, Connects, Calm
<1>2. \A u \in Window \ {w} : Beside(u)
  BY DEF Beside, Same
<1> QED BY <1>1, <1>2, ReadyWindow DEF Turn, ReadyInv

\* An answer that stops a bridge it is not about is a reason.
LEMMA ReadyAnswered ==
    ASSUME Inv, ReadyInv, NEW w \in Window, Answered(w)
    PROVE  ReadyInv'
<1>1. /\ Ready(w) /\ Typed /\ poll[w].step = "asked"
      /\ UNCHANGED <<authority, page, auto, session, task, waiting, timer, recovering>>
      /\ \A u \in Window \ {w} : poll'[u] = poll[u]
  BY DEF Answered, ReadyInv, Inv, Typed
<1>2. CASE authority = poll[w].owned
  BY <1>1, <1>2, ReadyPoll DEF Answered
<1>3. CASE authority # poll[w].owned
  <2>1. /\ bridge' = [bridge EXCEPT ![w] = NoBridge]
        /\ excuse' = IF bridge[w].session \in {None, poll[w].owned} THEN excuse
                     ELSE [excuse EXCEPT ![w] = "cut off"]
    BY <1>3 DEF Answered
  <2>2. "cut off" \in Excuse /\ "cut off" # None
    BY OwnershipAssumption DEF Excuse
  <2>3. /\ excuse' \in [Window -> Excuse \cup {None}]
        /\ \A u \in Window \ {w} : excuse'[u] = excuse[u]
        /\ excuse[w] # None => excuse'[w] # None
        /\ bridge[w].session \notin {None, poll[w].owned} => excuse'[w] # None
    BY <2>1, <2>2 DEF ReadyInv
  <2>4. Connects(w)'
    <3> SUFFICES ASSUME task[w].step = "connect", task[w].mine = authority
                 PROVE  excuse'[w] # None
      BY <1>1 DEF Connects
    <3>1. "connect" \in Step /\ poll[w].step # None
      BY <1>1, NoneIsNone DEF Step, PollStage
    <3>2. task[w].mine # None /\ task[w].mine # poll[w].owned
      BY <3>1, AtWorkFacts
    <3> QED BY <1>1, <2>3, <3>2 DEF Ready, Connects
  <2>5. Calm(w)'
    <3>1. CASE bridge[w].up
      <4>1. bridge[w].session = session[w] /\ session[w] # None
        BY <3>1 DEF Inv, Good, Served
      <4> QED BY <1>1, <1>3, <2>3, <4>1 DEF Calm
    <3>2. CASE ~bridge[w].up
      BY <1>1, <2>3, <3>2 DEF Ready, Calm
    <3> QED BY <3>1, <3>2
  <2>6. Ready(w)'
    BY <1>1, <2>4, <2>5, ReadySame DEF Ready
  <2>7. \A u \in Window \ {w} : Beside(u)
    BY <1>1, <2>1, <2>3 DEF Typed, Beside, Same
  <2> QED BY <1>1, <2>3, <2>6, <2>7, ReadyWindow DEF Turn
<1> QED BY <1>2, <1>3

\* A window that has lost its session tries again, or has been replaced.
LEMMA ReadyUnavailable ==
    ASSUME Inv, ReadyInv, NEW w \in Window, Unavailable(w)
    PROVE  ReadyInv'
<1>1. /\ Ready(w) /\ Typed
      /\ UNCHANGED <<authority, page, auto, bridge, task, waiting, recovering>>
      /\ \A u \in Window \ {w} : poll'[u] = poll[u]
  BY DEF Unavailable, ReadyInv, Inv, Typed
<1>2. CASE session[w] # poll[w].owned
  BY <1>1, <1>2, ReadyPoll DEF Unavailable
<1>3. CASE session[w] = poll[w].owned
  <2>1. /\ session' = [session EXCEPT ![w] = None]
        /\ \/ timer' = [timer EXCEPT ![w] = timer[w] \/ auto[w]] /\ UNCHANGED excuse
           \/ UNCHANGED timer /\ excuse' = [excuse EXCEPT ![w] = "replaced"]
    BY <1>3 DEF Unavailable, Schedule
  <2>2. "replaced" \in Excuse /\ "replaced" # None
    BY OwnershipAssumption DEF Excuse
  <2>3. /\ excuse' \in [Window -> Excuse \cup {None}]
        /\ \A u \in Window \ {w} : excuse'[u] = excuse[u] /\ timer'[u] = timer[u]
        /\ excuse[w] # None => excuse'[w] # None
        /\ excuse'[w] # None \/ timer'[w] \/ ~auto[w]
    <3>1. CASE timer' = [timer EXCEPT ![w] = timer[w] \/ auto[w]] /\ UNCHANGED excuse
      BY <1>1, <3>1 DEF ReadyInv, Typed
    <3>2. CASE UNCHANGED timer /\ excuse' = [excuse EXCEPT ![w] = "replaced"]
      BY <1>1, <2>2, <3>2 DEF ReadyInv
    <3> QED BY <2>1, <3>1, <3>2
  <2>4. Connects(w)' /\ Calm(w)'
    BY <1>1, <2>3 DEF Ready, Connects, Calm
  <2>5. Ready(w)'
    BY <1>1, <2>4, ReadySame DEF Ready
  <2>6. \A u \in Window \ {w} : Beside(u)
    BY <1>1, <2>1, <2>3 DEF Typed, Beside, Same
  <2> QED BY <1>1, <2>3, <2>5, <2>6, ReadyWindow DEF Turn
<1> QED BY <1>2, <1>3

\* What a companion cuts off is a session that is over.
LEMMA ReadyDiscovered ==
    ASSUME Inv, ReadyInv, NEW w \in Window, Discovered(w)
    PROVE  ReadyInv'
<1>1. /\ Ready(w) /\ Typed /\ bridge[w].session \notin {None, authority}
      /\ bridge' = [bridge EXCEPT ![w] = NoBridge]
      /\ UNCHANGED <<authority, page, auto, session, task, waiting, timer, recovering, excuse>>
      /\ \A u \in Window \ {w} : poll'[u] = poll[u]
  BY DEF Discovered, ReadyInv, Inv, Typed
<1>2. Connects(w)'
  BY <1>1 DEF Ready, Connects
<1>3. Calm(w)'
  <2>1. CASE bridge[w].up
    BY <1>1, <2>1 DEF Inv, Good, Served, Calm
  <2>2. CASE ~bridge[w].up
    BY <1>1, <2>2 DEF Ready, Calm
  <2> QED BY <2>1, <2>2
<1>4. Ready(w)'
  BY <1>1, <1>2, <1>3, ReadySame DEF Ready
<1>5. \A u \in Window \ {w} : Beside(u)
  BY <1>1 DEF Typed, Beside, Same
<1> QED BY <1>1, <1>4, <1>5, ReadyWindow DEF Turn, ReadyInv

LEMMA ReadyStep == Inv /\ ReadyInv /\ [Next]_vars => ReadyInv'
<1> SUFFICES ASSUME Inv, ReadyInv, [Next]_vars PROVE ReadyInv'
  OBVIOUS
<1>1. ASSUME NEW w \in Window, TaskStep(w) PROVE ReadyInv'
  BY <1>1, ReadyRun, ReadyWindowReady, ReadyTimerFires, ReadyForget, ReadyRevokeAll,
     ReadyRequest, ReadyConnected, ReadyConnectFails, ReadyCheck, ReadyRevoke DEF TaskStep
<1>2. ASSUME NEW w \in Window, PollStep(w) PROVE ReadyInv'
  <2>1. CASE Poll(w) \/ PollFails(w)
    <3>1. /\ UNCHANGED <<authority, page, auto, session, bridge, task, waiting, timer,
                         recovering, excuse>>
          /\ \A u \in Window \ {w} : poll'[u] = poll[u]
      BY <2>1 DEF Poll, PollFails, Inv, Typed
    <3> QED BY <3>1, ReadyPoll
  <2> QED BY <1>2, <2>1, ReadyAnswered, ReadyUnavailable DEF PollStep
<1>3. ASSUME NEW w \in Window, NEW automatic \in BOOLEAN, Open(w, automatic) PROVE ReadyInv'
  BY <1>3, ReadyOpen
<1>4. ASSUME NEW w \in Window, NEW kind \in {"restart", "start", "stop"}, Click(w, kind)
      PROVE  ReadyInv'
  BY <1>4, ReadyClick
<1>5. ASSUME NEW w \in Window, Close(w) PROVE ReadyInv'
  BY <1>5, ReadyClose
<1>6. ASSUME NEW w \in Window, TransportFails(w) \/ Discovered(w) PROVE ReadyInv'
  BY <1>6, ReadyTransportFails, ReadyDiscovered
<1>7. CASE UNCHANGED vars
  BY <1>7 DEF vars, window, ReadyInv, Ready, AutoRuns, Recovers, Connects, Calm
<1> QED BY <1>1, <1>2, <1>3, <1>4, <1>5, <1>6, <1>7 DEF Next

\* The reasons are an invariant, with what they rest on.
THEOREM ReadyInvariant == Spec => []ReadyInv
<1>1. Spec => [](Inv /\ ReadyInv)
  BY InvInit, InvStep, ReadyInit, ReadyStep, PTL DEF Spec
<1> QED BY <1>1, PTL

\* An automatic window that is about to do nothing is on the air with the authority's session,
\* or has a reason: no failure of an attempt, a recovery or a poll leaves it idle (host.ts:
\* activateBroadcast, scheduleAutomaticBroadcastRetry, recoverBroadcastTransport,
\* markBroadcastUnavailable).
THEOREM IdleWindowsHaveAReason == Spec => []ReadyOrExcused
<1>1. Spec => []Inv
  BY InvInit, InvStep, PTL DEF Spec
<1> QED BY <1>1, ReadyInvariant, ReadyImplies, PTL

-----------------------------------------------------------------------------
(* The types, with what they say of the tasks that wait and of the sessions *)
(* that anybody remembers.                                                  *)

\* The tasks that wait, and what may still become one: the timer, the start of a page that
\* opens, the loss of the session that is shown, the failure of the task that runs.
TimerLoad(w) == IF timer[w] THEN 1 ELSE 0
PageLoad(w) == IF page[w] = "opening" THEN 1 ELSE 0
SessionLoad(w) == IF session[w] # None THEN 1 ELSE 0
TaskLoad(w) == IF task[w] # NoTask THEN 1 ELSE 0

Load(w) == Len(waiting[w]) + TimerLoad(w) + PageLoad(w) + SessionLoad(w) + TaskLoad(w)

\* A recovery that waits is all that waits, and its session is about to be forgotten.
Pending(w) == task[w] = NoTask /\ waiting[w] = <<"recover">> /\ session[w] # None

Room(w) == Load(w) <= 2 \/ (Load(w) <= 3 /\ Pending(w))

OneRecovery(w) ==
    /\ \A i \in 1..Len(waiting[w]) :
            waiting[w][i] = "recover" =>
                task[w] = NoTask /\ waiting[w] = <<"recover">> /\ recovering[w]
    /\ task[w].kind = "recover" => recovering[w]

\* A task that has a session of its own shows none, and the bridge serves one of the two.
OneSession(w) ==
    /\ task[w] = NoTask \/ task[w].step \in Step
    /\ task[w].mine # None => task[w].step \in {"connect", "check", "revoke"}
    /\ bridge[w].session # None =>
            IF task[w].step = "connect" THEN bridge[w].session = task[w].mine
            ELSE task[w] = NoTask /\ bridge[w].session = session[w]
    /\ poll[w].step # None => poll[w].owned # None
    /\ poll[w].step \in {"gone", "other"} /\ session[w] = poll[w].owned =>
            bridge[w].session = None

Fits(w) == Room(w) /\ OneRecovery(w) /\ OneSession(w)

FitsInv == \A w \in Window : Fits(w)

\* How much each part of the load is.
Counted(w) ==
    /\ Len(waiting[w]) \in Nat
    /\ TimerLoad(w) \in {0, 1} /\ (TimerLoad(w) = 1 <=> timer[w])
    /\ PageLoad(w) \in {0, 1} /\ (PageLoad(w) = 1 <=> page[w] = "opening")
    /\ SessionLoad(w) \in {0, 1} /\ (SessionLoad(w) = 1 <=> session[w] # None)
    /\ TaskLoad(w) \in {0, 1} /\ (TaskLoad(w) = 1 <=> task[w] # NoTask)
    /\ Load(w) \in Nat
    /\ Load(w) = Len(waiting[w]) + TimerLoad(w) + PageLoad(w) + SessionLoad(w) + TaskLoad(w)

LEMMA CountedFacts ==
    ASSUME Typed, NEW w \in Window
    PROVE  Counted(w)
<1>1. Len(waiting[w]) \in Nat
  BY DEF Typed
<1>2. TimerLoad(w) \in {0, 1} /\ (TimerLoad(w) = 1 <=> timer[w])
  BY DEF TimerLoad, Typed
<1>3. PageLoad(w) \in {0, 1} /\ (PageLoad(w) = 1 <=> page[w] = "opening")
  BY DEF PageLoad
<1>4. SessionLoad(w) \in {0, 1} /\ (SessionLoad(w) = 1 <=> session[w] # None)
  BY DEF SessionLoad
<1>5. TaskLoad(w) \in {0, 1} /\ (TaskLoad(w) = 1 <=> task[w] # NoTask)
  BY DEF TaskLoad
<1>6. Load(w) \in Nat
  BY <1>1, <1>2, <1>3, <1>4, <1>5 DEF Load
<1> QED BY <1>1, <1>2, <1>3, <1>4, <1>5, <1>6 DEF Counted, Load

LEMMA LoadFacts ==
    ASSUME NEW w \in Window
    PROVE  (Typed => Counted(w)) /\ (Typed' => Counted(w)')
<1>1. Typed => Counted(w)
  BY CountedFacts
<1>2. Typed' => Counted(w)'
  BY <1>1, PTL
<1> QED BY <1>1, <1>2

\* The parts that are as they were, or less.
LEMMA LoadParts ==
    ASSUME NEW w \in Window
    PROVE  /\ timer'[w] = timer[w] => TimerLoad(w)' = TimerLoad(w)
           /\ page'[w] = page[w] => PageLoad(w)' = PageLoad(w)
           /\ session'[w] = session[w] => SessionLoad(w)' = SessionLoad(w)
           /\ task'[w] = task[w] => TaskLoad(w)' = TaskLoad(w)
BY DEF TimerLoad, PageLoad, SessionLoad, TaskLoad

LEMMA LoadSame ==
    ASSUME NEW w \in Window, page'[w] = page[w], waiting'[w] = waiting[w], timer'[w] = timer[w],
           session'[w] = session[w], task'[w] = task[w]
    PROVE  Load(w)' = Load(w)
<1>1. TimerLoad(w)' = TimerLoad(w) /\ PageLoad(w)' = PageLoad(w)
  BY DEF TimerLoad, PageLoad
<1>2. SessionLoad(w)' = SessionLoad(w) /\ TaskLoad(w)' = TaskLoad(w)
  BY DEF SessionLoad, TaskLoad
<1> QED BY <1>1, <1>2 DEF Load

LEMMA FitsBeside ==
    ASSUME NEW u \in Window, Fits(u), Beside(u)
    PROVE  Fits(u)'
<1>1. Load(u)' = Load(u)
  BY LoadSame DEF Beside, Same
<1>2. Room(u)'
  BY <1>1 DEF Fits, Room, Pending, Beside, Same
<1>3. OneRecovery(u)'
  BY DEF Fits, OneRecovery, Beside, Same
<1>4. OneSession(u)'
  BY DEF Fits, OneSession, Beside, Same
<1> QED BY <1>2, <1>3, <1>4 DEF Fits

\* A step is one window's.
Act(w) ==
    \/ \E automatic \in BOOLEAN : Open(w, automatic)
    \/ \E kind \in {"restart", "start", "stop"} : Click(w, kind)
    \/ Close(w) \/ TaskStep(w) \/ PollStep(w)
    \/ ~Due(w) /\ (TransportFails(w) \/ Discovered(w))

LEMMA ActBeside ==
    ASSUME Inv, ReadyInv, NEW w \in Window, Act(w), NEW u \in Window \ {w}
    PROVE  Beside(u)
<1>0. Typed /\ excuse \in [Window -> Excuse \cup {None}]
  BY DEF Inv, ReadyInv
<1>1. ASSUME NEW automatic \in BOOLEAN, Open(w, automatic) PROVE Beside(u)
  BY <1>0, <1>1 DEF Open, Typed, Beside, Same
<1>2. ASSUME NEW kind \in {"restart", "start", "stop"}, Click(w, kind) PROVE Beside(u)
  <2>1. kind \in Kind /\ Queued(w, kind)
    BY <1>2 DEF Click, Kind
  <2> QED BY <1>0, <1>2, <2>1, QueuedFacts DEF Click, Typed, Beside, Same
<1>3. CASE Close(w)
  BY <1>0, <1>3 DEF Close, Typed, Beside, Same
<1>4. CASE Run(w)
  BY <1>0, <1>4 DEF Run, Typed, Beside, Same
<1>5. CASE WindowReady(w)
  <2>1. waiting'[u] = waiting[u]
    BY <1>0, <1>5 DEF WindowReady, Queued, Typed
  <2> QED BY <1>0, <1>5, <2>1 DEF WindowReady, Typed, Beside, Same
<1>6. CASE TimerFires(w)
  BY <1>0, <1>6 DEF TimerFires, Queued, Typed, Beside, Same
<1>7. CASE Forget(w) \/ RevokeAll(w) \/ Request(w)
  BY <1>0, <1>7 DEF Forget, RevokeAll, Request, Typed, Beside, Same
<1>8. CASE Connected(w) \/ ConnectFails(w)
  BY <1>0, <1>8 DEF Connected, ConnectFails, Typed, Beside, Same
<1>9. CASE Check(w) \/ Revoke(w)
  <2>1. UNCHANGED <<page, auto, bridge, waiting, poll>>
    BY <1>9 DEF Check, Revoke
  <2>2. CASE Again(w)
    <3>1. session'[u] = session[u] /\ task'[u] = task[u] /\ recovering'[u] = recovering[u]
      BY <1>0, <2>2 DEF Again, EndTask, Typed
    <3>2. timer'[u] = timer[u] /\ excuse'[u] = excuse[u]
      BY <1>0, <2>2 DEF Again, Schedule, Typed
    <3> QED BY <2>1, <3>1, <3>2 DEF Beside, Same
  <2>3. CASE /\ task' = [task EXCEPT ![w].step = "revoke"]
             /\ UNCHANGED <<session, timer, recovering, excuse>>
    BY <1>0, <2>1, <2>3 DEF Typed, Beside, Same
  <2> QED BY <1>9, <2>2, <2>3 DEF Check, Revoke
<1>10. CASE PollStep(w)
  BY <1>0, <1>10 DEF PollStep, Poll, PollFails, Answered, Unavailable, Schedule, Typed, Beside, Same
<1>11. CASE TransportFails(w) \/ Discovered(w)
  BY <1>0, <1>11 DEF TransportFails, Discovered, Queued, Typed, Beside, Same
<1> QED BY <1>1, <1>2, <1>3, <1>4, <1>5, <1>6, <1>7, <1>8, <1>9, <1>10, <1>11 DEF Act, TaskStep

LEMMA FitsInit == Init => FitsInv
<1> SUFFICES ASSUME Init, NEW w \in Window PROVE Fits(w)
  BY DEF FitsInv
<1>1. /\ page[w] = "closed" /\ session[w] = None /\ bridge[w] = NoBridge /\ timer[w] = FALSE
      /\ task[w] = NoTask /\ waiting[w] = <<>> /\ poll[w] = NoPoll
  BY DEF Init
<1>2. /\ task[w].mine = None /\ task[w].kind = None /\ bridge[w].session = None
      /\ poll[w].step = None /\ None \notin Kind /\ None \notin PollStage
  BY <1>1, OwnershipAssumption DEF NoTask, NoBridge, NoPoll
<1>3. Load(w) <= 2
  BY <1>1, InvInit, LoadFacts DEF Inv, Counted
<1>4. OneRecovery(w) /\ OneSession(w)
  BY <1>1, <1>2 DEF OneRecovery, OneSession, Kind, PollStage
<1> QED BY <1>3, <1>4 DEF Fits, Room

\* Nothing waits in a window that is about to do something else than to run it.
LEMMA NotDueFacts ==
    ASSUME Typed, NEW w \in Window, Fits(w), task[w] # NoTask \/ ~Due(w)
    PROVE  /\ Load(w) <= 2
           /\ \A i \in 1..Len(waiting[w]) : waiting[w][i] # "recover"
           /\ task[w] = NoTask => waiting[w] = <<>>
<1>1. waiting[w] \in Seq(Kind)
  BY DEF Typed
<1>2. task[w] = NoTask => waiting[w] = <<>>
  BY DEF Due
<1>3. <<"recover">> # <<>>
  OBVIOUS
<1>4. Load(w) <= 2
  BY <1>2, <1>3 DEF Fits, Room, Pending
<1>5. ASSUME NEW i \in 1..Len(waiting[w]), waiting[w][i] = "recover" PROVE FALSE
  BY <1>2, <1>3, <1>5 DEF Fits, OneRecovery
<1> QED BY <1>2, <1>4, <1>5

\* How the load changes.
LEMMA LoadLess ==
    ASSUME Typed, Typed', NEW w \in Window, Load(w) <= 2,
           Len(waiting'[w]) = Len(waiting[w]),
           timer'[w] => timer[w], page'[w] = "opening" => page[w] = "opening",
           session'[w] # None => session[w] # None, task'[w] # NoTask => task[w] # NoTask
    PROVE  Room(w)'
<1>1. Len(waiting[w]) \in Nat
  BY DEF Typed
<1>2. Load(w)' <= Load(w)
  <2>1. Counted(w) /\ Counted(w)'
    BY LoadFacts
  <2>2. TimerLoad(w)' <= TimerLoad(w) /\ PageLoad(w)' <= PageLoad(w)
    BY <2>1 DEF Counted
  <2>3. SessionLoad(w)' <= SessionLoad(w) /\ TaskLoad(w)' <= TaskLoad(w)
    BY <2>1 DEF Counted
  <2> QED BY <2>1, <2>2, <2>3 DEF Counted
<1>3. Load(w) \in Nat /\ Load(w)' \in Nat
  BY <1>1, LoadFacts DEF Counted
<1> QED BY <1>2, <1>3 DEF Room

\* Nothing is there in a window that opens.
LEMMA FitsOpen ==
    ASSUME Inv, Typed', FitsInv, NEW w \in Window, NEW automatic \in BOOLEAN, Open(w, automatic)
    PROVE  Fits(w)'
<1>1. /\ task[w] = NoTask /\ waiting[w] = <<>> /\ ~timer[w] /\ session[w] = None
      /\ poll[w].step = None /\ Fits(w) /\ page' = [page EXCEPT ![w] = "opening"]
      /\ UNCHANGED <<bridge, task, waiting, timer, recovering, poll>>
  BY DEF Open, Inv, Typed, Good, ClosedIsQuiet, FitsInv
<1>2. /\ task[w].step = None /\ task[w].kind = None /\ task[w].mine = None
      /\ None \notin Step /\ None \notin Kind /\ None \notin PollStage
  BY <1>1, OwnershipAssumption DEF NoTask
<1>3. bridge[w].session = None
  BY <1>1, <1>2 DEF Fits, OneSession, Step
<1>4. Room(w)'
  <2>1. Load(w)' <= 2
    BY <1>1, LoadFacts DEF Counted
  <2> QED BY <2>1 DEF Room
<1>5. OneRecovery(w)'
  BY <1>1, <1>2 DEF OneRecovery, Kind
<1>6. OneSession(w)'
  BY <1>1, <1>2, <1>3 DEF OneSession, PollStage
<1> QED BY <1>4, <1>5, <1>6 DEF Fits

LEMMA FitsClose ==
    ASSUME Inv, Typed', FitsInv, NEW w \in Window, Close(w)
    PROVE  Fits(w)'
<1>1. /\ task'[w] = NoTask /\ waiting'[w] = <<>> /\ page'[w] = "closed" /\ ~timer'[w]
      /\ session'[w] = None /\ bridge'[w] = NoBridge /\ poll'[w] = NoPoll
  BY DEF Close, Inv, Typed
<1>2. /\ task'[w].step = None /\ task'[w].kind = None /\ task'[w].mine = None
      /\ bridge'[w].session = None /\ poll'[w].step = None
      /\ None \notin Kind /\ None \notin PollStage
  BY <1>1, OwnershipAssumption DEF NoTask, NoBridge, NoPoll
<1>3. Load(w)' <= 2
  BY <1>1, LoadFacts DEF Counted
<1>4. OneRecovery(w)' /\ OneSession(w)'
  BY <1>1, <1>2 DEF OneRecovery, OneSession, Kind, PollStage
<1> QED BY <1>3, <1>4 DEF Fits, Room

\* Another task waits, which is no recovery, and something less may still become one.
LEMMA FitsQueued ==
    ASSUME Inv, Typed', FitsInv, NEW w \in Window, ~Due(w),
           NEW kind \in Kind \ {"recover"}, Queued(w, kind),
           UNCHANGED <<session, bridge, task, recovering, poll>>,
           Load(w)' <= 2
    PROVE  Fits(w)'
<1>1. Typed /\ Fits(w)
  BY DEF Inv, FitsInv
<1>2. OneRecovery(w)'
  <2>1. /\ waiting[w] \in Seq(Kind) /\ Len(waiting[w]) \in Nat
        /\ Len(waiting'[w]) = Len(waiting[w]) + 1
        /\ \A i \in 1..Len(waiting[w]) : waiting'[w][i] = waiting[w][i]
        /\ waiting'[w][Len(waiting[w]) + 1] = kind
    BY <1>1, QueuedFacts DEF Typed
  <2>2. ASSUME NEW i \in 1..Len(waiting'[w]), waiting'[w][i] = "recover" PROVE FALSE
    <3>1. i \in 1..Len(waiting[w]) \/ i = Len(waiting[w]) + 1
      BY <2>1
    <3> QED BY <1>1, <2>1, <2>2, <3>1, NotDueFacts
  <2> QED BY <1>1, <2>2 DEF Fits, OneRecovery
<1>3. OneSession(w)'
  BY <1>1 DEF Fits, OneSession
<1> QED BY <1>2, <1>3 DEF Fits, Room

LEMMA FitsWindowReady ==
    ASSUME Inv, Typed', FitsInv, NEW w \in Window, ~Due(w), WindowReady(w)
    PROVE  Fits(w)'
<1>1. /\ Typed /\ Fits(w) /\ Load(w) <= 2
      /\ \A i \in 1..Len(waiting[w]) : waiting[w][i] # "recover"
  BY NotDueFacts DEF Inv, FitsInv
<1>2. /\ page[w] = "opening" /\ page'[w] = "open"
      /\ UNCHANGED <<session, bridge, task, timer, recovering, poll>>
  BY <1>1 DEF WindowReady, Typed
<1>3. CASE auto[w]
  <2>1. Queued(w, "auto") /\ "auto" \in Kind \ {"recover"}
    BY <1>3 DEF WindowReady, Kind
  <2>2. Len(waiting'[w]) = Len(waiting[w]) + 1 /\ Len(waiting[w]) \in Nat
    BY <1>1, <2>1, QueuedFacts DEF Typed
  <2>3. Load(w)' = Load(w)
    BY <1>1, <1>2, <2>2, LoadFacts DEF Counted
  <2> QED BY <1>1, <1>2, <2>1, <2>3, FitsQueued
<1>4. CASE ~auto[w]
  <2>1. UNCHANGED waiting
    BY <1>4 DEF WindowReady
  <2>2. Room(w)'
    BY <1>1, <1>2, <2>1, LoadLess
  <2>3. OneRecovery(w)' /\ OneSession(w)'
    BY <1>1, <1>2, <2>1 DEF Fits, OneRecovery, OneSession
  <2> QED BY <2>2, <2>3 DEF Fits
<1> QED BY <1>3, <1>4

LEMMA FitsClick ==
    ASSUME Inv, Typed', FitsInv, NEW w \in Window, NEW kind \in {"restart", "start", "stop"},
           Click(w, kind)
    PROVE  Fits(w)'
<1>1. /\ Typed /\ Fits(w) /\ ~Due(w)
      /\ waiting[w] = <<>> /\ task[w] = NoTask /\ page[w] = "open"
      /\ timer' = [timer EXCEPT ![w] = FALSE]
      /\ UNCHANGED <<page, session, bridge, task, recovering, poll>>
      /\ Queued(w, kind) /\ kind \in Kind \ {"recover"}
  BY DEF Click, Busy, Due, Kind, Inv, FitsInv
<1>2. Len(waiting'[w]) = 1
  <2>1. Len(waiting[w]) = 0 /\ Len(waiting'[w]) = Len(waiting[w]) + 1
    BY <1>1, QueuedFacts
  <2> QED BY <2>1
<1>3. timer'[w] = FALSE
  BY <1>1 DEF Typed
<1>4. Load(w)' <= 2
  BY <1>1, <1>2, <1>3, LoadFacts DEF Counted
<1> QED BY <1>1, <1>4, FitsQueued

LEMMA FitsTimerFires ==
    ASSUME Inv, Typed', FitsInv, NEW w \in Window, ~Due(w), TimerFires(w)
    PROVE  Fits(w)'
<1>1. /\ Typed /\ Fits(w) /\ Load(w) <= 2
  BY NotDueFacts DEF Inv, FitsInv
<1>2. /\ timer[w] /\ timer' = [timer EXCEPT ![w] = FALSE]
      /\ UNCHANGED <<page, session, bridge, task, recovering, poll>>
      /\ Queued(w, "auto") /\ "auto" \in Kind \ {"recover"}
  BY DEF TimerFires, Kind
<1>3. /\ Len(waiting'[w]) = Len(waiting[w]) + 1 /\ Len(waiting[w]) \in Nat
      /\ timer'[w] = FALSE
  BY <1>1, <1>2, QueuedFacts DEF Typed
<1>4. Load(w)' = Load(w)
  BY <1>1, <1>2, <1>3, LoadFacts DEF Counted
<1> QED BY <1>1, <1>2, <1>4, FitsQueued

\* A task takes its place: a recovery has nothing behind it.
LEMMA FitsRun ==
    ASSUME Inv, Typed', FitsInv, NEW w \in Window, Run(w)
    PROVE  Fits(w)'
<1> DEFINE kind == Head(waiting[w])
           stops == kind # "start" /\ (kind = "auto" => session[w] # None)
           next == IF kind = "stop" THEN "revoke all"
                   ELSE IF kind # "recover" /\ stops THEN "forget" ELSE "request"
           started == [NoTask EXCEPT !.kind = kind, !.step = next]
<1>1. Fits(w) /\ Typed
  BY DEF FitsInv, Inv
<1>2. /\ waiting[w] \in Seq(Kind) /\ waiting[w] # <<>>
      /\ Len(waiting[w]) \in Nat
      /\ Len(Tail(waiting[w])) = Len(waiting[w]) - 1
      /\ \A i \in 1..Len(Tail(waiting[w])) : Tail(waiting[w])[i] = waiting[w][i + 1]
      /\ kind = waiting[w][1] /\ 1 \in 1..Len(waiting[w])
      /\ task[w] = NoTask
  BY <1>1 DEF Run, Typed
<1>3. /\ next \in {"forget", "revoke all", "request"}
      /\ next \in Step
      /\ ~stops => kind \in {"start", "auto"} /\ (kind = "auto" => session[w] = None)
  BY DEF Step
<1>4. started.kind = kind /\ started.step = next /\ started.mine = None
  BY DEF NoTask
<1>5. /\ waiting' = [waiting EXCEPT ![w] = Tail(waiting[w])]
      /\ task' = [task EXCEPT ![w] = started]
      /\ bridge' = IF stops THEN [bridge EXCEPT ![w] = NoBridge] ELSE bridge
      /\ session' = IF kind = "recover" THEN [session EXCEPT ![w] = None] ELSE session
      /\ UNCHANGED <<page, timer, recovering, poll>>
  BY DEF Run
<1>6. kind = "start" => session[w] = None
  BY <1>2 DEF Inv, Good, StartIsFirst
<1> HIDE DEF kind, stops, next, started
<1>7. /\ task'[w] = started /\ waiting'[w] = Tail(waiting[w])
      /\ task'[w] # NoTask
  BY <1>1, <1>3, <1>4, <1>5, NoneIsNone DEF Typed
<1>8. /\ kind = "recover" => waiting[w] = <<"recover">> /\ recovering[w] /\ session'[w] = None
      /\ session'[w] # None => session'[w] = session[w]
  BY <1>1, <1>2, <1>5 DEF Fits, OneRecovery, Typed
<1>0. Counted(w) /\ Counted(w)'
  BY <1>1, LoadFacts
<1>9. Room(w)'
  <2>1. CASE Load(w) <= 2
    <3>1. Load(w)' <= Load(w)
      <4>1. TimerLoad(w)' = TimerLoad(w) /\ PageLoad(w)' = PageLoad(w)
        BY <1>5, LoadParts
      <4>2. SessionLoad(w)' <= SessionLoad(w)
        BY <1>0, <1>8 DEF Counted
      <4>3. TaskLoad(w) = 0 /\ TaskLoad(w)' = 1
        BY <1>0, <1>2, <1>7 DEF Counted
      <4>4. Len(waiting'[w]) = Len(waiting[w]) - 1
        BY <1>2, <1>7
      <4> QED BY <1>0, <4>1, <4>2, <4>3, <4>4 DEF Counted
    <3>2. Load(w) \in Nat /\ Load(w)' \in Nat
      BY <1>0 DEF Counted
    <3> QED BY <2>1, <3>1, <3>2 DEF Room
  <2>2. CASE Load(w) <= 3 /\ Pending(w)
    <3>1. waiting[w] = <<"recover">> /\ session[w] # None
      BY <2>2 DEF Pending
    <3>2. kind = "recover" /\ Len(waiting[w]) = 1
      BY <1>2, <3>1
    <3>3. session'[w] = None /\ Len(waiting'[w]) = 0
      BY <1>2, <1>7, <1>8, <3>2
    <3>4. Load(w)' <= 2
      <4>1. TimerLoad(w)' = TimerLoad(w) /\ PageLoad(w)' = PageLoad(w)
        BY <1>5, LoadParts
      <4>2. SessionLoad(w) = 1 /\ SessionLoad(w)' = 0
        BY <1>0, <3>1, <3>3 DEF Counted
      <4>3. TaskLoad(w) = 0 /\ TaskLoad(w)' = 1
        BY <1>0, <1>2, <1>7 DEF Counted
      <4> QED BY <1>0, <2>2, <3>2, <3>3, <4>1, <4>2, <4>3 DEF Counted
    <3> QED BY <3>4 DEF Room
  <2> QED BY <1>1, <2>1, <2>2 DEF Fits, Room
<1>10. OneRecovery(w)'
  <2>1. ASSUME NEW i \in 1..Len(Tail(waiting[w])), Tail(waiting[w])[i] = "recover" PROVE FALSE
    <3>1. i + 1 \in 1..Len(waiting[w]) /\ waiting[w][i + 1] = "recover"
      BY <1>2, <2>1
    <3>2. waiting[w] = <<"recover">>
      BY <1>1, <3>1 DEF Fits, OneRecovery
    <3> QED BY <1>2, <2>1, <3>2
  <2> QED BY <1>4, <1>5, <1>7, <1>8, <2>1 DEF OneRecovery
<1>11. bridge'[w].session = None
  <2>1. CASE stops
    BY <1>1, <1>5, <2>1 DEF NoBridge, Typed
  <2>2. CASE ~stops
    <3>1. task[w].step = None /\ None \notin Step
      BY <1>2, NoneIsNone
    <3>2. session[w] = None
      BY <1>3, <1>6, <2>2
    <3> QED BY <1>1, <1>5, <2>2, <3>1, <3>2 DEF Fits, OneSession, Step
  <2> QED BY <2>1, <2>2
<1>12. OneSession(w)'
  BY <1>1, <1>3, <1>4, <1>5, <1>7, <1>8, <1>11 DEF Fits, OneSession
<1> QED BY <1>9, <1>10, <1>12 DEF Fits

\* A task goes on, or is over.
LEMMA FitsTask ==
    ASSUME Inv, Typed', FitsInv, NEW w \in Window, task[w].step \in Step,
           UNCHANGED <<page, waiting, poll>>,
           Load(w)' <= Load(w),
           task'[w].kind = "recover" => task[w].kind = "recover" /\ recovering'[w] = recovering[w],
           OneSession(w)'
    PROVE  Fits(w)'
<1>1. Typed /\ Fits(w) /\ task[w] # NoTask
  BY NoneIsNone DEF Inv, FitsInv
<1>2. Load(w) <= 2 /\ \A i \in 1..Len(waiting[w]) : waiting[w][i] # "recover"
  BY <1>1, NotDueFacts
<1>3. Room(w)'
  <2>1. Load(w) \in Nat /\ Load(w)' \in Nat
    BY <1>1, LoadFacts DEF Counted
  <2> QED BY <1>2, <2>1 DEF Room
<1>4. OneRecovery(w)'
  BY <1>1, <1>2 DEF Fits, OneRecovery
<1> QED BY <1>3, <1>4 DEF Fits

\* The load of a window whose task goes on.
LEMMA LoadOn ==
    ASSUME Typed, Typed', NEW w \in Window, UNCHANGED <<page, waiting>>, timer'[w] = timer[w],
           session'[w] # None => session[w] # None, task[w].step \in Step
    PROVE  Load(w)' <= Load(w)
<1>1. Len(waiting[w]) \in Nat /\ task[w] # NoTask
  BY NoneIsNone DEF Typed
<1> QED BY <1>1, LoadFacts DEF Counted

LEMMA FitsForget ==
    ASSUME Inv, Typed', FitsInv, NEW w \in Window, Forget(w)
    PROVE  Fits(w)'
<1>1. /\ Typed /\ Fits(w) /\ task[w].step = "forget" /\ "forget" \in Step /\ "request" \in Step
      /\ task' = [task EXCEPT ![w].step = "request"]
      /\ session' = [session EXCEPT ![w] = None]
      /\ UNCHANGED <<page, bridge, waiting, timer, recovering, poll>>
  BY DEF Forget, Step, Inv, FitsInv
<1>2. /\ task'[w].step = "request" /\ task'[w].mine = task[w].mine /\ task'[w].kind = task[w].kind
      /\ session'[w] = None
  BY <1>1, StepTo DEF Typed
<1>3. task[w].mine = None /\ bridge[w].session = None
  BY <1>1, NoneIsNone DEF Fits, OneSession
<1>4. OneSession(w)'
  BY <1>1, <1>2, <1>3 DEF Fits, OneSession
<1>5. Load(w)' <= Load(w)
  BY <1>1, <1>2, LoadOn
<1> QED BY <1>1, <1>2, <1>4, <1>5, FitsTask

LEMMA FitsRevokeAll ==
    ASSUME Inv, Typed', FitsInv, NEW w \in Window, RevokeAll(w)
    PROVE  Fits(w)'
<1>1. /\ Typed /\ Fits(w) /\ task[w].step = "revoke all" /\ "revoke all" \in Step
      /\ task' = [task EXCEPT ![w] = NoTask]
      /\ session' = [session EXCEPT ![w] = None]
      /\ UNCHANGED <<page, bridge, waiting, timer, recovering, poll>>
  BY DEF RevokeAll, Step, Inv, FitsInv
<1>2. task'[w] = NoTask /\ session'[w] = None
  BY <1>1 DEF Typed
<1>3. /\ task'[w].step = None /\ task'[w].mine = None /\ task'[w].kind = None
      /\ None \notin Step /\ None \notin Kind
  BY <1>2, OwnershipAssumption DEF NoTask
<1>4. bridge[w].session = None
  BY <1>1, NoneIsNone DEF Fits, OneSession
<1>5. OneSession(w)'
  BY <1>1, <1>2, <1>3, <1>4 DEF Fits, OneSession
<1>6. Load(w)' <= Load(w)
  BY <1>1, <1>2, LoadOn
<1> QED BY <1>1, <1>3, <1>5, <1>6, FitsTask DEF Kind

LEMMA FitsRequest ==
    ASSUME Inv, Typed', FitsInv, NEW w \in Window, Request(w)
    PROVE  Fits(w)'
<1>1. Fresh \in Session /\ Fresh \notin Remembered
  BY DEF Request, Fresh
<1>2. /\ Typed /\ Fits(w) /\ task[w].step = "request" /\ "request" \in Step /\ "connect" \in Step
      /\ bridge' = [bridge EXCEPT ![w] = [session |-> Fresh, up |-> FALSE]]
      /\ task' = [task EXCEPT ![w].step = "connect", ![w].mine = Fresh]
      /\ UNCHANGED <<page, session, waiting, timer, recovering, poll>>
  BY DEF Request, Step, Inv, FitsInv
<1> HIDE DEF Fresh
<1>3. task'[w].step = "connect" /\ task'[w].mine = Fresh /\ task'[w].kind = task[w].kind
  BY <1>1, <1>2, StepWith
<1>4. bridge'[w].session = Fresh /\ session[w] = None
  BY <1>2, AtWorkFacts DEF Typed
<1>5. OneSession(w)'
  <2>1. poll[w].step # None => poll[w].owned # session[w]
    BY <1>2, <1>4 DEF Fits, OneSession
  <2>2. poll[w].step \in {"gone", "other"} => poll[w].step # None
    BY NoneIsNone DEF PollStage
  <2> QED BY <1>2, <1>3, <1>4, <2>1, <2>2 DEF Fits, OneSession
<1>6. Load(w)' <= Load(w)
  BY <1>2, LoadOn
<1> QED BY <1>2, <1>3, <1>5, <1>6, FitsTask

LEMMA FitsConnected ==
    ASSUME Inv, Typed', FitsInv, NEW w \in Window, Connected(w)
    PROVE  Fits(w)'
<1>1. /\ Typed /\ Fits(w) /\ task[w].step = "connect" /\ "connect" \in Step
      /\ bridge' = [bridge EXCEPT ![w].up = bridge[w].session = task[w].mine]
      /\ session' = [session EXCEPT ![w] = task[w].mine]
      /\ task' = [task EXCEPT ![w] = NoTask]
      /\ UNCHANGED <<page, waiting, timer, poll>>
  BY DEF Connected, Step, Inv, FitsInv
<1>2. /\ task'[w] = NoTask /\ session'[w] = task[w].mine /\ bridge'[w].session = bridge[w].session
      /\ session[w] = None
  <2>1. task'[w] = NoTask /\ session'[w] = task[w].mine /\ session[w] = None
    <3>1. session[w] = None
      BY <1>1, AtWorkFacts
    <3> QED BY <1>1, <3>1 DEF Typed
  <2>2. bridge'[w] = [bridge[w] EXCEPT !.up = bridge[w].session = task[w].mine]
    BY <1>1 DEF Typed
  <2>3. bridge[w] \in [session : Session \cup {None}, up : BOOLEAN]
    BY <1>1 DEF Typed
  <2> QED BY <2>1, <2>2, <2>3
<1>3. /\ task'[w].step = None /\ task'[w].mine = None /\ task'[w].kind = None
      /\ None \notin Step /\ None \notin Kind /\ None \notin PollStage
  BY <1>2, OwnershipAssumption DEF NoTask
<1>4. poll[w].step # None => task[w].mine # poll[w].owned
  BY <1>1, AtWorkFacts
<1>5. OneSession(w)'
  BY <1>1, <1>2, <1>3, <1>4 DEF Fits, OneSession, Step, PollStage
<1>6. Load(w)' <= Load(w)
  <2>1. Len(waiting[w]) \in Nat /\ task[w] # NoTask
    BY <1>1, NoneIsNone DEF Typed
  <2> QED BY <1>1, <1>2, <2>1, LoadFacts DEF Counted
<1> QED BY <1>1, <1>3, <1>5, <1>6, FitsTask DEF Kind

LEMMA FitsConnectFails ==
    ASSUME Inv, Typed', FitsInv, NEW w \in Window, ConnectFails(w)
    PROVE  Fits(w)'
<1>1. /\ Typed /\ Fits(w) /\ task[w].step = "connect" /\ "connect" \in Step /\ "check" \in Step
      /\ bridge' = [bridge EXCEPT ![w] = NoBridge]
      /\ task' = [task EXCEPT ![w].step = "check"]
      /\ UNCHANGED <<page, session, waiting, timer, recovering, poll>>
  BY DEF ConnectFails, Step, Inv, FitsInv
<1>2. /\ task'[w].step = "check" /\ task'[w].mine = task[w].mine /\ task'[w].kind = task[w].kind
      /\ bridge'[w].session = None
  BY <1>1, StepTo DEF Typed, NoBridge
<1>3. OneSession(w)'
  BY <1>1, <1>2 DEF Fits, OneSession
<1>4. Load(w)' <= Load(w)
  BY <1>1, LoadOn
<1> QED BY <1>1, <1>2, <1>3, <1>4, FitsTask

\* A task that has failed leaves the timer in its place.
LEMMA FitsAgain ==
    ASSUME Inv, Typed', FitsInv, NEW w \in Window, task[w].step \in {"check", "revoke"},
           Again(w), UNCHANGED <<page, auto, bridge, waiting, poll>>
    PROVE  Fits(w)'
<1>1. /\ Typed /\ Fits(w) /\ task[w].step \in Step /\ "request" \in Step
      /\ task[w].step # "connect"
      /\ session' = [session EXCEPT ![w] = None]
  BY DEF Again, Step, Inv, FitsInv
<1>2. session'[w] = None /\ bridge[w].session = None
  BY <1>1, NoneIsNone DEF Typed, Fits, OneSession
<1>3. CASE /\ task' = [task EXCEPT ![w].step = "request", ![w].mine = None]
           /\ UNCHANGED <<timer, recovering>>
  <2>1. task'[w].step = "request" /\ task'[w].mine = None /\ task'[w].kind = task[w].kind
    BY <1>1, <1>3, StepWith
  <2>2. OneSession(w)'
    BY <1>1, <1>2, <2>1 DEF Fits, OneSession
  <2>3. Load(w)' <= Load(w)
    BY <1>1, <1>2, <1>3, LoadOn
  <2> QED BY <1>1, <1>3, <2>1, <2>2, <2>3, FitsTask
<1>4. CASE EndTask(w)
  <2>1. /\ task' = [task EXCEPT ![w] = NoTask] /\ task'[w] = NoTask
    BY <1>1, <1>4 DEF EndTask, Typed
  <2>2. /\ task'[w].step = None /\ task'[w].mine = None /\ task'[w].kind = None
        /\ None \notin Kind
    BY <2>1, OwnershipAssumption DEF NoTask
  <2>3. OneSession(w)'
    BY <1>1, <1>2, <2>1, <2>2 DEF Fits, OneSession
  <2>4. Load(w)' <= Load(w)
    <3>1. Len(waiting[w]) \in Nat /\ task[w] # NoTask
      BY <1>1, NoneIsNone DEF Typed
    <3> QED BY <1>1, <1>2, <2>1, <3>1, LoadFacts DEF Counted
  <2> QED BY <1>1, <2>2, <2>3, <2>4, FitsTask DEF Kind
<1> QED BY <1>3, <1>4 DEF Again

LEMMA FitsCheck ==
    ASSUME Inv, Typed', FitsInv, NEW w \in Window, Check(w)
    PROVE  Fits(w)'
<1>1. /\ Typed /\ Fits(w) /\ task[w].step = "check" /\ "check" \in Step /\ "revoke" \in Step
      /\ UNCHANGED <<page, auto, bridge, waiting, poll>>
  BY DEF Check, Step, Inv, FitsInv
<1>2. CASE authority = task[w].mine
  <2>1. /\ task' = [task EXCEPT ![w].step = "revoke"] /\ UNCHANGED <<session, timer, recovering>>
    BY <1>2 DEF Check
  <2>2. task'[w].step = "revoke" /\ task'[w].mine = task[w].mine /\ task'[w].kind = task[w].kind
    BY <1>1, <2>1, StepTo
  <2>3. task[w] # NoTask /\ task'[w] # NoTask
    BY <1>1, <2>2, NoneIsNone
  <2>4. OneSession(w)'
    BY <1>1, <2>1, <2>2, <2>3 DEF Fits, OneSession
  <2>5. Load(w)' <= Load(w)
    BY <1>1, <2>1, LoadOn
  <2> QED BY <1>1, <2>1, <2>2, <2>4, <2>5, FitsTask
<1>3. CASE authority # task[w].mine
  BY <1>1, <1>3, FitsAgain DEF Check
<1> QED BY <1>2, <1>3

LEMMA FitsRevoke ==
    ASSUME Inv, Typed', FitsInv, NEW w \in Window, Revoke(w)
    PROVE  Fits(w)'
BY FitsAgain DEF Revoke

\* A recovery is queued in a window in which nothing runs or waits.
LEMMA FitsTransportFails ==
    ASSUME Inv, Typed', FitsInv, NEW w \in Window, ~Due(w), TransportFails(w)
    PROVE  Fits(w)'
<1>1. /\ Typed /\ Fits(w) /\ bridge[w].up
      /\ bridge' = [bridge EXCEPT ![w] = NoBridge]
      /\ UNCHANGED <<page, session, task, timer, poll>>
  BY DEF TransportFails, Inv, FitsInv
<1>2. /\ task[w] = NoTask /\ waiting[w] = <<>> /\ session[w] # None /\ Load(w) <= 2
  <2>1. task[w] = NoTask
    BY <1>1 DEF Inv, Good, AtWork, Fits, OneSession
  <2> QED BY <1>1, <2>1, NotDueFacts DEF Inv, Good, Served
<1>3. OneSession(w)'
  <2>1. bridge'[w].session = None
    BY <1>1 DEF Typed, NoBridge
  <2> QED BY <1>1, <2>1 DEF Fits, OneSession
<1>4. CASE recovering' = [recovering EXCEPT ![w] = TRUE] /\ Queued(w, "recover")
  <2>1. waiting'[w] = <<"recover">> /\ recovering'[w]
    BY <1>1, <1>2, <1>4 DEF Queued, Typed
  <2>2. Room(w)'
    <3>1. Len(waiting[w]) = 0 /\ Len(waiting'[w]) = 1
      BY <1>2, <2>1
    <3>2. Load(w)' <= 3
      <4>1. /\ TimerLoad(w)' = TimerLoad(w) /\ PageLoad(w)' = PageLoad(w)
            /\ SessionLoad(w)' = SessionLoad(w) /\ TaskLoad(w)' = TaskLoad(w)
        BY <1>1, LoadParts
      <4>2. Counted(w) /\ Counted(w)'
        BY <1>1, LoadFacts
      <4> QED BY <1>2, <3>1, <4>1, <4>2 DEF Counted
    <3> QED BY <1>1, <1>2, <2>1, <3>2 DEF Room, Pending
  <2>3. OneRecovery(w)'
    BY <1>1, <1>2, <2>1 DEF OneRecovery
  <2> QED BY <1>3, <2>2, <2>3 DEF Fits
<1>5. CASE UNCHANGED <<recovering, waiting>>
  <2>1. Room(w)'
    BY <1>1, <1>2, <1>5, LoadLess
  <2>2. OneRecovery(w)'
    BY <1>1, <1>5 DEF Fits, OneRecovery
  <2> QED BY <1>3, <2>1, <2>2 DEF Fits
<1> QED BY <1>4, <1>5 DEF TransportFails

\* The polls leave the tasks alone.
LEMMA FitsPoll ==
    ASSUME Inv, Typed', FitsInv, NEW w \in Window, ~Due(w),
           UNCHANGED <<page, task, waiting, recovering>>,
           Load(w)' <= Load(w), OneSession(w)'
    PROVE  Fits(w)'
<1>1. Typed /\ Fits(w) /\ Load(w) <= 2
  BY NotDueFacts DEF Inv, FitsInv
<1>2. Load(w) \in Nat /\ Load(w)' \in Nat
  BY <1>1, LoadFacts DEF Counted
<1>3. OneRecovery(w)'
  BY <1>1 DEF Fits, OneRecovery
<1> QED BY <1>1, <1>2, <1>3 DEF Fits, Room

LEMMA FitsPollBegins ==
    ASSUME Inv, Typed', FitsInv, NEW w \in Window, ~Due(w), Poll(w)
    PROVE  Fits(w)'
<1>1. /\ Typed /\ Fits(w) /\ session[w] # None
      /\ poll' = [poll EXCEPT ![w] = [step |-> "asked", owned |-> session[w]]]
      /\ UNCHANGED <<page, session, bridge, task, waiting, timer, recovering>>
  BY DEF Poll, Inv, FitsInv
<1>2. poll'[w].step = "asked" /\ poll'[w].owned = session[w]
  BY <1>1 DEF Typed
<1>3. OneSession(w)'
  BY <1>1, <1>2 DEF Fits, OneSession
<1>4. Load(w)' = Load(w)
  BY <1>1, LoadSame
<1>5. Load(w)' <= Load(w)
  BY <1>1, <1>4, LoadFacts DEF Counted
<1> QED BY <1>1, <1>3, <1>5, FitsPoll

LEMMA FitsPollEnds ==
    ASSUME Inv, Typed', FitsInv, NEW w \in Window, ~Due(w), poll' = [poll EXCEPT ![w] = NoPoll],
           UNCHANGED <<page, session, bridge, task, waiting, timer, recovering>>
    PROVE  Fits(w)'
<1>1. Typed /\ Fits(w)
  BY DEF Inv, FitsInv
<1>2. poll'[w].step = None
  BY <1>1, NoneIsNone DEF Typed
<1>3. OneSession(w)'
  BY <1>1, <1>2, NoneIsNone DEF Fits, OneSession, PollStage
<1>4. Load(w)' = Load(w)
  BY LoadSame
<1>5. Load(w)' <= Load(w)
  BY <1>1, <1>4, LoadFacts DEF Counted
<1> QED BY <1>3, <1>5, FitsPoll

LEMMA FitsAnswered ==
    ASSUME Inv, Typed', FitsInv, NEW w \in Window, ~Due(w), Answered(w)
    PROVE  Fits(w)'
<1>1. CASE authority = poll[w].owned
  BY <1>1, FitsPollEnds DEF Answered
<1>2. CASE authority # poll[w].owned
  <2> DEFINE answer == IF authority = None THEN "gone" ELSE "other"
  <2>1. /\ Typed /\ Fits(w) /\ poll[w].step = "asked"
        /\ poll' = [poll EXCEPT ![w].step = answer]
        /\ bridge' = [bridge EXCEPT ![w] = NoBridge]
        /\ UNCHANGED <<page, session, task, waiting, timer, recovering>>
    BY <1>2 DEF Answered, Inv, FitsInv
  <2> HIDE DEF answer
  <2>2. poll'[w].owned = poll[w].owned /\ bridge'[w].session = None /\ poll[w].owned # None
    <3>1. poll[w].step # None
      BY <2>1, NoneIsNone DEF PollStage
    <3>2. poll[w].owned # None
      BY <2>1, <3>1 DEF Fits, OneSession
    <3>3. bridge'[w].session = None
      BY <2>1 DEF Typed, NoBridge
    <3>4. poll'[w] = [poll[w] EXCEPT !.step = answer]
      BY <2>1 DEF Typed
    <3> QED BY <2>1, <3>2, <3>3, <3>4 DEF Typed
  <2>3. OneSession(w)'
    BY <2>1, <2>2 DEF Fits, OneSession
  <2>4. Load(w)' = Load(w)
    BY <2>1, LoadSame
  <2>5. Load(w)' <= Load(w)
    BY <2>1, <2>4, LoadFacts DEF Counted
  <2> QED BY <2>1, <2>3, <2>5, FitsPoll
<1> QED BY <1>1, <1>2

\* The retry takes the place of the session.
LEMMA FitsUnavailable ==
    ASSUME Inv, Typed', FitsInv, NEW w \in Window, ~Due(w), Unavailable(w)
    PROVE  Fits(w)'
<1>1. /\ Typed /\ Fits(w) /\ poll[w].step \in {"gone", "other"}
      /\ poll' = [poll EXCEPT ![w] = NoPoll]
      /\ UNCHANGED <<page, bridge, task, waiting, recovering>>
  BY DEF Unavailable, Inv, FitsInv
<1>2. CASE session[w] # poll[w].owned
  BY <1>1, <1>2, FitsPollEnds DEF Unavailable
<1>3. CASE session[w] = poll[w].owned
  <2>1. session' = [session EXCEPT ![w] = None]
    BY <1>3 DEF Unavailable
  <2>2. poll[w].step # None /\ poll[w].step \in PollStage
    BY <1>1, NoneIsNone DEF PollStage
  <2>3. /\ session[w] # None /\ bridge[w].session = None /\ session'[w] = None
        /\ poll'[w].step = None
    BY <1>1, <1>3, <2>1, <2>2, NoneIsNone DEF Fits, OneSession, Typed
  <2>4. OneSession(w)'
    BY <1>1, <2>3, NoneIsNone DEF Fits, OneSession, PollStage
  <2>5. Load(w)' <= Load(w)
    <3>1. Len(waiting[w]) \in Nat
      BY <1>1 DEF Typed
    <3> QED BY <1>1, <2>3, <3>1, LoadFacts DEF Counted
  <2> QED BY <1>1, <2>4, <2>5, FitsPoll
<1> QED BY <1>2, <1>3

LEMMA FitsDiscovered ==
    ASSUME Inv, Typed', FitsInv, NEW w \in Window, ~Due(w), Discovered(w)
    PROVE  Fits(w)'
<1>1. /\ Typed /\ Fits(w)
      /\ bridge' = [bridge EXCEPT ![w] = NoBridge]
      /\ UNCHANGED <<page, session, task, waiting, timer, recovering>>
  BY DEF Discovered, Inv, FitsInv
<1>2. bridge'[w].session = None
  BY <1>1 DEF Typed, NoBridge
<1>3. poll'[w] = poll[w] \/ (poll'[w].step = "asked" /\ poll'[w].owned # None)
  BY <1>1 DEF Discovered, Typed
<1>4. OneSession(w)'
  BY <1>1, <1>2, <1>3 DEF Fits, OneSession
<1>5. Load(w)' = Load(w)
  BY <1>1, LoadSame
<1>6. Load(w)' <= Load(w)
  BY <1>1, <1>5, LoadFacts DEF Counted
<1> QED BY <1>1, <1>4, <1>6, FitsPoll

LEMMA FitsStep == Inv /\ Inv' /\ ReadyInv /\ FitsInv /\ [Next]_vars => FitsInv'
<1> SUFFICES ASSUME Inv, Inv', ReadyInv, FitsInv, [Next]_vars PROVE FitsInv'
  OBVIOUS
<1>0. Typed'
  BY DEF Inv
<1>1. ASSUME NEW w \in Window, Act(w) PROVE FitsInv'
  <2>1. ASSUME TaskStep(w) PROVE Fits(w)'
    BY <1>0, <2>1, FitsRun, FitsWindowReady, FitsTimerFires, FitsForget, FitsRevokeAll,
       FitsRequest, FitsConnected, FitsConnectFails, FitsCheck, FitsRevoke DEF TaskStep
  <2>2. ASSUME PollStep(w) PROVE Fits(w)'
    <3>1. CASE PollFails(w)
      BY <1>0, <2>2, <3>1, FitsPollEnds DEF PollStep, PollFails
    <3> QED BY <1>0, <2>2, <3>1, FitsPollBegins, FitsAnswered, FitsUnavailable DEF PollStep
  <2>3. Fits(w)'
    BY <1>0, <1>1, <2>1, <2>2, FitsOpen, FitsClick, FitsClose, FitsTransportFails, FitsDiscovered
       DEF Act
  <2>4. ASSUME NEW u \in Window \ {w} PROVE Fits(u)'
    BY <1>1, <2>4, ActBeside, FitsBeside DEF FitsInv
  <2> QED BY <2>3, <2>4 DEF FitsInv
<1>2. CASE UNCHANGED vars
  <2>1. ASSUME NEW w \in Window PROVE Beside(w)
    BY <1>2 DEF vars, window, Beside, Same
  <2> QED BY <2>1, FitsBeside DEF FitsInv
<1> QED BY <1>1, <1>2 DEF Next, Act

\* Each window remembers two sessions at most: the one that it shows or is about to show, and
\* the one that its poll asks about.
Own(w) == IF task[w].mine # None THEN task[w].mine ELSE session[w]

LEMMA RememberedFacts ==
    ASSUME Inv, FitsInv, NEW w \in Window
    PROVE  {session[w], bridge[w].session, task[w].mine, poll[w].owned}
               \subseteq {Own(w), poll[w].owned, None}
<1>1. Typed /\ Fits(w)
  BY DEF Inv, FitsInv
<1>2. task[w].mine # None => session[w] = None
  <2> SUFFICES ASSUME task[w].mine # None PROVE session[w] = None
    OBVIOUS
  <2>1. task[w].step \in {"connect", "check", "revoke"}
    BY <1>1 DEF Fits, OneSession
  <2>2. task[w].step \in Step
    BY <2>1 DEF Step
  <2> QED BY <2>1, <2>2, AtWorkFacts
<1>3. bridge[w].session \in {None, task[w].mine, session[w]}
  BY <1>1 DEF Fits, OneSession
<1> QED BY <1>2, <1>3 DEF Own

LEMMA AlwaysFresh ==
    ASSUME Inv, FitsInv
    PROVE  Session \ Remembered # {}
<1> SUFFICES ASSUME Session \subseteq Remembered PROVE FALSE
  OBVIOUS
<1> DEFINE own == [w \in Window |-> Own(w)]
           asked == [w \in Window |-> poll[w].owned]
           Owns == {own[w] : w \in Window}
           Askeds == {asked[w] : w \in Window}
           all == {authority} \cup (Owns \cup Askeds)
<1>1. own \in Surjection(Window, Owns) /\ asked \in Surjection(Window, Askeds)
  BY DEF Surjection
<1>2. IsFiniteSet(Window) /\ None \notin Session
  BY OwnershipAssumption
<1>3. /\ IsFiniteSet(Owns) /\ Cardinality(Owns) <= Cardinality(Window)
      /\ IsFiniteSet(Askeds) /\ Cardinality(Askeds) <= Cardinality(Window)
  BY <1>1, <1>2, FS_Surjection
<1>4. Session \subseteq all
  <2> SUFFICES ASSUME NEW s \in Session PROVE s \in all
    OBVIOUS
  <2>1. s = authority
        \/ \E w \in Window : s \in {session[w], bridge[w].session, task[w].mine, poll[w].owned}
    BY DEF Remembered
  <2>2. ASSUME NEW w \in Window,
               s \in {session[w], bridge[w].session, task[w].mine, poll[w].owned}
        PROVE  s \in all
    <3>1. s \in {Own(w), poll[w].owned}
      BY <1>2, <2>2, RememberedFacts
    <3>2. Own(w) \in Owns /\ poll[w].owned \in Askeds
      OBVIOUS
    <3> QED BY <3>1, <3>2
  <2> QED BY <2>1, <2>2
<1> HIDE DEF own, asked, Owns, Askeds
<1>5. /\ IsFiniteSet(Owns \cup Askeds)
      /\ Cardinality(Owns \cup Askeds) <= Cardinality(Owns) + Cardinality(Askeds)
  <2>1. IsFiniteSet(Owns \cap Askeds)
    BY <1>3, FS_Subset
  <2>2. Cardinality(Owns \cap Askeds) \in Nat /\ Cardinality(Owns) \in Nat
        /\ Cardinality(Askeds) \in Nat
    BY <1>3, <2>1, FS_CardinalityType
  <2> QED BY <1>3, <2>2, FS_Union
<1>6. /\ IsFiniteSet(all)
      /\ Cardinality(all) <= 1 + Cardinality(Owns \cup Askeds)
  <2>1. IsFiniteSet({authority}) /\ Cardinality({authority}) = 1
    BY FS_Singleton
  <2>2. IsFiniteSet({authority} \cap (Owns \cup Askeds))
    BY <2>1, FS_Subset
  <2>3. /\ Cardinality({authority} \cap (Owns \cup Askeds)) \in Nat
        /\ Cardinality(Owns \cup Askeds) \in Nat
    BY <1>5, <2>2, FS_CardinalityType
  <2>4. /\ IsFiniteSet(all)
        /\ Cardinality(all) = Cardinality({authority}) + Cardinality(Owns \cup Askeds)
                                  - Cardinality({authority} \cap (Owns \cup Askeds))
    BY <1>5, <2>1, FS_Union
  <2> HIDE DEF all
  <2> QED BY <2>1, <2>3, <2>4
<1>7. IsFiniteSet(Session) /\ Cardinality(Session) <= Cardinality(all)
  BY <1>4, <1>6, FS_Subset
<1>8. /\ Cardinality(Session) \in Nat /\ Cardinality(all) \in Nat /\ Cardinality(Window) \in Nat
      /\ Cardinality(Owns) \in Nat /\ Cardinality(Askeds) \in Nat
      /\ Cardinality(Owns \cup Askeds) \in Nat
  BY <1>2, <1>3, <1>5, <1>6, <1>7, FS_CardinalityType
<1>9. Cardinality(Session) > 2 * Cardinality(Window) + 1
  BY <1>7, OwnershipAssumption
<1> HIDE DEF all
<1> QED BY <1>3, <1>5, <1>6, <1>7, <1>8, <1>9

LEMMA TypesImplied == Inv /\ ReadyInv /\ FitsInv => TypeOK
<1> SUFFICES ASSUME Inv, ReadyInv, FitsInv PROVE TypeOK
  OBVIOUS
<1>1. Typed
  BY DEF Inv
<1>2. ASSUME NEW w \in Window
      PROVE  /\ task[w] \in Task
             /\ Len(waiting[w]) <= 2
             /\ recovering[w] <=> task[w].kind = "recover"
                                  \/ \E i \in DOMAIN waiting[w] : waiting[w][i] = "recover"
  <2>1. Fits(w) /\ Ready(w) /\ waiting[w] \in Seq(Kind) /\ Len(waiting[w]) \in Nat
    BY <1>1 DEF FitsInv, ReadyInv, Typed
  <2>2. DOMAIN waiting[w] = 1..Len(waiting[w])
    BY <2>1
  <2>3. Len(waiting[w]) <= 2
    <3>1. CASE Load(w) <= 2
      <4>1. Counted(w)
        BY <1>1, LoadFacts
      <4> QED BY <3>1, <4>1 DEF Counted
    <3>2. CASE Pending(w)
      <4>1. waiting[w] = <<"recover">>
        BY <3>2 DEF Pending
      <4> QED BY <4>1
    <3> QED BY <2>1, <3>1, <3>2 DEF Fits, Room
  <2>4. recovering[w] <=> task[w].kind = "recover"
                          \/ \E i \in 1..Len(waiting[w]) : waiting[w][i] = "recover"
    BY <1>1, <2>1 DEF Ready, Recovers, Fits, OneRecovery, Typed
  <2> QED BY <1>1, <2>2, <2>3, <2>4 DEF Typed
<1>3. Session \ Remembered # {}
  BY AlwaysFresh
<1> QED BY <1>1, <1>2, <1>3 DEF TypeOK, Typed, Task, ReadyInv

\* The state is well typed; at most two tasks wait; a recovery is under way exactly if its task
\* runs or waits; and no more sessions are ever remembered than two for each window and the
\* daemon's, so that the number of sessions in the model excludes no start (host.ts: task,
\* recoveringBroadcastTransport).
THEOREM TypeCorrect == Spec => []TypeOK
<1>1. Spec => [](Inv /\ ReadyInv /\ FitsInv)
  BY InvInit, InvStep, ReadyInit, ReadyStep, FitsInit, FitsStep, PTL DEF Spec
<1> QED BY <1>1, TypesImplied, PTL
=============================================================================
