------------------------------ MODULE LibraryProofs ------------------------------
(***************************************************************************)
(* Proofs about Library, for any files, versions, corrections, permits and *)
(* helpers, and any size of the channel.                                   *)
(***************************************************************************)
EXTENDS Library, FiniteSetTheorems, TLAPS

\* A sequence over a set is one over a larger set.
LEMMA SeqOfMore ==
    ASSUME NEW S, NEW T, S \subseteq T, NEW s \in Seq(S)
    PROVE  s \in Seq(T)
<1>1. Len(s) \in Nat /\ s \in [1..Len(s) -> S]
  OBVIOUS
<1>2. s \in [1..Len(s) -> T]
  BY <1>1
<1> QED BY <1>1, <1>2

\* A worker's job is for a track that has a row, and one that has listened has a result.
Worker ==
    {Idle} \cup [path : DOMAIN rows, step : {"listening", "heard", "stored"},
                 result : Result \cup {None}]

\* TypeOK, and that everything in the queue is about tracks that have a row.
Typed ==
    /\ files \in [Path -> [version : Version, present : BOOLEAN]]
    /\ DOMAIN rows \subseteq Path
    /\ rows \in [DOMAIN rows -> Row]
    /\ edits \in [Path -> Correction \cup {None}]
    /\ calls \subseteq SUBSET DOMAIN rows
    /\ calls # {} => up
    /\ up \in BOOLEAN
    /\ pending \subseteq DOMAIN rows
    /\ unsent \in [Path -> Nat]
    /\ \A p \in Path : unsent[p] > 0 => p \in DOMAIN rows
    /\ channel \in Seq(DOMAIN rows) /\ Len(channel) <= Capacity
    /\ held \in DOMAIN rows \cup {None}
    /\ workers \in [Permit -> Worker]
    /\ \A w \in Permit : workers[w].step = "heard" => workers[w].result \in Result
    /\ excuse \in [Path -> {None, "given up", "seen", "overtaken"}]
    /\ stale \subseteq Path

LEMMA TypedImpliesTypeOK == Typed => TypeOK
<1> SUFFICES ASSUME Typed PROVE TypeOK
  OBVIOUS
<1>1. \A w \in Permit : \/ workers[w] = Idle
                        \/ /\ workers[w].path \in Path
                           /\ workers[w].step \in {"listening", "heard", "stored"}
                           /\ workers[w].result \in Result \cup {None}
  BY DEF Typed, Worker
<1>2. channel \in Seq(Path)
  BY SeqOfMore DEF Typed
<1>3. \A p \in DOMAIN rows : rows[p] \in Row
  BY DEF Typed
<1>4. held \in Path \cup {None} /\ DOMAIN rows \in SUBSET Path /\ pending \in SUBSET DOMAIN rows
  BY DEF Typed
<1>5. calls \in SUBSET SUBSET DOMAIN rows /\ (calls # {} => up)
  BY DEF Typed
<1> QED BY <1>1, <1>2, <1>3, <1>4, <1>5 DEF Typed, TypeOK

\* What bringing a row up to date does to it.
LEMMA RefreshedFacts ==
    ASSUME Typed, NEW p \in Path
    PROVE  /\ Refreshed(p) \in Row
           /\ Refreshed(p).version = files[p].version
           /\ Refreshed(p).override = IF p \in DOMAIN rows THEN rows[p].override ELSE None
           /\ Refreshed(p).about = IF p \in DOMAIN rows /\ rows[p].version = files[p].version
                                   THEN rows[p].about ELSE None
<1>1. files[p].version \in Version /\ (p \in DOMAIN rows => rows[p] \in Row)
  BY DEF Typed
<1> QED BY <1>1 DEF Refreshed, Row, Status

\* Every run of the helper ends in one of the statuses.
LEMMA AttemptFacts ==
    ASSUME NEW run \in Recognitions
    PROVE  run \in RunOfHelper /\ Attempt(run) \in Status
<1>1. run \in RunOfHelper
  BY LibraryAssumption DEF Recognitions
<1> QED BY <1>1 DEF RunOfHelper, Attempt, Status

\* The queue's part of Typed survives when the table gets more rows.
LEMMA MoreRows ==
    ASSUME Typed, DOMAIN rows \subseteq DOMAIN rows', UNCHANGED queue
    PROVE  /\ pending' \subseteq DOMAIN rows'
           /\ unsent' \in [Path -> Nat]
           /\ \A p \in Path : unsent'[p] > 0 => p \in DOMAIN rows'
           /\ channel' \in Seq(DOMAIN rows') /\ Len(channel') <= Capacity
           /\ held' \in DOMAIN rows' \cup {None}
           /\ workers' \in [Permit -> Worker']
           /\ \A w \in Permit : workers'[w].step = "heard" => workers'[w].result \in Result
<1>1. Worker \subseteq Worker'
  BY DEF Worker, Idle
<1>2. workers' \in [Permit -> Worker']
  BY <1>1 DEF Typed, queue
<1>3. channel' \in Seq(DOMAIN rows') /\ Len(channel') <= Capacity
  BY SeqOfMore DEF Typed, queue
<1> QED BY <1>2, <1>3 DEF Typed, queue

\* A change of a file or of a correction leaves the types as they are.
LEMMA TypedOutside ==
    ASSUME Typed, NEW p \in Path
    PROVE  /\ Change(p) => Typed'
           /\ ComeOrGo(p) => Typed'
           /\ \A title \in Correction : Edit(p, title) => Typed'
<1>1. ASSUME Change(p) PROVE Typed'
  <2> DEFINE file == [version |-> files[p].version + 1, present |-> TRUE]
  <2>1. files[p].version + 1 \in Version
    <3>1. files[p].version \in 1..MaxVersion /\ MaxVersion \in Nat
      BY LibraryAssumption DEF Typed, Version
    <3>2. files[p].version < MaxVersion
      BY <1>1 DEF Change
    <3> QED BY <3>1, <3>2 DEF Version
  <2>2. file \in [version : Version, present : BOOLEAN]
    BY <2>1
  <2>3. files' = [files EXCEPT ![p] = file]
    BY <1>1 DEF Change
  <2> HIDE DEF file
  <2>4. files' \in [Path -> [version : Version, present : BOOLEAN]]
    BY <2>2, <2>3 DEF Typed
  <2> QED BY <1>1, <2>4 DEF Change, Typed, catalog, queue, Worker
<1>2. ASSUME ComeOrGo(p) PROVE Typed'
  <2> DEFINE file == [version |-> files[p].version, present |-> ~files[p].present]
  <2>1. file \in [version : Version, present : BOOLEAN]
    BY DEF Typed
  <2>2. files[p] \in [version : Version, present : BOOLEAN]
    BY DEF Typed
  <2>3. [files[p] EXCEPT !.present = ~@] = file
    BY <2>2
  <2>4. files' = [files EXCEPT ![p] = file]
    BY <1>2, <2>3 DEF ComeOrGo
  <2> HIDE DEF file
  <2>5. files' \in [Path -> [version : Version, present : BOOLEAN]]
    BY <2>1, <2>4 DEF Typed
  <2> QED BY <1>2, <2>5 DEF ComeOrGo, Typed, catalog, queue, Worker
<1>3. ASSUME NEW title \in Correction, Edit(p, title) PROVE Typed'
  <2> DEFINE row == [rows[p] EXCEPT !.override = title]
  <2>a. p \in DOMAIN rows /\ rows[p] \in Row
    BY <1>3 DEF Edit, Typed
  <2>b. row \in Row
    BY <2>a DEF Row
  <2>c. rows' = [rows EXCEPT ![p] = row]
    BY <1>3 DEF Edit
  <2> HIDE DEF row
  <2>1. DOMAIN rows' = DOMAIN rows /\ rows' \in [DOMAIN rows -> Row]
    BY <2>a, <2>b, <2>c DEF Typed
  <2>2. edits' \in [Path -> Correction \cup {None}]
    BY <1>3 DEF Edit, Typed
  <2> QED BY <1>3, <2>1, <2>2 DEF Edit, Typed, queue, Worker
<1> QED BY <1>1, <1>2, <1>3

\* The requests that change the table: it gets rows and loses none.
LEMMA TypedTable ==
    ASSUME Typed
    PROVE  /\ Scan => Typed'
           /\ \A p \in Path : CatalogFile(p) => Typed'
<1>0. ASSUME NEW statuses, Read(statuses), DOMAIN rows \subseteq DOMAIN rows'
      PROVE  /\ calls' \subseteq SUBSET DOMAIN rows'
             /\ excuse' \in [Path -> {None, "given up", "seen", "overtaken"}]
  <2>1. Candidates(statuses) \subseteq DOMAIN rows'
    BY DEF Candidates
  <2>2. calls' = calls \cup ({Candidates(statuses)} \ {{}}) /\ calls \subseteq SUBSET DOMAIN rows
    BY <1>0 DEF Read, Typed
  <2> DEFINE seen(p) == p \in Candidates(statuses) /\ excuse[p] = None
                        /\ \E w \in Work(p) : workers[w].step = "stored"
  <2>3. excuse' = [p \in Path |-> IF seen(p) THEN "seen" ELSE excuse[p]]
    BY <1>0 DEF Read
  <2> HIDE DEF seen
  <2>4. excuse \in [Path -> {None, "given up", "seen", "overtaken"}]
    BY DEF Typed
  <2> QED BY <1>0, <2>1, <2>2, <2>3, <2>4
<1>1. ASSUME Scan PROVE Typed'
  <2> DEFINE found == {p \in Path : files[p].present}
  <2>1. DOMAIN rows' = DOMAIN rows \cup found
    BY <1>1 DEF Scan
  <2>2. \A p \in DOMAIN rows' : rows'[p] = IF p \in found THEN Refreshed(p)
                                         ELSE [rows[p] EXCEPT !.available = FALSE]
    BY <1>1 DEF Scan
  <2>3. \A p \in DOMAIN rows' : rows'[p] \in Row
    <3> SUFFICES ASSUME NEW p \in DOMAIN rows' PROVE rows'[p] \in Row
      OBVIOUS
    <3>1. CASE p \in found
      BY <2>2, <3>1, RefreshedFacts
    <3>2. CASE p \notin found
      <4>1. rows[p] \in Row /\ rows'[p] = [rows[p] EXCEPT !.available = FALSE]
        BY <2>1, <2>2, <3>2 DEF Typed
      <4> QED BY <4>1 DEF Row
    <3> QED BY <3>1, <3>2
  <2>4. rows' \in [DOMAIN rows' -> Row]
    <3>1. rows' = [p \in DOMAIN rows' |-> rows'[p]]
      BY <1>1 DEF Scan
    <3> QED BY <2>3, <3>1
  <2>5. DOMAIN rows \subseteq DOMAIN rows' /\ DOMAIN rows' \subseteq Path
    BY <2>1 DEF Typed
  <2>6. UNCHANGED <<files, edits, up, queue>> /\ up
    BY <1>1 DEF Scan
  <2>7. stale' \subseteq Path
    BY <1>1 DEF Scan, GoStale, Typed
  <2>8. /\ calls' \subseteq SUBSET DOMAIN rows'
        /\ excuse' \in [Path -> {None, "given up", "seen", "overtaken"}]
    BY <1>0, <1>1, <2>5 DEF Scan
  <2> QED BY <2>4, <2>5, <2>6, <2>7, <2>8, MoreRows DEF Typed
<1>2. ASSUME NEW p \in Path, CatalogFile(p) PROVE Typed'
  <2>1. DOMAIN rows' = DOMAIN rows \cup {p}
    BY <1>2 DEF CatalogFile
  <2>2. \A q \in DOMAIN rows' : rows'[q] = IF q = p THEN Refreshed(p) ELSE rows[q]
    BY <1>2 DEF CatalogFile
  <2>3. \A q \in DOMAIN rows' : rows'[q] \in Row
    <3>1. Refreshed(p) \in Row
      BY RefreshedFacts
    <3>2. \A q \in DOMAIN rows : rows[q] \in Row
      BY DEF Typed
    <3> QED BY <2>1, <2>2, <3>1, <3>2
  <2>4. rows' \in [DOMAIN rows' -> Row]
    <3>1. rows' = [q \in DOMAIN rows' |-> rows'[q]]
      BY <1>2 DEF CatalogFile
    <3> QED BY <2>3, <3>1
  <2>5. DOMAIN rows \subseteq DOMAIN rows' /\ DOMAIN rows' \subseteq Path
    BY <2>1 DEF Typed
  <2>6. UNCHANGED <<files, edits, up, queue>> /\ up
    BY <1>2 DEF CatalogFile
  <2>7. stale' \subseteq Path
    BY <1>2 DEF CatalogFile, GoStale, Typed
  <2>8. /\ calls' \subseteq SUBSET DOMAIN rows'
        /\ excuse' \in [Path -> {None, "given up", "seen", "overtaken"}]
    BY <1>0, <1>2, <2>5 DEF CatalogFile
  <2> QED BY <2>4, <2>5, <2>6, <2>7, <2>8, MoreRows DEF Typed
<1> QED BY <1>1, <1>2

\* The way of a job to a worker.
LEMMA TypedQueue ==
    ASSUME Typed
    PROVE  /\ \A paths \in calls : Queue(paths) \/ DropRequest(paths) => Typed'
           /\ \A p \in Path : Send(p) => Typed'
           /\ Receive => Typed'
<1>0. ASSUME NEW paths \in SUBSET DOMAIN rows, Enqueue(paths)
      PROVE  /\ pending' \subseteq DOMAIN rows
             /\ unsent' \in [Path -> Nat]
             /\ \A p \in Path : unsent'[p] > 0 => p \in DOMAIN rows
             /\ excuse' \in [Path -> {None, "given up", "seen", "overtaken"}]
  <2>1. pending' \subseteq DOMAIN rows
    BY <1>0 DEF Enqueue, Typed
  <2>0. unsent \in [Path -> Nat]
    BY DEF Typed
  <2>2. \A p \in Path : unsent[p] \in Nat /\ unsent[p] + 1 \in Nat
    BY <2>0
  <2>3. unsent' = [p \in Path |-> IF p \in paths \ pending THEN unsent[p] + 1 ELSE unsent[p]]
    BY <1>0 DEF Enqueue
  <2>4. excuse' \in [Path -> {None, "given up", "seen", "overtaken"}]
    BY <1>0 DEF Enqueue, Typed
  <2> QED BY <2>1, <2>2, <2>3, <2>4 DEF Typed
<1>1. ASSUME NEW paths \in calls, Queue(paths) PROVE Typed'
  <2>1. paths \in SUBSET DOMAIN rows
    BY DEF Typed
  <2>2. UNCHANGED <<files, rows, edits, up, channel, held, workers, stale>>
    BY <1>1 DEF Queue, catalog
  <2>3. Enqueue(paths) /\ calls' = calls \ {paths}
    BY <1>1 DEF Queue
  <2> QED BY <1>0, <2>1, <2>2, <2>3 DEF Typed, Worker
<1>2. ASSUME NEW paths \in calls, DropRequest(paths) PROVE Typed'
  BY <1>2 DEF DropRequest, Typed, Worker, catalog, queue
<1>3. ASSUME NEW p \in Path, Send(p) PROVE Typed'
  <2>0. unsent \in [Path -> Nat] /\ unsent[p] > 0
    BY <1>3 DEF Send, Typed
  <2>1. p \in DOMAIN rows /\ unsent[p] - 1 \in Nat
    <3>1. p \in DOMAIN rows
      BY <2>0 DEF Typed
    <3> QED BY <2>0, <3>1
  <2>2. unsent' \in [Path -> Nat] /\ \A q \in Path : unsent'[q] > 0 => q \in DOMAIN rows
    BY <1>3, <2>1 DEF Send, Typed
  <2>3. channel' \in Seq(DOMAIN rows) /\ Len(channel') <= Capacity
    <3>1. channel' = Append(channel, p) /\ Len(channel) < Capacity
      BY <1>3 DEF Send
    <3>2. Capacity \in Nat /\ channel \in Seq(DOMAIN rows)
      BY LibraryAssumption DEF Typed
    <3> QED BY <2>1, <3>1, <3>2
  <2> QED BY <1>3, <2>2, <2>3 DEF Send, Typed, Worker, catalog
<1>4. ASSUME Receive PROVE Typed'
  <2>1. channel # <<>> /\ held' = Head(channel) /\ channel' = Tail(channel)
    BY <1>4 DEF Receive
  <2>2. Capacity \in Nat /\ channel \in Seq(DOMAIN rows) /\ Len(channel) <= Capacity
    BY LibraryAssumption DEF Typed
  <2>3. held' \in DOMAIN rows /\ channel' \in Seq(DOMAIN rows) /\ Len(channel') <= Capacity
    BY <2>1, <2>2
  <2> QED BY <1>4, <2>3 DEF Receive, Typed, Worker, catalog
<1> QED BY <1>1, <1>2, <1>3, <1>4

\* What a worker that listens hears.
LEMMA ListenFacts ==
    ASSUME Typed, NEW w \in Permit, NEW run \in Recognitions, Listen(w, run)
    PROVE  \E result \in Result :
             /\ workers[w].path \in DOMAIN rows
             /\ result.about \in {None, files[workers[w].path].version}
             /\ workers' = [workers EXCEPT ![w] =
                  [path |-> workers[w].path, step |-> "heard", result |-> result]]
<1> DEFINE p == workers[w].path
           result == [status |-> Attempt(run),
                      about |-> IF Attempt(run) \in {"recognized", "no_match"} /\ run.bounded
                                THEN files[p].version ELSE None,
                      bounded |-> Attempt(run) # "recognized" \/ run.bounded]
<1>1. workers \in [Permit -> Worker] /\ workers[w].step = "listening"
  BY DEF Listen, Typed
<1>2. workers[w] \in [path : DOMAIN rows, step : {"listening", "heard", "stored"},
                       result : Result \cup {None}]
  BY <1>1 DEF Worker, Idle
<1>3. p \in DOMAIN rows /\ p \in Path
  BY <1>2 DEF Typed
<1>4. files[p].version \in Version
  BY <1>3 DEF Typed
<1>5. run.bounded \in BOOLEAN /\ Attempt(run) \in Status
  BY AttemptFacts DEF RunOfHelper
<1>6. result \in Result
  BY <1>4, <1>5 DEF Result
<1>7. workers' = [workers EXCEPT ![w] = [path |-> p, step |-> "heard", result |-> result]]
  BY DEF Listen
<1> HIDE DEF result
<1>8. result.about \in {None, files[p].version}
  BY DEF result
<1> QED BY <1>3, <1>6, <1>7, <1>8

\* What a worker stores, and where.
LEMMA StoreFacts ==
    ASSUME Typed, NEW w \in Permit, Store(w)
    PROVE  /\ workers[w].path \in DOMAIN rows
           /\ workers[w].step = "heard" /\ workers[w].result \in Result
           /\ workers' = [workers EXCEPT ![w] =
                [path |-> workers[w].path, step |-> "stored", result |-> None]]
           /\ \/ rows' = rows
              \/ rows' = [rows EXCEPT ![workers[w].path] =
                   [rows[workers[w].path] EXCEPT !.status = workers[w].result.status,
                                                 !.about = workers[w].result.about]]
<1>1. workers \in [Permit -> Worker] /\ workers[w].step = "heard" /\ workers[w].result \in Result
  BY DEF Store, Typed
<1>2. workers[w] \in [path : DOMAIN rows, step : {"listening", "heard", "stored"},
                       result : Result \cup {None}]
  BY <1>1 DEF Worker, Idle
<1>4. workers' = [workers EXCEPT ![w] =
                    [path |-> workers[w].path, step |-> "stored", result |-> None]]
  BY DEF Store
<1>5. \/ rows' = rows
      \/ rows' = [rows EXCEPT ![workers[w].path].status = workers[w].result.status,
                              ![workers[w].path].about = workers[w].result.about]
  BY DEF Store
<1>6. rows \in [DOMAIN rows -> Row] /\ workers[w].path \in DOMAIN rows
  BY <1>2 DEF Typed
<1>7. CASE rows' = [rows EXCEPT ![workers[w].path].status = workers[w].result.status,
                              ![workers[w].path].about = workers[w].result.about]
  <2> DEFINE p == workers[w].path
             r == workers[w].result
  <2>1. rows' = [[rows EXCEPT ![p].status = r.status] EXCEPT ![p].about = r.about]
    BY <1>7
  <2> HIDE DEF p, r
  <2>2. rows' = [rows EXCEPT ![p] = [rows[p] EXCEPT !.status = r.status, !.about = r.about]]
    BY <2>1, <1>6 DEF p
  <2> QED BY <1>1, <1>4, <1>6, <2>2 DEF p, r
<1> QED BY <1>1, <1>4, <1>5, <1>6, <1>7

\* The work on a job.
LEMMA TypedWork ==
    ASSUME Typed, NEW w \in Permit
    PROVE  /\ Start(w) => Typed'
           /\ \A run \in Recognitions : Listen(w, run) => Typed'
           /\ Store(w) => Typed'
           /\ Release(w) => Typed'
<1>1. ASSUME Start(w) PROVE Typed'
  <2> DEFINE job == [path |-> held, step |-> "listening", result |-> None]
  <2>1. held \in DOMAIN rows
    BY <1>1 DEF Start, Typed
  <2>2. job \in Worker /\ job.step # "heard"
    BY <2>1 DEF Worker
  <2>3. workers' = [workers EXCEPT ![w] = job]
    BY <1>1 DEF Start
  <2> HIDE DEF job
  <2>4. /\ workers' \in [Permit -> Worker]
        /\ \A u \in Permit : workers'[u].step = "heard" => workers'[u].result \in Result
    BY <2>2, <2>3 DEF Typed
  <2>5. UNCHANGED <<files, rows, edits, calls, up, pending, unsent, channel, excuse, stale>>
    BY <1>1 DEF Start, catalog
  <2>6. held' = None
    BY <1>1 DEF Start
  <2>7. Worker' = Worker
    BY <2>5 DEF Worker
  <2> QED BY <2>4, <2>5, <2>6, <2>7 DEF Typed
<1>2. ASSUME NEW run \in Recognitions, Listen(w, run) PROVE Typed'
  <2>1. PICK result \in Result :
          /\ workers[w].path \in DOMAIN rows
          /\ workers' = [workers EXCEPT ![w] =
               [path |-> workers[w].path, step |-> "heard", result |-> result]]
    BY <1>2, ListenFacts
  <2> DEFINE job == [path |-> workers[w].path, step |-> "heard", result |-> result]
  <2>2. job \in Worker /\ job.result \in Result
    BY <2>1 DEF Worker
  <2>3. workers' = [workers EXCEPT ![w] = job]
    BY <2>1
  <2> HIDE DEF job
  <2>4. /\ workers' \in [Permit -> Worker]
        /\ \A u \in Permit : workers'[u].step = "heard" => workers'[u].result \in Result
    BY <2>2, <2>3 DEF Typed
  <2>5. UNCHANGED <<files, rows, edits, calls, up, pending, unsent, channel, held, excuse, stale>>
    BY <1>2 DEF Listen, catalog
  <2> QED BY <2>4, <2>5 DEF Typed, Worker
<1>3. ASSUME Store(w) PROVE Typed'
  <2> DEFINE p == workers[w].path
             r == workers[w].result
             job == [path |-> p, step |-> "stored", result |-> None]
             row == [rows[p] EXCEPT !.status = r.status, !.about = r.about]
  <2>1. /\ p \in DOMAIN rows /\ r \in Result
        /\ workers' = [workers EXCEPT ![w] = job]
        /\ rows' = rows \/ rows' = [rows EXCEPT ![p] = row]
    BY <1>3, StoreFacts
  <2>2. job \in Worker /\ job.step # "heard"
    BY <2>1 DEF Worker
  <2>3. row \in Row
    <3>1. rows[p] \in Row
      BY <2>1 DEF Typed
    <3> QED BY <2>1, <3>1 DEF Row, Result
  <2>4. UNCHANGED <<files, edits, calls, up, pending, unsent, channel, held, stale>>
    BY <1>3 DEF Store
  <2>5. excuse' \in [Path -> {None, "given up", "seen", "overtaken"}]
    BY <1>3 DEF Store, Typed
  <2> HIDE DEF job, row, p, r
  <2>6. /\ workers' \in [Permit -> Worker]
        /\ \A u \in Permit : workers'[u].step = "heard" => workers'[u].result \in Result
    BY <2>1, <2>2 DEF Typed
  <2>7. DOMAIN rows' = DOMAIN rows /\ rows' \in [DOMAIN rows -> Row]
    BY <2>1, <2>3 DEF Typed
  <2> QED BY <2>4, <2>5, <2>6, <2>7 DEF Typed, Worker
<1>4. ASSUME Release(w) PROVE Typed'
  <2>1. workers' = [workers EXCEPT ![w] = Idle] /\ pending' \subseteq pending
    BY <1>4 DEF Release
  <2>2. Idle \in Worker /\ Idle.step # "heard"
    BY DEF Worker, Idle
  <2>3. /\ workers' \in [Permit -> Worker]
        /\ \A u \in Permit : workers'[u].step = "heard" => workers'[u].result \in Result
    BY <2>1, <2>2 DEF Typed
  <2>4. UNCHANGED <<files, rows, edits, calls, up, unsent, channel, held, excuse, stale>>
    BY <1>4 DEF Release, catalog
  <2> QED BY <2>1, <2>3, <2>4 DEF Typed, Worker
<1> QED BY <1>1, <1>2, <1>3, <1>4

\* The end of the daemon and its next start.
LEMMA TypedRestart ==
    ASSUME Typed
    PROVE  /\ Crash => Typed'
           /\ Restart => Typed'
<1>1. ASSUME Crash PROVE Typed'
  <2>1. workers' = [w \in Permit |-> Idle] /\ Idle \in Worker /\ Idle.step # "heard"
    BY <1>1 DEF Crash, Worker, Idle
  <2>2. /\ workers' \in [Permit -> Worker]
        /\ \A u \in Permit : workers'[u].step = "heard" => workers'[u].result \in Result
    BY <2>1
  <2>3. channel' \in Seq(DOMAIN rows) /\ Len(channel') <= Capacity
    BY <1>1, LibraryAssumption DEF Crash
  <2>4. /\ UNCHANGED <<files, rows, edits, stale>>
        /\ up' = FALSE /\ calls' = {} /\ pending' = {} /\ held' = None
        /\ unsent' = [p \in Path |-> 0] /\ excuse' = [p \in Path |-> None]
    BY <1>1 DEF Crash, catalog
  <2>5. unsent' \in [Path -> Nat] /\ \A p \in Path : ~(unsent'[p] > 0)
    BY <2>4
  <2>6. Worker' = Worker
    BY <2>4 DEF Worker
  <2> QED BY <2>2, <2>3, <2>4, <2>5, <2>6 DEF Typed
<1>2. ASSUME Restart PROVE Typed'
  <2> DEFINE paths == Candidates({"pending"})
  <2>1. paths \subseteq DOMAIN rows /\ Enqueue(paths)
    BY <1>2 DEF Restart, Candidates
  <2>2. UNCHANGED <<files, rows, edits, calls, channel, held, workers, stale>> /\ up'
    BY <1>2 DEF Restart
  <2> HIDE DEF paths
  <2>3. pending' \subseteq DOMAIN rows
    BY <2>1 DEF Enqueue, Typed
  <2>4. unsent \in [Path -> Nat] /\ \A p \in Path : unsent[p] \in Nat /\ unsent[p] + 1 \in Nat
    <3>1. unsent \in [Path -> Nat]
      BY DEF Typed
    <3> QED BY <3>1
  <2>5. unsent' = [p \in Path |-> IF p \in paths \ pending THEN unsent[p] + 1 ELSE unsent[p]]
    BY <2>1 DEF Enqueue
  <2>6. unsent' \in [Path -> Nat] /\ \A p \in Path : unsent'[p] > 0 => p \in DOMAIN rows
    BY <2>1, <2>4, <2>5 DEF Typed
  <2>7. excuse' \in [Path -> {None, "given up", "seen", "overtaken"}]
    BY <2>1 DEF Enqueue, Typed
  <2>8. up' \in BOOLEAN
    BY <1>2 DEF Restart
  <2> QED BY <2>2, <2>3, <2>6, <2>7, <2>8 DEF Typed, Worker
<1> QED BY <1>1, <1>2

LEMMA TypedInit == Init => Typed
<1> SUFFICES ASSUME Init PROVE Typed
  OBVIOUS
<1>1. rows = <<>> /\ channel = <<>> /\ workers = [w \in Permit |-> Idle]
  BY DEF Init
<1>2. DOMAIN rows = {} /\ rows \in [DOMAIN rows -> Row]
  BY <1>1
<1>3. /\ workers \in [Permit -> Worker]
      /\ \A u \in Permit : workers[u].step = "heard" => workers[u].result \in Result
  BY <1>1 DEF Worker, Idle
<1>4. channel \in Seq(DOMAIN rows) /\ Len(channel) <= Capacity
  BY <1>1, LibraryAssumption
<1>5. 1 \in Version
  BY LibraryAssumption DEF Version
<1> QED BY <1>2, <1>3, <1>4, <1>5 DEF Init, Typed

LEMMA TypedStep == Typed /\ [Next]_vars => Typed'
<1> SUFFICES ASSUME Typed, [Next]_vars PROVE Typed'
  OBVIOUS
<1>1. CASE UNCHANGED vars
  BY <1>1 DEF vars, catalog, queue, Typed, Worker
<1>2. CASE Next
  <2>1. ASSUME NEW p \in Path,
               \/ Change(p) \/ ComeOrGo(p)
               \/ \E title \in Correction : Edit(p, title)
        PROVE  Typed'
    BY <2>1, TypedOutside
  <2>2. ASSUME Scan \/ \E p \in Path : CatalogFile(p) PROVE Typed'
    BY <2>2, TypedTable
  <2>3. ASSUME \/ \E paths \in calls : Queue(paths) \/ DropRequest(paths)
               \/ \E p \in Path : Send(p)
               \/ Receive
        PROVE  Typed'
    BY <2>3, TypedQueue
  <2>4. ASSUME NEW w \in Permit,
               \/ Start(w) \/ Store(w) \/ Release(w)
               \/ \E run \in Recognitions : Listen(w, run)
        PROVE  Typed'
    BY <2>4, TypedWork
  <2>5. ASSUME Crash \/ Restart PROVE Typed'
    BY <2>5, TypedRestart
  <2> QED BY <1>2, <2>1, <2>2, <2>3, <2>4, <2>5 DEF Next
<1> QED BY <1>1, <1>2

\* The types are an invariant, with what they rest on.
THEOREM TypedInvariant == Spec => []Typed
<1> QED BY TypedInit, TypedStep, PTL DEF Spec

\* Every reachable state of the library and its recognition queue is well typed: the
\* channel within its capacity, and no job or pending id for a track without a row.
THEOREM TypeCorrect == Spec => []TypeOK
<1> QED BY TypedInvariant, TypedImpliesTypeOK, PTL
-----------------------------------------------------------------------------
\* The override column is the user's last correction.
OverridesAreEdits ==
    /\ \A p \in DOMAIN rows : rows[p].override = edits[p]
    /\ \A p \in Path : edits[p] # None => p \in DOMAIN rows

LEMMA OverridesStep == Typed /\ OverridesAreEdits /\ [Next]_vars => OverridesAreEdits'
<1> SUFFICES ASSUME Typed, OverridesAreEdits, [Next]_vars PROVE OverridesAreEdits'
  OBVIOUS
<1> USE DEF OverridesAreEdits
<1>1. ASSUME UNCHANGED <<rows, edits>> PROVE OverridesAreEdits'
  BY <1>1
<1>2. ASSUME Scan PROVE OverridesAreEdits'
  <2>1. DOMAIN rows' = DOMAIN rows \cup {p \in Path : files[p].present} /\ edits' = edits
    BY <1>2 DEF Scan
  <2> SUFFICES ASSUME NEW p \in DOMAIN rows' PROVE rows'[p].override = edits[p]
    BY <2>1
  <2>2. p \in Path
    BY <2>1 DEF Typed
  <2>3. CASE files[p].present
    BY <1>2, <2>1, <2>2, <2>3, RefreshedFacts DEF Scan
  <2>4. CASE ~files[p].present
    <3>1. p \in DOMAIN rows /\ rows'[p] = [rows[p] EXCEPT !.available = FALSE]
      BY <1>2, <2>1, <2>4 DEF Scan
    <3>2. rows[p] \in Row
      BY <3>1 DEF Typed
    <3> QED BY <3>1, <3>2 DEF Row
  <2> QED BY <2>3, <2>4
<1>3. ASSUME NEW q \in Path, CatalogFile(q) PROVE OverridesAreEdits'
  <2>1. DOMAIN rows' = DOMAIN rows \cup {q} /\ edits' = edits
    BY <1>3 DEF CatalogFile
  <2>2. \A p \in DOMAIN rows' : rows'[p] = IF p = q THEN Refreshed(q) ELSE rows[p]
    BY <1>3 DEF CatalogFile
  <2>3. Refreshed(q).override = IF q \in DOMAIN rows THEN rows[q].override ELSE None
    BY RefreshedFacts
  <2>4. DOMAIN rows \subseteq Path /\ (q \notin DOMAIN rows => edits[q] = None)
    BY DEF Typed
  <2> QED BY <2>1, <2>2, <2>3, <2>4
<1>4. ASSUME NEW q \in Path, NEW title \in Correction, Edit(q, title) PROVE OverridesAreEdits'
  <2>1. q \in DOMAIN rows /\ rows[q] \in Row
    BY <1>4 DEF Edit, Typed
  <2>2. rows' = [rows EXCEPT ![q] = [rows[q] EXCEPT !.override = title]]
    BY <1>4 DEF Edit
  <2>3. [rows[q] EXCEPT !.override = title].override = title
    BY <2>1 DEF Row
  <2>4. edits' = [edits EXCEPT ![q] = title] /\ edits \in [Path -> Correction \cup {None}]
    BY <1>4 DEF Edit, Typed
  <2>5. DOMAIN rows' = DOMAIN rows /\ DOMAIN rows \subseteq Path
    BY <2>2 DEF Typed
  <2>6. \A p \in DOMAIN rows : rows'[p] = IF p = q THEN [rows[q] EXCEPT !.override = title]
                                          ELSE rows[p]
    BY <2>2
  <2> QED BY <2>1, <2>3, <2>4, <2>5, <2>6
<1>5. ASSUME NEW w \in Permit, Store(w) PROVE OverridesAreEdits'
  <2> DEFINE q == workers[w].path
             row == [rows[q] EXCEPT !.status = workers[w].result.status,
                                    !.about = workers[w].result.about]
  <2>1. q \in DOMAIN rows /\ (rows' = rows \/ rows' = [rows EXCEPT ![q] = row])
    BY <1>5, StoreFacts
  <2>2. row.override = rows[q].override
    <3>1. rows[q] \in Row
      BY <2>1 DEF Typed
    <3> QED BY <3>1 DEF Row
  <2>3. edits' = edits
    BY <1>5 DEF Store
  <2> HIDE DEF row, q
  <2>4. DOMAIN rows' = DOMAIN rows
        /\ \A p \in DOMAIN rows : rows'[p] = rows[p] \/ (p = q /\ rows'[p] = row)
    BY <2>1
  <2> QED BY <2>2, <2>3, <2>4
<1>6. QED
  <2>1. CASE UNCHANGED vars
    BY <1>1, <2>1 DEF vars, catalog
  <2>2. ASSUME NEW p \in Path, Change(p) \/ ComeOrGo(p) \/ Send(p)
        PROVE  UNCHANGED <<rows, edits>>
    BY <2>2 DEF Change, ComeOrGo, Send, catalog
  <2>3. ASSUME NEW paths \in calls, Queue(paths) \/ DropRequest(paths)
        PROVE  UNCHANGED <<rows, edits>>
    BY <2>3 DEF Queue, DropRequest, catalog
  <2>4. ASSUME NEW w \in Permit, NEW run \in Recognitions, Listen(w, run)
        PROVE  UNCHANGED <<rows, edits>>
    BY <2>4 DEF Listen, catalog
  <2>5. ASSUME NEW w \in Permit, Start(w) \/ Release(w)
        PROVE  UNCHANGED <<rows, edits>>
    BY <2>5 DEF Start, Release, catalog
  <2>6. ASSUME Receive \/ Crash \/ Restart PROVE UNCHANGED <<rows, edits>>
    BY <2>6 DEF Receive, Crash, Restart, catalog
  <2>7. CASE Next
    BY <1>1, <1>2, <1>3, <1>4, <1>5, <2>2, <2>3, <2>4, <2>5, <2>6, <2>7 DEF Next
  <2> QED BY <2>1, <2>7

\* What a user corrected is what a snapshot shows, whatever scans, changed files, vanished
\* drives, recognition results and restarts do to the row.
THEOREM CorrectionsAreKept == Spec => []CorrectionsAreShown
<1>1. Init => OverridesAreEdits
  BY DEF Init, OverridesAreEdits
<1>2. Typed /\ OverridesAreEdits => CorrectionsAreShown
  BY DEF Typed, OverridesAreEdits, CorrectionsAreShown, Title
<1> QED BY <1>1, <1>2, TypedInvariant, OverridesStep, PTL DEF Spec
-----------------------------------------------------------------------------
\* What is about the bytes of a row, is about the bytes before a change that no scan has
\* seen, or is excused.
AboutTheRow(p, about) ==
    \/ about \in {None, rows[p].version}
    \/ files[p].version # rows[p].version
    \/ p \in stale

\* The labels of the rows, and the answers that workers hold for them; a row is never
\* ahead of its file.
LabelsAreOfFiles ==
    /\ \A p \in DOMAIN rows :
        rows[p].version <= files[p].version /\ AboutTheRow(p, rows[p].about)
    /\ \A w \in Permit :
        workers[w].step = "heard" => AboutTheRow(workers[w].path, workers[w].result.about)

\* A worker that has heard something has a track with a row.
LEMMA HeardHasRow ==
    ASSUME Typed, NEW w \in Permit, workers[w].step = "heard"
    PROVE  workers[w].path \in DOMAIN rows
<1>1. workers[w] \in Worker
  BY DEF Typed
<1>2. workers[w] # Idle
  BY DEF Idle
<1> QED BY <1>1, <1>2 DEF Worker

\* Bringing the rows of some files up to date.
LEMMA LabelsRefreshed ==
    ASSUME Typed, LabelsAreOfFiles, NEW paths \in SUBSET Path, GoStale(paths),
           UNCHANGED <<files, workers>>,
           DOMAIN rows' = DOMAIN rows \cup paths,
           \A p \in paths : rows'[p] = Refreshed(p),
           \A p \in DOMAIN rows \ paths :
               rows'[p].version = rows[p].version /\ rows'[p].about = rows[p].about
    PROVE  LabelsAreOfFiles'
<1>1. \A p \in paths :
        /\ rows'[p].version = files[p].version /\ files[p].version \in Nat
        /\ rows'[p].about = IF p \in DOMAIN rows /\ rows[p].version = files[p].version
                            THEN rows[p].about ELSE None
  <2>1. \A p \in Path : files[p].version \in Nat
    <3>1. MaxVersion \in Nat /\ \A p \in Path : files[p].version \in 1..MaxVersion
      BY LibraryAssumption DEF Typed, Version
    <3> QED BY <3>1
  <2> QED BY <2>1, RefreshedFacts
<1>2. \A p \in Path : ~(p \in paths /\ NewVersion(p)) => (p \in stale' <=> p \in stale)
  BY DEF GoStale
<1>3. ASSUME NEW p \in DOMAIN rows'
      PROVE  rows'[p].version <= files'[p].version /\ AboutTheRow(p, rows[p].about)'
  <2>0. p \in Path
    BY DEF Typed
  <2>1. CASE p \notin paths
    BY <1>2, <2>0, <2>1 DEF LabelsAreOfFiles, AboutTheRow
  <2>2. CASE p \in paths /\ p \in DOMAIN rows /\ rows[p].version = files[p].version
    <3>1. p \in stale' <=> p \in stale
      BY <1>2, <2>0, <2>2 DEF NewVersion
    <3> QED BY <1>1, <2>2, <3>1 DEF LabelsAreOfFiles, AboutTheRow
  <2>3. CASE p \in paths /\ ~(p \in DOMAIN rows /\ rows[p].version = files[p].version)
    BY <1>1, <2>3 DEF AboutTheRow
  <2> QED BY <2>1, <2>2, <2>3
<1>4. ASSUME NEW w \in Permit, workers[w].step = "heard"
      PROVE  AboutTheRow(workers[w].path, workers[w].result.about)'
  <2> DEFINE p == workers[w].path
             about == workers[w].result.about
  <2>1. p \in DOMAIN rows /\ p \in Path /\ AboutTheRow(p, about)
    BY <1>4, HeardHasRow DEF Typed, LabelsAreOfFiles
  <2>2. workers' = workers /\ files' = files
    OBVIOUS
  <2>3. CASE p \notin paths
    BY <1>2, <2>1, <2>2, <2>3 DEF AboutTheRow
  <2>4. CASE p \in paths /\ ~NewVersion(p)
    <3>1. (p \in stale' <=> p \in stale) /\ rows'[p].version = rows[p].version
      BY <1>1, <1>2, <2>1, <2>4 DEF NewVersion
    <3> QED BY <2>1, <2>2, <3>1 DEF AboutTheRow
  <2>5. CASE p \in paths /\ NewVersion(p)
    <3>1. CASE about \in {None, files[p].version}
      BY <1>1, <2>2, <2>5, <3>1 DEF AboutTheRow
    <3>2. CASE about \notin {None, files[p].version}
      <4>1. p \in stale'
        BY <1>4, <2>5, <3>2 DEF GoStale, Work
      <4> QED BY <2>2, <4>1 DEF AboutTheRow
    <3> QED BY <3>1, <3>2
  <2> QED BY <2>3, <2>4, <2>5
<1> QED BY <1>3, <1>4 DEF LabelsAreOfFiles

LEMMA LabelsStep == Typed /\ LabelsAreOfFiles /\ [Next]_vars => LabelsAreOfFiles'
<1> SUFFICES ASSUME Typed, LabelsAreOfFiles, [Next]_vars PROVE LabelsAreOfFiles'
  OBVIOUS
<1>a. \A w \in Permit : workers[w].step = "heard" => workers[w].path \in DOMAIN rows
  BY HeardHasRow
<1>b. /\ DOMAIN rows \subseteq Path
      /\ \A p \in Path : files[p].version \in Nat
      /\ \A p \in DOMAIN rows : rows[p] \in Row /\ rows[p].version \in Nat
  <2>1. MaxVersion \in Nat /\ Version = 1..MaxVersion
    BY LibraryAssumption DEF Version
  <2>2. /\ \A p \in Path : files[p].version \in Version
        /\ \A p \in DOMAIN rows : rows[p] \in Row
    BY DEF Typed
  <2>3. \A p \in DOMAIN rows : rows[p].version \in Version
    BY <2>2 DEF Row
  <2>4. DOMAIN rows \subseteq Path
    BY DEF Typed
  <2> QED BY <2>1, <2>2, <2>3, <2>4
\* Steps that leave files, rows and old answers alone, and add no new answer.
<1>1. ASSUME UNCHANGED <<files, rows, stale>>,
             \A w \in Permit : workers'[w].step = "heard" => workers'[w] = workers[w]
      PROVE  LabelsAreOfFiles'
  BY <1>1 DEF LabelsAreOfFiles, AboutTheRow
<1>2. ASSUME NEW q \in Path, Change(q) PROVE LabelsAreOfFiles'
  <2>1. UNCHANGED <<rows, stale, workers>>
    BY <1>2 DEF Change, catalog, queue
  <2>2. files' = [files EXCEPT ![q] = [version |-> files[q].version + 1, present |-> TRUE]]
    BY <1>2 DEF Change
  <2>3. files \in [Path -> [version : Version, present : BOOLEAN]]
    BY DEF Typed
  <2>4. \A p \in Path : files'[p].version = IF p = q THEN files[q].version + 1 ELSE files[p].version
    BY <2>2, <2>3
  <2>5. \A p \in DOMAIN rows : /\ rows[p].version <= files'[p].version
                               /\ p = q => files'[p].version # rows[p].version
                               /\ p # q => files'[p].version = files[p].version
    BY <1>b, <2>4 DEF LabelsAreOfFiles
  <2>6. \A p \in DOMAIN rows : \A about : AboutTheRow(p, about) => AboutTheRow(p, about)'
    BY <2>1, <2>5 DEF AboutTheRow
  <2>7. \A p \in DOMAIN rows : AboutTheRow(p, rows[p].about)'
    BY <2>1, <2>6 DEF LabelsAreOfFiles
  <2>8. \A w \in Permit :
          workers[w].step = "heard" => AboutTheRow(workers[w].path, workers[w].result.about)'
    BY <1>a, <2>1, <2>6 DEF LabelsAreOfFiles
  <2> QED BY <2>1, <2>5, <2>7, <2>8 DEF LabelsAreOfFiles
<1>3. ASSUME NEW q \in Path, ComeOrGo(q) PROVE LabelsAreOfFiles'
  <2>1. UNCHANGED <<rows, stale, workers>>
    BY <1>3 DEF ComeOrGo, catalog, queue
  <2>2. \A p \in Path : files'[p].version = files[p].version
    <3>1. files \in [Path -> [version : Version, present : BOOLEAN]]
      BY DEF Typed
    <3> QED BY <1>3, <3>1 DEF ComeOrGo
  <2> QED BY <1>a, <1>b, <2>1, <2>2 DEF LabelsAreOfFiles, AboutTheRow
<1>4. ASSUME Scan PROVE LabelsAreOfFiles'
  <2> DEFINE found == {p \in Path : files[p].present}
  <2>1. /\ GoStale(found) /\ UNCHANGED <<files, workers>>
        /\ DOMAIN rows' = DOMAIN rows \cup found
        /\ \A p \in found : rows'[p] = Refreshed(p)
    BY <1>4 DEF Scan, queue
  <2>2. ASSUME NEW p \in DOMAIN rows \ found
        PROVE  rows'[p].version = rows[p].version /\ rows'[p].about = rows[p].about
    <3>1. rows'[p] = [rows[p] EXCEPT !.available = FALSE]
      BY <1>4 DEF Scan
    <3>2. rows[p] \in Row
      BY <1>b
    <3> QED BY <3>1, <3>2 DEF Row
  <2> QED BY <2>1, <2>2, LabelsRefreshed
<1>5. ASSUME NEW q \in Path, CatalogFile(q) PROVE LabelsAreOfFiles'
  <2>1. /\ GoStale({q}) /\ UNCHANGED <<files, workers>>
        /\ DOMAIN rows' = DOMAIN rows \cup {q}
        /\ \A p \in {q} : rows'[p] = Refreshed(p)
        /\ \A p \in DOMAIN rows \ {q} : rows'[p] = rows[p]
    BY <1>5 DEF CatalogFile, queue
  <2> QED BY <2>1, LabelsRefreshed
<1>6. ASSUME NEW q \in Path, NEW title \in Correction, Edit(q, title) PROVE LabelsAreOfFiles'
  <2>1. q \in DOMAIN rows /\ rows' = [rows EXCEPT ![q] = [rows[q] EXCEPT !.override = title]]
    BY <1>6 DEF Edit
  <2>2. /\ [rows[q] EXCEPT !.override = title].version = rows[q].version
        /\ [rows[q] EXCEPT !.override = title].about = rows[q].about
    BY <1>b, <2>1 DEF Row
  <2>3. DOMAIN rows' = DOMAIN rows /\ \A p \in DOMAIN rows :
          rows'[p].version = rows[p].version /\ rows'[p].about = rows[p].about
    BY <2>1, <2>2
  <2>4. UNCHANGED <<files, stale, workers>>
    BY <1>6 DEF Edit, queue
  <2> QED BY <1>a, <2>3, <2>4 DEF LabelsAreOfFiles, AboutTheRow
<1>7. ASSUME NEW w \in Permit, NEW run \in Recognitions, Listen(w, run) PROVE LabelsAreOfFiles'
  <2> DEFINE p == workers[w].path
  <2>1. PICK result \in Result :
          /\ p \in DOMAIN rows
          /\ result.about \in {None, files[p].version}
          /\ workers' = [workers EXCEPT ![w] = [path |-> p, step |-> "heard", result |-> result]]
    BY <1>7, ListenFacts
  <2>2. UNCHANGED <<files, rows, stale>>
    BY <1>7 DEF Listen, catalog
  <2>3. AboutTheRow(p, result.about)
    BY <2>1 DEF AboutTheRow
  <2>4. workers \in [Permit -> Worker]
    BY DEF Typed
  <2>5. \A u \in Permit : IF u = w THEN workers'[u].path = p /\ workers'[u].result = result
                                   ELSE workers'[u] = workers[u]
    BY <2>1, <2>4
  <2> HIDE DEF p
  <2> QED BY <2>2, <2>3, <2>5 DEF LabelsAreOfFiles, AboutTheRow
<1>8. ASSUME NEW w \in Permit, Store(w) PROVE LabelsAreOfFiles'
  <2> DEFINE p == workers[w].path
             about == workers[w].result.about
             row == [rows[p] EXCEPT !.status = workers[w].result.status, !.about = about]
  <2>1. /\ p \in DOMAIN rows /\ workers[w].step = "heard"
        /\ workers' = [workers EXCEPT ![w] = [path |-> p, step |-> "stored", result |-> None]]
        /\ rows' = rows \/ rows' = [rows EXCEPT ![p] = row]
    BY <1>8, StoreFacts
  <2>2. row.version = rows[p].version /\ row.about = about
    BY <1>b, <2>1 DEF Row
  <2>3. UNCHANGED <<files, stale>>
    BY <1>8 DEF Store
  <2>4. AboutTheRow(p, about)
    BY <2>1 DEF LabelsAreOfFiles
  <2>5. workers \in [Permit -> Worker]
    BY DEF Typed
  <2>6. \A u \in Permit : workers'[u].step = "heard" => workers'[u] = workers[u]
    BY <2>1, <2>5
  <2> HIDE DEF p, about, row
  <2>7. DOMAIN rows' = DOMAIN rows /\ \A q \in DOMAIN rows :
          /\ rows'[q].version = rows[q].version
          /\ rows'[q].about = rows[q].about \/ (q = p /\ rows'[q].about = about)
    BY <2>1, <2>2
  <2> QED BY <1>a, <2>3, <2>4, <2>6, <2>7 DEF LabelsAreOfFiles, AboutTheRow
<1>9. QED
  <2>1. CASE UNCHANGED vars
    BY <1>1, <2>1 DEF vars, catalog, queue
  <2>2. ASSUME NEW p \in Path, Send(p) PROVE LabelsAreOfFiles'
    BY <1>1, <2>2 DEF Send, catalog
  <2>3. ASSUME NEW paths \in calls, Queue(paths) \/ DropRequest(paths) PROVE LabelsAreOfFiles'
    BY <1>1, <2>3 DEF Queue, DropRequest, catalog, queue
  <2>4. ASSUME NEW w \in Permit, Start(w) \/ Release(w) PROVE LabelsAreOfFiles'
    <3>1. workers \in [Permit -> Worker] /\ UNCHANGED <<files, rows, stale>>
      BY <2>4 DEF Start, Release, Typed, catalog
    <3>2. \A u \in Permit : workers'[u].step = "heard" => workers'[u] = workers[u]
      BY <2>4, <3>1 DEF Start, Release, Idle
    <3> QED BY <1>1, <3>1, <3>2
  <2>5. ASSUME Receive \/ Restart PROVE LabelsAreOfFiles'
    BY <1>1, <2>5 DEF Receive, Restart, catalog
  <2>6. ASSUME Crash PROVE LabelsAreOfFiles'
    BY <1>1, <2>6 DEF Crash, catalog, Idle
  <2>7. CASE Next
    BY <1>2, <1>3, <1>4, <1>5, <1>6, <1>7, <1>8, <2>2, <2>3, <2>4, <2>5, <2>6, <2>7 DEF Next
  <2> QED BY <2>1, <2>7

\* A label is about the bytes that the catalog describes, although the helper listens for up
\* to half a minute while files change and scans renew their rows: unless the file changed
\* after its last scan, or the job held its answer when that scan came.
THEOREM LabelsAreAboutFiles == Spec => []LabelIsOfTheFile
<1>1. Init => LabelsAreOfFiles
  BY DEF Init, LabelsAreOfFiles, Idle
<1>2. LabelsAreOfFiles => LabelIsOfTheFile
  BY DEF LabelsAreOfFiles, LabelIsOfTheFile, AboutTheRow
<1> QED BY <1>1, <1>2, TypedInvariant, LabelsStep, PTL DEF Spec
-----------------------------------------------------------------------------
(* The jobs of a track, counted where they are: with a sender task, in the *)
(* channel, with a worker, and before the semaphore.                       *)

Places(s, p) == {i \in DOMAIN s : s[i] = p}

InTask(p) == unsent[p]
InChannel(p) == Cardinality(Places(channel, p))
AtWork(p) == Cardinality(Work(p))
AtDoor(p) == IF held = p THEN 1 ELSE 0

LEMMA JobsAreCounted == \A p : JobsFor(p) = InTask(p) + InChannel(p) + AtWork(p) + AtDoor(p)
BY DEF JobsFor, InTask, InChannel, AtWork, AtDoor, Places

Counted(p) == InTask(p) \in Nat /\ InChannel(p) \in Nat /\ AtWork(p) \in Nat /\ AtDoor(p) \in Nat

LEMMA PlacesAreFinite ==
    ASSUME NEW S, NEW s \in Seq(S), NEW p
    PROVE  /\ IsFiniteSet(Places(s, p)) /\ Cardinality(Places(s, p)) \in Nat
           /\ Places(s, p) \subseteq 1..Len(s)
<1>1. IsFiniteSet(1..Len(s))
  BY FS_Interval
<1>2. Places(s, p) \in SUBSET (1..Len(s))
  BY DEF Places
<1> QED BY <1>1, <1>2, FS_Subset, FS_CardinalityType

LEMMA WorkIsFinite == \A p : IsFiniteSet(Work(p)) /\ Cardinality(Work(p)) \in Nat
<1> TAKE p
<1>1. Work(p) \in SUBSET Permit /\ IsFiniteSet(Permit)
  BY LibraryAssumption DEF Work
<1> QED BY <1>1, FS_Subset, FS_CardinalityType

LEMMA JobsAreCounts == Typed => \A p \in Path : Counted(p)
<1> SUFFICES ASSUME Typed, NEW p \in Path PROVE Counted(p)
  OBVIOUS
<1>1. InTask(p) \in Nat
  BY DEF Typed, InTask
<1>2. InChannel(p) \in Nat
  BY PlacesAreFinite DEF Typed, InChannel
<1> QED BY <1>1, <1>2, WorkIsFinite DEF Counted, AtWork, AtDoor

\* A job that is sent takes one more place in the channel ...
LEMMA PlacesAppend ==
    ASSUME NEW S, NEW s \in Seq(S), NEW e \in S, NEW p
    PROVE  Cardinality(Places(Append(s, e), p)) =
             IF e = p THEN Cardinality(Places(s, p)) + 1 ELSE Cardinality(Places(s, p))
<1> DEFINE n == Len(s) + 1
<1>1. /\ Len(s) \in Nat /\ DOMAIN Append(s, e) = 1..n /\ DOMAIN s = 1..Len(s)
      /\ Append(s, e)[n] = e /\ \A i \in 1..Len(s) : Append(s, e)[i] = s[i]
  OBVIOUS
<1>2. IsFiniteSet(Places(s, p)) /\ n \notin Places(s, p)
  BY <1>1, PlacesAreFinite
<1>3. CASE e = p
  <2>1. Places(Append(s, e), p) = Places(s, p) \cup {n}
    BY <1>1, <1>3 DEF Places
  <2> QED BY <1>2, <1>3, <2>1, FS_AddElement
<1>4. CASE e # p
  <2>1. Places(Append(s, e), p) = Places(s, p)
    BY <1>1, <1>4 DEF Places
  <2> QED BY <1>4, <2>1
<1> QED BY <1>3, <1>4

\* ... and the job that is received gives its place back.
LEMMA PlacesTail ==
    ASSUME NEW S, NEW s \in Seq(S), s # <<>>, NEW p
    PROVE  Cardinality(Places(s, p)) =
             IF Head(s) = p THEN Cardinality(Places(Tail(s), p)) + 1
             ELSE Cardinality(Places(Tail(s), p))
<1> DEFINE later == {i \in 2..Len(s) : s[i] = p}
           f == [i \in Places(Tail(s), p) |-> i + 1]
<1>1. /\ Len(s) \in Nat /\ Len(s) >= 1 /\ DOMAIN s = 1..Len(s) /\ Head(s) = s[1]
      /\ Tail(s) \in Seq(S) /\ DOMAIN Tail(s) = 1..(Len(s) - 1)
      /\ \A i \in 1..(Len(s) - 1) : Tail(s)[i] = s[i + 1]
  OBVIOUS
<1>2. Places(Tail(s), p) = {i \in 1..(Len(s) - 1) : s[i + 1] = p}
  BY <1>1 DEF Places
<1>3. f \in Bijection(Places(Tail(s), p), later)
  <2>1. \A i \in Places(Tail(s), p) : i + 1 \in later
    BY <1>1, <1>2
  <2>2. f \in [Places(Tail(s), p) -> later]
    BY <2>1
  <2>3. \A i, j \in Places(Tail(s), p) : f[i] = f[j] => i = j
    BY <1>2
  <2>4. ASSUME NEW j \in later PROVE \E i \in Places(Tail(s), p) : f[i] = j
    <3>1. j - 1 \in Places(Tail(s), p) /\ (j - 1) + 1 = j
      BY <1>1, <1>2
    <3> QED BY <3>1
  <2> QED BY <2>2, <2>3, <2>4 DEF Bijection, Injection, Surjection, IsInjective
<1>4. IsFiniteSet(Places(Tail(s), p))
  BY <1>1, PlacesAreFinite
<1>5. IsFiniteSet(later) /\ Cardinality(later) = Cardinality(Places(Tail(s), p))
  <2> HIDE DEF f, later
  <2>1. ExistsBijection(Places(Tail(s), p), later)
    BY <1>3 DEF ExistsBijection
  <2> QED BY <1>4, <2>1, FS_Bijection
<1>6. CASE Head(s) = p
  <2>1. Places(s, p) = later \cup {1} /\ 1 \notin later
    BY <1>1, <1>6 DEF Places
  <2> HIDE DEF later
  <2> QED BY <1>5, <1>6, <2>1, FS_AddElement
<1>7. CASE Head(s) # p
  <2>1. Places(s, p) = later
    BY <1>1, <1>7 DEF Places
  <2> QED BY <1>5, <1>7, <2>1
<1> QED BY <1>6, <1>7

\* A permit that changes its job works for the new one and no longer for the old.
LEMMA WorkMoves ==
    ASSUME workers \in [Permit -> Worker], NEW w \in Permit, NEW job,
           workers' = [workers EXCEPT ![w] = job], NEW p
    PROVE  /\ AtWork(p)' = AtWork(p) + (IF job.path = p /\ workers[w].path # p THEN 1 ELSE 0)
                            - (IF job.path # p /\ workers[w].path = p THEN 1 ELSE 0)
           /\ workers[w].path = p => AtWork(p) >= 1
<1>1. Work(p)' = IF job.path = p THEN Work(p) \cup {w} ELSE Work(p) \ {w}
  BY DEF Work
<1>2. w \in Work(p) <=> workers[w].path = p
  BY DEF Work
<1>3. IsFiniteSet(Work(p)) /\ Cardinality(Work(p)) \in Nat
  BY WorkIsFinite
<1>4. Cardinality(Work(p) \cup {w}) = IF w \in Work(p) THEN Cardinality(Work(p))
                                      ELSE Cardinality(Work(p)) + 1
  BY <1>3, FS_AddElement
<1>5. Cardinality(Work(p) \ {w}) = IF w \in Work(p) THEN Cardinality(Work(p)) - 1
                                   ELSE Cardinality(Work(p))
  BY <1>3, FS_RemoveElement
<1>6. w \in Work(p) => Cardinality(Work(p)) # 0
  BY <1>3, FS_EmptySet
<1>7. AtWork(p)' = Cardinality(Work(p)') /\ AtWork(p) = Cardinality(Work(p))
  BY DEF AtWork
<1>8. CASE job.path = p
  BY <1>1, <1>2, <1>3, <1>4, <1>6, <1>7, <1>8
<1>9. CASE job.path # p
  BY <1>1, <1>2, <1>3, <1>5, <1>6, <1>7, <1>9
<1> QED BY <1>8, <1>9

\* A step after which the counts of every track add up as its place in pending says.
LEMMA OneJobFromCounts ==
    ASSUME \A p \in Path :
             InTask(p)' + InChannel(p)' + AtWork(p)' + AtDoor(p)' =
               IF p \in pending' THEN 1 ELSE 0
    PROVE  PendingHasOneJob'
BY DEF PendingHasOneJob, JobsFor, InTask, InChannel, AtWork, AtDoor, Places

\* A job that moves on is counted in its new place and no longer in its old one.
LEMMA JobsMove ==
    ASSUME Typed, PendingHasOneJob
    PROVE  /\ \A p \in Path : Send(p) => PendingHasOneJob'
           /\ Receive => PendingHasOneJob'
           /\ \A w \in Permit : Start(w) => PendingHasOneJob'
<1>0. \A p \in Path : /\ Counted(p)
                      /\ InTask(p) + InChannel(p) + AtWork(p) + AtDoor(p) =
                           IF p \in pending THEN 1 ELSE 0
  BY JobsAreCounts, JobsAreCounted DEF PendingHasOneJob
<1>t. /\ unsent \in [Path -> Nat] /\ channel \in Seq(DOMAIN rows)
      /\ held \in DOMAIN rows \cup {None} /\ DOMAIN rows \subseteq Path /\ None \notin Path
      /\ workers \in [Permit -> Worker]
      /\ \A p \in Path : unsent[p] > 0 => p \in DOMAIN rows
  BY LibraryAssumption DEF Typed
<1>1. ASSUME NEW q \in Path, Send(q) PROVE PendingHasOneJob'
  <2>1. /\ unsent[q] > 0 /\ unsent' = [unsent EXCEPT ![q] = @ - 1]
        /\ channel' = Append(channel, q) /\ UNCHANGED <<held, workers, pending>>
    BY <1>1 DEF Send
  <2>2. q \in DOMAIN rows
    BY <1>t, <2>1
  <2> SUFFICES ASSUME NEW p \in Path
               PROVE  InTask(p)' + InChannel(p)' + AtWork(p)' + AtDoor(p)' =
                        IF p \in pending' THEN 1 ELSE 0
    BY OneJobFromCounts
  <2>3. InTask(p)' = IF q = p THEN InTask(p) - 1 ELSE InTask(p)
    BY <1>t, <2>1 DEF InTask
  <2>4. InChannel(p)' = IF q = p THEN InChannel(p) + 1 ELSE InChannel(p)
    BY <1>t, <2>1, <2>2, PlacesAppend DEF InChannel
  <2>5. AtWork(p)' = AtWork(p) /\ AtDoor(p)' = AtDoor(p)
    BY <2>1 DEF AtWork, AtDoor, Work
  <2> QED BY <1>0, <2>1, <2>3, <2>4, <2>5 DEF Counted
<1>2. ASSUME Receive PROVE PendingHasOneJob'
  <2>1. /\ channel # <<>> /\ held = None /\ held' = Head(channel)
        /\ channel' = Tail(channel) /\ UNCHANGED <<unsent, workers, pending>>
    BY <1>2 DEF Receive
  <2> SUFFICES ASSUME NEW p \in Path
               PROVE  InTask(p)' + InChannel(p)' + AtWork(p)' + AtDoor(p)' =
                        IF p \in pending' THEN 1 ELSE 0
    BY OneJobFromCounts
  <2>2. InChannel(p) = IF Head(channel) = p THEN InChannel(p)' + 1 ELSE InChannel(p)'
    BY <1>t, <2>1, PlacesTail DEF InChannel
  <2>3. InChannel(p)' \in Nat
    <3>1. Tail(channel) \in Seq(DOMAIN rows)
      BY <1>t, <2>1
    <3> QED BY <2>1, <3>1, PlacesAreFinite DEF InChannel
  <2>4. AtDoor(p) = 0 /\ AtDoor(p)' = IF Head(channel) = p THEN 1 ELSE 0
    BY <1>t, <2>1 DEF AtDoor
  <2>5. AtWork(p)' = AtWork(p) /\ InTask(p)' = InTask(p)
    BY <2>1 DEF AtWork, InTask, Work
  <2> QED BY <1>0, <2>1, <2>2, <2>3, <2>4, <2>5 DEF Counted
<1>3. ASSUME NEW w \in Permit, Start(w) PROVE PendingHasOneJob'
  <2> DEFINE job == [path |-> held, step |-> "listening", result |-> None]
  <2>1. /\ held # None /\ workers[w].path = None /\ held' = None
        /\ workers' = [workers EXCEPT ![w] = job]
        /\ UNCHANGED <<unsent, channel, pending>>
    BY <1>3 DEF Start, Idle
  <2> SUFFICES ASSUME NEW p \in Path
               PROVE  InTask(p)' + InChannel(p)' + AtWork(p)' + AtDoor(p)' =
                        IF p \in pending' THEN 1 ELSE 0
    BY OneJobFromCounts
  <2>2. job.path = held
    OBVIOUS
  <2> HIDE DEF job
  <2>3. AtWork(p)' = IF held = p THEN AtWork(p) + 1 ELSE AtWork(p)
    <3>1. AtWork(p)' = AtWork(p) + (IF job.path = p /\ workers[w].path # p THEN 1 ELSE 0)
                           - (IF job.path # p /\ workers[w].path = p THEN 1 ELSE 0)
      BY <1>t, <2>1, WorkMoves
    <3>2. workers[w].path # p /\ AtWork(p) \in Nat
      BY <1>0, <1>t, <2>1 DEF Counted
    <3> QED BY <2>2, <3>1, <3>2
  <2>4. AtDoor(p)' = 0 /\ AtDoor(p) = IF held = p THEN 1 ELSE 0
    BY <1>t, <2>1 DEF AtDoor
  <2>5. InChannel(p)' = InChannel(p) /\ InTask(p)' = InTask(p)
    BY <2>1 DEF InChannel, InTask
  <2> QED BY <1>0, <2>1, <2>3, <2>4, <2>5 DEF Counted
<1> QED BY <1>1, <1>2, <1>3

\* The work on a job, up to its release.
LEMMA JobsWork ==
    ASSUME Typed, PendingHasOneJob, NEW w \in Permit
    PROVE  /\ \A run \in Recognitions : Listen(w, run) => PendingHasOneJob'
           /\ Store(w) => PendingHasOneJob'
           /\ Release(w) => PendingHasOneJob'
<1>0. \A p \in Path : /\ Counted(p)
                      /\ InTask(p) + InChannel(p) + AtWork(p) + AtDoor(p) =
                           IF p \in pending THEN 1 ELSE 0
  BY JobsAreCounts, JobsAreCounted DEF PendingHasOneJob
<1>t. workers \in [Permit -> Worker] /\ None \notin Path
  BY LibraryAssumption DEF Typed
<1>1. ASSUME NEW job, job.path = workers[w].path, workers' = [workers EXCEPT ![w] = job],
             UNCHANGED <<unsent, channel, held, pending>>
      PROVE  PendingHasOneJob'
  <2> SUFFICES ASSUME NEW p \in Path
               PROVE  InTask(p)' + InChannel(p)' + AtWork(p)' + AtDoor(p)' =
                        IF p \in pending' THEN 1 ELSE 0
    BY OneJobFromCounts
  <2>1. AtWork(p)' = AtWork(p)
    <3>1. AtWork(p)' = AtWork(p) + (IF job.path = p /\ workers[w].path # p THEN 1 ELSE 0)
                           - (IF job.path # p /\ workers[w].path = p THEN 1 ELSE 0)
      BY <1>1, <1>t, WorkMoves, ZenonT(30)
    <3>2. AtWork(p) \in Nat
      BY <1>0 DEF Counted
    <3> QED BY <1>1, <3>1, <3>2
  <2>2. InTask(p)' = InTask(p) /\ InChannel(p)' = InChannel(p) /\ AtDoor(p)' = AtDoor(p)
    BY <1>1 DEF InTask, InChannel, AtDoor
  <2> QED BY <1>0, <1>1, <2>1, <2>2
<1>2. ASSUME NEW run \in Recognitions, Listen(w, run) PROVE PendingHasOneJob'
  <2>1. PICK result \in Result : workers' = [workers EXCEPT ![w] =
               [path |-> workers[w].path, step |-> "heard", result |-> result]]
    BY <1>2, ListenFacts
  <2> QED BY <1>1, <1>2, <2>1 DEF Listen
<1>3. ASSUME Store(w) PROVE PendingHasOneJob'
  BY <1>1, <1>3 DEF Store
<1>4. ASSUME Release(w) PROVE PendingHasOneJob'
  <2>1. /\ workers[w].step = "stored" /\ workers' = [workers EXCEPT ![w] = Idle]
        /\ pending' = pending \ {workers[w].path} /\ UNCHANGED <<unsent, channel, held>>
    BY <1>4 DEF Release
  <2> SUFFICES ASSUME NEW p \in Path
               PROVE  InTask(p)' + InChannel(p)' + AtWork(p)' + AtDoor(p)' =
                        IF p \in pending' THEN 1 ELSE 0
    BY OneJobFromCounts
  <2>2. /\ AtWork(p)' = IF workers[w].path = p THEN AtWork(p) - 1 ELSE AtWork(p)
        /\ workers[w].path = p => AtWork(p) >= 1
    <3>1. /\ AtWork(p)' = AtWork(p) + (IF Idle.path = p /\ workers[w].path # p THEN 1 ELSE 0)
                             - (IF Idle.path # p /\ workers[w].path = p THEN 1 ELSE 0)
          /\ workers[w].path = p => AtWork(p) >= 1
      BY <1>t, <2>1, WorkMoves
    <3>2. Idle.path # p /\ AtWork(p) \in Nat
      BY <1>0, <1>t DEF Counted, Idle
    <3> QED BY <3>1, <3>2
  <2>3. InTask(p)' = InTask(p) /\ InChannel(p)' = InChannel(p) /\ AtDoor(p)' = AtDoor(p)
    BY <2>1 DEF InTask, InChannel, AtDoor
  <2>4. CASE workers[w].path = p
    BY <1>0, <2>1, <2>2, <2>3, <2>4 DEF Counted
  <2>5. CASE workers[w].path # p
    BY <1>0, <2>1, <2>2, <2>3, <2>5 DEF Counted
  <2> QED BY <2>4, <2>5
<1> QED BY <1>2, <1>3, <1>4

\* Queueing gives a job to each track that had none.
LEMMA JobsEnqueued ==
    ASSUME Typed, PendingHasOneJob, NEW paths, paths \subseteq Path, Enqueue(paths),
           UNCHANGED <<channel, held, workers>>
    PROVE  PendingHasOneJob'
<1>1. ASSUME NEW p \in Path
      PROVE  InTask(p)' + InChannel(p)' + AtWork(p)' + AtDoor(p)' =
               IF p \in pending' THEN 1 ELSE 0
  <2>1. /\ Counted(p)
        /\ InTask(p) + InChannel(p) + AtWork(p) + AtDoor(p) = IF p \in pending THEN 1 ELSE 0
    BY JobsAreCounts, JobsAreCounted DEF PendingHasOneJob
  <2>2. InTask(p)' = IF p \in paths /\ p \notin pending THEN InTask(p) + 1 ELSE InTask(p)
    BY DEF Enqueue, InTask, Typed
  <2>3. p \in pending' <=> p \in pending \/ p \in paths
    BY DEF Enqueue
  <2>4. AtWork(p)' = AtWork(p) /\ InChannel(p)' = InChannel(p) /\ AtDoor(p)' = AtDoor(p)
    BY DEF InChannel, AtWork, AtDoor, Work
  <2> QED BY <2>1, <2>2, <2>3, <2>4 DEF Counted
<1> QED BY <1>1, OneJobFromCounts

\* Without a queue there are no jobs.
LEMMA NoJobs ==
    ASSUME pending = {}, unsent = [p \in Path |-> 0], channel = <<>>, held = None,
           workers = [w \in Permit |-> Idle]
    PROVE  PendingHasOneJob
<1> SUFFICES ASSUME NEW p \in Path PROVE JobsFor(p) = 0
  BY DEF PendingHasOneJob
<1>1. Work(p) = {} /\ Places(channel, p) = {} /\ unsent[p] = 0 /\ held # p
  BY LibraryAssumption DEF Work, Idle, Places
<1>2. Cardinality({}) = 0
  BY FS_EmptySet
<1>3. InTask(p) = 0 /\ InChannel(p) = 0 /\ AtWork(p) = 0 /\ AtDoor(p) = 0
  BY <1>1, <1>2 DEF InTask, InChannel, AtWork, AtDoor
<1>4. JobsFor(p) = InTask(p) + InChannel(p) + AtWork(p) + AtDoor(p)
  BY JobsAreCounted
<1> QED BY <1>3, <1>4

LEMMA NoJobsAfterCrash == Crash => PendingHasOneJob'
<1> SUFFICES ASSUME Crash PROVE PendingHasOneJob'
  OBVIOUS
<1> SUFFICES ASSUME NEW p \in Path
             PROVE  InTask(p)' + InChannel(p)' + AtWork(p)' + AtDoor(p)' =
                      IF p \in pending' THEN 1 ELSE 0
  BY OneJobFromCounts
<1>1. /\ pending' = {} /\ unsent' = [q \in Path |-> 0] /\ channel' = <<>> /\ held' = None
      /\ workers' = [w \in Permit |-> Idle]
  BY DEF Crash
<1>2. Work(p)' = {} /\ Places(channel, p)' = {} /\ unsent'[p] = 0 /\ held' # p
  BY <1>1, LibraryAssumption DEF Work, Idle, Places
<1>3. Cardinality({}) = 0
  BY FS_EmptySet
<1>4. InChannel(p)' = 0 /\ AtWork(p)' = 0 /\ InTask(p)' = 0 /\ AtDoor(p)' = 0
  BY <1>2, <1>3 DEF InTask, InChannel, AtWork, AtDoor
<1> QED BY <1>1, <1>4

LEMMA OneJobStep == Typed /\ PendingHasOneJob /\ [Next]_vars => PendingHasOneJob'
<1> SUFFICES ASSUME Typed, PendingHasOneJob, [Next]_vars PROVE PendingHasOneJob'
  OBVIOUS
<1>1. ASSUME UNCHANGED queue PROVE PendingHasOneJob'
  BY <1>1 DEF queue, PendingHasOneJob, JobsFor, Work
<1>2. CASE UNCHANGED vars
  BY <1>1, <1>2 DEF vars
<1>3. CASE Next
  <2>1. ASSUME \/ \E p \in Path : \/ Change(p) \/ ComeOrGo(p) \/ CatalogFile(p)
                                  \/ \E title \in Correction : Edit(p, title)
               \/ Scan
               \/ \E paths \in calls : DropRequest(paths)
        PROVE  PendingHasOneJob'
    <3>1. UNCHANGED queue
      BY <2>1 DEF Change, ComeOrGo, CatalogFile, Edit, Scan, DropRequest
    <3> QED BY <1>1, <3>1
  <2>2. ASSUME NEW paths \in calls, Queue(paths) PROVE PendingHasOneJob'
    <3>1. paths \subseteq Path
      BY DEF Typed
    <3> QED BY <2>2, <3>1, JobsEnqueued DEF Queue
  <2>3. ASSUME Receive \/ \E p \in Path : Send(p) PROVE PendingHasOneJob'
    BY <2>3, JobsMove
  <2>4. ASSUME NEW w \in Permit,
               \/ Start(w) \/ Store(w) \/ Release(w)
               \/ \E run \in Recognitions : Listen(w, run)
        PROVE  PendingHasOneJob'
    BY <2>4, JobsMove, JobsWork
  <2>5. ASSUME Restart PROVE PendingHasOneJob'
    <3>1. Candidates({"pending"}) \subseteq Path
      BY <2>5 DEF Restart, Candidates, Typed
    <3> QED BY <2>5, <3>1, JobsEnqueued DEF Restart
  <2> QED BY <1>3, <2>1, <2>2, <2>3, <2>4, <2>5, NoJobsAfterCrash DEF Next
<1> QED BY <1>2, <1>3

-----------------------------------------------------------------------------
(* Nobody is forgotten.  The delicate moment lies between the last two     *)
(* steps of a job: the answer is stored, and the id is pending until the   *)
(* worker releases it.  A scan may find the track changed and waiting      *)
(* again, and queueing it then does nothing.  The invariant says that      *)
(* whoever releases such a track has been seen or overtaken.               *)

Waits(p) == rows[p].available /\ rows[p].status = "pending"

Excused(p) == excuse[p] \in {"given up", "overtaken"}
Seen(p) == excuse[p] \in {"given up", "seen", "overtaken"}

\* A job that has stored its answer, and whose track waits again.
StoredIsSeen ==
    \A w \in Permit : workers[w].step = "stored" /\ Waits(workers[w].path) =>
        /\ Seen(workers[w].path)
        /\ workers[w].path \in UNION calls \/ Excused(workers[w].path)

AnswersAreFinal ==
    \A w \in Permit : workers[w].step = "heard" => workers[w].result.status # "pending"

DownIsEmpty == ~up => pending = {}

AttendedInv ==
    /\ PendingHasOneJob
    /\ WaitingIsAttended
    /\ StoredIsSeen
    /\ AnswersAreFinal
    /\ DownIsEmpty

\* A permit that is not idle works on a track that is pending, and no other does.
LEMMA WorkIsPending ==
    ASSUME Typed, PendingHasOneJob
    PROVE  \A w \in Permit : workers[w].step # "idle" =>
             /\ workers[w].path \in DOMAIN rows /\ workers[w].path \in Path
             /\ workers[w].path \in pending
<1> SUFFICES ASSUME NEW w \in Permit, workers[w].step # "idle"
             PROVE  /\ workers[w].path \in DOMAIN rows /\ workers[w].path \in Path
                    /\ workers[w].path \in pending
  OBVIOUS
<1> DEFINE p == workers[w].path
<1>1. p \in DOMAIN rows /\ p \in Path
  <2>1. workers[w] \in Worker /\ DOMAIN rows \subseteq Path
    BY DEF Typed
  <2>2. workers[w] # Idle
    BY DEF Idle
  <2> QED BY <2>1, <2>2 DEF Worker
<1>2. AtWork(p) >= 1
  <2>1. w \in Work(p) /\ IsFiniteSet(Work(p)) /\ Cardinality(Work(p)) \in Nat
    BY WorkIsFinite DEF Work
  <2> HIDE DEF p
  <2>2. Cardinality(Work(p)) # 0
    BY <2>1, FS_EmptySet
  <2> QED BY <2>1, <2>2 DEF AtWork
<1> HIDE DEF p
<1>3. Counted(p) /\ InTask(p) + InChannel(p) + AtWork(p) + AtDoor(p) =
                      IF p \in pending THEN 1 ELSE 0
  BY <1>1, JobsAreCounts, JobsAreCounted DEF PendingHasOneJob
<1>4. p \in pending
  BY <1>2, <1>3 DEF Counted
<1> QED BY <1>1, <1>4 DEF p

\* Every answer that a helper can give says something else than "pending".
LEMMA AttemptEnds == \A run \in Recognitions : Attempt(run) # "pending"
<1> TAKE run \in Recognitions
<1>1. run \in RunOfHelper
  BY AttemptFacts
<1> QED BY <1>1 DEF Attempt, RunOfHelper

\* A scan or an upload reads all that waits, and sees the jobs that are about to end.
LEMMA ReadAttends ==
    ASSUME Typed, StoredIsSeen, NEW statuses, "pending" \in statuses, Read(statuses),
           DOMAIN rows' \subseteq Path, UNCHANGED workers
    PROVE  /\ \A p \in DOMAIN rows' : rows'[p].available /\ rows'[p].status = "pending" =>
                p \in UNION calls'
           /\ \A w \in Permit :
                /\ workers[w].step = "stored" /\ workers[w].path \in DOMAIN rows'
                /\ rows'[workers[w].path].available
                /\ rows'[workers[w].path].status = "pending"
                => Seen(workers[w].path)'
<1>1. ASSUME NEW p \in DOMAIN rows', rows'[p].available, rows'[p].status = "pending"
      PROVE  p \in Candidates(statuses)
  BY <1>1 DEF Candidates
<1>2. ASSUME NEW p \in DOMAIN rows', rows'[p].available, rows'[p].status = "pending"
      PROVE  p \in UNION calls'
  <2>1. Candidates(statuses) \in calls'
    BY <1>1, <1>2 DEF Read
  <2> QED BY <1>1, <1>2, <2>1
<1>3. ASSUME NEW w \in Permit, workers[w].step = "stored", workers[w].path \in DOMAIN rows',
             rows'[workers[w].path].available, rows'[workers[w].path].status = "pending"
      PROVE  Seen(workers[w].path)'
  <2> DEFINE p == workers[w].path
  <2>1. p \in Candidates(statuses) /\ w \in Work(p) /\ p \in Path
    BY <1>1, <1>3 DEF Work
  <2>2. excuse'[p] = IF p \in Candidates(statuses) /\ excuse[p] = None
                        /\ \E u \in Work(p) : workers[u].step = "stored"
                     THEN "seen" ELSE excuse[p]
    BY <2>1 DEF Read
  <2>3. excuse[p] \in {None, "given up", "seen", "overtaken"}
    BY <2>1 DEF Typed
  <2>4. workers'[w].path = p
    OBVIOUS
  <2>5. excuse'[p] \in {"given up", "seen", "overtaken"}
    <3>1. CASE excuse[p] = None
      BY <1>3, <2>1, <2>2, <3>1
    <3>2. CASE excuse[p] # None
      BY <2>2, <2>3, <3>2
    <3> QED BY <3>1, <3>2
  <2> QED BY <2>4, <2>5 DEF Seen
<1> QED BY <1>2, <1>3

LEMMA AttendedTable ==
    ASSUME Typed, AttendedInv, Scan \/ \E p \in Path : CatalogFile(p)
    PROVE  WaitingIsAttended' /\ StoredIsSeen' /\ AnswersAreFinal' /\ DownIsEmpty'
<1>1. Typed'
  BY TypedTable
<1>2. \E statuses : "pending" \in statuses /\ Read(statuses)
  BY DEF Scan, CatalogFile
<1>3. UNCHANGED <<up, queue>> /\ up /\ DOMAIN rows \subseteq DOMAIN rows'
  <2>1. CASE Scan
    BY <2>1 DEF Scan
  <2>2. CASE \E p \in Path : CatalogFile(p)
    BY <2>2 DEF CatalogFile
  <2> QED BY <2>1, <2>2
<1>4. UNCHANGED <<pending, workers>> /\ DOMAIN rows' \subseteq Path
  BY <1>1, <1>3 DEF queue, Typed
<1>5. /\ \A p \in DOMAIN rows' : rows'[p].available /\ rows'[p].status = "pending" =>
           p \in UNION calls'
      /\ \A w \in Permit :
           /\ workers[w].step = "stored" /\ workers[w].path \in DOMAIN rows'
           /\ rows'[workers[w].path].available
           /\ rows'[workers[w].path].status = "pending"
           => Seen(workers[w].path)'
  BY <1>2, <1>4, ReadAttends DEF AttendedInv
<1>6. WaitingIsAttended'
  BY <1>5 DEF WaitingIsAttended
<1>7. StoredIsSeen'
  <2> SUFFICES ASSUME NEW w \in Permit, workers'[w].step = "stored", Waits(workers[w].path)'
               PROVE  Seen(workers[w].path)' /\ workers'[w].path \in UNION calls'
    BY DEF StoredIsSeen
  <2>1. workers'[w] = workers[w] /\ workers[w].path \in DOMAIN rows
    BY <1>4, WorkIsPending DEF AttendedInv
  <2> QED BY <1>3, <1>5, <2>1 DEF Waits
<1>8. AnswersAreFinal' /\ DownIsEmpty'
  BY <1>3, <1>4 DEF AttendedInv, AnswersAreFinal, DownIsEmpty
<1> QED BY <1>6, <1>7, <1>8

\* Changes of files and corrections, and the way of a job to a permit.
LEMMA AttendedOutside ==
    ASSUME Typed, AttendedInv,
           \/ \E p \in Path : \/ Change(p) \/ ComeOrGo(p) \/ Send(p)
                              \/ \E title \in Correction : Edit(p, title)
           \/ Receive
           \/ UNCHANGED vars
    PROVE  WaitingIsAttended' /\ StoredIsSeen' /\ AnswersAreFinal' /\ DownIsEmpty'
<1>1. UNCHANGED <<calls, up, pending, workers, excuse>>
  BY DEF Change, ComeOrGo, Send, Edit, Receive, vars, catalog, queue
<1>2. /\ DOMAIN rows' = DOMAIN rows
      /\ \A p \in DOMAIN rows : rows'[p].available = rows[p].available
                                /\ rows'[p].status = rows[p].status
  <2>1. ASSUME NEW q \in Path, NEW title \in Correction, Edit(q, title)
        PROVE  /\ DOMAIN rows' = DOMAIN rows
               /\ \A p \in DOMAIN rows : rows'[p].available = rows[p].available
                                         /\ rows'[p].status = rows[p].status
    <3> DEFINE row == [rows[q] EXCEPT !.override = title]
    <3>1. q \in DOMAIN rows /\ rows[q] \in Row /\ rows \in [DOMAIN rows -> Row]
      BY <2>1 DEF Edit, Typed
    <3>2. rows' = [rows EXCEPT ![q] = row]
      BY <2>1 DEF Edit
    <3>3. row.available = rows[q].available /\ row.status = rows[q].status
      BY <3>1 DEF Row
    <3> HIDE DEF row
    <3> QED BY <3>1, <3>2, <3>3
  <2>2. ASSUME UNCHANGED rows
        PROVE  /\ DOMAIN rows' = DOMAIN rows
               /\ \A p \in DOMAIN rows : rows'[p].available = rows[p].available
                                         /\ rows'[p].status = rows[p].status
    BY <2>2
  <2> QED BY <2>1, <2>2 DEF Change, ComeOrGo, Send, Receive, vars, catalog
<1>3. WaitingIsAttended'
  BY <1>1, <1>2 DEF AttendedInv, WaitingIsAttended
<1>4. StoredIsSeen'
  <2> SUFFICES ASSUME NEW w \in Permit, workers'[w].step = "stored", Waits(workers[w].path)'
               PROVE  /\ Seen(workers[w].path)'
                      /\ workers'[w].path \in UNION calls' \/ Excused(workers[w].path)'
    BY DEF StoredIsSeen
  <2>1. workers'[w] = workers[w] /\ workers[w].path \in DOMAIN rows
    BY <1>1, WorkIsPending DEF AttendedInv
  <2>2. Waits(workers[w].path)
    BY <1>2, <2>1 DEF Waits
  <2> QED BY <1>1, <2>1, <2>2 DEF AttendedInv, StoredIsSeen, Seen, Excused
<1>5. AnswersAreFinal' /\ DownIsEmpty'
  BY <1>1 DEF AttendedInv, AnswersAreFinal, DownIsEmpty
<1> QED BY <1>3, <1>4, <1>5

\* The end of a request: its tracks are queued, or its client has given it up.
LEMMA AttendedRequest ==
    ASSUME Typed, AttendedInv, NEW paths \in calls, Queue(paths) \/ DropRequest(paths)
    PROVE  WaitingIsAttended' /\ StoredIsSeen' /\ AnswersAreFinal' /\ DownIsEmpty'
<1>1. /\ UNCHANGED <<rows, up, workers>> /\ calls' = calls \ {paths}
      /\ pending \subseteq pending' /\ up /\ paths \subseteq Path
  BY DEF Queue, DropRequest, Enqueue, catalog, queue, Typed
<1>2. ASSUME NEW p \in UNION calls PROVE p \in paths \/ p \in UNION calls'
  BY <1>1
<1>3. ASSUME NEW p \in Path
      PROVE  /\ p \in paths => p \in pending' \/ excuse'[p] = "given up"
             /\ Excused(p) => p \in pending' \/ Excused(p)'
             /\ p \in pending /\ Seen(p) => Seen(p)' /\ (p \in paths => Excused(p)')
             /\ p \in pending /\ Excused(p) => Excused(p)'
  <2>1. CASE DropRequest(paths)
    <3>1. excuse'[p] = IF p \in paths THEN "given up" ELSE excuse[p]
      BY <2>1 DEF DropRequest
    <3> QED BY <3>1 DEF Excused, Seen
  <2>2. CASE Queue(paths)
    <3>1. pending' = pending \cup paths
      BY <2>2 DEF Queue, Enqueue
    <3>2. p \notin paths \ pending =>
            excuse'[p] = IF p \in paths /\ excuse[p] = "seen" THEN "overtaken" ELSE excuse[p]
      BY <2>2 DEF Queue, Enqueue
    <3>3. CASE p \in paths \ pending
      BY <3>1, <3>3
    <3>4. CASE p \notin paths \ pending
      BY <3>1, <3>2, <3>4 DEF Excused, Seen
    <3> QED BY <3>3, <3>4
  <2> QED BY <2>1, <2>2
<1>4. WaitingIsAttended'
  <2> SUFFICES ASSUME NEW p \in DOMAIN rows, Waits(p)
               PROVE  p \in pending' \/ p \in UNION calls' \/ Excused(p)'
    BY <1>1 DEF WaitingIsAttended, Excused, Waits
  <2>1. p \in Path
    BY DEF Typed
  <2>2. p \in pending \/ p \in UNION calls \/ Excused(p)
    BY <1>1 DEF AttendedInv, WaitingIsAttended, Excused, Waits
  <2>3. excuse'[p] = "given up" => Excused(p)'
    BY DEF Excused
  <2> QED BY <1>1, <1>2, <1>3, <2>1, <2>2, <2>3
<1>5. StoredIsSeen'
  <2> SUFFICES ASSUME NEW w \in Permit, workers[w].step = "stored", Waits(workers[w].path)
               PROVE  /\ Seen(workers[w].path)'
                      /\ workers[w].path \in UNION calls' \/ Excused(workers[w].path)'
    BY <1>1 DEF StoredIsSeen, Waits
  <2> DEFINE p == workers[w].path
  <2>1. p \in Path /\ p \in pending
    BY WorkIsPending DEF AttendedInv
  <2>2. Seen(p) /\ (p \in UNION calls \/ Excused(p))
    BY DEF AttendedInv, StoredIsSeen
  <2>3. workers'[w].path = p
    BY <1>1
  <2>4. p \in Path => /\ Seen(p) /\ p \in pending => (p \in paths => Excused(p)')
                      /\ Seen(p) /\ p \in pending => Seen(p)'
                      /\ Excused(p) /\ p \in pending => Excused(p)'
    BY <1>1, <1>3 DEF Excused, Seen
  <2> QED BY <1>1, <1>2, <2>1, <2>2, <2>3, <2>4
<1>6. AnswersAreFinal' /\ DownIsEmpty'
  BY <1>1 DEF AttendedInv, AnswersAreFinal, DownIsEmpty
<1> QED BY <1>4, <1>5, <1>6

\* An answer that is stored ends the waiting, unless the core refuses it.
LEMMA AttendedStore ==
    ASSUME Typed, AttendedInv, NEW w \in Permit, Store(w)
    PROVE  WaitingIsAttended' /\ StoredIsSeen' /\ AnswersAreFinal' /\ DownIsEmpty'
<1> DEFINE p == workers[w].path
           r == workers[w].result
           row == [rows[p] EXCEPT !.status = r.status, !.about = r.about]
           job == [path |-> p, step |-> "stored", result |-> None]
<1>1. /\ p \in DOMAIN rows /\ p \in Path /\ r.status # "pending" /\ rows[p] \in Row
      /\ workers' = [workers EXCEPT ![w] = job]
      /\ UNCHANGED <<calls, up, pending>>
  BY StoreFacts DEF AttendedInv, AnswersAreFinal, Store, Typed
<1>2. rows' = IF r.bounded /\ rows[p].available THEN [rows EXCEPT ![p] = row] ELSE rows
  <2>1. CASE r.bounded /\ rows[p].available
    <3>1. rows' = [rows EXCEPT ![p].status = r.status, ![p].about = r.about]
      BY <2>1 DEF Store
    <3>2. rows' = [[rows EXCEPT ![p].status = r.status] EXCEPT ![p].about = r.about]
      BY <3>1
    <3>3. rows \in [DOMAIN rows -> Row]
      BY DEF Typed
    <3> HIDE DEF p, r
    <3> QED BY <1>1, <2>1, <3>2, <3>3
  <2>2. CASE ~(r.bounded /\ rows[p].available)
    BY <2>2 DEF Store
  <2> QED BY <2>1, <2>2
<1>3. excuse' = [excuse EXCEPT ![p] = IF ~r.bounded THEN "given up"
                                      ELSE IF rows[p].available THEN None ELSE excuse[p]]
  BY DEF Store
<1>4. /\ rows \in [DOMAIN rows -> Row] /\ excuse \in [Path -> {None, "given up", "seen", "overtaken"}]
      /\ DOMAIN rows \subseteq Path /\ workers \in [Permit -> Worker]
  BY DEF Typed
<1>5. row.status = r.status
  BY <1>1 DEF Row
<1>6. job.path = p /\ job.step = "stored"
  OBVIOUS
<1> HIDE DEF p, r, row, job
<1>7. DOMAIN rows' = DOMAIN rows
  BY <1>2
<1>8. ASSUME NEW q \in DOMAIN rows, q # p
      PROVE  rows'[q] = rows[q] /\ excuse'[q] = excuse[q]
  BY <1>2, <1>3, <1>4, <1>8
<1>9. ASSUME rows'[p].available, rows'[p].status = "pending"
      PROVE  excuse'[p] = "given up"
  <2>1. CASE r.bounded /\ rows[p].available
    BY <1>1, <1>2, <1>5, <1>9, <2>1
  <2>2. CASE ~r.bounded
    BY <1>1, <1>3, <1>4, <2>2
  <2>3. CASE ~rows[p].available
    BY <1>2, <1>9, <2>3
  <2> QED BY <2>1, <2>2, <2>3
<1>10. WaitingIsAttended'
  <2> SUFFICES ASSUME up, NEW q \in DOMAIN rows, rows'[q].available, rows'[q].status = "pending"
               PROVE  q \in pending \/ q \in UNION calls \/ excuse'[q] \in {"given up", "overtaken"}
    BY <1>1, <1>7 DEF WaitingIsAttended
  <2>1. CASE q = p
    BY <1>9, <2>1
  <2>2. CASE q # p
    BY <1>8, <2>2 DEF AttendedInv, WaitingIsAttended
  <2> QED BY <2>1, <2>2
<1>11. StoredIsSeen'
  <2> SUFFICES ASSUME NEW u \in Permit, workers'[u].step = "stored", Waits(workers[u].path)'
               PROVE  /\ Seen(workers[u].path)'
                      /\ workers'[u].path \in UNION calls' \/ Excused(workers[u].path)'
    BY DEF StoredIsSeen
  <2> DEFINE q == workers'[u].path
  <2>1. rows'[q].available /\ rows'[q].status = "pending"
    BY DEF Waits
  <2>2. CASE q = p
    BY <1>9, <2>1, <2>2 DEF Seen, Excused
  <2>3. CASE q # p
    <3>1. u # w
      BY <1>1, <1>4, <1>6, <2>3
    <3>2. workers'[u] = workers[u]
      BY <1>1, <1>4, <3>1
    <3>3. q \in DOMAIN rows
      BY <3>2, WorkIsPending DEF AttendedInv
    <3>4. Seen(workers[u].path) /\ (q \in UNION calls \/ Excused(workers[u].path))
      BY <1>8, <2>1, <2>3, <3>2, <3>3 DEF AttendedInv, StoredIsSeen, Waits
    <3> QED BY <1>1, <1>8, <2>3, <3>2, <3>3, <3>4 DEF Seen, Excused
  <2> QED BY <2>2, <2>3
<1>12. AnswersAreFinal'
  BY <1>1, <1>4, <1>6 DEF AttendedInv, AnswersAreFinal
<1>13. DownIsEmpty'
  BY <1>1 DEF AttendedInv, DownIsEmpty
<1> QED BY <1>10, <1>11, <1>12, <1>13

\* A permit takes a job, listens, and lets the job go.
LEMMA AttendedWork ==
    ASSUME Typed, AttendedInv, NEW w \in Permit,
           Start(w) \/ Release(w) \/ \E run \in Recognitions : Listen(w, run)
    PROVE  WaitingIsAttended' /\ StoredIsSeen' /\ AnswersAreFinal' /\ DownIsEmpty'
<1>1. /\ UNCHANGED <<rows, calls, up, excuse>> /\ workers \in [Permit -> Worker]
  BY DEF Start, Release, Listen, catalog, Typed
<1>2. \E job : /\ workers' = [workers EXCEPT ![w] = job] /\ job.step # "stored"
               /\ job.step = "heard" => job.result.status # "pending"
  <2>1. CASE Start(w)
    <3> DEFINE job == [path |-> held, step |-> "listening", result |-> None]
    <3>1. workers' = [workers EXCEPT ![w] = job] /\ job.step # "stored" /\ job.step # "heard"
      BY <2>1 DEF Start
    <3> QED BY <3>1
  <2>2. CASE Release(w)
    <3>1. workers' = [workers EXCEPT ![w] = Idle]
      BY <2>2 DEF Release
    <3>2. Idle.step # "stored" /\ Idle.step # "heard"
      BY DEF Idle
    <3> QED BY <3>1, <3>2
  <2>3. CASE \E run \in Recognitions : Listen(w, run)
    <3> PICK run \in Recognitions : Listen(w, run)
      BY <2>3
    <3> DEFINE result == [status |-> Attempt(run),
                          about |-> IF Attempt(run) \in {"recognized", "no_match"} /\ run.bounded
                                    THEN files[workers[w].path].version ELSE None,
                          bounded |-> Attempt(run) # "recognized" \/ run.bounded]
               job == [path |-> workers[w].path, step |-> "heard", result |-> result]
    <3>1. workers' = [workers EXCEPT ![w] = job]
      BY DEF Listen
    <3>2. job.step # "stored" /\ job.result.status # "pending"
      BY AttemptEnds
    <3> QED BY <3>1, <3>2
  <2> QED BY <2>1, <2>2, <2>3
<1>3. PICK job : /\ workers' = [workers EXCEPT ![w] = job] /\ job.step # "stored"
                 /\ job.step = "heard" => job.result.status # "pending"
  BY <1>2
<1>4. \A u \in Permit : workers'[u] = IF u = w THEN job ELSE workers[u]
  BY <1>1, <1>3
<1>5. StoredIsSeen' /\ AnswersAreFinal'
  <2>1. ASSUME NEW u \in Permit, workers'[u].step = "stored" PROVE workers'[u] = workers[u]
    BY <1>3, <1>4, <2>1
  <2>2. StoredIsSeen'
    <3> SUFFICES ASSUME NEW u \in Permit, workers'[u].step = "stored", Waits(workers[u].path)'
                 PROVE  /\ Seen(workers[u].path)'
                        /\ workers'[u].path \in UNION calls' \/ Excused(workers[u].path)'
      BY DEF StoredIsSeen
    <3>1. workers'[u] = workers[u]
      BY <2>1
    <3> QED BY <1>1, <3>1 DEF AttendedInv, StoredIsSeen, Seen, Excused, Waits
  <2>3. AnswersAreFinal'
    BY <1>3, <1>4 DEF AttendedInv, AnswersAreFinal
  <2> QED BY <2>2, <2>3
<1>6. WaitingIsAttended' /\ DownIsEmpty'
  <2>1. CASE UNCHANGED pending
    BY <1>1, <2>1 DEF AttendedInv, WaitingIsAttended, DownIsEmpty
  <2>2. CASE Release(w)
    <3>1. workers[w].step = "stored" /\ pending' = pending \ {workers[w].path}
      BY <2>2 DEF Release
    <3>2. Waits(workers[w].path) =>
            workers[w].path \in UNION calls \/ Excused(workers[w].path)
      BY <3>1 DEF AttendedInv, StoredIsSeen
    <3>3. WaitingIsAttended'
      <4> SUFFICES ASSUME up, NEW q \in DOMAIN rows, Waits(q)
                   PROVE  q \in pending' \/ q \in UNION calls \/ Excused(q)
        BY <1>1 DEF WaitingIsAttended, Waits, Excused
      <4>1. CASE q = workers[w].path
        BY <3>2, <4>1
      <4>2. CASE q # workers[w].path
        BY <3>1, <4>2 DEF AttendedInv, WaitingIsAttended, Waits, Excused
      <4> QED BY <4>1, <4>2
    <3> QED BY <1>1, <3>1, <3>3 DEF AttendedInv, DownIsEmpty
  <2> QED BY <2>1, <2>2 DEF Start, Listen
<1> QED BY <1>5, <1>6

\* A daemon that is down has no queue, and the next one queues all that waits.
LEMMA AttendedRestart ==
    ASSUME Typed, AttendedInv, Crash \/ Restart
    PROVE  WaitingIsAttended' /\ StoredIsSeen' /\ AnswersAreFinal' /\ DownIsEmpty'
<1>1. CASE Crash
  <2>1. /\ ~up' /\ pending' = {} /\ \A w \in Permit : workers'[w].step = "idle"
    BY <1>1 DEF Crash, Idle
  <2> QED BY <2>1 DEF WaitingIsAttended, StoredIsSeen, AnswersAreFinal, DownIsEmpty
<1>2. CASE Restart
  <2>1. ~up /\ up' /\ rows' = rows /\ workers' = workers /\ Enqueue(Candidates({"pending"}))
    BY <1>2 DEF Restart
  <2>2. \A w \in Permit : workers[w].step = "idle"
    BY <2>1, WorkIsPending DEF AttendedInv, DownIsEmpty
  <2>3. Candidates({"pending"}) \subseteq pending'
    BY <2>1 DEF Enqueue
  <2>4. WaitingIsAttended'
    BY <2>3 DEF WaitingIsAttended, Candidates
  <2> QED BY <2>1, <2>2, <2>4 DEF StoredIsSeen, AnswersAreFinal, DownIsEmpty
<1> QED BY <1>1, <1>2

LEMMA AttendedStep == Typed /\ AttendedInv /\ [Next]_vars => AttendedInv'
<1> SUFFICES ASSUME Typed, AttendedInv, [Next]_vars PROVE AttendedInv'
  OBVIOUS
<1>1. PendingHasOneJob'
  BY OneJobStep DEF AttendedInv
<1>2. WaitingIsAttended' /\ StoredIsSeen' /\ AnswersAreFinal' /\ DownIsEmpty'
  <2>1. CASE \/ \E p \in Path : \/ Change(p) \/ ComeOrGo(p) \/ Send(p)
                                \/ \E title \in Correction : Edit(p, title)
             \/ Receive
             \/ UNCHANGED vars
    BY <2>1, AttendedOutside
  <2>2. CASE Scan \/ \E p \in Path : CatalogFile(p)
    BY <2>2, AttendedTable
  <2>3. CASE \E paths \in calls : Queue(paths) \/ DropRequest(paths)
    BY <2>3, AttendedRequest
  <2>4. CASE \E w \in Permit : Start(w) \/ Release(w) \/ \E run \in Recognitions : Listen(w, run)
    BY <2>4, AttendedWork
  <2>5. CASE \E w \in Permit : Store(w)
    BY <2>5, AttendedStore
  <2>6. CASE Crash \/ Restart
    BY <2>6, AttendedRestart
  <2> QED BY <2>1, <2>2, <2>3, <2>4, <2>5, <2>6 DEF Next
<1> QED BY <1>1, <1>2 DEF AttendedInv

LEMMA AttendedInit == Init => AttendedInv
<1> SUFFICES ASSUME Init PROVE AttendedInv
  OBVIOUS
<1>1. PendingHasOneJob
  BY NoJobs DEF Init
<1>2. DOMAIN rows = {} /\ up /\ \A w \in Permit : workers[w].step = "idle"
  BY DEF Init, Idle
<1> QED BY <1>1, <1>2
        DEF AttendedInv, WaitingIsAttended, StoredIsSeen, AnswersAreFinal, DownIsEmpty

\* The queue and the table agree: a pending id has exactly one job, and a track that
\* waits is pending, about to be queued, or has one of the two recorded reasons.
THEOREM NobodyIsForgotten == Spec => []NoTrackIsForgotten
<1>1. AttendedInv => NoTrackIsForgotten
  BY DEF AttendedInv, NoTrackIsForgotten
<1> QED BY <1>1, AttendedInit, AttendedStep, TypedInvariant, PTL DEF Spec
=============================================================================
