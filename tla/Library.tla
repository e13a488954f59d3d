--------------------------------- MODULE Library ---------------------------------
(***************************************************************************)
(* The tracks table (core/src/catalog.rs), the scans that fill it, the     *)
(* user's corrections, and the recognition queue of the daemon             *)
(* (server.rs: queue_recognitions, run_recognition_queue; recognition.rs)  *)
(* that writes into it.                                                    *)
(*                                                                         *)
(* A track is its canonical path, which its id is the hash of.  A file is  *)
(* its version, which stands for its bytes, size and modification time; a  *)
(* file that is gone or cannot be read is not present.  The core's mutex   *)
(* makes a scan or a stored result one step; the request that scanned      *)
(* queues its candidates in a later one, or never.                         *)
(***************************************************************************)
EXTENDS Naturals, FiniteSets, Sequences

CONSTANTS
    Path,         \* files, supported ones, below the music roots
    Changing,     \* bound: the files that change, vanish or are corrected
    Uploaded,     \* bound: the files that uploads publish
    MaxVersion,   \* bound on the versions of a file
    Tagged,       \* versions with a title tag
    Correction,   \* what a user may correct a title to
    Permit,       \* permits of the semaphore (2 in the code)
    Capacity,     \* of the channel (256 in the code)
    HelperRun,    \* what running the recognizer may give
    MaxCalls,     \* bound on the requests that are about to queue
    None

Version == 1..MaxVersion

\* A run of the helper: could it be started, did it end in time, its exit status
\* and its output; bounded: the core accepts texts of this length.
RunOfHelper ==
    [start : {"started", "not found", "failed"}, late : BOOLEAN, success : BOOLEAN,
     stderr : {"", "not installed", "no match"},
     stdout : {"empty", "malformed", "no matches", "track"}, bounded : BOOLEAN]

ASSUME LibraryAssumption ==
    /\ Changing \subseteq Path /\ Uploaded \subseteq Path
    /\ MaxVersion \in Nat \ {0} /\ MaxCalls \in Nat \ {0}
    /\ Tagged \subseteq Version
    /\ Capacity \in Nat \ {0}
    /\ IsFiniteSet(Permit) /\ Permit # {}
    /\ HelperRun \subseteq RunOfHelper
    /\ None \notin Path \cup Version \cup Correction

Status == {"pending", "recognized", "no_match", "unavailable", "error"}

\* about is an observation: the version that the status is about.
Row == [version : Version, available : BOOLEAN, override : Correction \cup {None},
        status : Status, about : Version \cup {None}]

Result == [status : Status, about : Version \cup {None}, bounded : BOOLEAN]

VARIABLES
    files,     \* the disk: version of each file, and whether it is there
    rows,      \* the tracks table; it has a row for each path in its domain
    calls,     \* the candidates of each scan or upload that has not yet queued them
    up,        \* the daemon runs
    pending,   \* recognition_pending
    unsent,    \* how many jobs for a path wait in sender tasks
    channel,   \* the bounded channel of jobs
    held,      \* the job for which run_recognition_queue waits for a permit
    workers,   \* the job of each permit, and how far it is
    (* Observation only. *)
    edits,     \* the last correction of each title
    excuse,    \* why a pending track may have nobody who attends to it
    stale      \* tracks that got a new version while a job held an answer on the old

catalog == <<rows, edits>>
queue == <<pending, unsent, channel, held, workers>>
vars == <<files, catalog, calls, up, queue, excuse, stale>>

Idle == [path |-> None, step |-> "idle", result |-> None]

Init ==
    /\ files = [p \in Path |-> [version |-> 1, present |-> TRUE]]
    /\ rows = <<>>
    /\ edits = [p \in Path |-> None]
    /\ calls = {}
    /\ up = TRUE
    /\ pending = {}
    /\ unsent = [p \in Path |-> 0]
    /\ channel = <<>>
    /\ held = None
    /\ workers = [w \in Permit |-> Idle]
    /\ excuse = [p \in Path |-> None]
    /\ stale = {}
-----------------------------------------------------------------------------
(* The disk, which others write. *)

Change(p) ==
    /\ p \in Changing
    /\ files[p].version < MaxVersion
    /\ files' = [files EXCEPT ![p] = [version |-> @.version + 1, present |-> TRUE]]
    /\ UNCHANGED <<catalog, calls, up, queue, excuse, stale>>

\* A drive that goes and comes back, a file that is moved away and back.
ComeOrGo(p) ==
    /\ p \in Changing
    /\ files' = [files EXCEPT ![p].present = ~@]
    /\ UNCHANGED <<catalog, calls, up, queue, excuse, stale>>
-----------------------------------------------------------------------------
(* The tracks table. *)

\* Mutant: INSERT OR REPLACE, which forgets the columns it does not name.
RefreshedReplacing(p) ==
    [version |-> files[p].version, available |-> TRUE, override |-> None,
     status |-> "pending", about |-> None]

\* Mutant: the recognition columns are left alone.
RefreshedKeepingLabel(p) ==
    IF p \in DOMAIN rows
    THEN [rows[p] EXCEPT !.version = files[p].version, !.available = TRUE]
    ELSE [version |-> files[p].version, available |-> TRUE, override |-> None,
          status |-> "pending", about |-> None]

\* upsert_tracks: a new row, or the row of that path brought up to date.  What was
\* recognized is dropped when size or modification time differ.
Refreshed(p) ==
    LET v == files[p].version
        new == [version |-> v, available |-> TRUE, override |-> None,
                status |-> "pending", about |-> None]
    IN  IF p \notin DOMAIN rows THEN new
        ELSE IF rows[p].version # v THEN [new EXCEPT !.override = rows[p].override]
        ELSE [rows[p] EXCEPT !.available = TRUE]

Candidates(statuses) ==
    {p \in DOMAIN rows' : rows'[p].available /\ rows'[p].status \in statuses}

Work(p) == {w \in Permit : workers[w].path = p}

\* The request reads its candidates; without any it has nothing to queue.  Observed:
\* a candidate whose job has stored its answer and not yet ended.
Read(statuses) ==
    /\ calls' = calls \cup ({Candidates(statuses)} \ {{}})
    /\ excuse' = [p \in Path |->
         IF p \in Candidates(statuses) /\ excuse[p] = None
            /\ \E w \in Work(p) : workers[w].step = "stored"
         THEN "seen" ELSE excuse[p]]

NewVersion(p) == p \in DOMAIN rows /\ rows[p].version # files[p].version

\* The answer a job already has when the row gets another version.
GoStale(paths) ==
    stale' = (stale \ {p \in paths : NewVersion(p)}) \cup
             {p \in paths : NewVersion(p) /\ \E w \in Work(p) :
                /\ workers[w].step = "heard"
                /\ workers[w].result.about \notin {None, files[p].version}}

\* scan: every file that can be read is inspected, every other track is unavailable.
\* One of other roots (`zuradio scan FOLDER`) gives the rows of a scan while the files
\* elsewhere are away.
Scan ==
    LET found == {p \in Path : files[p].present}
    IN  /\ up
        /\ Cardinality(calls) < MaxCalls
        /\ rows' = [p \in DOMAIN rows \cup found |->
                      IF p \in found THEN Refreshed(p) ELSE [rows[p] EXCEPT !.available = FALSE]]
        /\ Read({"pending", "unavailable", "error"})
        /\ GoStale(found)
        /\ UNCHANGED <<files, edits, up, queue>>

\* catalog_file, for an upload that was published.
CatalogFile(p) ==
    /\ up
    /\ p \in Uploaded
    /\ Cardinality(calls) < MaxCalls
    /\ files[p].present
    /\ rows' = [q \in DOMAIN rows \cup {p} |-> IF q = p THEN Refreshed(p) ELSE rows[q]]
    /\ Read({"pending"})
    /\ GoStale({p})
    /\ UNCHANGED <<files, edits, up, queue>>

\* edit_track_metadata.
Edit(p, title) ==
    /\ up
    /\ p \in Changing \cap DOMAIN rows
    /\ rows[p].available
    /\ rows' = [rows EXCEPT ![p].override = title]
    /\ edits' = [edits EXCEPT ![p] = title]
    /\ UNCHANGED <<files, calls, up, queue, excuse, stale>>

\* The title of a track in a snapshot: the correction, the tag, or what its path
\* suggests.
Title(p) ==
    LET row == rows[p]
    IN  IF row.override # None THEN row.override
        ELSE IF row.version \in Tagged THEN row.version ELSE p
-----------------------------------------------------------------------------
(* The queue. *)

\* queue_recognitions: a job for each candidate that is not pending already.
Enqueue(paths) ==
    LET fresh == paths \ pending
    IN  /\ pending' = pending \cup fresh
        /\ unsent' = [p \in Path |-> IF p \in fresh THEN unsent[p] + 1 ELSE unsent[p]]
        /\ excuse' = [p \in Path |->
             IF p \in fresh THEN None
             ELSE IF p \in paths /\ excuse[p] = "seen" THEN "overtaken"
             ELSE excuse[p]]

\* The end of the request that scanned or uploaded.
Queue(paths) ==
    /\ paths \in calls
    /\ Enqueue(paths)
    /\ calls' = calls \ {paths}
    /\ UNCHANGED <<files, catalog, up, channel, held, workers, stale>>

\* The client has gone away while the scan ran, and the server drops its request.
DropRequest(paths) ==
    /\ paths \in calls
    /\ excuse' = [p \in Path |-> IF p \in paths THEN "given up" ELSE excuse[p]]
    /\ calls' = calls \ {paths}
    /\ UNCHANGED <<files, catalog, up, queue, stale>>

\* Mutant: a channel without a bound.
SendUnbounded(p) ==
    /\ unsent[p] > 0
    /\ unsent' = [unsent EXCEPT ![p] = @ - 1]
    /\ channel' = Append(channel, p)
    /\ UNCHANGED <<files, catalog, calls, up, pending, held, workers, excuse, stale>>

\* A sender task gets a place in the channel.
Send(p) ==
    /\ unsent[p] > 0
    /\ Len(channel) < Capacity
    /\ unsent' = [unsent EXCEPT ![p] = @ - 1]
    /\ channel' = Append(channel, p)
    /\ UNCHANGED <<files, catalog, calls, up, pending, held, workers, excuse, stale>>

Receive ==
    /\ channel # <<>> /\ held = None
    /\ held' = Head(channel)
    /\ channel' = Tail(channel)
    /\ UNCHANGED <<files, catalog, calls, up, pending, unsent, workers, excuse, stale>>

Start(w) ==
    /\ held # None /\ workers[w] = Idle
    /\ workers' = [workers EXCEPT ![w] = [path |-> held, step |-> "listening", result |-> None]]
    /\ held' = None
    /\ UNCHANGED <<files, catalog, calls, up, pending, unsent, channel, excuse, stale>>

\* run_command and classify_output.
Attempt(run) ==
    IF run.start = "not found" THEN "unavailable"
    ELSE IF run.start = "failed" \/ run.late THEN "error"
    ELSE IF run.stderr = "not installed" THEN "unavailable"
    ELSE CASE run.stdout = "track" -> "recognized"
           [] run.stdout = "no matches" -> "no_match"
           [] run.stdout = "malformed" -> "error"
           [] run.stdout = "empty" ->
                IF run.success \/ run.stderr = "no match" THEN "no_match" ELSE "error"

\* recognize_file: when the first helper is not installed there may be a second one,
\* in Flatpak; None: there is not, or the user has chosen the first.
Recognitions ==
    {IF Attempt(first) = "unavailable" /\ second # None THEN second ELSE first :
        first \in HelperRun, second \in HelperRun \cup {None}}

\* A file that is gone makes no track.
Listen(w, run) ==
    LET p == workers[w].path
    IN  /\ workers[w].step = "listening"
        /\ Attempt(run) \in {"recognized", "no_match"} => files[p].present
        /\ workers' = [workers EXCEPT ![w] = [path |-> p, step |-> "heard", result |->
             [status |-> Attempt(run),
              about |-> IF Attempt(run) \in {"recognized", "no_match"} /\ run.bounded
                        THEN files[p].version ELSE None,
              bounded |-> Attempt(run) # "recognized" \/ run.bounded]]]
        /\ UNCHANGED <<files, catalog, calls, up, pending, unsent, channel, held, excuse, stale>>

\* set_track_recognition: a result that validate_recognition refuses, or a track that
\* is not available, changes no row.
Store(w) ==
    LET p == workers[w].path
        result == workers[w].result
    IN  /\ workers[w].step = "heard"
        /\ rows' = IF result.bounded /\ rows[p].available
                   THEN [rows EXCEPT ![p].status = result.status, ![p].about = result.about]
                   ELSE rows
        /\ excuse' = [excuse EXCEPT ![p] = IF ~result.bounded THEN "given up"
                                           ELSE IF rows[p].available THEN None ELSE @]
        /\ workers' = [workers EXCEPT ![w] = [path |-> p, step |-> "stored", result |-> None]]
        /\ UNCHANGED <<files, edits, calls, up, pending, unsent, channel, held, stale>>

\* Mutant: a pending id is removed only when its row is not pending any more.
ReleaseAnswered(w) ==
    /\ workers[w].step = "stored"
    /\ pending' = IF rows[workers[w].path].status = "pending" THEN pending
                  ELSE pending \ {workers[w].path}
    /\ workers' = [workers EXCEPT ![w] = Idle]
    /\ UNCHANGED <<files, catalog, calls, up, unsent, channel, held, excuse, stale>>

\* The end of a worker: the id is not pending any more, and the permit is free.
Release(w) ==
    /\ workers[w].step = "stored"
    /\ pending' = pending \ {workers[w].path}
    /\ workers' = [workers EXCEPT ![w] = Idle]
    /\ UNCHANGED <<files, catalog, calls, up, unsent, channel, held, excuse, stale>>
-----------------------------------------------------------------------------
\* The daemon ends, and takes its queue with it.
Crash ==
    /\ up
    /\ up' = FALSE
    /\ calls' = {}
    /\ pending' = {}
    /\ unsent' = [p \in Path |-> 0]
    /\ channel' = <<>>
    /\ held' = None
    /\ workers' = [w \in Permit |-> Idle]
    /\ excuse' = [p \in Path |-> None]
    /\ UNCHANGED <<files, catalog, stale>>

\* Mutant: nothing is queued before the first scan.
RestartIdle ==
    /\ ~up
    /\ up' = TRUE
    /\ UNCHANGED <<files, catalog, calls, queue, excuse, stale>>

\* open_core and the first queue_recognitions.
Restart ==
    /\ ~up
    /\ up' = TRUE
    /\ rows' = rows
    /\ Enqueue(Candidates({"pending"}))
    /\ UNCHANGED <<files, edits, calls, channel, held, workers, stale>>

Next ==
    \/ \E p \in Path :
        \/ Change(p)
        \/ ComeOrGo(p)
        \/ CatalogFile(p)
        \/ \E title \in Correction : Edit(p, title)
        \/ Send(p)
    \/ Scan
    \/ \E paths \in calls : Queue(paths) \/ DropRequest(paths)
    \/ Receive
    \/ \E w \in Permit :
        \/ Start(w)
        \/ \E run \in Recognitions : Listen(w, run)
        \/ Store(w)
        \/ Release(w)
    \/ Crash
    \/ Restart

\* Tasks are scheduled, the helper has its deadline of 30 seconds, and the channel
\* serves waiting senders in their order.
Fairness ==
    /\ \A p \in Path : SF_vars(Send(p))
    /\ WF_vars(Receive)
    /\ \A w \in Permit :
        WF_vars(Start(w) \/ (\E run \in Recognitions : Listen(w, run))
                \/ Store(w) \/ Release(w))

Spec == Init /\ [][Next]_vars /\ Fairness
-----------------------------------------------------------------------------
(* Properties. *)

TypeOK ==
    /\ files \in [Path -> [version : Version, present : BOOLEAN]]
    /\ DOMAIN rows \in SUBSET Path
    /\ \A p \in DOMAIN rows : rows[p] \in Row
    /\ edits \in [Path -> Correction \cup {None}]
    /\ calls \in SUBSET SUBSET DOMAIN rows /\ (calls # {} => up)
    /\ up \in BOOLEAN
    /\ pending \in SUBSET DOMAIN rows
    /\ unsent \in [Path -> Nat]
    /\ channel \in Seq(Path) /\ Len(channel) <= Capacity
    /\ held \in Path \cup {None}
    /\ \A w \in Permit : \/ workers[w] = Idle
                         \/ /\ workers[w].path \in Path
                            /\ workers[w].step \in {"listening", "heard", "stored"}
                            /\ workers[w].result \in Result \cup {None}
    /\ excuse \in [Path -> {None, "given up", "seen", "overtaken"}]
    /\ stale \in SUBSET Path

JobsFor(p) ==
    unsent[p] + Cardinality({i \in DOMAIN channel : channel[i] = p})
    + Cardinality(Work(p)) + (IF held = p THEN 1 ELSE 0)

\* Every pending id has exactly one job, in a task, in the channel, before the
\* semaphore or with a worker, and no other track has one: no id is left behind that
\* would keep its track from ever being queued again, and no track is listened to
\* by two helpers, whatever scans, uploads and failures overlap.
PendingHasOneJob ==
    \A p \in Path : JobsFor(p) = IF p \in pending THEN 1 ELSE 0

\* A track that waits to be recognized is pending in the queue or about to be queued.
\* Three things can break that until the next scan, upload or restart: the core
\* refuses the answer, the client that scanned goes away, or the track is queued
\* between the last two steps of its old job.
WaitingIsAttended ==
    up => \A p \in DOMAIN rows :
        rows[p].available /\ rows[p].status = "pending" =>
            \/ p \in pending
            \/ p \in UNION calls
            \/ excuse[p] \in {"given up", "overtaken"}

\* The queue and the statuses of the rows agree in both directions: a job for each
\* pending id and no other, and a pending id for each track that waits.
NoTrackIsForgotten == PendingHasOneJob /\ WaitingIsAttended

\* What a track was recognized as is about the bytes the catalog describes: the test
\* recognition_stays_parallel_to_metadata_and_resets_when_bytes_change
\* (service.rs:1150), with a queue at work.  A file may have changed after its scan,
\* and one whose job held its answer when the scan came keeps that answer.
LabelIsOfTheFile ==
    \A p \in DOMAIN rows :
        \/ rows[p].about \in {None, rows[p].version}
        \/ files[p].version # rows[p].version
        \/ p \in stale

\* The user's correction is what is shown, through rescans, changed bytes, vanished
\* drives, recognition results and restarts (upload-protocol.md:121, "Overrides
\* persist across rescans").
CorrectionsAreShown ==
    \A p \in Path : edits[p] # None => p \in DOMAIN rows /\ Title(p) = edits[p]

\* Every job ends, also when the answer is refused or the track has gone: its id
\* does not stay pending.
EveryJobEnds == \A p \in Path : (p \in pending) ~> (p \notin pending)
=============================================================================
