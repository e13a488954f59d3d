------------------------------ MODULE HostPlayback ------------------------------
(***************************************************************************)
(* The desktop host as the audio output of the authority (web/src/host.ts, *)
(* web/src/audio-engine.ts): the <audio> element follows the snapshots,    *)
(* and its "ended" and "error" events come back as commands, one at a time *)
(* through the host's chain of tasks.                                      *)
(*                                                                         *)
(* Any client (the host interface, a controller, the CLI) may command the  *)
(* player in between; after Leave nobody does, and the radio runs alone.   *)
(* The gesture that lets the page play sound has been made (unlock).       *)
(***************************************************************************)
EXTENDS PlayerQueue

CONSTANT MaxTasks      \* bound on the commands waiting in the task chain

ASSUME HostAssumption == MaxTasks \in Nat \ {0}

VARIABLES
    element,     \* the audio element: "playing", "paused" (or ended), or "failed"
    loaded,      \* loadedTrackId
    tasks,       \* taskTail: commands the element's events have queued
    fresh,       \* the element has been synchronised with the latest snapshot
    attended     \* somebody may still send commands

host == <<element, loaded, tasks, fresh, attended>>
hostVars == <<vars, host>>

Task == {"next", "error"}

HostInit ==
    /\ Init
    /\ element = "paused" /\ loaded = None
    /\ tasks = <<>>
    /\ fresh = TRUE
    /\ attended = TRUE

\* Any accepted player command but report_playback, which only the host sends;
\* its snapshot is on its way to the host.
Command ==
    /\ attended
    /\ Ask
    /\ fresh' = FALSE
    /\ UNCHANGED <<element, loaded, tasks, attended>>

\* Mutant: the element takes over whatever status the snapshot has.
SyncStatus ==
    /\ ~fresh /\ fresh' = TRUE
    /\ loaded' = current /\ element' = status
    /\ UNCHANGED <<vars, tasks, attended>>

\* Mutant: only "playing" is acted on, nothing pauses the element.
SyncNeverPauses ==
    /\ ~fresh /\ fresh' = TRUE
    /\ loaded' = current
    /\ element' = IF status = "playing" /\ current # None THEN "playing" ELSE element
    /\ UNCHANGED <<vars, tasks, attended>>

\* Mutant: play() is called only for a track that was not loaded already.
SyncNewTrackOnly ==
    /\ ~fresh /\ fresh' = TRUE
    /\ loaded' = current
    /\ element' = IF status # "playing" THEN "paused"
                  ELSE IF current = loaded THEN element ELSE "playing"
    /\ UNCHANGED <<vars, tasks, attended>>

\* AudioEngine.sync with the latest snapshot.  A new track is loaded and pauses
\* the element first; an element whose source has failed stays as it is until
\* another track is loaded (play() is rejected).
Sync ==
    /\ ~fresh
    /\ loaded' = current
    /\ element' = CASE current = loaded /\ element = "failed" -> "failed"
                    [] status = "buffering" /\ current = loaded -> element
                    [] status = "playing" /\ current # None -> "playing"
                    [] OTHER -> "paused"
    /\ fresh' = TRUE
    /\ UNCHANGED <<vars, tasks, attended>>

\* An event of the element, and the command its callback puts in the chain.
Event(before, after, task) ==
    /\ Len(tasks) < MaxTasks
    /\ element = before
    /\ element' = after
    /\ tasks' = Append(tasks, task)
    /\ UNCHANGED <<vars, loaded, fresh, attended>>

\* The "ended" event: the host asks for `next`.
TrackEnds == loaded \in available /\ Event("playing", "paused", "next")

Missing == loaded # None /\ loaded \notin available

\* Mutant: a failed track is skipped like one that has ended.
MediaFailsSilently(before) == Missing /\ Event(before, "failed", "next")

\* The "error" event of a file that is gone, while it plays or while it is
\* loaded: the host reports it.
MediaFails(before) == Missing /\ Event(before, "failed", "error")

\* The command is sent without a revision, so it is accepted however old the
\* snapshot is that the host has applied.
RunTask(task) ==
    /\ tasks # <<>> /\ Head(tasks) = task
    /\ \/ task = "next" /\ NextTrack
       \/ /\ task = "error"
          /\ \E at \in Position : ReportPlayback("error", at, TRUE)
    /\ tasks' = Tail(tasks)
    /\ fresh' = FALSE
    /\ UNCHANGED <<element, loaded, attended>>

Leave ==
    /\ attended' = FALSE
    /\ UNCHANGED <<vars, element, loaded, tasks, fresh>>

HostNext ==
    \/ Command
    \/ Sync
    \/ TrackEnds
    \/ MediaFails("playing")
    \/ MediaFails("paused")
    \/ RunTask("next")
    \/ RunTask("error")
    \/ attended /\ Leave

\* What the page does of itself: apply a snapshot, run a queued command, play a
\* track to its end or to its failure.
Proceed ==
    \/ Sync
    \/ TrackEnds
    \/ MediaFails("playing")
    \/ \E task \in Task : RunTask(task)

\* The page's event loop runs: while one of these can happen, one does.
HostFairness == WF_hostVars(Proceed)

HostSpec == HostInit /\ [][HostNext]_hostVars /\ HostFairness

-----------------------------------------------------------------------------
(* Properties. *)

HostTypeOK ==
    /\ TypeOK
    /\ element \in {"playing", "paused", "failed"}
    /\ loaded \in Track \cup {None}
    /\ tasks \in Seq(Task) /\ Len(tasks) <= MaxTasks
    /\ fresh \in BOOLEAN
    /\ attended \in BOOLEAN

\* Once the latest snapshot has been applied the element plays nothing but the
\* current track, and only while the authority says "playing": no sequence of
\* commands, events and snapshots leaves sound on after stop, pause or clear.
HeardIsPlaying ==
    fresh /\ element = "playing" => loaded = current /\ status \in {"playing", "buffering"}

\* The state in which a radio is left: playing, with files that exist and no
\* event of an earlier track still waiting.
LeftPlaying ==
    /\ ~attended
    /\ status = "playing" /\ fresh /\ element = "playing" /\ tasks = <<>>
    /\ cursor # 0
    /\ current \in available
    /\ \A i \in DOMAIN queue : queue[i] \in available

\* An unattended radio with repeat "all" plays every entry of its queue again and
\* again (README.md:30, "unattended audio support"): the chain from "ended" to
\* `next` to the snapshot to play() never breaks and never skips an entry for good.
RadioGoesRound ==
    \A i \in 1..MaxQueue :
        LeftPlaying /\ repeat = "all" /\ i <= Len(queue) ~>
            cursor = i /\ element = "playing" /\ loaded = queue[i]

\* With repeat "off" the unattended radio plays to the end of the queue, stops
\* there and falls silent.
RadioStopsAtTheEnd ==
    LeftPlaying /\ repeat = "off" ~>
        cursor = Len(queue) /\ status = "stopped" /\ element = "paused" /\ tasks = <<>>

\* The unattended radio does what its repeat mode says, for good.
RadioPlaysOn == RadioGoesRound /\ RadioStopsAtTheEnd

\* A file that cannot be played ends in status "error", silence and a recorded
\* error: the host never reports a failed track as playing for ever.
FailureIsReported ==
    ~attended /\ element = "playing" /\ loaded = current /\ current # None
        /\ fresh /\ tasks = <<>> /\ current \notin available
    ~> status = "error" /\ lastError /\ element = "failed"

\* README.md:26 lists "off/all/one repeat modes", and `next` repeats the current
\* track when it "naturally ended" under repeat one (service.rs:485-494): the
\* command the host sends at the end of a track must then keep it playing.
RepeatOneRepeats ==
    [][tasks # <<>> /\ Head(tasks) = "next" /\ tasks' = Tail(tasks) /\ repeat = "one"
         /\ queue # <<>> /\ ~drifted
       => current' = current /\ status' = "playing"]_hostVars
=============================================================================
