------------------------------ MODULE PlayerQueue ------------------------------
(***************************************************************************)
(* The player reducer of the Rust authority: the transport and queue       *)
(* commands of ZuradioCore (crates/zuradio-core/src/service.rs) and the    *)
(* PlayerState fields they change.  Every action is one command that was   *)
(* accepted; a command that returns an error leaves the state as it was    *)
(* and is not an action.  Revisions, deduplication and persistence of the  *)
(* commands are the subject of CommandAuthority.                           *)
(*                                                                         *)
(* queue_cursor is written 1-based, 0 for None.  Milliseconds are a small  *)
(* range whose only distinguished points are 0, the restart threshold of   *)
(* `previous` and the durations.                                           *)
(***************************************************************************)
EXTENDS Naturals, FiniteSets, SequencesExt

CONSTANTS
    Track,              \* track ids the catalog knows
    None,               \* Rust's None
    Duration,           \* duration of each track, 0 when the scanner found none
    MaxPosition,        \* bound on reported and requested positions
    RestartThreshold,   \* `previous` restarts a track played for longer (5 s)
    MaxQueue,           \* bound on the length of the queue
    MaxHistory          \* entries kept in the play history (500 in the code)

ASSUME PlayerAssumption ==
    /\ None \notin Track
    /\ None \notin Seq(Track)
    /\ MaxPosition \in Nat
    /\ Duration \in [Track -> 0..MaxPosition]
    /\ RestartThreshold \in Nat
    /\ MaxQueue \in Nat \ {0}
    /\ MaxHistory \in Nat

VARIABLES
    status, current, position, lastError,    \* transport
    shuffle, repeat,                         \* modes
    queue, original, cursor,                 \* queue, queue_before_shuffle, queue_cursor
    history,                                 \* newest first
    available,                               \* tracks whose file the last scan found
    (* Observation only: no action reads these two. *)
    rank,      \* rank[i]: place of queue entry i in the unshuffled order
    drifted    \* a reorder may have moved the cursor off the current track

transport == <<status, current, position, lastError>>
modes == <<shuffle, repeat>>
entries == <<queue, original, rank>>
vars == <<transport, modes, entries, cursor, history, available, drifted>>

Status == {"stopped", "paused", "playing", "buffering", "error"}
Repeat == {"off", "all", "one"}
Position == 0..MaxPosition

-----------------------------------------------------------------------------
(* Sequence helpers. *)

\* Vec::iter().position(): the first index of e in s, 0 for None.
FirstIndex(s, e) ==
    IF Contains(s, e)
    THEN CHOOSE i \in DOMAIN s : s[i] = e /\ \A j \in 1..(i - 1) : s[j] # e
    ELSE 0

\* Number of entries equal to s[i] in front of index i.
Occurrence(s, i) == Cardinality({j \in 1..(i - 1) : s[j] = s[i]})

\* Mutant: the first equal entry goes, not the one at the removed place.
RemoveEqual(s, e, n) == RemoveFirst(s, e)

RemoveOccurrence(s, e, n) ==
    LET hits == {k \in DOMAIN s : s[k] = e /\ Occurrence(s, k) = n}
    IN  IF hits = {} THEN s ELSE RemoveAt(s, CHOOSE k \in hits : TRUE)

MoveItem(s, from, to) == InsertAt(RemoveAt(s, from), to, s[from])

Identity(n) == [i \in 1..n |-> i]

\* The orders sort_by_key can produce: the key is a hash of the track id, so
\* equal tracks stay together, in their old relative order, and the tracks
\* come in any order (the hash is salted with the revision).
ShuffleOrders(s) ==
    {p \in Bijection(DOMAIN s, DOMAIN s) :
        \A i, j \in DOMAIN s :
            i < j /\ s[p[i]] = s[p[j]] =>
                p[i] < p[j] /\ \A k \in i..j : s[p[k]] = s[p[i]]}

Recorded(t) ==
    LET longer == <<t>> \o history
    IN  SubSeq(longer, 1, Min({MaxHistory, Len(longer)}))

-----------------------------------------------------------------------------
Init ==
    /\ status = "stopped" /\ current = None /\ position = 0 /\ lastError = FALSE
    /\ shuffle = FALSE /\ repeat = "off"
    /\ queue = <<>> /\ original = None /\ cursor = 0
    /\ history = <<>>
    /\ available = {}
    /\ rank = <<>> /\ drifted = FALSE

\* select_queue_index over the queue q.
Select(q, index) ==
    /\ cursor' = index
    /\ current' = q[index]
    /\ position' = 0
    /\ status' = "playing"
    /\ lastError' = FALSE
    /\ history' = Recorded(q[index])
    /\ drifted' = FALSE

Play ==
    \/ /\ current = None /\ queue # <<>>
       /\ cursor' = 1 /\ current' = Head(queue)
       /\ history' = Recorded(Head(queue))
       /\ status' = "playing" /\ lastError' = FALSE
       /\ drifted' = FALSE
       /\ UNCHANGED <<position, modes, entries, available>>
    \/ /\ current # None
       /\ status' = "playing" /\ lastError' = FALSE
       /\ UNCHANGED <<current, position, modes, entries, cursor, history, available, drifted>>

Pause ==
    /\ status' = "paused"
    /\ UNCHANGED <<current, position, lastError, modes, entries, cursor, history, available, drifted>>

Stop ==
    /\ status' = "stopped" /\ position' = 0
    /\ UNCHANGED <<current, lastError, modes, entries, cursor, history, available, drifted>>

\* queue_add: while shuffled the new entry also ends the saved order.
Push(t) ==
    /\ Len(queue) < MaxQueue
    /\ queue' = Append(queue, t)
    /\ original' = IF ~shuffle THEN original
                   ELSE Append(IF original = None THEN queue ELSE original, t)
    /\ rank' = Append(rank, Len(queue) + 1)

PlayTrack(t) ==
    /\ t \in available
    /\ \/ Contains(queue, t) /\ cursor' = FirstIndex(queue, t) /\ UNCHANGED entries
       \/ ~Contains(queue, t) /\ Push(t) /\ cursor' = Len(queue')
    /\ current' = t /\ position' = 0 /\ status' = "playing" /\ lastError' = FALSE
    /\ history' = Recorded(t)
    /\ drifted' = FALSE
    /\ UNCHANGED <<modes, available>>

\* expected is the track the command names, None for the legacy form.
Seek(to, expected) ==
    /\ current # None
    /\ expected \in {None, current}
    /\ position' = IF Duration[current] = 0 THEN to ELSE Min({to, Duration[current]})
    /\ UNCHANGED <<status, current, lastError, modes, entries, cursor, history, available, drifted>>

\* `next` goes back to the first entry after the last one.
Wraps == repeat = "all"

\* next(natural_end), from a state whose position and last_error the caller
\* has already set to at and err.
Advance(naturalEnd, at, err) ==
    LET from == IF cursor = 0 THEN 1 ELSE cursor
        again == naturalEnd /\ repeat = "one"
    IN  /\ \/ /\ queue = <<>>
              /\ status' = "stopped" /\ position' = at /\ lastError' = err
              /\ UNCHANGED <<current, cursor, history, drifted>>
           \/ /\ queue # <<>> /\ again
              /\ status' = "playing" /\ position' = 0 /\ lastError' = err
              /\ history' = IF current = None THEN history ELSE Recorded(current)
              /\ UNCHANGED <<current, cursor, drifted>>
           \/ queue # <<>> /\ ~again /\ from < Len(queue) /\ Select(queue, from + 1)
           \/ queue # <<>> /\ ~again /\ from >= Len(queue) /\ Wraps /\ Select(queue, 1)
           \/ /\ queue # <<>> /\ ~again /\ from >= Len(queue) /\ ~Wraps
              /\ status' = "stopped" /\ position' = 0 /\ lastError' = err
              /\ UNCHANGED <<current, cursor, history, drifted>>
        /\ UNCHANGED <<modes, entries, available>>

NextTrack == Advance(FALSE, position, lastError)

Previous ==
    LET back == position <= RestartThreshold /\ cursor > 1
    IN  /\ \/ back /\ Select(queue, cursor - 1)
           \/ /\ ~back
              /\ position' = 0
              /\ UNCHANGED <<status, current, lastError, cursor, history, drifted>>
        /\ UNCHANGED <<modes, entries, available>>

ReportPlayback(s, at, err) ==
    \/ s = "stopped" /\ current # None /\ Advance(TRUE, at, err)
    \/ /\ s # "stopped" \/ current = None
       /\ status' = s /\ position' = at /\ lastError' = err
       /\ UNCHANGED <<current, modes, entries, cursor, history, available, drifted>>

SetRepeat(mode) ==
    /\ repeat' = mode
    /\ UNCHANGED <<transport, shuffle, entries, cursor, history, available, drifted>>

-----------------------------------------------------------------------------
(* Queue commands. *)

QueueAdd(t) ==
    /\ t \in available
    /\ Push(t)
    /\ UNCHANGED <<transport, modes, cursor, history, available, drifted>>

\* Mutant: the cursor keeps its number when an entry in front of it goes.
CursorKept(index) == cursor

\* The cursor when an entry other than its own is removed.
CursorWithout(index) == IF cursor > index THEN cursor - 1 ELSE cursor

QueueRemove(index) ==
    LET rest == RemoveAt(queue, index)
        gone == rank[index]
    IN  /\ index \in DOMAIN queue
        /\ queue' = rest
        /\ original' = IF shuffle /\ original # None
                       THEN RemoveOccurrence(original, queue[index], Occurrence(queue, index))
                       ELSE original
        /\ rank' = [i \in DOMAIN rest |->
                      LET r == RemoveAt(rank, index)[i] IN IF r > gone THEN r - 1 ELSE r]
        /\ \/ /\ cursor = index /\ rest = <<>>
              /\ cursor' = 0 /\ current' = None /\ status' = "stopped" /\ drifted' = FALSE
              /\ UNCHANGED <<position, lastError, history>>
           \/ cursor = index /\ rest # <<>> /\ Select(rest, Min({index, Len(rest)}))
           \/ /\ cursor # index
              /\ cursor' = CursorWithout(index)
              /\ UNCHANGED <<transport, history, drifted>>
        /\ UNCHANGED <<modes, available>>

\* The moved order becomes the saved order, and queue_cursor is not adjusted.
QueueMove(from, to) ==
    /\ {from, to} \subseteq DOMAIN queue
    /\ queue' = MoveItem(queue, from, to)
    /\ original' = IF shuffle THEN queue' ELSE original
    /\ rank' = Identity(Len(queue))
    /\ drifted' = (drifted \/ from # to)
    /\ UNCHANGED <<transport, modes, cursor, history, available>>

\* Mutant: clearing drops the saved order also while shuffle is on.
QueueClearUnshuffled ==
    /\ queue' = <<>> /\ original' = None /\ rank' = <<>>
    /\ cursor' = 0 /\ current' = None /\ status' = "stopped" /\ position' = 0
    /\ drifted' = FALSE
    /\ UNCHANGED <<lastError, modes, history, available>>

QueueClear ==
    /\ queue' = <<>>
    /\ original' = IF shuffle THEN <<>> ELSE None
    /\ rank' = <<>>
    /\ cursor' = 0 /\ current' = None /\ status' = "stopped" /\ position' = 0
    /\ drifted' = FALSE
    /\ UNCHANGED <<lastError, modes, history, available>>

\* set_shuffle looks the current track up in the new order.
CursorIn(order) == FirstIndex(order, current)

SetShuffle(enabled) ==
    /\ enabled # shuffle
    /\ shuffle' = enabled
    /\ \/ /\ enabled
          /\ original' = queue
          /\ \E p \in ShuffleOrders(queue) :
                queue' = [i \in DOMAIN queue |-> queue[p[i]]] /\ rank' = p
       \/ /\ ~enabled
          /\ queue' = IF original = None THEN queue ELSE original
          /\ original' = None
          /\ rank' = Identity(Len(queue'))
    /\ cursor' = CursorIn(queue')
    /\ drifted' = (current # None /\ cursor' = 0)
    /\ UNCHANGED <<transport, repeat, history, available>>

\* A scan or an incremental catalog change: what ensure_track reads.
CatalogScan ==
    /\ available' \in SUBSET Track
    /\ UNCHANGED <<transport, modes, entries, cursor, history, drifted>>

-----------------------------------------------------------------------------
\* What a listener at the controls may ask for, from any interface.
Ask ==
    \/ Play \/ Pause \/ Stop \/ NextTrack \/ Previous \/ QueueClear \/ CatalogScan
    \/ \E t \in Track : PlayTrack(t) \/ QueueAdd(t)
    \/ \E at \in Position, t \in Track \cup {None} : Seek(at, t)
    \/ \E mode \in Repeat : SetRepeat(mode)
    \/ \E enabled \in BOOLEAN : SetShuffle(enabled)
    \/ \E i \in 1..MaxQueue : QueueRemove(i)
    \/ \E i, j \in 1..MaxQueue : QueueMove(i, j)

Next ==
    \/ Ask
    \/ \E s \in Status, at \in Position, err \in BOOLEAN : ReportPlayback(s, at, err)

Spec == Init /\ [][Next]_vars

-----------------------------------------------------------------------------
(* Properties. *)

\* Types of the PlayerState fields; the saved order exists exactly while
\* shuffle is on (queue_before_shuffle is Some iff shuffle).
TypeOK ==
    /\ status \in Status
    /\ current \in Track \cup {None}
    /\ position \in Position
    /\ lastError \in BOOLEAN
    /\ shuffle \in BOOLEAN
    /\ repeat \in Repeat
    /\ queue \in Seq(Track)
    /\ original \in IF shuffle THEN Seq(Track) ELSE {None}
    /\ cursor \in Nat
    /\ history \in Seq(Track)
    /\ available \in SUBSET Track
    /\ rank \in Seq(Nat)
    /\ drifted \in BOOLEAN

\* queue_cursor never points past the queue, where select_queue_index would "play" no
\* track; and unless the queue was reordered since the last selection, the cursor marks
\* an entry that is the current track, and there is a cursor exactly when there
\* is a current track.  queue_remove, set_shuffle and queue_clear all have to
\* keep the two fields together; queue_move does not, which is what drifted says.
CursorMarksCurrent ==
    /\ cursor <= Len(queue)
    /\ ~drifted =>
        /\ (cursor = 0) <=> (current = None)
        /\ cursor # 0 => queue[cursor] = current

\* While shuffled, the saved order is the same collection of entries: the i-th
\* entry of the play queue is the rank[i]-th entry of the saved order, one to
\* one, through every add, removal of a duplicate, move and clear.  Turning
\* shuffle off therefore neither loses nor duplicates an entry.
SavedOrderMatchesQueue ==
    /\ rank \in Bijection(DOMAIN queue, DOMAIN queue)
    /\ shuffle =>
        /\ Len(original) = Len(queue)
        /\ \A i \in DOMAIN queue : original[rank[i]] = queue[i]
=============================================================================
