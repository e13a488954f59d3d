---------------------------- MODULE CommandAuthority ----------------------------
(***************************************************************************)
(* The serial command handler of ZuradioCore (service.rs: execute, scan,   *)
(* catalog_file, set_track_recognition, persist): expected revisions, the  *)
(* command-ID cache, roles, local priority, the write of the state blob    *)
(* after the change in memory, storage failures, crashes and restarts.     *)
(*                                                                         *)
(* What a command does to the player is the subject of PlayerQueue; here   *)
(* the content of the state is the list of the changes made to it.  The    *)
(* handler runs under one mutex, so a call is one step, except that a      *)
(* crash may come between a catalog write and the save of the state.       *)
(***************************************************************************)
EXTENDS Integers, Sequences, FiniteSets

CONSTANTS
    Command,          \* command ids; a client never reuses one for another command
    RoleOf, KindOf,   \* who sends each command, and what kind of action it is
    None,
    MaxCache,         \* command ids remembered (256 in the code)
    MaxRevision,      \* bound on the revision (saturating u64 in the code)
    FaultyCommand,    \* bounds for the behaviours with storage faults: the
    FaultyRevision    \*   commands sent, and the revision

Role == {"local", "controller", "listener"}

\* "player": the actions has_local_player_priority lists; "shared": the other
\* actions a controller may send; "edit": edit_track_metadata, which writes the
\* catalog; "moderation": chat_delete, chat_clear and report_playback.
Kind == {"player", "shared", "edit", "moderation"}

ASSUME AuthorityAssumption ==
    /\ None \notin Nat
    /\ RoleOf \in [Command -> Role]
    /\ KindOf \in [Command -> Kind]
    /\ MaxCache \in Nat \ {0}
    /\ MaxRevision \in Nat \ {0}
    /\ FaultyCommand \subseteq Command
    /\ FaultyRevision \in Nat

\* seen is what the client had been shown when it made the request.
Request == [id : Command, expected : Nat \cup {None}, seen : Seq(Command)]

CacheEntry == [id : Command, revision : Nat]
StoredState ==
    [revision : Nat, commands : Seq(CacheEntry), changes : Seq(Request)]
Reply == [id : Command, ok : BOOLEAN, revision : Nat]

VARIABLES
    memory,    \* StoredState in memory: revision, cache and the changes so far
    disk,      \* the blob last saved in SQLite
    edited,    \* metadata edits committed to the tracks table
    up,        \* the process is running
    sent,      \* requests on their way; they can be late, and delivered again
    replies,   \* answers clients got
    faulty     \* may SQLite refuse to save the state?  Never changes.

vars == <<memory, disk, edited, up, sent, replies, faulty>>
-----------------------------------------------------------------------------
Empty == [revision |-> 1, commands |-> <<>>, changes |-> <<>>]

Init ==
    /\ memory = Empty
    /\ disk = Empty
    /\ edited = {}
    /\ up = TRUE
    /\ sent = {}
    /\ replies = {}
    /\ faulty \in BOOLEAN

Ids(changes) == [i \in DOMAIN changes |-> changes[i].id]

Remembered(id) == \E i \in DOMAIN memory.commands : memory.commands[i].id = id

HasLocalPlayerPriority(id) == RoleOf[id] = "local" /\ KindOf[id] = "player"

\* Mutant: every laptop command is exempt from the check of its revision.
StaleRemoteOnly(r) ==
    /\ r.expected # None
    /\ r.expected # memory.revision
    /\ RoleOf[r.id] # "local"

\* Mutant: one revision behind is good enough.
StaleByTwo(r) ==
    /\ r.expected # None
    /\ r.expected \notin {memory.revision, memory.revision - 1}
    /\ ~HasLocalPlayerPriority(r.id)

Stale(r) ==
    /\ r.expected # None
    /\ r.expected # memory.revision
    /\ ~HasLocalPlayerPriority(r.id)

Forbidden(id) ==
    \/ RoleOf[id] = "listener"
    \/ RoleOf[id] = "controller" /\ KindOf[id] \in {"edit", "moderation"}

\* Mutant: the cache is not asked.
AcceptsAgain(r) == ~Forbidden(r.id) /\ ~Stale(r)

Accepts(r) == ~Remembered(r.id) /\ ~Forbidden(r.id) /\ ~Stale(r)

Answer(id, ok, revision) ==
    replies' = replies \cup {[id |-> id, ok |-> ok, revision |-> revision]}

\* The push onto the cache and the drain of its oldest entries.
Remember(id, revision) ==
    LET longer == Append(memory.commands, [id |-> id, revision |-> revision])
        excess == IF Len(longer) > MaxCache THEN Len(longer) - MaxCache ELSE 0
    IN  SubSeq(longer, excess + 1, Len(longer))

Applied(r) ==
    [revision |-> memory.revision + 1,
     commands |-> Remember(r.id, memory.revision + 1),
     changes  |-> Append(memory.changes, r)]

Bounded == memory.revision < IF faulty THEN FaultyRevision ELSE MaxRevision

\* Mutant: the blob is made before the change.
PersistOld(ok) ==
    /\ ok \/ faulty
    /\ disk' = IF ok THEN memory ELSE disk

\* persist(): on failure the caller gets the error, the memory keeps the change.
Persist(ok) ==
    /\ ok \/ faulty
    /\ disk' = IF ok THEN memory' ELSE disk

-----------------------------------------------------------------------------
\* A client makes a request, with the revision of its latest snapshot or (the
\* host interface) without one.
Send(id) ==
    /\ up
    /\ faulty => id \in FaultyCommand
    /\ \A r \in sent : r.id # id
    /\ \E e \in {None, memory.revision} :
         sent' = sent \cup {[id |-> id, expected |-> e, seen |-> Ids(memory.changes)]}
    /\ UNCHANGED <<memory, disk, edited, up, replies, faulty>>

\* A command id that is in the cache: the stored result, before any other check.
Replay(r) ==
    /\ up
    /\ \E i \in DOMAIN memory.commands :
        /\ memory.commands[i].id = r.id
        /\ \A j \in 1..(i - 1) : memory.commands[j].id # r.id
        /\ Answer(r.id, TRUE, memory.commands[i].revision)
    /\ UNCHANGED <<memory, disk, edited, up, sent, faulty>>

\* Mutant: a refusal echoes the revision of the request.
RefuseEchoing(r) ==
    /\ up
    /\ ~Remembered(r.id)
    /\ Answer(r.id, FALSE, r.expected)
    /\ UNCHANGED <<memory, disk, edited, up, sent, faulty>>

\* Forbidden, Conflict, and the InvalidInput and NotFound errors of apply: any
\* command may be refused there, whatever its role and revision.
Refuse(r) ==
    /\ up
    /\ ~Remembered(r.id)
    /\ Answer(r.id, FALSE, 0)
    /\ UNCHANGED <<memory, disk, edited, up, sent, faulty>>

\* An accepted command.  The reply may be lost on its way (the client times
\* out, or the process dies after the save): heard says whether it arrives.
Execute(r, saved, heard) ==
    /\ up
    /\ Accepts(r)
    /\ Bounded
    /\ memory' = Applied(r)
    /\ edited' = IF KindOf[r.id] = "edit" THEN edited \cup {r.id} ELSE edited
    /\ Persist(saved)
    /\ IF heard THEN Answer(r.id, saved, IF saved THEN memory'.revision ELSE 0)
                ELSE UNCHANGED replies
    /\ UNCHANGED <<up, sent, faulty>>

\* scan, catalog_file and set_track_recognition: a catalog transaction (its rows
\* are the subject of other modules), then bump_revision and persist.
UpdateCatalog(saved) ==
    /\ up
    /\ Bounded
    /\ memory' = [memory EXCEPT !.revision = @ + 1]
    /\ Persist(saved)
    /\ UNCHANGED <<edited, up, sent, replies, faulty>>

Crash ==
    /\ up
    /\ up' = FALSE
    /\ UNCHANGED <<memory, disk, edited, sent, replies, faulty>>

\* Mutant: the state is saved first, the catalog second.
CrashBeforeEdit(r) ==
    /\ up
    /\ Accepts(r)
    /\ KindOf[r.id] = "edit"
    /\ disk' = Applied(r)
    /\ up' = FALSE
    /\ UNCHANGED <<memory, edited, sent, replies, faulty>>

\* The process dies after update_track_metadata has committed and before the
\* state that goes with it is saved.
CrashInEdit(r) ==
    /\ up
    /\ Accepts(r)
    /\ KindOf[r.id] = "edit"
    /\ edited' = edited \cup {r.id}
    /\ up' = FALSE
    /\ UNCHANGED <<memory, disk, sent, replies, faulty>>

\* Mutant: the command ids are not part of what is loaded.
RestartForgetful ==
    /\ ~up /\ up' = TRUE
    /\ memory' = [disk EXCEPT !.commands = <<>>]
    /\ UNCHANGED <<disk, edited, sent, replies, faulty>>

\* ZuradioCore::open: the state is what load_state finds.
Restart ==
    /\ ~up
    /\ up' = TRUE
    /\ memory' = disk
    /\ UNCHANGED <<disk, edited, sent, replies, faulty>>

-----------------------------------------------------------------------------
Next ==
    \/ \E id \in Command : Send(id)
    \/ \E r \in sent :
        \/ Replay(r)
        \/ Refuse(r)
        \/ CrashInEdit(r)
        \/ \E saved, heard \in BOOLEAN : Execute(r, saved, heard)
    \/ \E saved \in BOOLEAN : UpdateCatalog(saved)
    \/ Crash
    \/ Restart

Spec == Init /\ [][Next]_vars

-----------------------------------------------------------------------------
(* Properties. *)

\* Types; the cache never holds more than MaxCache ids.
TypeOK ==
    /\ memory \in StoredState
    /\ disk \in StoredState
    /\ edited \in SUBSET Command
    /\ up \in BOOLEAN
    /\ sent \in SUBSET Request
    /\ replies \in SUBSET Reply
    /\ faulty \in BOOLEAN
    /\ Len(memory.commands) <= MaxCache

\* A command takes effect once, however often it is delivered, through lost
\* replies, storage failures, crashes and restarts (the cache is part of the
\* state that is saved): docs/architecture.md:63, "Duplicate command IDs are safe to
\* retry".  That is until MaxCache later commands have pushed its id out of the cache.
AtMostOnce ==
    \A i, j \in DOMAIN memory.changes :
        i < j /\ memory.changes[i].id = memory.changes[j].id => j - i > MaxCache

\* The answer "applied" means the change is in the saved state: execute
\* "Returns an error for ... unpersistable actions" (service.rs:151), and a storage
\* that saves is all it rests on.
AppliedMeansSaved ==
    ~faulty => \A r \in replies :
        r.ok => \E i \in DOMAIN disk.changes : disk.changes[i].id = r.id

\* A request that names a revision is applied to exactly the content its client
\* had been shown, unless it is a local player command: while saves succeed, a
\* revision number is never reused for other content, not even after a restart.
AppliedToSeenContent ==
    ~faulty => \A i \in DOMAIN memory.changes :
        LET r == memory.changes[i]
        IN  r.expected # None /\ ~HasLocalPlayerPriority(r.id) =>
                r.seen = SubSeq(Ids(memory.changes), 1, i - 1)

\* The race of a laptop player command with a controller command made from the
\* same revision ends with the laptop's, in either order of arrival
\* (docs/architecture.md:66-71): the controller's change never follows it.
LocalCommandWins ==
    ~faulty => \A i, j \in DOMAIN memory.changes :
        LET l == memory.changes[i]
            c == memory.changes[j]
        IN  /\ HasLocalPlayerPriority(l.id) /\ RoleOf[c.id] = "controller"
            /\ l.expected # None /\ l.expected = c.expected
            => j < i

\* The state never records an edit that the tracks table does not hold, although
\* the two are written one after the other: a crash or a failed save in between
\* may leave the catalog ahead of the state, never behind it.
EditsAreInCatalog ==
    \A i \in DOMAIN memory.changes :
        LET id == memory.changes[i].id
        IN  KindOf[id] = "edit" => id \in edited

\* Storage faults lose no order: what a restart would bring back is always a
\* prefix of what the running process has applied, so a failed save is caught up
\* by the next one that succeeds and is never overtaken by a later command alone.
SavedIsPrefix ==
    up => /\ Len(disk.changes) <= Len(memory.changes)
          /\ disk.changes = SubSeq(memory.changes, 1, Len(disk.changes))
          /\ disk.revision <= memory.revision

\* The three places a change is in, written one after the other, keep their order through
\* crashes and failed saves: saved state, state in memory, tracks table.
StorageKeepsOrder == SavedIsPrefix /\ EditsAreInCatalog

\* The authority implements the durable list of CommandLog while its saves succeed:
\* what is saved is the list, the cache is its window, and the clients' answers
\* are the acknowledgements.
Saved == INSTANCE CommandLog WITH
    Window <- MaxCache,
    log <- IF faulty THEN <<>> ELSE Ids(disk.changes),
    acked <- IF faulty THEN {} ELSE {r.id : r \in {q \in replies : q.ok}}

ImplementsCommandLog == Saved!Spec
=============================================================================
