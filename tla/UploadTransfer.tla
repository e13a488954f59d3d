----------------------------- MODULE UploadTransfer -----------------------------
(***************************************************************************)
(* Remote uploads in the daemon: the UploadManager (daemon/src/upload.rs), *)
(* whose operations run one at a time under its mutex, and the catalog     *)
(* step that remote_upload (server.rs) takes afterwards, under the other   *)
(* mutex of the core, for a file that was published.                       *)
(*                                                                         *)
(* A file is a sequence of chunks; a chunk is "good" (what the digest of   *)
(* the sender covers), "bad" (other bytes) or "torn" (part of a write that *)
(* failed).  The name of a published file holds its digest, so equal songs *)
(* have one destination.  A request whose arguments are refused changes    *)
(* nothing and is not an action.                                           *)
(***************************************************************************)
EXTENDS Naturals, FiniteSets, Sequences, FiniteSetsExt, Functions

CONSTANTS
    Transfer,        \* transfer ids
    File,            \* file ids a transfer may declare
    Size,            \* chunks of each file
    SongOf,          \* the content of each file
    MaxFlaw          \* bound on wrong chunks and torn writes in the staged files of a transfer

Song == Range(SongOf)

ASSUME UploadAssumption ==
    /\ IsFiniteSet(File)
    /\ Size \in [File -> Nat \ {0}]
    /\ DOMAIN SongOf = File
    /\ \A f, g \in File : SongOf[f] = SongOf[g] => Size[f] = Size[g]
    /\ MaxFlaw \in Nat

Piece == {"good", "bad", "torn"}
Content == Seq(Piece)

\* UploadFile: hashed is what the running hasher has taken, staged the bytes of
\* the .part file; open is `file` being Some, done is `digest` being Some.
UploadFile == [hashed : Content, staged : Content, open : BOOLEAN, done : BOOLEAN]

VARIABLES
    batches,      \* UploadManager.batches
    directories,  \* staging directories on the disk
    library,      \* published files: the content of each song's destination
    catalog,      \* songs that are listed: a row in the tracks table, available = 1
    cataloging,   \* songs that remote_upload has still to catalogue
    up,           \* the daemon runs
    faults,       \* what may fail: "disk": a write, a create or a removal;
                  \*   "catalog": scan_file or SQLite.  Never changes.
    (* Observation only. *)
    acked,        \* songs whose finish_file was answered "catalogued"
    committed,    \* songs of the transfers that were answered "committed"
    missed,       \* songs whose files the last scan left out, but for those that were
                  \*   catalogued since
    left          \* staging directories the disk has left behind since the start

vars == <<batches, directories, library, catalog, cataloging, up, faults,
          acked, committed, missed, left>>
rest == <<faults, acked, committed, left>>

Init ==
    /\ batches = <<>>
    /\ directories = {}
    /\ library = <<>>
    /\ catalog = {}
    /\ cataloging = {}
    /\ up = TRUE
    /\ faults \in SUBSET {"disk", "catalog"}
    /\ acked = {}
    /\ committed = {}
    /\ missed = {}
    /\ left = {}

DiskMayFail == "disk" \in faults
CatalogMayFail == "catalog" \in faults

With(t, files) ==
    batches' = [b \in DOMAIN batches \cup {t} |-> IF b = t THEN files ELSE batches[b]]

Without(t) == batches' = Restrict(batches, DOMAIN batches \ {t})

Put(t, f, entry) == batches' = [batches EXCEPT ![t][f] = entry]

Fresh == [hashed |-> <<>>, staged |-> <<>>, open |-> TRUE, done |-> FALSE]

Intact(content, f) == content = [i \in 1..Size[f] |-> "good"]

-----------------------------------------------------------------------------
\* Bound: with faults, or while a song is missed, one transfer is open at a time;
\* another id, or the same one again, meets what it has left behind.
Begin(t, files) ==
    /\ up
    /\ faults # {} \/ missed # {} => batches = <<>>
    /\ t \notin DOMAIN batches
    /\ t \notin directories
    /\ files # {}
    /\ directories' = directories \cup {t}
    /\ With(t, [f \in files |-> Fresh])
    /\ UNCHANGED <<library, catalog, missed, cataloging, up, rest>>

\* create_new of a part file fails: the directory stays, and no batch owns it.
BeginFails(t) ==
    /\ up /\ DiskMayFail
    /\ t \notin DOMAIN batches
    /\ t \notin directories
    /\ directories' = directories \cup {t}
    /\ left' = left \cup {t}
    /\ UNCHANGED <<batches, library, catalog, missed, cataloging, up, faults, acked, committed>>

Expects(t, f) ==
    /\ up
    /\ t \in DOMAIN batches
    /\ f \in DOMAIN batches[t]
    /\ ~batches[t][f].done

\* What is wrong in the staged files of a transfer.
Flaws(t) ==
    UNION {{<<f, i>> : i \in {k \in DOMAIN batches[t][f].staged : batches[t][f].staged[k] # "good"}} :
             f \in DOMAIN batches[t]}

Chunk(t, f, piece) ==
    /\ Expects(t, f)
    /\ piece = "good" \/ Cardinality(Flaws(t)) < MaxFlaw
    /\ Len(batches[t][f].hashed) < Size[f]
    /\ batches[t][f].open
    /\ Put(t, f, [batches[t][f] EXCEPT !.hashed = Append(@, piece), !.staged = Append(@, piece)])
    /\ UNCHANGED <<directories, library, catalog, missed, cataloging, up, rest>>

\* write_all fails after part of the chunk: the same offset is expected again.
TornChunk(t, f) ==
    /\ DiskMayFail
    /\ Expects(t, f)
    /\ Len(batches[t][f].hashed) < Size[f]
    /\ batches[t][f].open
    /\ Cardinality(Flaws(t)) < MaxFlaw
    /\ Put(t, f, [batches[t][f] EXCEPT !.staged = Append(@, "torn")])
    /\ UNCHANGED <<directories, library, catalog, missed, cataloging, up, rest>>

Complete(t, f) == Expects(t, f) /\ Len(batches[t][f].hashed) = Size[f]

\* commit_prepared: the file goes to its destination, unless that exists.
Published(t, f) ==
    IF SongOf[f] \in DOMAIN library THEN library
    ELSE [s \in DOMAIN library \cup {SongOf[f]} |->
            IF s = SongOf[f] THEN batches[t][f].staged ELSE library[s]]

\* Mutant: the digests are not compared.
FinishUnchecked(t, f) ==
    /\ Complete(t, f)
    /\ library' = Published(t, f)
    /\ Put(t, f, [batches[t][f] EXCEPT !.staged = <<>>, !.open = FALSE, !.done = TRUE])
    /\ cataloging' = cataloging \cup {SongOf[f]}
    /\ UNCHANGED <<directories, catalog, missed, up, rest>>

\* Mutant: the answer is given before the catalog step.
FinishAnswersEarly(t, f) ==
    /\ Complete(t, f)
    /\ Intact(batches[t][f].hashed, f)
    /\ library' = Published(t, f)
    /\ Put(t, f, [batches[t][f] EXCEPT !.staged = <<>>, !.open = FALSE, !.done = TRUE])
    /\ cataloging' = cataloging \cup {SongOf[f]}
    /\ acked' = acked \cup {SongOf[f]}
    /\ UNCHANGED <<directories, catalog, missed, up, faults, committed, left>>

\* finish_file of a file whose digest agrees; the staged file is moved or removed.
FinishFile(t, f) ==
    /\ Complete(t, f)
    /\ Intact(batches[t][f].hashed, f)
    /\ library' = Published(t, f)
    /\ Put(t, f, [batches[t][f] EXCEPT !.staged = <<>>, !.open = FALSE, !.done = TRUE])
    /\ cataloging' = cataloging \cup {SongOf[f]}
    /\ UNCHANGED <<directories, catalog, missed, up, rest>>

\* Mutant: a file that fails is deleted from the staging directory.
FinishFailsDeleting(t, f) ==
    /\ Complete(t, f)
    /\ Put(t, f, [batches[t][f] EXCEPT !.open = FALSE, !.staged = <<>>])
    /\ UNCHANGED <<directories, library, catalog, missed, cataloging, up, rest>>

\* A digest that differs, a file the tag reader refuses, or a destination that
\* cannot be written: the staged file is closed and stays.  A copy to another
\* filesystem may also have published it and failed to remove the staged file.
FinishFails(t, f) ==
    /\ Complete(t, f)
    /\ Put(t, f, [batches[t][f] EXCEPT !.open = FALSE])
    /\ \/ UNCHANGED library
       \/ /\ DiskMayFail
          /\ Intact(batches[t][f].hashed, f)
          /\ library' = Published(t, f)
    /\ UNCHANGED <<directories, catalog, missed, cataloging, up, rest>>

\* The rest of remote_upload: catalog_file, then the answer.
CatalogFile(song) ==
    /\ up
    /\ song \in cataloging
    /\ catalog' = catalog \cup {song}
    /\ missed' = missed \ {song}
    /\ acked' = acked \cup {song}
    /\ cataloging' = cataloging \ {song}
    /\ UNCHANGED <<batches, directories, library, up, faults, committed, left>>

\* catalog_file fails before its row is committed, or after it, in persist().
CatalogFails(song) ==
    /\ up /\ CatalogMayFail
    /\ song \in cataloging
    /\ \/ UNCHANGED <<catalog, missed>>
       \/ catalog' = catalog \cup {song} /\ missed' = missed \ {song}
    /\ cataloging' = cataloging \ {song}
    /\ UNCHANGED <<batches, directories, library, up, rest>>

\* The staging directory goes; when it cannot be removed it stays, without a batch.
Removed(t, removed) ==
    /\ removed \/ DiskMayFail
    /\ directories' = IF removed THEN directories \ {t} ELSE directories
    /\ left' = IF removed THEN left ELSE left \cup {t}

\* Mutant: the answer counts files by their ids.
CommitByFile(t, removed) ==
    /\ up
    /\ t \in DOMAIN batches
    /\ \A f \in DOMAIN batches[t] : batches[t][f].done
    /\ Without(t)
    /\ Removed(t, removed)
    /\ committed' = committed \cup DOMAIN batches[t]
    /\ UNCHANGED <<library, catalog, missed, cataloging, up, faults, acked>>

Commit(t, removed) ==
    /\ up
    /\ t \in DOMAIN batches
    /\ \A f \in DOMAIN batches[t] : batches[t][f].done
    /\ Without(t)
    /\ Removed(t, removed)
    /\ committed' = committed \cup {SongOf[f] : f \in DOMAIN batches[t]}
    /\ UNCHANGED <<library, catalog, missed, cataloging, up, faults, acked>>

Abort(t, removed) ==
    /\ up
    /\ t \in DOMAIN batches
    /\ Without(t)
    /\ Removed(t, removed)
    /\ UNCHANGED <<library, catalog, missed, cataloging, up, faults, acked, committed>>

\* Mutant: the batches go, their directories stay.
RevokeBatchesOnly ==
    /\ up
    /\ batches # <<>>
    /\ batches' = <<>>
    /\ UNCHANGED <<directories, library, catalog, missed, cataloging, up, rest>>

\* revoke_all: a stopped or restarted broadcast.  What the disk does not let go
\* stays behind.
RevokeAll ==
    /\ up
    /\ batches # <<>>
    /\ batches' = <<>>
    /\ \E kept \in SUBSET DOMAIN batches :
        /\ kept = {} \/ DiskMayFail
        /\ directories' = directories \ (DOMAIN batches \ kept)
        /\ left' = left \cup kept
    /\ UNCHANGED <<library, catalog, missed, cataloging, up, faults, acked, committed>>

\* scan: every row becomes unavailable but those of the files below the roots.  The
\* configured roots hold the whole library; the roots of a request (`zuradio scan
\* FOLDER`) take their place and may leave any of it out.
\* Bound: with a disk that fails, or two open transfers, no scan leaves a song out.
Scan(found) ==
    /\ up
    /\ found = DOMAIN library \/ (~DiskMayFail /\ Cardinality(DOMAIN batches) < 2)
    /\ catalog' = found
    /\ missed' = DOMAIN library \ found
    /\ UNCHANGED <<batches, directories, library, cataloging, up, rest>>

Crash ==
    /\ up
    /\ up' = FALSE
    /\ batches' = <<>>
    /\ cataloging' = {}
    /\ UNCHANGED <<directories, library, catalog, missed, rest>>

\* UploadManager::new: remove_abandoned_staging.
Restart ==
    /\ ~up
    /\ up' = TRUE
    /\ directories' = {}
    /\ left' = {}
    /\ UNCHANGED <<batches, library, catalog, missed, cataloging, faults, acked, committed>>

-----------------------------------------------------------------------------
Next ==
    \/ \E t \in Transfer :
        \/ \E files \in SUBSET File : Begin(t, files)
        \/ BeginFails(t)
        \/ \E f \in File :
            \/ \E piece \in {"good", "bad"} : Chunk(t, f, piece)
            \/ TornChunk(t, f)
            \/ FinishFile(t, f)
            \/ FinishFails(t, f)
        \/ \E removed \in BOOLEAN : Commit(t, removed) \/ Abort(t, removed)
    \/ \E song \in Song : CatalogFile(song) \/ CatalogFails(song)
    \/ RevokeAll
    \/ \E found \in SUBSET DOMAIN library : Scan(found)
    \/ Crash
    \/ Restart

Spec == Init /\ [][Next]_vars

-----------------------------------------------------------------------------
(* Properties. *)

TypeOK ==
    /\ DOMAIN batches \in SUBSET Transfer
    /\ \A t \in DOMAIN batches :
        /\ DOMAIN batches[t] \in SUBSET File
        /\ \A f \in DOMAIN batches[t] : batches[t][f] \in UploadFile
    /\ {directories, left} \subseteq SUBSET Transfer
    /\ DOMAIN library \in SUBSET Song
    /\ \A s \in DOMAIN library : library[s] \in Content
    /\ {catalog, cataloging, acked, committed, missed} \subseteq SUBSET Song
    /\ up \in BOOLEAN
    /\ faults \in SUBSET {"disk", "catalog"}

\* Every published file holds exactly the bytes whose digest the sender gave:
\* upload-protocol.md:61, "Rust compares it with the staged file".
PublishedIsIntact ==
    \A f \in File : SongOf[f] \in DOMAIN library => Intact(library[SongOf[f]], f)

Good(content) == {i \in DOMAIN content : content[i] = "good"}

Whole(content, f) ==
    /\ \A i \in DOMAIN content : content[i] # "bad"
    /\ Cardinality(Good(content)) = Size[f]

\* Every published file holds each chunk the sender's digest covers, in order and
\* once, and nothing else but what a failed write has left between them: whatever
\* chunks are sent out of order, repeated or wrong, and with retries and a second
\* transfer of the same song.  On a disk that does not fail it is intact.
PublishedIsWhole ==
    /\ \A f \in File : SongOf[f] \in DOMAIN library => Whole(library[SongOf[f]], f)
    /\ ~DiskMayFail => PublishedIsIntact

\* An upload that was acknowledged stays in the library, and it stays listed but for
\* scans of other folders, which leave it out until it is catalogued again or scanned;
\* a transfer was confirmed only when every file it declared is in the library.
\* A later abort, a failed file of the same transfer, a revocation, a crash and a scan
\* of the configured roots take nothing away (upload-protocol.md:68, "a later failure
\* does not hide or discard songs that already finished").
AcknowledgedIsKept ==
    /\ acked \subseteq catalog \cup missed
    /\ catalog \cup missed \cup committed \subseteq DOMAIN library

\* A transfer id is refused only while its transfer is open, or after the disk has
\* failed and until the daemon restarts: aborts, commits, revocations and crashes
\* leave no other staging directory behind, and remove none under an open transfer.
StagingMatchesBatches == up => directories = DOMAIN batches \cup left

\* A verified file that could not be published is still complete in its staging
\* directory, ready for the same request again (upload-protocol.md:65, "leaves the
\* verified staged file retryable").
FailedFileIsRetryable ==
    \A t \in DOMAIN batches : \A f \in DOMAIN batches[t] :
        LET entry == batches[t][f]
        IN  ~entry.done /\ Intact(entry.hashed, f) =>
                Whole(entry.staged, f) /\ t \in directories

\* upload-protocol.md:40, "Files that already passed `finish_file` remain safely
\* catalogued": a file its transfer counts as finished is listed, or the request
\* that finished it is still at work, or a scan of other folders left it out; also
\* when the song was on the disk before, from a transfer that a crash stopped between
\* its file and its row.  It rests on a catalog that takes the file.
FinishedIsCatalogued ==
    ~CatalogMayFail => \A t \in DOMAIN batches : \A f \in DOMAIN batches[t] :
        batches[t][f].done => SongOf[f] \in catalog \cup cataloging \cup missed

\* Nothing that passed finish_file is lost: neither what was acknowledged, nor what
\* only the transfer counts as finished.
UploadsAreKept == AcknowledgedIsKept /\ FinishedIsCatalogued
=============================================================================
