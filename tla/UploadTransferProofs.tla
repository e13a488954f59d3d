-------------------------- MODULE UploadTransferProofs --------------------------
(***************************************************************************)
(* Proofs about UploadTransfer, for any number of transfers, files and     *)
(* chunks, and with any of the faults of the disk and the catalog.         *)
(***************************************************************************)
EXTENDS UploadTransfer, FiniteSetTheorems, SequenceTheorems, TLAPS

-----------------------------------------------------------------------------
(* The operators on batches. *)

\* One entry changes.
LEMMA PutFacts ==
    ASSUME NEW t \in DOMAIN batches, NEW f \in DOMAIN batches[t], NEW entry,
           Put(t, f, entry)
    PROVE  /\ DOMAIN batches' = DOMAIN batches
           /\ \A u \in DOMAIN batches : DOMAIN batches'[u] = DOMAIN batches[u]
           /\ batches'[t][f] = entry
           /\ \A u \in DOMAIN batches : \A g \in DOMAIN batches[u] :
                u # t \/ g # f => batches'[u][g] = batches[u][g]
BY DEF Put

\* Transfers may go; what is left of batches is what it was.
Shrinks ==
    /\ DOMAIN batches' \subseteq DOMAIN batches
    /\ \A t \in DOMAIN batches' : batches'[t] = batches[t]

LEMMA WithoutFacts ==
    ASSUME NEW t, Without(t)
    PROVE  DOMAIN batches' = DOMAIN batches \ {t} /\ Shrinks
BY DEF Without, Restrict, Shrinks

LEMMA NoBatches ==
    ASSUME batches' = <<>>
    PROVE  DOMAIN batches' = {} /\ Shrinks
<1>1. DOMAIN <<>> = {}
  OBVIOUS
<1> QED BY <1>1 DEF Shrinks

\* The entries after begin: those of before and fresh ones.
LEMMA WithFacts ==
    ASSUME NEW t, t \notin DOMAIN batches, NEW files,
           With(t, [f \in files |-> Fresh])
    PROVE  /\ DOMAIN batches' = DOMAIN batches \cup {t}
           /\ batches'[t] = [f \in files |-> Fresh]
           /\ \A u \in DOMAIN batches : batches'[u] = batches[u]
BY DEF With

-----------------------------------------------------------------------------
(* The contents of files. *)

\* Good after one more piece.
LEMMA GoodAppend ==
    ASSUME NEW s \in Content, NEW piece \in Piece
    PROVE  /\ Good(Append(s, piece)) =
                IF piece = "good" THEN Good(s) \cup {Len(s) + 1} ELSE Good(s)
           /\ IsFiniteSet(Good(s)) /\ Cardinality(Good(s)) \in Nat
           /\ Cardinality(Good(Append(s, piece))) =
                Cardinality(Good(s)) + (IF piece = "good" THEN 1 ELSE 0)
<1>1. /\ Len(s) \in Nat /\ DOMAIN s = 1..Len(s)
      /\ DOMAIN Append(s, piece) = 1..(Len(s) + 1)
      /\ \A i \in 1..Len(s) : Append(s, piece)[i] = s[i]
      /\ Append(s, piece)[Len(s) + 1] = piece
  BY DEF Content
<1>2. Good(Append(s, piece)) =
        IF piece = "good" THEN Good(s) \cup {Len(s) + 1} ELSE Good(s)
  <2> DEFINE more == Append(s, piece)
  <2> HIDE DEF more
  <2>1. Good(more) = {i \in 1..(Len(s) + 1) : more[i] = "good"}
    BY <1>1 DEF Good, more
  <2>2. 1..(Len(s) + 1) = 1..Len(s) \cup {Len(s) + 1}
    BY <1>1
  <2>3. Good(s) = {i \in 1..Len(s) : more[i] = "good"}
    BY <1>1 DEF Good, more
  <2>4. more[Len(s) + 1] = piece
    BY <1>1 DEF more
  <2> QED BY <2>1, <2>2, <2>3, <2>4 DEF more
<1>3. IsFiniteSet(Good(s)) /\ Cardinality(Good(s)) \in Nat
  <2>1. IsFiniteSet(1..Len(s))
    BY <1>1, FS_Interval
  <2>2. Good(s) \in SUBSET (1..Len(s))
    BY <1>1 DEF Good
  <2> QED BY <2>1, <2>2, FS_Subset, FS_CardinalityType
<1>4. Len(s) + 1 \notin Good(s)
  BY <1>1 DEF Good
<1>5. Cardinality(Good(s) \cup {Len(s) + 1}) = Cardinality(Good(s)) + 1
  BY <1>3, <1>4, FS_AddElement
<1>6. CASE piece = "good"
  BY <1>2, <1>3, <1>5, <1>6
<1>7. CASE piece # "good"
  BY <1>2, <1>3, <1>7
<1> QED BY <1>6, <1>7

\* Intact content has all its chunks and no others.
LEMMA IntactIsWhole ==
    ASSUME NEW f \in File, NEW s, Intact(s, f)
    PROVE  Whole(s, f) /\ \A i \in DOMAIN s : s[i] = "good"
<1>1. Size[f] \in Nat /\ s = [i \in 1..Size[f] |-> "good"]
  BY UploadAssumption DEF Intact
<1>2. Good(s) = 1..Size[f]
  BY <1>1 DEF Good
<1>3. Cardinality(1..Size[f]) = Size[f]
  BY <1>1, FS_Interval
<1> QED BY <1>1, <1>2, <1>3 DEF Whole

-----------------------------------------------------------------------------
(* Types. *)

\* What the operations make of an entry.
LEMMA EntryTypes ==
    ASSUME NEW e \in UploadFile, NEW piece \in Piece
    PROVE  /\ [e EXCEPT !.hashed = Append(@, piece), !.staged = Append(@, piece)] \in UploadFile
           /\ [e EXCEPT !.staged = Append(@, piece)] \in UploadFile
           /\ [e EXCEPT !.staged = <<>>, !.open = FALSE, !.done = TRUE] \in UploadFile
           /\ [e EXCEPT !.open = FALSE] \in UploadFile
<1>1. e.hashed \in Content /\ e.staged \in Content
  BY DEF UploadFile
<1>2. /\ Append(e.hashed, piece) \in Content /\ Append(e.staged, piece) \in Content
      /\ <<>> \in Content
  BY <1>1 DEF Content
<1>3. ASSUME NEW a \in Content, NEW b \in Content
      PROVE  [e EXCEPT !.hashed = a, !.staged = b] \in UploadFile
  BY DEF UploadFile
<1>4. ASSUME NEW b \in Content
      PROVE  /\ [e EXCEPT !.staged = b] \in UploadFile
             /\ [e EXCEPT !.staged = b, !.open = FALSE, !.done = TRUE] \in UploadFile
  BY DEF UploadFile
<1>5. [e EXCEPT !.open = FALSE] \in UploadFile
  BY DEF UploadFile
<1> QED BY <1>2, <1>3, <1>4, <1>5

\* The type of an entry after it was put.
LEMMA TypeAfterPut ==
    ASSUME TypeOK, NEW t \in DOMAIN batches, NEW f \in DOMAIN batches[t],
           NEW entry \in UploadFile, Put(t, f, entry)
    PROVE  /\ DOMAIN batches' \in SUBSET Transfer
           /\ \A u \in DOMAIN batches' :
                /\ DOMAIN batches'[u] \in SUBSET File
                /\ \A g \in DOMAIN batches'[u] : batches'[u][g] \in UploadFile
<1>1. /\ DOMAIN batches' = DOMAIN batches
      /\ \A u \in DOMAIN batches : DOMAIN batches'[u] = DOMAIN batches[u]
      /\ \A u \in DOMAIN batches : \A g \in DOMAIN batches[u] :
           batches'[u][g] = entry \/ batches'[u][g] = batches[u][g]
  BY PutFacts
<1> QED BY <1>1 DEF TypeOK

LEMMA TypeAfterShrink ==
    ASSUME TypeOK, Shrinks
    PROVE  /\ DOMAIN batches' \in SUBSET Transfer
           /\ \A u \in DOMAIN batches' :
                /\ DOMAIN batches'[u] \in SUBSET File
                /\ \A g \in DOMAIN batches'[u] : batches'[u][g] \in UploadFile
BY DEF TypeOK, Shrinks

\* The library after a file was published, or not.
LEMMA TypeOfPublished ==
    ASSUME TypeOK, NEW t \in DOMAIN batches, NEW f \in DOMAIN batches[t],
           library' = library \/ library' = Published(t, f)
    PROVE  /\ DOMAIN library' \in SUBSET Song
           /\ \A s \in DOMAIN library' : library'[s] \in Content
           /\ DOMAIN library \subseteq DOMAIN library'
           /\ library' = Published(t, f) => SongOf[f] \in DOMAIN library'
<1>1. f \in File /\ SongOf[f] \in Song
  BY UploadAssumption DEF TypeOK, Song, Range
<1>2. batches[t][f].staged \in Content
  BY DEF TypeOK, UploadFile
<1>3. CASE library' = library
  BY <1>3 DEF TypeOK, Published
<1>4. CASE library' = Published(t, f) /\ SongOf[f] \in DOMAIN library
  BY <1>4 DEF TypeOK, Published
<1>5. CASE library' = Published(t, f) /\ SongOf[f] \notin DOMAIN library
  <2>1. /\ DOMAIN library' = DOMAIN library \cup {SongOf[f]}
        /\ \A s \in DOMAIN library' : library'[s] = IF s = SongOf[f] THEN batches[t][f].staged ELSE library[s]
    BY <1>5 DEF Published
  <2> QED BY <1>1, <1>2, <2>1 DEF TypeOK
<1> QED BY <1>3, <1>4, <1>5

\* The invariant TypeOK.
THEOREM TypeCorrect == Spec => []TypeOK
<1>1. Init => TypeOK
  <2>1. DOMAIN <<>> = {}
    OBVIOUS
  <2> QED BY <2>1 DEF Init, TypeOK
<1>2. TypeOK /\ [Next]_vars => TypeOK'
  <2> SUFFICES ASSUME TypeOK, [Next]_vars PROVE TypeOK'
    OBVIOUS
  <2>1. ASSUME NEW t \in Transfer, NEW files \in SUBSET File, Begin(t, files) PROVE TypeOK'
    <3>1. Fresh \in UploadFile
      BY DEF Fresh, UploadFile, Content
    <3>2. t \notin DOMAIN batches /\ With(t, [f \in files |-> Fresh])
      BY <2>1 DEF Begin
    <3>3. /\ DOMAIN batches' = DOMAIN batches \cup {t}
          /\ batches'[t] = [f \in files |-> Fresh]
          /\ \A u \in DOMAIN batches : batches'[u] = batches[u]
      BY <3>2, WithFacts
    <3>4. /\ DOMAIN batches' \in SUBSET Transfer
          /\ \A u \in DOMAIN batches' :
               /\ DOMAIN batches'[u] \in SUBSET File
               /\ \A g \in DOMAIN batches'[u] : batches'[u][g] \in UploadFile
      BY <3>1, <3>3 DEF TypeOK
    <3>5. UNCHANGED <<library, catalog, missed, cataloging, up, faults, acked, committed, left>>
          /\ directories' \subseteq Transfer
      BY <2>1 DEF Begin, rest, TypeOK
    <3> QED BY <3>4, <3>5 DEF TypeOK
  <2>2. ASSUME NEW t \in Transfer, BeginFails(t) PROVE TypeOK'
    BY <2>2 DEF BeginFails, TypeOK
  <2>3. ASSUME NEW t \in Transfer, NEW f \in File, NEW piece \in {"good", "bad"},
               Chunk(t, f, piece)
        PROVE  TypeOK'
    <3>1. t \in DOMAIN batches /\ f \in DOMAIN batches[t] /\ batches[t][f] \in UploadFile
      BY <2>3 DEF Chunk, Expects, TypeOK
    <3>2. [batches[t][f] EXCEPT !.hashed = Append(@, piece), !.staged = Append(@, piece)] \in UploadFile
      BY <3>1, EntryTypes DEF Piece
    <3>3. Put(t, f, [batches[t][f] EXCEPT !.hashed = Append(@, piece), !.staged = Append(@, piece)])
      BY <2>3 DEF Chunk
    <3>4. UNCHANGED <<directories, library, catalog, missed, cataloging, up, faults, acked, committed, left>>
      BY <2>3 DEF Chunk, rest
    <3> QED BY <3>1, <3>2, <3>3, <3>4, TypeAfterPut DEF TypeOK
  <2>4. ASSUME NEW t \in Transfer, NEW f \in File, TornChunk(t, f) PROVE TypeOK'
    <3>1. t \in DOMAIN batches /\ f \in DOMAIN batches[t] /\ batches[t][f] \in UploadFile
      BY <2>4 DEF TornChunk, Expects, TypeOK
    <3>2. [batches[t][f] EXCEPT !.staged = Append(@, "torn")] \in UploadFile
      BY <3>1, EntryTypes DEF Piece
    <3>3. Put(t, f, [batches[t][f] EXCEPT !.staged = Append(@, "torn")])
      BY <2>4 DEF TornChunk
    <3>4. UNCHANGED <<directories, library, catalog, missed, cataloging, up, faults, acked, committed, left>>
      BY <2>4 DEF TornChunk, rest
    <3> QED BY <3>1, <3>2, <3>3, <3>4, TypeAfterPut DEF TypeOK
  <2>5. ASSUME NEW t \in Transfer, NEW f \in File, FinishFile(t, f) PROVE TypeOK'
    <3>1. t \in DOMAIN batches /\ f \in DOMAIN batches[t] /\ batches[t][f] \in UploadFile
      BY <2>5 DEF FinishFile, Complete, Expects, TypeOK
    <3>2. [batches[t][f] EXCEPT !.staged = <<>>, !.open = FALSE, !.done = TRUE] \in UploadFile
      BY <3>1, EntryTypes DEF Piece
    <3>3. Put(t, f, [batches[t][f] EXCEPT !.staged = <<>>, !.open = FALSE, !.done = TRUE])
      BY <2>5 DEF FinishFile
    <3>4. /\ library' = Published(t, f) /\ cataloging' = cataloging \cup {SongOf[f]}
          /\ UNCHANGED <<directories, catalog, missed, up, faults, acked, committed, left>>
      BY <2>5 DEF FinishFile, rest
    <3>5. SongOf[f] \in Song
      BY UploadAssumption DEF Song, Range
    <3>6. DOMAIN library' \in SUBSET Song /\ \A s \in DOMAIN library' : library'[s] \in Content
      BY <3>1, <3>4, TypeOfPublished
    <3> QED BY <3>1, <3>2, <3>3, <3>4, <3>5, <3>6, TypeAfterPut DEF TypeOK
  <2>6. ASSUME NEW t \in Transfer, NEW f \in File, FinishFails(t, f) PROVE TypeOK'
    <3>1. t \in DOMAIN batches /\ f \in DOMAIN batches[t] /\ batches[t][f] \in UploadFile
      BY <2>6 DEF FinishFails, Complete, Expects, TypeOK
    <3>2. [batches[t][f] EXCEPT !.open = FALSE] \in UploadFile
      BY <3>1, EntryTypes DEF Piece
    <3>3. Put(t, f, [batches[t][f] EXCEPT !.open = FALSE])
      BY <2>6 DEF FinishFails
    <3>4. /\ library' = library \/ library' = Published(t, f)
          /\ UNCHANGED <<directories, catalog, missed, cataloging, up, faults, acked, committed, left>>
      BY <2>6 DEF FinishFails, rest
    <3>5. DOMAIN library' \in SUBSET Song /\ \A s \in DOMAIN library' : library'[s] \in Content
      BY <3>1, <3>4, TypeOfPublished
    <3> QED BY <3>1, <3>2, <3>3, <3>4, <3>5, TypeAfterPut DEF TypeOK
  <2>7. ASSUME NEW t \in Transfer, NEW removed \in BOOLEAN, Commit(t, removed) PROVE TypeOK'
    <3>1. {SongOf[f] : f \in DOMAIN batches[t]} \subseteq Song
      BY <2>7, UploadAssumption DEF Commit, TypeOK, Song, Range
    <3>2. Shrinks
      BY <2>7, WithoutFacts DEF Commit
    <3>3. directories' \subseteq Transfer /\ left' \subseteq Transfer
      BY <2>7 DEF Commit, Removed, TypeOK
    <3> QED BY <2>7, <3>1, <3>2, <3>3, TypeAfterShrink DEF Commit, TypeOK
  <2>8. ASSUME NEW t \in Transfer, NEW removed \in BOOLEAN, Abort(t, removed) PROVE TypeOK'
    <3>1. Shrinks
      BY <2>8, WithoutFacts DEF Abort
    <3>2. directories' \subseteq Transfer /\ left' \subseteq Transfer
      BY <2>8 DEF Abort, Removed, TypeOK
    <3> QED BY <2>8, <3>1, <3>2, TypeAfterShrink DEF Abort, TypeOK
  <2>9. ASSUME NEW song \in Song, CatalogFile(song) \/ CatalogFails(song) PROVE TypeOK'
    BY <2>9 DEF CatalogFile, CatalogFails, rest, TypeOK
  <2>10. CASE RevokeAll
    <3>1. Shrinks
      BY <2>10, NoBatches DEF RevokeAll
    <3>2. directories' \subseteq Transfer /\ left' \subseteq Transfer
      BY <2>10 DEF RevokeAll, TypeOK
    <3> QED BY <2>10, <3>1, <3>2, TypeAfterShrink DEF RevokeAll, TypeOK
  <2>11. ASSUME NEW found \in SUBSET DOMAIN library, Scan(found) PROVE TypeOK'
    BY <2>11 DEF Scan, rest, TypeOK
  <2>12. CASE Crash
    <3>1. Shrinks
      BY <2>12, NoBatches DEF Crash
    <3> QED BY <2>12, <3>1, TypeAfterShrink DEF Crash, rest, TypeOK
  <2>13. CASE Restart
    BY <2>13 DEF Restart, TypeOK
  <2>14. CASE UNCHANGED vars
    BY <2>14 DEF vars, TypeOK
  <2> QED
    BY <2>1, <2>2, <2>3, <2>4, <2>5, <2>6, <2>7, <2>8, <2>9, <2>10, <2>11, <2>12, <2>13, <2>14
    DEF Next
<1> QED BY <1>1, <1>2, PTL DEF Spec

-----------------------------------------------------------------------------
(* The staging directories. *)

\* A daemon that is down has no transfers and no catalog work; a directory left behind
\* is not that of an open transfer.
Staging ==
    /\ ~up => DOMAIN batches = {} /\ cataloging = {}
    /\ StagingMatchesBatches
    /\ up => left \cap DOMAIN batches = {}

\* Staging holds throughout, whatever the disk does.
THEOREM StagingInvariant == Spec => []Staging
<1>1. Init => Staging
  <2>1. DOMAIN <<>> = {}
    OBVIOUS
  <2> QED BY <2>1 DEF Init, Staging, StagingMatchesBatches
<1>2. Staging /\ [Next]_vars => Staging'
  <2> SUFFICES ASSUME Staging, [Next]_vars PROVE Staging'
    OBVIOUS
  <2> USE DEF Staging, StagingMatchesBatches
  <2>1. ASSUME NEW t \in Transfer, NEW files \in SUBSET File, Begin(t, files) PROVE Staging'
    <3>1. DOMAIN batches' = DOMAIN batches \cup {t}
      BY <2>1, WithFacts DEF Begin
    <3> QED BY <2>1, <3>1 DEF Begin, rest
  <2>2. ASSUME NEW t \in Transfer, BeginFails(t) PROVE Staging'
    BY <2>2 DEF BeginFails
  <2>3. ASSUME NEW t, NEW f, NEW entry, Expects(t, f), Put(t, f, entry),
               UNCHANGED <<directories, up, left>>
        PROVE  Staging'
    <3>1. DOMAIN batches' = DOMAIN batches
      BY <2>3 DEF Put
    <3> QED BY <2>3, <3>1 DEF Expects
  <2>4. ASSUME NEW t \in Transfer, NEW f \in File, NEW piece \in {"good", "bad"},
               Chunk(t, f, piece)
        PROVE  Staging'
    BY <2>3, <2>4 DEF Chunk, rest
  <2>5. ASSUME NEW t \in Transfer, NEW f \in File, TornChunk(t, f) PROVE Staging'
    BY <2>3, <2>5 DEF TornChunk, rest
  <2>6. ASSUME NEW t \in Transfer, NEW f \in File, FinishFile(t, f) PROVE Staging'
    BY <2>3, <2>6 DEF FinishFile, Complete, rest
  <2>7. ASSUME NEW t \in Transfer, NEW f \in File, FinishFails(t, f) PROVE Staging'
    BY <2>3, <2>7 DEF FinishFails, Complete, rest
  <2>8. ASSUME NEW t \in Transfer, NEW removed \in BOOLEAN,
               Commit(t, removed) \/ Abort(t, removed)
        PROVE  Staging'
    <3>1. /\ up /\ up' = up /\ t \in DOMAIN batches /\ Without(t) /\ Removed(t, removed)
      BY <2>8 DEF Commit, Abort
    <3>2. DOMAIN batches' = DOMAIN batches \ {t}
      BY <3>1, WithoutFacts
    <3> QED BY <3>1, <3>2 DEF Removed
  <2>9. ASSUME NEW song \in Song, CatalogFile(song) \/ CatalogFails(song) PROVE Staging'
    BY <2>9 DEF CatalogFile, CatalogFails, rest
  <2>10. CASE RevokeAll
    <3>1. DOMAIN batches' = {}
      BY <2>10, NoBatches DEF RevokeAll
    <3> QED BY <2>10, <3>1 DEF RevokeAll
  <2>11. ASSUME NEW found \in SUBSET DOMAIN library, Scan(found) PROVE Staging'
    BY <2>11 DEF Scan, rest
  <2>12. CASE Crash
    <3>1. DOMAIN batches' = {}
      BY <2>12, NoBatches DEF Crash
    <3> QED BY <2>12, <3>1 DEF Crash
  <2>13. CASE Restart
    BY <2>13 DEF Restart
  <2>14. CASE UNCHANGED vars
    BY <2>14 DEF vars
  <2> QED
    BY <2>1, <2>2, <2>4, <2>5, <2>6, <2>7, <2>8, <2>9, <2>10, <2>11, <2>12, <2>13, <2>14
    DEF Next
<1> QED BY <1>1, <1>2, PTL DEF Spec

\* The invariant StagingMatchesBatches: a transfer id is refused only while its transfer
\* is open, or after the disk has failed and until the daemon restarts.
THEOREM StagingIsExact == Spec => []StagingMatchesBatches
<1>1. Staging => StagingMatchesBatches
  BY DEF Staging
<1> QED BY <1>1, StagingInvariant, PTL

-----------------------------------------------------------------------------
(* The bytes of a file, from its chunks to the library. *)

\* The staged file has what the hasher has taken, but for what torn writes left in it.
Copied(entry) ==
    ~entry.done =>
        /\ (\A i \in DOMAIN entry.hashed : entry.hashed[i] # "bad") =>
             \A i \in DOMAIN entry.staged : entry.staged[i] # "bad"
        /\ Cardinality(Good(entry.staged)) = Cardinality(Good(entry.hashed))
        /\ ~DiskMayFail => entry.staged = entry.hashed

AllCopied == \A t \in DOMAIN batches : \A f \in DOMAIN batches[t] : Copied(batches[t][f])

LEMMA CopiedAfterPut ==
    ASSUME AllCopied, NEW t \in DOMAIN batches, NEW f \in DOMAIN batches[t],
           NEW entry, Put(t, f, entry), Copied(entry), faults' = faults
    PROVE  AllCopied'
<1>1. /\ DOMAIN batches' = DOMAIN batches
      /\ \A u \in DOMAIN batches : DOMAIN batches'[u] = DOMAIN batches[u]
      /\ \A u \in DOMAIN batches : \A g \in DOMAIN batches[u] :
           batches'[u][g] = entry \/ batches'[u][g] = batches[u][g]
  BY PutFacts
<1> QED BY <1>1 DEF AllCopied, Copied, DiskMayFail

\* A file whose chunks all came and whose digest agrees is staged whole.
LEMMA CopiedIsWhole ==
    ASSUME NEW f \in File, NEW entry, ~entry.done, Copied(entry), Intact(entry.hashed, f)
    PROVE  Whole(entry.staged, f) /\ (~DiskMayFail => Intact(entry.staged, f))
<1>1. Whole(entry.hashed, f) /\ \A i \in DOMAIN entry.hashed : entry.hashed[i] = "good"
  BY IntactIsWhole
<1> QED BY <1>1 DEF Copied, Whole

\* A file whose digest agrees keeps the library whole when it is published.
LEMMA PublishedKeepsWhole ==
    ASSUME TypeOK, AllCopied, PublishedIsWhole, faults' = faults,
           NEW t \in DOMAIN batches, NEW f \in DOMAIN batches[t],
           ~batches[t][f].done, Intact(batches[t][f].hashed, f),
           library' = Published(t, f)
    PROVE  PublishedIsWhole'
<1>1. f \in File
  BY DEF TypeOK
<1> DEFINE staged == batches[t][f].staged
<1>2. Whole(staged, f) /\ (~DiskMayFail => Intact(staged, f))
  BY <1>1, CopiedIsWhole DEF AllCopied
<1>3. \A s \in DOMAIN library' :
        \/ s \in DOMAIN library /\ library'[s] = library[s]
        \/ s = SongOf[f] /\ library'[s] = staged
  BY DEF Published
<1> HIDE DEF staged
<1>4. ASSUME NEW g \in File, SongOf[g] \in DOMAIN library'
      PROVE  /\ Whole(library'[SongOf[g]], g)
             /\ ~DiskMayFail => Intact(library'[SongOf[g]], g)
  <2>1. CASE SongOf[g] \in DOMAIN library /\ library'[SongOf[g]] = library[SongOf[g]]
    BY <2>1 DEF PublishedIsWhole, PublishedIsIntact
  <2>2. CASE SongOf[g] = SongOf[f] /\ library'[SongOf[g]] = staged
    <3>1. Size[g] = Size[f]
      BY <1>1, <2>2, UploadAssumption
    <3> QED BY <1>2, <2>2, <3>1 DEF Whole, Intact
  <2> QED BY <1>3, <1>4, <2>1, <2>2
<1> QED BY <1>4 DEF PublishedIsWhole, PublishedIsIntact, DiskMayFail

\* The bytes stay right on their way.
Bytes == AllCopied /\ PublishedIsWhole

\* Bytes holds throughout, whatever chunks come and whatever the disk does.
THEOREM BytesInvariant == Spec => []Bytes
<1>1. Init => Bytes
  <2>1. DOMAIN <<>> = {}
    OBVIOUS
  <2> QED BY <2>1 DEF Init, Bytes, AllCopied, PublishedIsWhole, PublishedIsIntact
<1>2. TypeOK /\ Bytes /\ [Next]_vars => Bytes'
  <2> SUFFICES ASSUME TypeOK, Bytes, [Next]_vars PROVE Bytes'
    OBVIOUS
  <2> USE DEF Bytes
  <2>0. ASSUME Shrinks \/ batches' = batches, UNCHANGED <<library, faults>> PROVE Bytes'
    BY <2>0 DEF Shrinks, AllCopied, Copied, PublishedIsWhole, PublishedIsIntact, DiskMayFail
  <2>1. ASSUME NEW t \in Transfer, NEW files \in SUBSET File, Begin(t, files) PROVE Bytes'
    <3>1. /\ DOMAIN batches' = DOMAIN batches \cup {t}
          /\ batches'[t] = [f \in files |-> Fresh]
          /\ \A u \in DOMAIN batches : batches'[u] = batches[u]
          /\ UNCHANGED <<library, faults>>
      BY <2>1, WithFacts DEF Begin, rest
    <3>2. Copied(Fresh)
      BY DEF Copied, Fresh, Good
    <3>3. AllCopied'
      BY <3>1, <3>2 DEF AllCopied, Copied, DiskMayFail
    <3> QED BY <3>1, <3>3 DEF PublishedIsWhole, PublishedIsIntact, DiskMayFail
  <2>2. ASSUME NEW t \in Transfer, BeginFails(t) PROVE Bytes'
    BY <2>0, <2>2 DEF BeginFails
  <2>3. ASSUME NEW t, NEW f, Expects(t, f), NEW entry, Put(t, f, entry), Copied(entry),
               UNCHANGED <<library, faults>>
        PROVE  Bytes'
    <3>1. AllCopied'
      BY <2>3, CopiedAfterPut DEF Expects
    <3> QED BY <2>3, <3>1 DEF PublishedIsWhole, PublishedIsIntact, DiskMayFail
  <2>4. ASSUME NEW t \in Transfer, NEW f \in File, NEW piece \in {"good", "bad"},
               Chunk(t, f, piece)
        PROVE  Bytes'
    <3> DEFINE old == batches[t][f]
               new == [old EXCEPT !.hashed = Append(@, piece), !.staged = Append(@, piece)]
    <3>1. /\ Expects(t, f) /\ Put(t, f, new) /\ UNCHANGED <<library, faults>>
      BY <2>4 DEF Chunk, rest
    <3>2. /\ old \in UploadFile /\ old.hashed \in Content /\ old.staged \in Content
          /\ piece \in Piece /\ Copied(old) /\ ~old.done
      BY <3>1 DEF Expects, TypeOK, AllCopied, UploadFile, Piece
    <3>3. /\ new.hashed = Append(old.hashed, piece) /\ new.staged = Append(old.staged, piece)
          /\ ~new.done
      BY <3>2 DEF UploadFile
    <3> HIDE DEF old, new
    <3>4. Cardinality(Good(new.staged)) = Cardinality(Good(new.hashed))
      BY <3>2, <3>3, GoodAppend DEF Copied
    <3>5. ASSUME \A i \in DOMAIN new.hashed : new.hashed[i] # "bad"
          PROVE  \A i \in DOMAIN new.staged : new.staged[i] # "bad"
      <4>1. /\ Len(old.hashed) \in Nat /\ DOMAIN old.hashed = 1..Len(old.hashed)
            /\ DOMAIN new.hashed = 1..(Len(old.hashed) + 1)
            /\ \A i \in 1..Len(old.hashed) : new.hashed[i] = old.hashed[i]
            /\ new.hashed[Len(old.hashed) + 1] = piece
        BY <3>2, <3>3 DEF Content
      <4>2. piece # "bad" /\ \A i \in DOMAIN old.hashed : old.hashed[i] # "bad"
        BY <3>5, <4>1
      <4>3. \A i \in DOMAIN old.staged : old.staged[i] # "bad"
        BY <3>2, <4>2 DEF Copied
      <4>4. /\ Len(old.staged) \in Nat /\ DOMAIN old.staged = 1..Len(old.staged)
            /\ DOMAIN new.staged = 1..(Len(old.staged) + 1)
            /\ \A i \in 1..Len(old.staged) : new.staged[i] = old.staged[i]
            /\ new.staged[Len(old.staged) + 1] = piece
        BY <3>2, <3>3 DEF Content
      <4> QED BY <4>2, <4>3, <4>4
    <3>6. Copied(new)
      BY <3>2, <3>3, <3>4, <3>5 DEF Copied
    <3> QED BY <2>3, <3>1, <3>6
  <2>5. ASSUME NEW t \in Transfer, NEW f \in File, TornChunk(t, f) PROVE Bytes'
    <3> DEFINE old == batches[t][f]
               new == [old EXCEPT !.staged = Append(@, "torn")]
    <3>1. Expects(t, f) /\ Put(t, f, new) /\ UNCHANGED <<library, faults>> /\ DiskMayFail
      BY <2>5 DEF TornChunk, rest
    <3>2. /\ old \in UploadFile /\ old.staged \in Content
          /\ "torn" \in Piece /\ Copied(old) /\ ~old.done
      BY <3>1 DEF Expects, TypeOK, AllCopied, UploadFile, Piece
    <3>3. new.hashed = old.hashed /\ new.staged = Append(old.staged, "torn") /\ ~new.done
      BY <3>2 DEF UploadFile
    <3> HIDE DEF old, new
    <3>4. Cardinality(Good(new.staged)) = Cardinality(Good(old.staged))
      BY <3>2, <3>3, GoodAppend
    <3>5. ASSUME \A i \in DOMAIN old.staged : old.staged[i] # "bad"
          PROVE  \A i \in DOMAIN new.staged : new.staged[i] # "bad"
      <4>1. /\ Len(old.staged) \in Nat /\ DOMAIN old.staged = 1..Len(old.staged)
            /\ DOMAIN new.staged = 1..(Len(old.staged) + 1)
            /\ \A i \in 1..Len(old.staged) : new.staged[i] = old.staged[i]
            /\ new.staged[Len(old.staged) + 1] = "torn"
        BY <3>2, <3>3 DEF Content
      <4> QED BY <3>5, <4>1
    <3>6. Copied(new)
      BY <3>1, <3>2, <3>3, <3>4, <3>5 DEF Copied
    <3> QED BY <2>3, <3>1, <3>6
  <2>6. ASSUME NEW t \in Transfer, NEW f \in File, FinishFile(t, f) PROVE Bytes'
    <3> DEFINE old == batches[t][f]
               new == [old EXCEPT !.staged = <<>>, !.open = FALSE, !.done = TRUE]
    <3>1. /\ Expects(t, f) /\ Put(t, f, new) /\ faults' = faults
          /\ library' = Published(t, f) /\ Intact(old.hashed, f)
      BY <2>6 DEF FinishFile, Complete, rest
    <3>2. t \in DOMAIN batches /\ f \in DOMAIN batches[t] /\ old \in UploadFile /\ ~old.done
      BY <3>1 DEF Expects, TypeOK
    <3>3. new.done
      BY <3>2 DEF UploadFile
    <3>4. AllCopied'
      BY <3>1, <3>2, <3>3, CopiedAfterPut DEF Copied
    <3>5. PublishedIsWhole'
      BY <3>1, <3>2, PublishedKeepsWhole
    <3> QED BY <3>4, <3>5
  <2>7. ASSUME NEW t \in Transfer, NEW f \in File, FinishFails(t, f) PROVE Bytes'
    <3> DEFINE old == batches[t][f]
               new == [old EXCEPT !.open = FALSE]
    <3>1. /\ Expects(t, f) /\ Put(t, f, new) /\ faults' = faults
          /\ \/ library' = library
             \/ Intact(old.hashed, f) /\ library' = Published(t, f)
      BY <2>7 DEF FinishFails, Complete, rest
    <3>2. t \in DOMAIN batches /\ f \in DOMAIN batches[t] /\ old \in UploadFile /\ ~old.done
      BY <3>1 DEF Expects, TypeOK
    <3>3. Copied(new)
      BY <3>2 DEF UploadFile, Copied, AllCopied
    <3>4. AllCopied'
      BY <3>1, <3>2, <3>3, CopiedAfterPut
    <3>5. PublishedIsWhole'
      <4>1. CASE library' = library
        BY <3>1, <4>1 DEF PublishedIsWhole, PublishedIsIntact, DiskMayFail
      <4>2. CASE Intact(old.hashed, f) /\ library' = Published(t, f)
        BY <3>1, <3>2, <4>2, PublishedKeepsWhole
      <4> QED BY <3>1, <4>1, <4>2
    <3> QED BY <3>4, <3>5
  <2>8. ASSUME NEW t \in Transfer, NEW removed \in BOOLEAN,
               Commit(t, removed) \/ Abort(t, removed)
        PROVE  Bytes'
    BY <2>0, <2>8, WithoutFacts DEF Commit, Abort
  <2>9. ASSUME NEW song \in Song, CatalogFile(song) \/ CatalogFails(song) PROVE Bytes'
    BY <2>0, <2>9 DEF CatalogFile, CatalogFails, rest
  <2>10. CASE RevokeAll
    BY <2>0, <2>10, NoBatches DEF RevokeAll
  <2>11. ASSUME NEW found \in SUBSET DOMAIN library, Scan(found) PROVE Bytes'
    BY <2>0, <2>11 DEF Scan, rest
  <2>12. CASE Crash
    BY <2>0, <2>12, NoBatches DEF Crash, rest
  <2>13. CASE Restart
    BY <2>0, <2>13 DEF Restart
  <2>14. CASE UNCHANGED vars
    BY <2>0, <2>14 DEF vars
  <2> QED
    BY <2>1, <2>2, <2>4, <2>5, <2>6, <2>7, <2>8, <2>9, <2>10, <2>11, <2>12, <2>13, <2>14
    DEF Next
<1> QED BY <1>1, <1>2, TypeCorrect, PTL DEF Spec

\* The invariant PublishedIsWhole: no order, repetition or error of chunks, no retry
\* and no failed write puts a file in the library that lacks a chunk or has a wrong one.
THEOREM PublishedFilesAreWhole == Spec => []PublishedIsWhole
<1>1. Bytes => PublishedIsWhole
  BY DEF Bytes
<1> QED BY <1>1, BytesInvariant, PTL

\* The invariant FailedFileIsRetryable: a verified file that could not be published is
\* staged whole, in a directory that is there.
THEOREM FailuresAreRetryable == Spec => []FailedFileIsRetryable
<1>1. TypeOK /\ Staging /\ Bytes => FailedFileIsRetryable
  <2> SUFFICES ASSUME TypeOK, Staging, Bytes,
                      NEW t \in DOMAIN batches, NEW f \in DOMAIN batches[t],
                      ~batches[t][f].done, Intact(batches[t][f].hashed, f)
               PROVE  Whole(batches[t][f].staged, f) /\ t \in directories
    BY DEF FailedFileIsRetryable
  <2>1. f \in File /\ Copied(batches[t][f])
    BY DEF TypeOK, Bytes, AllCopied
  <2>2. t \in directories
    BY DEF Staging, StagingMatchesBatches
  <2> QED BY <2>1, <2>2, CopiedIsWhole
<1> QED BY <1>1, TypeCorrect, StagingInvariant, BytesInvariant, PTL

-----------------------------------------------------------------------------
(* What has arrived stays. *)

\* Files that are finished or that wait for their row are in the library as well.
Arrived ==
    /\ UploadsAreKept
    /\ cataloging \subseteq DOMAIN library
    /\ \A t \in DOMAIN batches : \A f \in DOMAIN batches[t] :
         batches[t][f].done => SongOf[f] \in DOMAIN library

\* Only finish_file adds a file that is done.
LEMMA ArrivedAfterPut ==
    ASSUME Arrived, NEW t \in DOMAIN batches, NEW f \in DOMAIN batches[t],
           NEW entry, Put(t, f, entry), ~entry.done,
           DOMAIN library \subseteq DOMAIN library',
           UNCHANGED <<catalog, missed, cataloging, faults, acked, committed>>
    PROVE  Arrived'
<1>1. /\ DOMAIN batches' = DOMAIN batches
      /\ \A u \in DOMAIN batches : DOMAIN batches'[u] = DOMAIN batches[u]
      /\ \A u \in DOMAIN batches : \A g \in DOMAIN batches[u] :
           batches'[u][g] = entry \/ batches'[u][g] = batches[u][g]
  BY PutFacts
<1>2. \A u \in DOMAIN batches' : \A g \in DOMAIN batches'[u] :
        batches'[u][g].done => batches[u][g].done
  BY <1>1
<1> QED BY <1>1, <1>2 DEF Arrived, UploadsAreKept, AcknowledgedIsKept, FinishedIsCatalogued,
                         CatalogMayFail

\* Arrived holds throughout, whatever fails.
THEOREM ArrivedInvariant == Spec => []Arrived
<1>1. Init => Arrived
  <2>1. DOMAIN <<>> = {}
    OBVIOUS
  <2> QED BY <2>1 DEF Init, Arrived, UploadsAreKept, AcknowledgedIsKept, FinishedIsCatalogued
<1>2. TypeOK /\ Arrived /\ [Next]_vars => Arrived'
  <2> SUFFICES ASSUME TypeOK, Arrived, [Next]_vars PROVE Arrived'
    OBVIOUS
  <2> USE DEF UploadsAreKept, AcknowledgedIsKept, FinishedIsCatalogued, CatalogMayFail
  <2>0. ASSUME Shrinks \/ batches' = batches,
               UNCHANGED <<library, catalog, missed, cataloging, faults, acked, committed>>
        PROVE  Arrived'
    BY <2>0 DEF Shrinks, Arrived
  <2>1. ASSUME NEW t \in Transfer, NEW files \in SUBSET File, Begin(t, files) PROVE Arrived'
    <3>1. /\ DOMAIN batches' = DOMAIN batches \cup {t}
          /\ batches'[t] = [f \in files |-> Fresh]
          /\ \A u \in DOMAIN batches : batches'[u] = batches[u]
      BY <2>1, WithFacts DEF Begin
    <3>2. \A f \in files : ~batches'[t][f].done
      BY <3>1 DEF Fresh
    <3>3. UNCHANGED <<library, catalog, missed, cataloging, faults, acked, committed>>
      BY <2>1 DEF Begin, rest
    <3> QED BY <3>1, <3>2, <3>3 DEF Arrived
  <2>2. ASSUME NEW t \in Transfer, BeginFails(t) PROVE Arrived'
    BY <2>0, <2>2 DEF BeginFails
  <2>3. ASSUME NEW t \in Transfer, NEW f \in File, NEW piece \in {"good", "bad"},
               Chunk(t, f, piece)
        PROVE  Arrived'
    <3> DEFINE new == [batches[t][f] EXCEPT !.hashed = Append(@, piece), !.staged = Append(@, piece)]
    <3>1. /\ Expects(t, f) /\ Put(t, f, new)
          /\ UNCHANGED <<library, catalog, missed, cataloging, faults, acked, committed>>
      BY <2>3 DEF Chunk, rest
    <3>2. t \in DOMAIN batches /\ f \in DOMAIN batches[t] /\ ~new.done
      BY <3>1 DEF Expects, TypeOK, UploadFile
    <3> HIDE DEF new
    <3> QED BY <3>1, <3>2, ArrivedAfterPut
  <2>4. ASSUME NEW t \in Transfer, NEW f \in File, TornChunk(t, f) PROVE Arrived'
    <3> DEFINE new == [batches[t][f] EXCEPT !.staged = Append(@, "torn")]
    <3>1. /\ Expects(t, f) /\ Put(t, f, new)
          /\ UNCHANGED <<library, catalog, missed, cataloging, faults, acked, committed>>
      BY <2>4 DEF TornChunk, rest
    <3>2. t \in DOMAIN batches /\ f \in DOMAIN batches[t] /\ ~new.done
      BY <3>1 DEF Expects, TypeOK, UploadFile
    <3> HIDE DEF new
    <3> QED BY <3>1, <3>2, ArrivedAfterPut
  <2>5. ASSUME NEW t \in Transfer, NEW f \in File, FinishFile(t, f) PROVE Arrived'
    <3> DEFINE new == [batches[t][f] EXCEPT !.staged = <<>>, !.open = FALSE, !.done = TRUE]
    <3>1. /\ Expects(t, f) /\ Put(t, f, new) /\ library' = Published(t, f)
          /\ cataloging' = cataloging \cup {SongOf[f]}
          /\ UNCHANGED <<catalog, missed, faults, acked, committed>>
      BY <2>5 DEF FinishFile, Complete, rest
    <3>2. t \in DOMAIN batches /\ f \in DOMAIN batches[t]
      BY <3>1 DEF Expects
    <3>3. DOMAIN library \subseteq DOMAIN library' /\ SongOf[f] \in DOMAIN library'
      BY <3>1, <3>2, TypeOfPublished
    <3>4. /\ DOMAIN batches' = DOMAIN batches
          /\ \A u \in DOMAIN batches : DOMAIN batches'[u] = DOMAIN batches[u]
          /\ \A u \in DOMAIN batches : \A g \in DOMAIN batches[u] :
               u # t \/ g # f => batches'[u][g] = batches[u][g]
      BY <3>1, <3>2, PutFacts
    <3>5. \A u \in DOMAIN batches' : \A g \in DOMAIN batches'[u] :
            batches'[u][g].done => g = f \/ batches[u][g].done
      BY <3>4
    <3>6. \A u \in DOMAIN batches' : \A g \in DOMAIN batches'[u] :
            batches'[u][g].done => SongOf[g] \in DOMAIN library'
      BY <3>3, <3>4, <3>5 DEF Arrived
    <3>7. FinishedIsCatalogued'
      BY <3>1, <3>4, <3>5 DEF Arrived
    <3> QED BY <3>1, <3>3, <3>6, <3>7 DEF Arrived
  <2>6. ASSUME NEW t \in Transfer, NEW f \in File, FinishFails(t, f) PROVE Arrived'
    <3> DEFINE new == [batches[t][f] EXCEPT !.open = FALSE]
    <3>1. /\ Expects(t, f) /\ Put(t, f, new)
          /\ library' = library \/ library' = Published(t, f)
          /\ UNCHANGED <<catalog, missed, cataloging, faults, acked, committed>>
      BY <2>6 DEF FinishFails, Complete, rest
    <3>2. t \in DOMAIN batches /\ f \in DOMAIN batches[t] /\ ~new.done
      BY <3>1 DEF Expects, TypeOK, UploadFile
    <3> HIDE DEF new
    <3>3. DOMAIN library \subseteq DOMAIN library'
      BY <3>1, <3>2, TypeOfPublished
    <3> QED BY <3>1, <3>2, <3>3, ArrivedAfterPut
  <2>7. ASSUME NEW t \in Transfer, NEW removed \in BOOLEAN, Commit(t, removed) PROVE Arrived'
    <3>1. /\ t \in DOMAIN batches /\ \A f \in DOMAIN batches[t] : batches[t][f].done
          /\ Without(t) /\ committed' = committed \cup {SongOf[f] : f \in DOMAIN batches[t]}
          /\ UNCHANGED <<library, catalog, missed, cataloging, faults, acked>>
      BY <2>7 DEF Commit
    <3>2. Shrinks
      BY <3>1, WithoutFacts
    <3>3. committed' \subseteq DOMAIN library
      BY <3>1 DEF Arrived
    <3> QED BY <3>1, <3>2, <3>3 DEF Arrived, Shrinks
  <2>8. ASSUME NEW t \in Transfer, NEW removed \in BOOLEAN, Abort(t, removed) PROVE Arrived'
    BY <2>0, <2>8, WithoutFacts DEF Abort
  <2>9. ASSUME NEW song \in Song, CatalogFile(song) \/ CatalogFails(song) PROVE Arrived'
    BY <2>9 DEF CatalogFile, CatalogFails, rest, Arrived
  <2>10. CASE RevokeAll
    BY <2>0, <2>10, NoBatches DEF RevokeAll
  <2>11. ASSUME NEW found \in SUBSET DOMAIN library, Scan(found) PROVE Arrived'
    BY <2>11 DEF Scan, rest, Arrived
  <2>12. CASE Crash
    <3>1. DOMAIN batches' = {}
      BY <2>12, NoBatches DEF Crash
    <3> QED BY <2>12, <3>1 DEF Crash, rest, Arrived
  <2>13. CASE Restart
    BY <2>0, <2>13 DEF Restart
  <2>14. CASE UNCHANGED vars
    BY <2>0, <2>14 DEF vars
  <2> QED
    BY <2>1, <2>2, <2>3, <2>4, <2>5, <2>6, <2>7, <2>8, <2>9, <2>10, <2>11, <2>12, <2>13, <2>14
    DEF Next
<1> QED BY <1>1, <1>2, TypeCorrect, PTL DEF Spec

\* The invariant UploadsAreKept: what was acknowledged, committed or only finished stays in
\* the library, and stays listed, but for what scans of other folders have left out since.
THEOREM FinishedUploadsAreKept == Spec => []UploadsAreKept
<1>1. Arrived => UploadsAreKept
  BY DEF Arrived
<1> QED BY <1>1, ArrivedInvariant, PTL
=============================================================================
