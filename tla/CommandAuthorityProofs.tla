------------------------ MODULE CommandAuthorityProofs ------------------------
(***************************************************************************)
(* Proofs about CommandAuthority, for any number of commands and clients   *)
(* and any size of the command cache.                                      *)
(***************************************************************************)
EXTENDS CommandAuthority, SequenceTheorems, TLAPS

\* A sequence without its first n elements.
LEMMA DropOldest ==
    ASSUME NEW S, NEW s \in Seq(S), NEW n \in 0..Len(s)
    PROVE  /\ SubSeq(s, n + 1, Len(s)) \in Seq(S)
           /\ Len(SubSeq(s, n + 1, Len(s))) = Len(s) - n
           /\ \A i \in 1..(Len(s) - n) : SubSeq(s, n + 1, Len(s))[i] = s[i + n]
<1>1. Len(s) \in Nat /\ n + 1 \in Int /\ \A i \in (n + 1)..Len(s) : s[i] \in S
  OBVIOUS
<1>2. /\ SubSeq(s, n + 1, Len(s)) \in Seq(S)
      /\ Len(SubSeq(s, n + 1, Len(s))) = IF n + 1 <= Len(s) THEN Len(s) - (n + 1) + 1 ELSE 0
      /\ \A i \in 1..(Len(s) - (n + 1) + 1) :
           SubSeq(s, n + 1, Len(s))[i] = s[(n + 1) + i - 1]
  BY <1>1, SubSeqProperties
<1>3. \A i \in 1..(Len(s) - n) : i \in 1..(Len(s) - (n + 1) + 1) /\ (n + 1) + i - 1 = i + n
  BY <1>1
<1> QED BY <1>1, <1>2, <1>3

\* Types also of the blob on disk: its cache is bounded as well.
WellTyped == TypeOK /\ Len(disk.commands) <= MaxCache

\* The cache after an accepted command: no longer than allowed, and every entry
\* is an old one or the new one.
LEMMA RememberFacts ==
    ASSUME WellTyped, NEW id \in Command, NEW revision \in Nat
    PROVE  /\ Remember(id, revision) \in Seq(CacheEntry)
           /\ Len(Remember(id, revision)) <= MaxCache
           /\ \A i \in DOMAIN Remember(id, revision) :
                \/ Remember(id, revision)[i].id = id
                \/ \E k \in DOMAIN memory.commands :
                     memory.commands[k] = Remember(id, revision)[i]
<1> DEFINE entry == [id |-> id, revision |-> revision]
           longer == Append(memory.commands, entry)
           excess == IF Len(longer) > MaxCache THEN Len(longer) - MaxCache ELSE 0
           kept == SubSeq(longer, excess + 1, Len(longer))
<1>1. memory.commands \in Seq(CacheEntry) /\ Len(memory.commands) \in Nat
  BY DEF WellTyped, TypeOK, StoredState
<1>2. entry \in CacheEntry
  BY DEF CacheEntry
<1>3. longer \in Seq(CacheEntry) /\ Len(longer) = Len(memory.commands) + 1
  BY <1>1, <1>2
<1>4. MaxCache \in Nat \ {0} /\ excess \in 0..Len(longer)
  BY <1>1, <1>3, AuthorityAssumption
<1> HIDE DEF longer, excess
<1>5. /\ kept \in Seq(CacheEntry) /\ Len(kept) = Len(longer) - excess
      /\ \A i \in 1..(Len(longer) - excess) : kept[i] = longer[i + excess]
  BY <1>3, <1>4, DropOldest
<1>6. Len(kept) <= MaxCache
  BY <1>1, <1>3, <1>4, <1>5 DEF excess
<1>7. \A k \in DOMAIN longer :
        longer[k] = entry \/ (k \in DOMAIN memory.commands /\ memory.commands[k] = longer[k])
  BY <1>1, <1>2, <1>3 DEF longer
<1>8. Remember(id, revision) = kept
  BY DEF Remember, longer, excess
<1> HIDE DEF kept, entry
<1>9. \A i \in DOMAIN kept : kept[i] = longer[i + excess] /\ i + excess \in DOMAIN longer
  <2>1. Len(longer) \in Nat /\ DOMAIN longer = 1..Len(longer)
    BY <1>3
  <2>2. excess \in Nat /\ excess <= Len(longer)
    BY <1>4, <2>1
  <2>3. DOMAIN kept = 1..(Len(longer) - excess)
    BY <1>5, <2>1, <2>2
  <2>4. \A i \in 1..(Len(longer) - excess) : i + excess \in 1..Len(longer)
    BY <2>1, <2>2
  <2> QED BY <1>5, <2>1, <2>3, <2>4
<1>10. \A i \in DOMAIN kept :
        kept[i].id = id \/ \E k \in DOMAIN memory.commands : memory.commands[k] = kept[i]
  BY <1>7, <1>9 DEF entry
<1> QED BY <1>5, <1>6, <1>8, <1>10

\* The state after an accepted command.
LEMMA AppliedFacts ==
    ASSUME WellTyped, NEW r \in Request
    PROVE  /\ Applied(r) \in StoredState
           /\ Len(Applied(r).commands) <= MaxCache
           /\ Applied(r).commands = Remember(r.id, memory.revision + 1)
           /\ Applied(r).revision = memory.revision + 1
           /\ Applied(r).changes = Append(memory.changes, r)
<1>1. r.id \in Command /\ memory.revision \in Nat /\ memory.changes \in Seq(Request)
  BY DEF WellTyped, TypeOK, Request, StoredState
<1> QED BY <1>1, RememberFacts DEF Applied, StoredState

\* Stronger form of TypeOK that is inductive.
THEOREM WellTypedInvariant == Spec => []WellTyped
<1>1. Init => WellTyped
  BY AuthorityAssumption DEF Init, WellTyped, TypeOK, Empty, StoredState
<1>2. WellTyped /\ [Next]_vars => WellTyped'
  <2> SUFFICES ASSUME WellTyped, [Next]_vars PROVE WellTyped'
    OBVIOUS
  <2>1. ASSUME NEW id \in Command, Send(id) PROVE WellTyped'
    <3>1. memory.changes \in Seq(Request) /\ memory.revision \in Nat
      BY DEF WellTyped, TypeOK, StoredState
    <3>2. Ids(memory.changes) \in Seq(Command)
      <4>1. Ids(memory.changes) \in [1..Len(memory.changes) -> Command]
        <5>1. DOMAIN memory.changes = 1..Len(memory.changes)
          BY <3>1
        <5>2. \A i \in DOMAIN memory.changes : memory.changes[i] \in Request
          BY <3>1
        <5>3. \A i \in DOMAIN memory.changes : memory.changes[i].id \in Command
          BY <5>2 DEF Request
        <5> QED BY <5>1, <5>3 DEF Ids
      <4> QED BY <3>1, <4>1, SeqDef
    <3> QED BY <2>1, <3>1, <3>2 DEF Send, WellTyped, TypeOK, Request
  <2>2. ASSUME NEW r \in sent, Replay(r) PROVE WellTyped'
    <3>1. r \in Request
      BY DEF WellTyped, TypeOK
    <3>2. PICK i \in DOMAIN memory.commands :
            Answer(r.id, TRUE, memory.commands[i].revision)
      BY <2>2 DEF Replay
    <3>3. memory.commands[i] \in CacheEntry
      BY <3>2 DEF WellTyped, TypeOK, StoredState
    <3>4. [id |-> r.id, ok |-> TRUE, revision |-> memory.commands[i].revision] \in Reply
      BY <3>1, <3>3 DEF Reply, CacheEntry, Request
    <3> QED BY <2>2, <3>2, <3>4 DEF Replay, Answer, WellTyped, TypeOK
  <2>3. ASSUME NEW r \in sent, Refuse(r) PROVE WellTyped'
    <3>1. [id |-> r.id, ok |-> FALSE, revision |-> 0] \in Reply
      BY DEF WellTyped, TypeOK, Request, Reply
    <3> QED BY <2>3, <3>1 DEF Refuse, Answer, WellTyped, TypeOK
  <2>4. ASSUME NEW r \in sent, CrashInEdit(r) PROVE WellTyped'
    BY <2>4 DEF CrashInEdit, WellTyped, TypeOK, Request
  <2>5. ASSUME NEW r \in sent, NEW saved \in BOOLEAN, NEW heard \in BOOLEAN,
               Execute(r, saved, heard)
        PROVE  WellTyped'
    <3>1. r \in Request /\ r.id \in Command
      BY DEF WellTyped, TypeOK, Request
    <3>2. memory' \in StoredState /\ Len(memory'.commands) <= MaxCache
      BY <2>5, <3>1, AppliedFacts DEF Execute
    <3>3. disk' \in StoredState /\ Len(disk'.commands) <= MaxCache
      BY <2>5, <3>2 DEF Execute, Persist, WellTyped, TypeOK
    <3>4. replies' \in SUBSET Reply
      <4>1. memory'.revision \in Nat
        BY <3>2 DEF StoredState
      <4> QED BY <2>5, <3>1, <4>1 DEF Execute, Answer, WellTyped, TypeOK, Reply
    <3>5. edited' \in SUBSET Command
      BY <2>5, <3>1 DEF Execute, WellTyped, TypeOK
    <3> QED BY <2>5, <3>2, <3>3, <3>4, <3>5 DEF Execute, WellTyped, TypeOK
  <2>6. ASSUME NEW saved \in BOOLEAN, UpdateCatalog(saved) PROVE WellTyped'
    <3>1. memory \in StoredState /\ Len(memory.commands) <= MaxCache
      BY DEF WellTyped, TypeOK
    <3>2. memory' \in StoredState /\ memory'.commands = memory.commands
      BY <2>6, <3>1 DEF UpdateCatalog, StoredState
    <3>3. disk' \in StoredState /\ Len(disk'.commands) <= MaxCache
      BY <2>6, <3>1, <3>2 DEF UpdateCatalog, Persist, WellTyped, TypeOK
    <3> QED BY <2>6, <3>1, <3>2, <3>3 DEF UpdateCatalog, WellTyped, TypeOK
  <2>7. CASE Crash
    BY <2>7 DEF Crash, WellTyped, TypeOK
  <2>8. CASE Restart
    BY <2>8 DEF Restart, WellTyped, TypeOK
  <2>9. CASE UNCHANGED vars
    BY <2>9 DEF vars, WellTyped, TypeOK
  <2> QED BY <2>1, <2>2, <2>3, <2>4, <2>5, <2>6, <2>7, <2>8, <2>9 DEF Next
<1> QED BY <1>1, <1>2, PTL DEF Spec

\* The invariant TypeOK: in particular the cache is never longer than MaxCache.
THEOREM TypeCorrect == Spec => []TypeOK
<1>1. WellTyped => TypeOK
  BY DEF WellTyped
<1> QED BY <1>1, WellTypedInvariant, PTL

-----------------------------------------------------------------------------
(* Sequences of changes. *)

\* The ids of a sequence of changes.
LEMMA IdsFacts ==
    ASSUME NEW s \in Seq(Request)
    PROVE  /\ Ids(s) \in Seq(Command)
           /\ Len(Ids(s)) = Len(s)
           /\ \A i \in 1..Len(s) : Ids(s)[i] = s[i].id
<1>1. DOMAIN s = 1..Len(s) /\ \A i \in DOMAIN s : s[i] \in Request
  OBVIOUS
<1>2. Ids(s) \in [1..Len(s) -> Command]
  BY <1>1 DEF Ids, Request
<1>3. Ids(s) \in Seq(Command)
  BY <1>2, SeqDef
<1>4. DOMAIN Ids(s) = 1..Len(s) /\ \A i \in 1..Len(s) : Ids(s)[i] = s[i].id
  BY <1>1 DEF Ids
<1> QED BY <1>3, <1>4, LenProperties

\* A change appended to a sequence, entry by entry.
LEMMA AppendFacts ==
    ASSUME NEW s \in Seq(Request), NEW r \in Request
    PROVE  /\ Append(s, r) \in Seq(Request)
           /\ Len(Append(s, r)) = Len(s) + 1
           /\ DOMAIN Append(s, r) = 1..(Len(s) + 1)
           /\ DOMAIN s = 1..Len(s)
           /\ \A i \in 1..Len(s) : Append(s, r)[i] = s[i]
           /\ Append(s, r)[Len(s) + 1] = r
OBVIOUS

\* A change that is appended leaves the ids in front of every change as they were,
\* and finds all the earlier ids in front of itself.
LEMMA PrefixOfIds ==
    ASSUME NEW s \in Seq(Request), NEW r \in Request, NEW i \in 1..(Len(s) + 1)
    PROVE  SubSeq(Ids(Append(s, r)), 1, i - 1) = SubSeq(Ids(s), 1, i - 1)
<1> DEFINE a == Ids(Append(s, r))
           b == Ids(s)
<1>1. a \in Seq(Command) /\ b \in Seq(Command) /\ Len(s) \in Nat
      /\ Len(a) = Len(s) + 1 /\ Len(b) = Len(s)
  <2>1. Append(s, r) \in Seq(Request) /\ Len(Append(s, r)) = Len(s) + 1 /\ Len(s) \in Nat
    BY AppendFacts
  <2>2. Ids(Append(s, r)) \in Seq(Command) /\ Len(Ids(Append(s, r))) = Len(Append(s, r))
    BY <2>1, IdsFacts
  <2>3. Ids(s) \in Seq(Command) /\ Len(Ids(s)) = Len(s)
    BY IdsFacts
  <2> QED BY <2>1, <2>2, <2>3
<1>2. \A k \in 1..(i - 1) : k \in 1..Len(s) /\ a[k] = b[k] /\ b[k] \in Command
  <2> TAKE k \in 1..(i - 1)
  <2>1. k \in 1..Len(s) /\ k \in 1..(Len(s) + 1)
    BY <1>1
  <2>2. a[k] = Append(s, r)[k].id /\ b[k] = s[k].id
    BY <2>1, IdsFacts, AppendFacts
  <2>3. Append(s, r)[k] = s[k]
    BY <2>1, AppendFacts
  <2> QED BY <1>1, <2>1, <2>2, <2>3, ElementOfSeq
<1> HIDE DEF a, b
<1>3. /\ SubSeq(a, 1, i - 1) \in Seq(Command)
      /\ Len(SubSeq(a, 1, i - 1)) = IF 1 <= i - 1 THEN (i - 1) - 1 + 1 ELSE 0
      /\ \A k \in 1..((i - 1) - 1 + 1) : SubSeq(a, 1, i - 1)[k] = a[1 + k - 1]
  BY <1>1, <1>2, SubSeqProperties
<1>4. /\ SubSeq(b, 1, i - 1) \in Seq(Command)
      /\ Len(SubSeq(b, 1, i - 1)) = IF 1 <= i - 1 THEN (i - 1) - 1 + 1 ELSE 0
      /\ \A k \in 1..((i - 1) - 1 + 1) : SubSeq(b, 1, i - 1)[k] = b[1 + k - 1]
  BY <1>1, <1>2, SubSeqProperties
<1>5. Len(SubSeq(a, 1, i - 1)) = Len(SubSeq(b, 1, i - 1))
  BY <1>3, <1>4
<1>6. \A k \in 1..Len(SubSeq(a, 1, i - 1)) : SubSeq(a, 1, i - 1)[k] = SubSeq(b, 1, i - 1)[k]
  <2> TAKE k \in 1..Len(SubSeq(a, 1, i - 1))
  <2>1. k \in 1..(i - 1) /\ k \in 1..((i - 1) - 1 + 1) /\ 1 + k - 1 = k
    BY <1>1, <1>3
  <2> QED BY <1>2, <1>3, <1>4, <2>1
<1>7. SubSeq(a, 1, i - 1) = SubSeq(b, 1, i - 1)
  BY <1>3, <1>4, <1>5, <1>6, SeqEqual
<1> QED BY <1>7 DEF a, b

-----------------------------------------------------------------------------
(* Without storage faults: what a revision number stands for. *)

\* The state is saved as it is; a request on its way names no later revision, and
\* the current revision only with the current content; an applied request named an
\* earlier revision.
RevisionsNameContent ==
    /\ memory = disk
    /\ \A r \in sent : r.expected # None =>
         /\ r.expected <= memory.revision
         /\ r.expected = memory.revision => r.seen = Ids(memory.changes)
    /\ \A i \in DOMAIN memory.changes :
         memory.changes[i].expected # None => memory.changes[i].expected < memory.revision

\* The inductive invariant of the two theorems below.
Ordered == RevisionsNameContent /\ AppliedToSeenContent /\ LocalCommandWins

\* An accepted command keeps Ordered: the new change named the revision it was
\* applied to, or none, or it is a local player command.
LEMMA ExecuteKeepsOrder ==
    ASSUME ~faulty, WellTyped, Ordered,
           NEW r \in sent, NEW saved \in BOOLEAN, NEW heard \in BOOLEAN,
           Execute(r, saved, heard)
    PROVE  Ordered'
<1> DEFINE old == memory.changes
           new == memory'.changes
           n == Len(old) + 1
<1>1. /\ r \in Request /\ old \in Seq(Request) /\ memory.revision \in Nat
      /\ Len(old) \in Nat
  BY DEF WellTyped, TypeOK, StoredState
<1>2. memory'.revision = memory.revision + 1 /\ new = Append(old, r)
  BY <1>1, AppliedFacts DEF Execute
<1>3. /\ DOMAIN new = 1..n /\ DOMAIN old = 1..(n - 1)
      /\ \A i \in 1..(n - 1) : new[i] = old[i] /\ old[i] \in Request
      /\ new[n] = r
  BY <1>1, <1>2, AppendFacts
<1>4. r.expected # None => r.expected \in Nat /\ r.expected <= memory.revision
  BY <1>1 DEF Request, Ordered, RevisionsNameContent
<1>5. r.expected # None /\ ~HasLocalPlayerPriority(r.id) =>
        r.expected = memory.revision /\ r.seen = Ids(old)
  BY DEF Execute, Accepts, Stale, Ordered, RevisionsNameContent
<1>6. \A i \in 1..n : SubSeq(Ids(new), 1, i - 1) = SubSeq(Ids(old), 1, i - 1)
  BY <1>1, <1>2, PrefixOfIds
<1>7. \A i \in 1..(n - 1) : old[i].expected # None =>
        old[i].expected \in Nat /\ old[i].expected < memory.revision
  BY <1>3 DEF Ordered, RevisionsNameContent, Request
<1> HIDE DEF n
<1>8. RevisionsNameContent'
  <2>1. memory' = disk' /\ sent' = sent
    BY DEF Execute, Persist
  <2>2. \A q \in sent : q.expected # None =>
          q.expected \in Nat /\ q.expected <= memory.revision
    BY DEF Ordered, RevisionsNameContent, WellTyped, TypeOK, Request
  <2>3. \A q \in sent : q.expected # None =>
          q.expected <= memory.revision + 1 /\ q.expected # memory.revision + 1
    BY <1>1, <2>2
  <2>4. \A i \in 1..n : new[i].expected # None => new[i].expected < memory.revision + 1
    <3> TAKE i \in 1..n
    <3>1. CASE i = n
      BY <1>1, <1>3, <1>4, <3>1
    <3>2. CASE i # n
      <4>1. i \in 1..(n - 1)
        BY <1>1, <3>2 DEF n
      <4> QED BY <1>1, <1>3, <1>7, <4>1
    <3> QED BY <3>1, <3>2
  <2> QED BY <1>2, <1>3, <2>1, <2>3, <2>4 DEF RevisionsNameContent
<1>9. AppliedToSeenContent'
  <2> SUFFICES ASSUME NEW i \in 1..n, new[i].expected # None,
                      ~HasLocalPlayerPriority(new[i].id)
               PROVE  new[i].seen = SubSeq(Ids(new), 1, i - 1)
    BY <1>3 DEF AppliedToSeenContent, HasLocalPlayerPriority
  <2>1. CASE i = n
    <3>1. new[i].seen = Ids(old)
      BY <1>3, <1>5, <2>1
    <3>2. SubSeq(Ids(old), 1, n - 1) = Ids(old)
      <4>1. n - 1 = Len(Ids(old)) /\ Ids(old) \in Seq(Command)
        BY <1>1, IdsFacts DEF n
      <4> QED BY <4>1, SubSeqFull
    <3> QED BY <1>6, <2>1, <3>1, <3>2
  <2>2. CASE i # n
    <3>1. i \in 1..(n - 1)
      BY <1>1, <2>2 DEF n
    <3>2. old[i].seen = SubSeq(Ids(old), 1, i - 1)
      BY <1>3, <3>1 DEF Ordered, AppliedToSeenContent
    <3> QED BY <1>3, <1>6, <3>1, <3>2
  <2> QED BY <2>1, <2>2
<1>10. LocalCommandWins'
  <2> SUFFICES ASSUME NEW i \in 1..n, NEW j \in 1..n,
                      HasLocalPlayerPriority(new[i].id), RoleOf[new[j].id] = "controller",
                      new[i].expected # None, new[i].expected = new[j].expected
               PROVE  j < i
    BY <1>3 DEF LocalCommandWins, HasLocalPlayerPriority
  <2>1. i # j
    BY DEF HasLocalPlayerPriority
  <2>2. CASE i = n
    BY <1>1, <2>1, <2>2 DEF n
  <2>3. CASE i # n /\ j # n
    <3>1. i \in 1..(n - 1) /\ j \in 1..(n - 1)
      BY <1>1, <2>3 DEF n
    <3> QED BY <1>3, <3>1 DEF Ordered, LocalCommandWins
  <2>4. CASE i # n /\ j = n
    <3>1. i \in 1..(n - 1)
      BY <1>1, <2>4 DEF n
    <3>2. old[i].expected \in Nat /\ old[i].expected < memory.revision
      BY <1>3, <1>7, <3>1
    <3>3. r.expected = memory.revision
      <4>1. ~HasLocalPlayerPriority(r.id)
        BY <1>3, <2>4 DEF HasLocalPlayerPriority
      <4> QED BY <1>3, <1>5, <2>4, <4>1
    <3> QED BY <1>1, <1>3, <2>4, <3>1, <3>2, <3>3
  <2> QED BY <2>2, <2>3, <2>4
<1> QED BY <1>8, <1>9, <1>10 DEF Ordered

\* Whether saves may fail does not change.
LEMMA SteadyStorage ==
    ASSUME [Next]_vars
    PROVE  faulty' = faulty
BY DEF Next, vars, Send, Replay, Refuse, CrashInEdit, Execute, UpdateCatalog, Crash, Restart

\* Ordered holds throughout when no save fails.
THEOREM OrderedInvariant == Spec => [](~faulty => Ordered)
<1>1. Init => Ordered
  BY DEF Init, Ordered, RevisionsNameContent, AppliedToSeenContent, LocalCommandWins, Empty
<1>2. WellTyped /\ (~faulty => Ordered) /\ [Next]_vars => (~faulty => Ordered)'
  <2> SUFFICES ASSUME WellTyped, ~faulty => Ordered, [Next]_vars, ~faulty' PROVE Ordered'
    OBVIOUS
  <2>0. ~faulty /\ Ordered
    BY SteadyStorage
  <2> USE <2>0 DEF Ordered
  <2>1. ASSUME memory' = memory, disk' = disk, sent' = sent PROVE Ordered'
    BY <2>1 DEF RevisionsNameContent, AppliedToSeenContent, LocalCommandWins
  <2>2. ASSUME NEW id \in Command, Send(id) PROVE Ordered'
    <3>1. memory.revision \in Nat
      BY DEF WellTyped, TypeOK, StoredState
    <3>2. memory' = memory /\ disk' = disk
      BY <2>2 DEF Send
    <3>3. AppliedToSeenContent' /\ LocalCommandWins'
      BY <3>2 DEF AppliedToSeenContent, LocalCommandWins
    <3>4. \A r \in sent' : r \in sent \/ r.expected = None
            \/ (r.expected = memory.revision /\ r.seen = Ids(memory.changes))
      BY <2>2 DEF Send
    <3>5. RevisionsNameContent'
      BY <3>1, <3>2, <3>4 DEF RevisionsNameContent
    <3> QED BY <3>3, <3>5
  <2>3. ASSUME NEW r \in sent, Replay(r) \/ Refuse(r) \/ CrashInEdit(r) PROVE Ordered'
    BY <2>1, <2>3 DEF Replay, Refuse, CrashInEdit
  <2>4. ASSUME NEW r \in sent, NEW saved \in BOOLEAN, NEW heard \in BOOLEAN,
               Execute(r, saved, heard)
        PROVE  Ordered'
    BY <2>4, ExecuteKeepsOrder
  <2>5. ASSUME NEW saved \in BOOLEAN, UpdateCatalog(saved) PROVE Ordered'
    <3>1. memory.revision \in Nat
      BY DEF WellTyped, TypeOK, StoredState
    <3>2. /\ memory'.revision = memory.revision + 1
          /\ memory'.changes = memory.changes
          /\ memory' = disk' /\ sent' = sent
      BY <2>5 DEF UpdateCatalog, Persist, WellTyped, TypeOK, StoredState
    <3>3. AppliedToSeenContent' /\ LocalCommandWins'
      BY <3>2 DEF AppliedToSeenContent, LocalCommandWins
    <3>4. \A r \in sent : r.expected # None =>
            r.expected \in Nat /\ r.expected <= memory.revision
      BY DEF RevisionsNameContent, WellTyped, TypeOK, Request
    <3>5. \A r \in sent : r.expected # None =>
            r.expected <= memory.revision + 1 /\ r.expected # memory.revision + 1
      BY <3>1, <3>4
    <3>6. \A i \in DOMAIN memory.changes : memory.changes[i].expected # None =>
            memory.changes[i].expected < memory.revision + 1
      <4>1. \A i \in DOMAIN memory.changes : memory.changes[i] \in Request
        BY DEF WellTyped, TypeOK, StoredState
      <4>2. \A i \in DOMAIN memory.changes : memory.changes[i].expected # None =>
              memory.changes[i].expected \in Nat
              /\ memory.changes[i].expected < memory.revision
        BY <4>1 DEF RevisionsNameContent, Request
      <4> QED BY <3>1, <4>2
    <3>7. RevisionsNameContent'
      BY <3>2, <3>5, <3>6 DEF RevisionsNameContent
    <3> QED BY <3>3, <3>7
  <2>6. CASE Crash
    BY <2>1, <2>6 DEF Crash
  <2>7. CASE Restart
    BY <2>1, <2>7 DEF Restart, RevisionsNameContent
  <2>8. CASE UNCHANGED vars
    BY <2>1, <2>8 DEF vars
  <2> QED BY <2>2, <2>3, <2>4, <2>5, <2>6, <2>7, <2>8 DEF Next
<1> QED BY <1>1, <1>2, WellTypedInvariant, PTL DEF Spec

\* The invariant AppliedToSeenContent: a command that names a revision is applied to
\* exactly the content that revision stood for, local player commands excepted.
THEOREM RevisionsProtectContent == Spec => []AppliedToSeenContent
<1>1. (~faulty => Ordered) => AppliedToSeenContent
  BY DEF Ordered, AppliedToSeenContent
<1> QED BY <1>1, OrderedInvariant, PTL

\* The invariant LocalCommandWins: of a laptop player command and a controller
\* command made from one revision, the laptop's is never overwritten.
THEOREM LaptopWinsTheRace == Spec => []LocalCommandWins
<1>1. (~faulty => Ordered) => LocalCommandWins
  BY DEF Ordered, LocalCommandWins
<1> QED BY <1>1, OrderedInvariant, PTL

-----------------------------------------------------------------------------
(* What an answer means. *)

\* Every remembered id is that of a change, and so is every id answered "applied".
AnswersAreChanges ==
    /\ \A i \in DOMAIN memory.commands : \E k \in DOMAIN memory.changes :
         memory.changes[k].id = memory.commands[i].id
    /\ \A q \in replies : q.ok =>
         \E k \in DOMAIN memory.changes : memory.changes[k].id = q.id

\* AnswersAreChanges holds throughout when no save fails.
THEOREM AnswersAreChangesInvariant == Spec => [](~faulty => AnswersAreChanges)
<1>1. Init => AnswersAreChanges
  BY DEF Init, AnswersAreChanges, Empty
<1>2. /\ WellTyped /\ (~faulty => Ordered) /\ (~faulty => AnswersAreChanges)
      /\ [Next]_vars
      => (~faulty => AnswersAreChanges)'
  <2> SUFFICES ASSUME WellTyped, ~faulty => Ordered, ~faulty => AnswersAreChanges,
                      [Next]_vars, ~faulty'
               PROVE  AnswersAreChanges'
    OBVIOUS
  <2>0. Ordered /\ AnswersAreChanges
    BY SteadyStorage
  <2> USE <2>0
  <2>1. ASSUME memory' = memory, replies' = replies PROVE AnswersAreChanges'
    BY <2>1 DEF AnswersAreChanges
  <2>2. ASSUME NEW id \in Command, Send(id) PROVE AnswersAreChanges'
    BY <2>1, <2>2 DEF Send
  <2>3. ASSUME NEW r \in sent, Replay(r) PROVE AnswersAreChanges'
    <3>1. PICK i \in DOMAIN memory.commands :
            /\ memory.commands[i].id = r.id
            /\ Answer(r.id, TRUE, memory.commands[i].revision)
      BY <2>3 DEF Replay
    <3>2. \A q \in replies' : q.ok => q \in replies \/ q.id = r.id
      BY <3>1 DEF Answer
    <3> QED BY <2>3, <3>1, <3>2 DEF Replay, AnswersAreChanges
  <2>4. ASSUME NEW r \in sent, Refuse(r) PROVE AnswersAreChanges'
    <3>1. \A q \in replies' : q.ok => q \in replies
      BY <2>4 DEF Refuse, Answer
    <3> QED BY <2>4, <3>1 DEF Refuse, AnswersAreChanges
  <2>5. ASSUME NEW r \in sent, CrashInEdit(r) PROVE AnswersAreChanges'
    BY <2>1, <2>5 DEF CrashInEdit
  <2>6. ASSUME NEW r \in sent, NEW saved \in BOOLEAN, NEW heard \in BOOLEAN,
               Execute(r, saved, heard)
        PROVE  AnswersAreChanges'
    <3>1. /\ r \in Request /\ r.id \in Command
          /\ memory.changes \in Seq(Request) /\ memory.revision + 1 \in Nat
      BY DEF WellTyped, TypeOK, StoredState, Request
    <3>2. /\ memory'.changes = Append(memory.changes, r)
          /\ memory'.commands = Remember(r.id, memory.revision + 1)
      BY <2>6, <3>1, AppliedFacts DEF Execute
    <3>3. /\ \A k \in DOMAIN memory.changes :
                k \in DOMAIN memory'.changes /\ memory'.changes[k] = memory.changes[k]
          /\ \E k \in DOMAIN memory'.changes : memory'.changes[k].id = r.id
      <4>1. /\ DOMAIN memory'.changes = 1..(Len(memory.changes) + 1)
            /\ DOMAIN memory.changes = 1..Len(memory.changes)
            /\ Len(memory.changes) \in Nat
            /\ \A i \in 1..Len(memory.changes) : memory'.changes[i] = memory.changes[i]
            /\ memory'.changes[Len(memory.changes) + 1] = r
        BY <3>1, <3>2, AppendFacts
      <4> QED BY <4>1
    <3>4. \A i \in DOMAIN memory'.commands :
            \/ memory'.commands[i].id = r.id
            \/ \E k \in DOMAIN memory.commands : memory.commands[k] = memory'.commands[i]
      BY <3>1, <3>2, RememberFacts
    <3>5. \A q \in replies' : q.ok => q \in replies \/ q.id = r.id
      BY <2>6 DEF Execute, Answer
    <3>6. \A i \in DOMAIN memory'.commands : \E k \in DOMAIN memory'.changes :
            memory'.changes[k].id = memory'.commands[i].id
      BY <3>3, <3>4 DEF AnswersAreChanges
    <3>7. \A q \in replies' : q.ok =>
            \E k \in DOMAIN memory'.changes : memory'.changes[k].id = q.id
      BY <3>3, <3>5 DEF AnswersAreChanges
    <3> QED BY <3>6, <3>7 DEF AnswersAreChanges
  <2>7. ASSUME NEW saved \in BOOLEAN, UpdateCatalog(saved) PROVE AnswersAreChanges'
    <3>1. memory'.changes = memory.changes /\ memory'.commands = memory.commands
      BY <2>7 DEF UpdateCatalog, WellTyped, TypeOK, StoredState
    <3> QED BY <2>7, <3>1 DEF UpdateCatalog, AnswersAreChanges
  <2>8. CASE Crash
    BY <2>1, <2>8 DEF Crash
  <2>9. CASE Restart
    BY <2>1, <2>9 DEF Restart, Ordered, RevisionsNameContent
  <2>10. CASE UNCHANGED vars
    BY <2>1, <2>10 DEF vars
  <2> QED BY <2>2, <2>3, <2>4, <2>5, <2>6, <2>7, <2>8, <2>9, <2>10 DEF Next
<1> QED BY <1>1, <1>2, WellTypedInvariant, OrderedInvariant, PTL DEF Spec

\* The invariant AppliedMeansSaved: an answer "applied" is about a change that a
\* crash cannot take back, also when the answer came from the cache.
THEOREM AnswersAreDurable == Spec => []AppliedMeansSaved
<1>1. (~faulty => Ordered) /\ (~faulty => AnswersAreChanges) => AppliedMeansSaved
  BY DEF Ordered, RevisionsNameContent, AnswersAreChanges, AppliedMeansSaved
<1> QED BY <1>1, OrderedInvariant, AnswersAreChangesInvariant, PTL

-----------------------------------------------------------------------------
(* With storage faults: the cache is a window on the changes. *)

\* The cache holds the ids of the last changes, MaxCache of them or all.
IsWindow(s) ==
    LET size == Len(s.commands)
        from == Len(s.changes) - size
    IN  /\ size = IF Len(s.changes) < MaxCache THEN Len(s.changes) ELSE MaxCache
        /\ \A k \in 1..size : s.commands[k].id = s.changes[from + k].id

\* An id comes again only after MaxCache others.
Spaced(s) ==
    \A i, j \in DOMAIN s.changes :
        i < j /\ s.changes[i].id = s.changes[j].id => j - i > MaxCache

\* The new entry at the end, and the last of the old entries in front of it.
LEMMA RememberWindow ==
    ASSUME NEW id \in Command, NEW revision \in Nat,
           memory.commands \in Seq(CacheEntry), Len(memory.commands) <= MaxCache
    PROVE  LET old == memory.commands
               new == Remember(id, revision)
               excess == IF Len(old) < MaxCache THEN 0 ELSE 1
           IN  /\ Len(new) = Len(old) + 1 - excess
               /\ \A k \in 1..(Len(old) - excess) : new[k] = old[k + excess]
               /\ new[Len(old) + 1 - excess].id = id
<1> DEFINE old == memory.commands
           entry == [id |-> id, revision |-> revision]
           longer == Append(old, entry)
           drop == IF Len(longer) > MaxCache THEN Len(longer) - MaxCache ELSE 0
           excess == IF Len(old) < MaxCache THEN 0 ELSE 1
           kept == SubSeq(longer, drop + 1, Len(longer))
<1>1. Len(old) \in Nat /\ MaxCache \in Nat \ {0} /\ entry \in CacheEntry
  BY AuthorityAssumption DEF CacheEntry
<1>2. /\ longer \in Seq(CacheEntry) /\ Len(longer) = Len(old) + 1
      /\ \A k \in 1..Len(old) : longer[k] = old[k]
      /\ longer[Len(old) + 1] = entry
  BY <1>1, AppendProperties
<1> HIDE DEF longer
<1>3. /\ drop = excess /\ excess \in {0, 1} /\ excess <= Len(old)
      /\ excess \in 0..Len(longer)
  BY <1>1, <1>2
<1> HIDE DEF drop, excess
<1>4. /\ Len(kept) = Len(longer) - excess
      /\ \A k \in 1..(Len(longer) - excess) : kept[k] = longer[k + excess]
  BY <1>2, <1>3, DropOldest
<1>5. \A k \in 1..(Len(old) - excess) : kept[k] = old[k + excess]
  <2> TAKE k \in 1..(Len(old) - excess)
  <2>1. k \in 1..(Len(longer) - excess) /\ k + excess \in 1..Len(old)
    BY <1>1, <1>2, <1>3
  <2> QED BY <1>2, <1>4, <2>1
<1>6. kept[Len(old) + 1 - excess] = entry
  <2>1. /\ Len(old) + 1 - excess \in 1..(Len(longer) - excess)
        /\ (Len(old) + 1 - excess) + excess = Len(old) + 1
    BY <1>1, <1>2, <1>3
  <2> QED BY <1>2, <1>4, <2>1
<1>7. Remember(id, revision) = kept
  BY DEF Remember, longer, drop
<1> HIDE DEF kept
<1>8. Len(kept) = Len(old) + 1 - excess
  BY <1>1, <1>2, <1>3, <1>4
<1>9. kept[Len(old) + 1 - excess].id = id
  BY <1>6
<1> HIDE DEF entry
<1> QED BY <1>5, <1>7, <1>8, <1>9 DEF excess

\* An accepted command moves the window by one, and its id was not in it.
LEMMA AppliedKeepsWindow ==
    ASSUME WellTyped, NEW r \in Request, IsWindow(memory), Spaced(memory),
           ~Remembered(r.id)
    PROVE  IsWindow(Applied(r)) /\ Spaced(Applied(r))
<1> DEFINE old == memory.commands
           new == Applied(r).commands
           was == memory.changes
           now == Applied(r).changes
           size == Len(old)
           m == Len(was)
           excess == IF size < MaxCache THEN 0 ELSE 1
<1>1. /\ was \in Seq(Request) /\ old \in Seq(CacheEntry) /\ size <= MaxCache
      /\ r.id \in Command /\ memory.revision + 1 \in Nat
      /\ size \in Nat /\ m \in Nat /\ MaxCache \in Nat \ {0}
  BY AuthorityAssumption DEF WellTyped, TypeOK, StoredState, Request
<1>2. now = Append(was, r) /\ new = Remember(r.id, memory.revision + 1)
  BY AppliedFacts
<1>3. /\ Len(now) = m + 1 /\ DOMAIN now = 1..(m + 1)
      /\ \A k \in 1..m : now[k] = was[k]
      /\ now[m + 1] = r
  BY <1>1, <1>2, AppendFacts
<1>4. /\ Len(new) = size + 1 - excess
      /\ \A k \in 1..(size - excess) : new[k] = old[k + excess]
      /\ new[size + 1 - excess].id = r.id
  <2>1. /\ Len(Remember(r.id, memory.revision + 1)) = size + 1 - excess
        /\ \A k \in 1..(size - excess) :
             Remember(r.id, memory.revision + 1)[k] = old[k + excess]
        /\ Remember(r.id, memory.revision + 1)[size + 1 - excess].id = r.id
    BY <1>1, RememberWindow
  <2> QED BY <1>2, <2>1
<1>5. /\ size = IF m < MaxCache THEN m ELSE MaxCache
      /\ \A k \in 1..size : old[k].id = was[(m - size) + k].id
  BY DEF IsWindow
<1>6. DOMAIN old = 1..size /\ DOMAIN was = 1..m
  BY <1>1
<1>7. excess \in {0, 1} /\ (excess = 1 <=> size = MaxCache)
  BY <1>1
<1> HIDE DEF new, now, old, was, size, m, excess
<1>8. Len(new) = IF m + 1 < MaxCache THEN m + 1 ELSE MaxCache
  BY <1>1, <1>4, <1>5, <1>7
<1>9. \A k \in 1..Len(new) : new[k].id = now[((m + 1) - Len(new)) + k].id
  <2> SUFFICES ASSUME NEW k \in 1..Len(new)
               PROVE  new[k].id = now[((m + 1) - Len(new)) + k].id
    OBVIOUS
  <2>1. (m + 1) - Len(new) = (m - size) + excess /\ m - size \in Nat
    BY <1>1, <1>4, <1>5, <1>7
  <2>2. CASE k = Len(new)
    <3>1. ((m + 1) - Len(new)) + k = m + 1
      BY <1>1, <1>4, <1>7, <2>2
    <3> QED BY <1>3, <1>4, <2>2, <3>1
  <2>3. CASE k # Len(new)
    <3>1. k \in 1..(size - excess) /\ k + excess \in 1..size
      BY <1>1, <1>4, <1>7, <2>3
    <3>2. /\ ((m + 1) - Len(new)) + k = (m - size) + (k + excess)
          /\ (m - size) + (k + excess) \in 1..m
      BY <1>1, <1>4, <1>5, <1>7, <2>1, <3>1
    <3>3. new[k].id = was[(m - size) + (k + excess)].id
      BY <1>4, <1>5, <3>1
    <3> QED BY <1>3, <3>2, <3>3
  <2> QED BY <2>2, <2>3
<1>10. \A i \in 1..m : now[i].id = r.id => (m + 1) - i > MaxCache
  <2> SUFFICES ASSUME NEW i \in 1..m, now[i].id = r.id PROVE (m + 1) - i > MaxCache
    OBVIOUS
  <2>1. CASE i <= m - size
    BY <1>1, <1>5, <2>1
  <2>2. CASE i > m - size
    <3>1. i - (m - size) \in 1..size /\ (m - size) + (i - (m - size)) = i
      BY <1>1, <1>5, <2>2
    <3>2. old[i - (m - size)].id = r.id
      BY <1>3, <1>5, <3>1
    <3> QED BY <1>6, <3>1, <3>2 DEF Remembered, old
  <2> QED BY <1>1, <1>5, <2>1, <2>2
<1>11. Spaced(Applied(r))
  <2> SUFFICES ASSUME NEW i \in 1..(m + 1), NEW j \in 1..(m + 1), i < j,
                      now[i].id = now[j].id
               PROVE  j - i > MaxCache
    BY <1>3 DEF Spaced, now
  <2>1. i \in 1..m
    BY <1>1
  <2>2. CASE j = m + 1
    BY <1>3, <1>10, <2>1, <2>2
  <2>3. CASE j # m + 1
    <3>1. j \in 1..m
      BY <1>1, <2>3
    <3> QED BY <1>3, <1>6, <2>1, <3>1 DEF Spaced, was
  <2> QED BY <2>2, <2>3
<1>12. IsWindow(Applied(r))
  BY <1>3, <1>8, <1>9 DEF IsWindow, new, now
<1> QED BY <1>11, <1>12

\* What a catalog update changes in the state: the revision.
LEMMA UpdateFacts ==
    ASSUME WellTyped, NEW saved \in BOOLEAN, UpdateCatalog(saved)
    PROVE  /\ memory'.changes = memory.changes
           /\ memory'.commands = memory.commands
           /\ memory'.revision = memory.revision + 1
           /\ disk' = disk \/ disk' = memory'
           /\ ~faulty => disk' = memory'
<1>1. memory \in StoredState
  BY DEF WellTyped, TypeOK
<1>2. memory' = [memory EXCEPT !.revision = @ + 1] /\ Persist(saved)
  BY DEF UpdateCatalog
<1> QED BY <1>1, <1>2 DEF StoredState, Persist

\* What an accepted command changes.
LEMMA ExecuteFacts ==
    ASSUME WellTyped, NEW r \in sent, NEW saved \in BOOLEAN, NEW heard \in BOOLEAN,
           Execute(r, saved, heard)
    PROVE  /\ r \in Request /\ r.id \in Command
           /\ ~Remembered(r.id)
           /\ memory' = Applied(r)
           /\ memory'.changes = Append(memory.changes, r)
           /\ memory'.revision = memory.revision + 1
           /\ disk' = disk \/ disk' = memory'
           /\ ~faulty => saved /\ disk' = memory'
<1>1. r \in Request /\ r.id \in Command
  BY DEF WellTyped, TypeOK, Request
<1>2. memory' = Applied(r) /\ ~Remembered(r.id) /\ Persist(saved)
  BY DEF Execute, Accepts
<1>3. Applied(r).changes = Append(memory.changes, r) /\ Applied(r).revision = memory.revision + 1
  BY <1>1, AppliedFacts
<1> QED BY <1>1, <1>2, <1>3 DEF Persist

\* Both states have the window, and no id twice within it.
CacheIsWindow ==
    /\ IsWindow(memory) /\ Spaced(memory)
    /\ IsWindow(disk) /\ Spaced(disk)

\* CacheIsWindow holds throughout, whatever fails: the cache and the changes are
\* saved together and loaded together.
THEOREM CacheIsWindowInvariant == Spec => []CacheIsWindow
<1>1. Init => CacheIsWindow
  BY AuthorityAssumption DEF Init, CacheIsWindow, IsWindow, Spaced, Empty
<1>2. WellTyped /\ CacheIsWindow /\ [Next]_vars => CacheIsWindow'
  <2> SUFFICES ASSUME WellTyped, CacheIsWindow, [Next]_vars PROVE CacheIsWindow'
    OBVIOUS
  <2>1. ASSUME memory' = memory \/ memory' = disk, disk' = disk PROVE CacheIsWindow'
    BY <2>1 DEF CacheIsWindow, IsWindow, Spaced
  <2>2. ASSUME NEW id \in Command, Send(id) PROVE CacheIsWindow'
    BY <2>1, <2>2 DEF Send
  <2>3. ASSUME NEW r \in sent, Replay(r) \/ Refuse(r) \/ CrashInEdit(r) PROVE CacheIsWindow'
    BY <2>1, <2>3 DEF Replay, Refuse, CrashInEdit
  <2>4. ASSUME NEW r \in sent, NEW saved \in BOOLEAN, NEW heard \in BOOLEAN,
               Execute(r, saved, heard)
        PROVE  CacheIsWindow'
    <3>1. /\ r \in Request /\ ~Remembered(r.id) /\ memory' = Applied(r)
          /\ disk' = disk \/ disk' = memory'
      BY <2>4, ExecuteFacts
    <3>2. IsWindow(Applied(r)) /\ Spaced(Applied(r))
      BY <3>1, AppliedKeepsWindow DEF CacheIsWindow
    <3>3. IsWindow(memory)' /\ Spaced(memory)'
      BY <3>1, <3>2 DEF IsWindow, Spaced
    <3>4. IsWindow(disk)' /\ Spaced(disk)'
      BY <3>1, <3>3 DEF CacheIsWindow, IsWindow, Spaced
    <3> QED BY <3>3, <3>4 DEF CacheIsWindow
  <2>5. ASSUME NEW saved \in BOOLEAN, UpdateCatalog(saved) PROVE CacheIsWindow'
    <3>1. /\ memory'.changes = memory.changes /\ memory'.commands = memory.commands
          /\ disk' = disk \/ disk' = memory'
      BY <2>5, UpdateFacts
    <3>2. IsWindow(memory)' /\ Spaced(memory)'
      BY <3>1 DEF CacheIsWindow, IsWindow, Spaced
    <3>3. IsWindow(disk)' /\ Spaced(disk)'
      BY <3>1, <3>2 DEF CacheIsWindow, IsWindow, Spaced
    <3> QED BY <3>2, <3>3 DEF CacheIsWindow
  <2>6. CASE Crash
    BY <2>1, <2>6 DEF Crash
  <2>7. CASE Restart
    BY <2>1, <2>7 DEF Restart
  <2>8. CASE UNCHANGED vars
    BY <2>1, <2>8 DEF vars
  <2> QED BY <2>2, <2>3, <2>4, <2>5, <2>6, <2>7, <2>8 DEF Next
<1> QED BY <1>1, <1>2, WellTypedInvariant, PTL DEF Spec

\* The invariant AtMostOnce: a repeated delivery has no second effect while its id is
\* among the last MaxCache, through lost replies, failed saves, crashes and restarts.
THEOREM CommandsTakeEffectOnce == Spec => []AtMostOnce
<1>1. CacheIsWindow => AtMostOnce
  BY DEF CacheIsWindow, Spaced, AtMostOnce
<1> QED BY <1>1, CacheIsWindowInvariant, PTL

-----------------------------------------------------------------------------
(* The three places a change is in. *)

\* StorageKeepsOrder entry by entry, and the saved state's edits as well.
PlacesInOrder ==
    /\ up => /\ Len(disk.changes) <= Len(memory.changes)
             /\ \A k \in 1..Len(disk.changes) : disk.changes[k] = memory.changes[k]
             /\ disk.revision <= memory.revision
    /\ EditsAreInCatalog
    /\ \A k \in DOMAIN disk.changes :
         KindOf[disk.changes[k].id] = "edit" => disk.changes[k].id \in edited

\* PlacesInOrder holds throughout, whatever fails.
THEOREM PlacesInOrderInvariant == Spec => []PlacesInOrder
<1>1. Init => PlacesInOrder
  BY DEF Init, PlacesInOrder, EditsAreInCatalog, Empty
<1>2. WellTyped /\ PlacesInOrder /\ [Next]_vars => PlacesInOrder'
  <2> SUFFICES ASSUME WellTyped, PlacesInOrder, [Next]_vars PROVE PlacesInOrder'
    OBVIOUS
  <2>0. /\ memory.changes \in Seq(Request) /\ disk.changes \in Seq(Request)
        /\ memory.revision \in Nat /\ disk.revision \in Nat
        /\ Len(memory.changes) \in Nat /\ Len(disk.changes) \in Nat
        /\ DOMAIN memory.changes = 1..Len(memory.changes)
        /\ DOMAIN disk.changes = 1..Len(disk.changes)
    BY DEF WellTyped, TypeOK, StoredState
  <2>1. ASSUME memory' = memory, disk' = disk, edited \subseteq edited', up' => up
        PROVE  PlacesInOrder'
    BY <2>1 DEF PlacesInOrder, EditsAreInCatalog
  <2>2. ASSUME NEW id \in Command, Send(id) PROVE PlacesInOrder'
    BY <2>1, <2>2 DEF Send
  <2>3. ASSUME NEW r \in sent, Replay(r) \/ Refuse(r) \/ CrashInEdit(r) PROVE PlacesInOrder'
    BY <2>1, <2>3 DEF Replay, Refuse, CrashInEdit
  <2>4. ASSUME NEW r \in sent, NEW saved \in BOOLEAN, NEW heard \in BOOLEAN,
               Execute(r, saved, heard)
        PROVE  PlacesInOrder'
    <3>1. /\ r \in Request
          /\ memory'.changes = Append(memory.changes, r)
          /\ memory'.revision = memory.revision + 1
          /\ disk' = disk \/ disk' = memory'
      BY <2>4, ExecuteFacts
    <3>2. /\ Len(memory'.changes) = Len(memory.changes) + 1
          /\ DOMAIN memory'.changes = 1..(Len(memory.changes) + 1)
          /\ \A k \in 1..Len(memory.changes) : memory'.changes[k] = memory.changes[k]
          /\ memory'.changes[Len(memory.changes) + 1] = r
      BY <2>0, <3>1, AppendFacts
    <3>3. up /\ edited \subseteq edited' /\ (KindOf[r.id] = "edit" => r.id \in edited')
      BY <2>4 DEF Execute
    <3>4. EditsAreInCatalog'
      <4> SUFFICES ASSUME NEW k \in 1..(Len(memory.changes) + 1),
                          KindOf[memory'.changes[k].id] = "edit"
                   PROVE  memory'.changes[k].id \in edited'
        BY <3>2 DEF EditsAreInCatalog
      <4>1. CASE k = Len(memory.changes) + 1
        BY <3>2, <3>3, <4>1
      <4>2. CASE k # Len(memory.changes) + 1
        <5>1. k \in 1..Len(memory.changes)
          BY <2>0, <4>2
        <5> QED BY <2>0, <3>2, <3>3, <5>1 DEF PlacesInOrder, EditsAreInCatalog
      <4> QED BY <4>1, <4>2
    <3>5. CASE disk' = disk
      <4>1. /\ Len(disk.changes) <= Len(memory.changes)
            /\ disk.revision <= memory.revision
            /\ \A k \in 1..Len(disk.changes) : disk.changes[k] = memory.changes[k]
        BY <3>3 DEF PlacesInOrder
      <4>2. /\ Len(disk'.changes) <= Len(memory'.changes)
            /\ disk'.revision <= memory'.revision
        BY <2>0, <3>1, <3>2, <3>5, <4>1
      <4>3. \A k \in 1..Len(disk'.changes) : disk'.changes[k] = memory'.changes[k]
        BY <2>0, <3>2, <3>5, <4>1
      <4>4. \A k \in DOMAIN disk'.changes :
              KindOf[disk'.changes[k].id] = "edit" => disk'.changes[k].id \in edited'
        BY <3>3, <3>5 DEF PlacesInOrder
      <4> QED BY <3>4, <4>2, <4>3, <4>4 DEF PlacesInOrder
    <3>6. CASE disk' = memory'
      <4>1. disk'.revision <= memory'.revision /\ Len(disk'.changes) <= Len(memory'.changes)
        BY <2>0, <3>1, <3>2, <3>6
      <4> QED BY <3>4, <3>6, <4>1 DEF PlacesInOrder, EditsAreInCatalog
    <3> QED BY <3>1, <3>5, <3>6
  <2>5. ASSUME NEW saved \in BOOLEAN, UpdateCatalog(saved) PROVE PlacesInOrder'
    <3>1. /\ memory'.changes = memory.changes
          /\ memory'.revision = memory.revision + 1
          /\ disk' = disk \/ disk' = memory'
      BY <2>5, UpdateFacts
    <3>2. up /\ edited' = edited
      BY <2>5 DEF UpdateCatalog
    <3>3. disk'.revision <= memory'.revision
      BY <2>0, <3>1, <3>2 DEF PlacesInOrder
    <3>4. /\ Len(disk'.changes) <= Len(memory'.changes)
          /\ \A k \in 1..Len(disk'.changes) : disk'.changes[k] = memory'.changes[k]
      BY <2>0, <3>1, <3>2 DEF PlacesInOrder
    <3>5. EditsAreInCatalog'
      BY <3>1, <3>2 DEF PlacesInOrder, EditsAreInCatalog
    <3>6. \A k \in DOMAIN disk'.changes :
            KindOf[disk'.changes[k].id] = "edit" => disk'.changes[k].id \in edited'
      BY <3>1, <3>2 DEF PlacesInOrder, EditsAreInCatalog
    <3> QED BY <3>3, <3>4, <3>5, <3>6 DEF PlacesInOrder
  <2>6. CASE Crash
    BY <2>1, <2>6 DEF Crash
  <2>7. CASE Restart
    <3>1. memory' = disk /\ disk' = disk /\ edited' = edited
      BY <2>7 DEF Restart
    <3> QED BY <2>0, <3>1 DEF PlacesInOrder, EditsAreInCatalog
  <2>8. CASE UNCHANGED vars
    BY <2>1, <2>8 DEF vars
  <2> QED BY <2>2, <2>3, <2>4, <2>5, <2>6, <2>7, <2>8 DEF Next
<1> QED BY <1>1, <1>2, WellTypedInvariant, PTL DEF Spec

\* The invariant StorageKeepsOrder: the saved state is a prefix of the one in memory, and
\* the tracks table holds every edit of it, through failed saves and crashes.
THEOREM StorageIsInOrder == Spec => []StorageKeepsOrder
<1>1. WellTyped /\ PlacesInOrder => StorageKeepsOrder
  <2> SUFFICES ASSUME WellTyped, PlacesInOrder, up
               PROVE  disk.changes = SubSeq(memory.changes, 1, Len(disk.changes))
    BY DEF StorageKeepsOrder, SavedIsPrefix, PlacesInOrder
  <2> DEFINE saved == disk.changes
             all == memory.changes
  <2>1. /\ all \in Seq(Request) /\ saved \in Seq(Request)
        /\ Len(all) \in Nat /\ Len(saved) \in Nat
    BY DEF WellTyped, TypeOK, StoredState
  <2>2. Len(saved) <= Len(all) /\ \A k \in 1..Len(saved) : saved[k] = all[k]
    BY DEF PlacesInOrder
  <2> HIDE DEF saved, all
  <2>3. \A k \in 1..Len(saved) : all[k] \in Request
    BY <2>1, <2>2
  <2>4. /\ SubSeq(all, 1, Len(saved)) \in Seq(Request)
        /\ Len(SubSeq(all, 1, Len(saved))) = IF 1 <= Len(saved) THEN Len(saved) - 1 + 1 ELSE 0
        /\ \A k \in 1..(Len(saved) - 1 + 1) : SubSeq(all, 1, Len(saved))[k] = all[1 + k - 1]
    BY <2>1, <2>3, SubSeqProperties
  <2>5. Len(SubSeq(all, 1, Len(saved))) = Len(saved)
    BY <2>1, <2>4
  <2>6. \A k \in 1..Len(saved) : saved[k] = SubSeq(all, 1, Len(saved))[k]
    <3> TAKE k \in 1..Len(saved)
    <3>1. k \in 1..(Len(saved) - 1 + 1) /\ 1 + k - 1 = k
      BY <2>1
    <3> QED BY <2>2, <2>4, <3>1
  <2>7. saved = SubSeq(all, 1, Len(saved))
    BY <2>1, <2>4, <2>5, <2>6, SeqEqual
  <2> QED BY <2>7 DEF saved, all
<1> QED BY <1>1, WellTypedInvariant, PlacesInOrderInvariant, PTL

-----------------------------------------------------------------------------
(* The refinement of CommandLog. *)

\* The list and the acknowledgements that CommandLog sees.
SavedLog == IF faulty THEN <<>> ELSE Ids(disk.changes)
SavedAcks == IF faulty THEN {} ELSE {r.id : r \in {q \in replies : q.ok}}

\* While saves succeed, the ids the cache holds are those of the abstract window.
LEMMA WindowIsRemembered ==
    ASSUME WellTyped, ~faulty, Ordered, CacheIsWindow, NEW id \in Command
    PROVE  Remembered(id) <=> Saved!Remembered(id)
<1> DEFINE old == memory.commands
           was == memory.changes
           size == Len(old)
           m == Len(was)
<1>1. /\ was \in Seq(Request) /\ old \in Seq(CacheEntry)
      /\ size \in Nat /\ m \in Nat /\ MaxCache \in Nat \ {0}
      /\ DOMAIN old = 1..size /\ DOMAIN was = 1..m
  BY AuthorityAssumption DEF WellTyped, TypeOK, StoredState
<1>2. SavedLog = Ids(was)
  BY DEF SavedLog, Ordered, RevisionsNameContent
<1>3. /\ Len(SavedLog) = m /\ DOMAIN SavedLog = 1..m
      /\ \A i \in 1..m : SavedLog[i] = was[i].id
  BY <1>1, <1>2, IdsFacts DEF Ids
<1>4. /\ size = IF m < MaxCache THEN m ELSE MaxCache
      /\ \A k \in 1..size : old[k].id = was[(m - size) + k].id
  BY DEF CacheIsWindow, IsWindow
<1>5. Saved!Remembered(id) <=> \E i \in DOMAIN SavedLog : SavedLog[i] = id /\ i > Len(SavedLog) - MaxCache
  BY DEF Saved!Remembered, SavedLog
<1>6. Saved!Remembered(id) <=> \E i \in 1..m : was[i].id = id /\ i > m - MaxCache
  BY <1>3, <1>5
<1>7. Remembered(id) <=> \E k \in 1..size : old[k].id = id
  BY <1>1 DEF Remembered
<1> HIDE DEF old, was, size, m
<1>8. ASSUME NEW k \in 1..size, old[k].id = id
      PROVE  \E i \in 1..m : was[i].id = id /\ i > m - MaxCache
  <2>1. (m - size) + k \in 1..m /\ (m - size) + k > m - MaxCache
    BY <1>1, <1>4
  <2> QED BY <1>4, <1>8, <2>1
<1>9. ASSUME NEW i \in 1..m, was[i].id = id, i > m - MaxCache
      PROVE  \E k \in 1..size : old[k].id = id
  <2>1. i - (m - size) \in 1..size /\ (m - size) + (i - (m - size)) = i
    BY <1>1, <1>4, <1>9
  <2>2. old[i - (m - size)].id = was[i].id
    BY <1>4, <2>1
  <2> QED BY <1>9, <2>1, <2>2
<1> QED BY <1>6, <1>7, <1>8, <1>9

\* An accepted command is taken, with or without its acknowledgement.
LEMMA ExecuteIsTake ==
    ASSUME WellTyped, ~faulty, Ordered, CacheIsWindow, ~faulty', (memory = disk)',
           NEW r \in sent, NEW saved \in BOOLEAN, NEW heard \in BOOLEAN,
           Execute(r, saved, heard)
    PROVE  Saved!Take(r.id)
<1>1. /\ r \in Request /\ r.id \in Command /\ ~Remembered(r.id) /\ saved
      /\ memory'.changes = Append(memory.changes, r)
  BY ExecuteFacts
<1>2. ~Saved!Remembered(r.id)
  BY <1>1, WindowIsRemembered
<1>3. SavedLog' = Append(SavedLog, r.id)
  <2> DEFINE was == memory.changes
             now == memory'.changes
  <2>1. was \in Seq(Request) /\ Len(was) \in Nat
    BY DEF WellTyped, TypeOK, StoredState
  <2>2. SavedLog = Ids(was) /\ SavedLog' = Ids(now)
    BY DEF SavedLog, Ordered, RevisionsNameContent, Ids
  <2>3. /\ now \in Seq(Request) /\ Len(now) = Len(was) + 1
        /\ \A k \in 1..Len(was) : now[k] = was[k]
        /\ now[Len(was) + 1] = r
    BY <1>1, <2>1, AppendFacts
  <2> HIDE DEF was, now
  <2>4. /\ Ids(now) \in Seq(Command) /\ Len(Ids(now)) = Len(was) + 1
        /\ \A k \in 1..(Len(was) + 1) : Ids(now)[k] = now[k].id
    BY <2>3, IdsFacts
  <2>5. /\ Ids(was) \in Seq(Command) /\ Len(Ids(was)) = Len(was)
        /\ \A k \in 1..Len(was) : Ids(was)[k] = was[k].id
    BY <2>1, IdsFacts
  <2>6. /\ Append(Ids(was), r.id) \in Seq(Command)
        /\ Len(Append(Ids(was), r.id)) = Len(was) + 1
        /\ \A k \in 1..Len(was) : Append(Ids(was), r.id)[k] = Ids(was)[k]
        /\ Append(Ids(was), r.id)[Len(was) + 1] = r.id
    BY <1>1, <2>5, AppendProperties
  <2>7. \A k \in 1..(Len(was) + 1) : Ids(now)[k] = Append(Ids(was), r.id)[k]
    <3> TAKE k \in 1..(Len(was) + 1)
    <3>1. CASE k = Len(was) + 1
      BY <2>1, <2>3, <2>4, <2>6, <3>1
    <3>2. CASE k # Len(was) + 1
      <4>1. k \in 1..Len(was)
        BY <2>1, <3>2
      <4> QED BY <2>3, <2>4, <2>5, <2>6, <4>1
    <3> QED BY <3>1, <3>2
  <2> QED BY <2>2, <2>4, <2>6, <2>7, SeqEqual
<1>4. SavedAcks' \in {SavedAcks, SavedAcks \cup {r.id}}
  <2>1. CASE heard
    <3>1. PICK q : q.ok /\ q.id = r.id /\ replies' = replies \cup {q}
      BY <1>1, <2>1 DEF Execute, Answer
    <3> QED BY <3>1 DEF SavedAcks
  <2>2. CASE ~heard
    BY <2>2 DEF Execute, SavedAcks
  <2> QED BY <2>1, <2>2
<1> QED BY <1>2, <1>3, <1>4 DEF Saved!Take, SavedLog, SavedAcks

\* The property ImplementsCommandLog: every step of the authority is a step of the durable
\* list or leaves it alone, for any number of commands and any cache size.
THEOREM AuthorityImplementsLog == Spec => ImplementsCommandLog
<1>1. Init => Saved!Init
  BY DEF Init, Saved!Init, Empty, Ids
<1>2. /\ WellTyped /\ (~faulty => Ordered) /\ CacheIsWindow /\ (~faulty => Ordered)'
      /\ [Next]_vars
      => [Saved!Next]_(Saved!vars)
  <2> SUFFICES ASSUME WellTyped, ~faulty => Ordered, CacheIsWindow, (~faulty => Ordered)',
                      [Next]_vars
               PROVE  [Saved!Next]_(Saved!vars)
    OBVIOUS
  <2>1. faulty' = faulty
    BY SteadyStorage
  <2>2. ASSUME SavedLog' = SavedLog, SavedAcks' = SavedAcks PROVE [Saved!Next]_(Saved!vars)
    BY <2>2 DEF Saved!vars, SavedLog, SavedAcks
  <2>3. CASE faulty
    BY <2>1, <2>2, <2>3 DEF SavedLog, SavedAcks
  <2>4. CASE ~faulty
    <3> USE <2>4
    <3>1. Ordered /\ (memory = disk)'
      BY <2>1 DEF Ordered, RevisionsNameContent
    <3>2. ASSUME disk'.changes = disk.changes, replies' = replies
          PROVE  [Saved!Next]_(Saved!vars)
      BY <2>1, <2>2, <3>2 DEF SavedLog, SavedAcks
    <3>3. ASSUME NEW id \in Command, Send(id) PROVE [Saved!Next]_(Saved!vars)
      BY <3>2, <3>3 DEF Send
    <3>4. ASSUME NEW r \in sent, Replay(r) PROVE [Saved!Next]_(Saved!vars)
      <4>1. r.id \in Command /\ Remembered(r.id) /\ UNCHANGED disk
        BY <3>4 DEF Replay, Remembered, WellTyped, TypeOK, Request
      <4>2. PICK q : q.ok /\ q.id = r.id /\ replies' = replies \cup {q}
        BY <3>4 DEF Replay, Answer
      <4>3. Saved!Remembered(r.id)
        BY <3>1, <4>1, WindowIsRemembered
      <4>4. SavedAcks' = SavedAcks \cup {r.id} /\ SavedLog' = SavedLog
        BY <2>1, <4>1, <4>2 DEF SavedAcks, SavedLog
      <4>5. Saved!Acknowledge(r.id)
        BY <4>3, <4>4 DEF Saved!Acknowledge, SavedAcks, SavedLog
      <4> QED BY <4>1, <4>5 DEF Saved!Next
    <3>5. ASSUME NEW r \in sent, Refuse(r) PROVE [Saved!Next]_(Saved!vars)
      <4>1. PICK q : ~q.ok /\ replies' = replies \cup {q}
        BY <3>5 DEF Refuse, Answer
      <4> QED BY <2>1, <2>2, <3>5, <4>1 DEF Refuse, SavedLog, SavedAcks
    <3>6. ASSUME NEW r \in sent, CrashInEdit(r) PROVE [Saved!Next]_(Saved!vars)
      BY <3>2, <3>6 DEF CrashInEdit
    <3>7. ASSUME NEW r \in sent, NEW saved \in BOOLEAN, NEW heard \in BOOLEAN,
                 Execute(r, saved, heard)
          PROVE  [Saved!Next]_(Saved!vars)
      <4>1. Saved!Take(r.id)
        BY <2>1, <3>1, <3>7, ExecuteIsTake
      <4>2. r.id \in Command
        BY DEF WellTyped, TypeOK, Request
      <4> QED BY <4>1, <4>2 DEF Saved!Next
    <3>8. ASSUME NEW saved \in BOOLEAN, UpdateCatalog(saved) PROVE [Saved!Next]_(Saved!vars)
      <4>1. disk'.changes = disk.changes
        BY <3>1, <3>8, UpdateFacts DEF Ordered, RevisionsNameContent
      <4> QED BY <3>2, <3>8, <4>1 DEF UpdateCatalog
    <3>9. CASE Crash
      BY <3>2, <3>9 DEF Crash
    <3>10. CASE Restart
      BY <3>2, <3>10 DEF Restart
    <3>11. CASE UNCHANGED vars
      BY <3>2, <3>11 DEF vars
    <3> QED BY <3>3, <3>4, <3>5, <3>6, <3>7, <3>8, <3>9, <3>10, <3>11 DEF Next
  <2> QED BY <2>3, <2>4
<1> QED
  BY <1>1, <1>2, WellTypedInvariant, OrderedInvariant, CacheIsWindowInvariant, PTL
  DEF Spec, ImplementsCommandLog, Saved!Spec
=============================================================================
