------------------------------ MODULE PlayerProofs ------------------------------
(***************************************************************************)
(* Proofs about PlayerQueue, for any tracks and durations, any lengths of  *)
(* the queue and of the history, and any orders a shuffle may produce; and *)
(* about HostPlayback, for any number of commands in the task chain.  The  *)
(* host and its element drive the player only through commands of          *)
(* PlayerQueue, so HostSpec implements PlayerQueue's Spec and what is      *)
(* proved about the player holds for a player with a host.                 *)
(***************************************************************************)
EXTENDS HostPlayback, FiniteSetTheorems, FunctionTheorems, SequenceTheorems,
        WellFoundedInduction, TLAPS

-----------------------------------------------------------------------------
(* The operators on sequences. *)

\* A set of naturals that is not empty has a least member.
LEMMA LeastMember ==
    ASSUME NEW S \in SUBSET Nat, S # {}
    PROVE  \E m \in S : \A k \in S : m <= k
<1> DEFINE R == {ss \in Nat \X Nat : ss[1] < ss[2]}
<1>1. IsWellFoundedOn(R, Nat)
  BY NatLessThanWellFounded DEF OpToRel
<1>2. \A j, k \in Nat : j < k => <<j, k>> \in R
  OBVIOUS
<1>3. \E m \in S : \A k \in S : ~(<<k, m>> \in R)
  <2> HIDE DEF R
  <2> QED BY <1>1, WFMin
<1> HIDE DEF R
<1>4. PICK m \in S : \A k \in S : ~(<<k, m>> \in R)
  BY <1>3
<1>5. \A k \in S : m <= k
  <2> TAKE k \in S
  <2>1. k \in Nat /\ m \in Nat /\ ~(k < m)
    BY <1>2, <1>4
  <2> QED BY <2>1
<1> QED BY <1>5

LEMMA FirstIndexFacts ==
    ASSUME NEW S, NEW s \in Seq(S), NEW e
    PROVE  /\ FirstIndex(s, e) \in 0..Len(s)
           /\ FirstIndex(s, e) = 0 <=> ~Contains(s, e)
           /\ FirstIndex(s, e) # 0 => s[FirstIndex(s, e)] = e
<1>1. CASE ~Contains(s, e)
  BY <1>1 DEF FirstIndex
<1>2. CASE Contains(s, e)
  <2> DEFINE places == {i \in 1..Len(s) : s[i] = e}
  <2>1. PICK m \in places : \A k \in places : m <= k
    <3>1. places \in SUBSET Nat /\ places # {}
      BY <1>2 DEF Contains
    <3> HIDE DEF places
    <3> QED BY <3>1, LeastMember
  <2>2. \A j \in 1..(m - 1) : s[j] # e
    <3> SUFFICES ASSUME NEW j \in 1..(m - 1), s[j] = e PROVE FALSE
      OBVIOUS
    <3>1. j \in places /\ j < m
      BY <2>1
    <3> QED BY <2>1, <3>1
  <2>3. \E i \in DOMAIN s : s[i] = e /\ \A j \in 1..(i - 1) : s[j] # e
    BY <2>1, <2>2
  <2>4. FirstIndex(s, e) \in DOMAIN s /\ s[FirstIndex(s, e)] = e
    BY <1>2, <2>3 DEF FirstIndex
  <2> QED BY <1>2, <2>4
<1> QED BY <1>1, <1>2

\* r is s without its entry at place i.
Removed(r, s, i) ==
    /\ Len(r) = Len(s) - 1
    /\ \A k \in 1..(Len(s) - 1) : r[k] = IF k < i THEN s[k] ELSE s[k + 1]

LEMMA RemoveAtFacts ==
    ASSUME NEW S, NEW s \in Seq(S), NEW i \in DOMAIN s
    PROVE  RemoveAt(s, i) \in Seq(S) /\ Removed(RemoveAt(s, i), s, i)
<1> DEFINE front == SubSeq(s, 1, i - 1)
           back == SubSeq(s, i + 1, Len(s))
<1>1. Len(s) \in Nat /\ i \in 1..Len(s)
  OBVIOUS
<1>2. /\ front \in Seq(S) /\ Len(front) = i - 1
      /\ \A k \in 1..(i - 1) : front[k] = s[k]
  BY <1>1, SubSeqProperties, ElementOfSeq, Z3
<1>3. /\ back \in Seq(S) /\ Len(back) = Len(s) - i
      /\ \A k \in 1..(Len(s) - i) : back[k] = s[i + k]
  BY <1>1, SubSeqProperties, ElementOfSeq, Z3
<1> HIDE DEF front, back
<1>4. /\ front \o back \in Seq(S)
      /\ Len(front \o back) = Len(s) - 1
      /\ \A k \in 1..(Len(s) - 1) :
            (front \o back)[k] = IF k <= i - 1 THEN front[k] ELSE back[k - (i - 1)]
  <2>1. /\ front \o back \in Seq(S)
        /\ Len(front \o back) = Len(front) + Len(back)
        /\ \A k \in 1..(Len(front) + Len(back)) :
              (front \o back)[k] = IF k <= Len(front) THEN front[k] ELSE back[k - Len(front)]
    BY <1>2, <1>3, ConcatProperties
  <2>2. Len(front) = i - 1 /\ Len(front) + Len(back) = Len(s) - 1
    BY <1>1, <1>2, <1>3
  <2> QED BY <2>1, <2>2
<1>5. ASSUME NEW k \in 1..(Len(s) - 1)
      PROVE  (front \o back)[k] = IF k < i THEN s[k] ELSE s[k + 1]
  <2>1. CASE k < i
    <3>1. k \in 1..(i - 1) /\ k <= i - 1
      BY <1>1, <2>1
    <3> QED BY <1>2, <1>4, <2>1, <3>1
  <2>2. CASE ~(k < i)
    <3>1. k - (i - 1) \in 1..(Len(s) - i) /\ ~(k <= i - 1) /\ i + (k - (i - 1)) = k + 1
      BY <1>1, <2>2
    <3>2. back[k - (i - 1)] = s[k + 1]
      BY <1>3, <3>1
    <3> QED BY <1>4, <2>2, <3>1, <3>2
  <2> QED BY <2>1, <2>2
<1> QED BY <1>4, <1>5 DEF RemoveAt, Removed, front, back

\* r is s with e put in at place i.
Inserted(r, s, i, e) ==
    /\ Len(r) = Len(s) + 1
    /\ \A k \in 1..(Len(s) + 1) :
         r[k] = IF k < i THEN s[k] ELSE IF k = i THEN e ELSE s[k - 1]

LEMMA InsertAtFacts ==
    ASSUME NEW S, NEW s \in Seq(S), NEW i \in 1..(Len(s) + 1), NEW e \in S
    PROVE  InsertAt(s, i, e) \in Seq(S) /\ Inserted(InsertAt(s, i, e), s, i, e)
<1> DEFINE front == SubSeq(s, 1, i - 1)
           back == SubSeq(s, i, Len(s))
           upto == front \o <<e>>
<1>1. Len(s) \in Nat /\ i \in 1..(Len(s) + 1)
  OBVIOUS
<1>2. /\ front \in Seq(S) /\ Len(front) = i - 1
      /\ \A k \in 1..(i - 1) : front[k] = s[k]
  BY <1>1, SubSeqProperties, ElementOfSeq, Z3
<1>3. /\ back \in Seq(S) /\ Len(back) = Len(s) - i + 1
      /\ \A k \in 1..(Len(s) - i + 1) : back[k] = s[i + k - 1]
  BY <1>1, SubSeqProperties, ElementOfSeq, Z3
<1> HIDE DEF front, back
<1>4. <<e>> \in Seq(S) /\ Len(<<e>>) = 1 /\ <<e>>[1] = e
  OBVIOUS
<1>5. /\ upto \in Seq(S) /\ Len(upto) = i
      /\ \A k \in 1..i : upto[k] = IF k <= i - 1 THEN front[k] ELSE <<e>>[k - (i - 1)]
  BY <1>1, <1>2, <1>4, ConcatProperties
<1>6. ASSUME NEW k \in 1..i
      PROVE  upto[k] = IF k < i THEN s[k] ELSE e
  <2>1. CASE k < i
    <3>1. k \in 1..(i - 1) /\ k <= i - 1
      BY <1>1, <2>1
    <3> QED BY <1>2, <1>5, <2>1, <3>1
  <2>2. CASE ~(k < i)
    <3>1. ~(k <= i - 1) /\ k - (i - 1) = 1
      BY <1>1, <2>2
    <3> QED BY <1>4, <1>5, <2>2, <3>1
  <2> QED BY <2>1, <2>2
<1> HIDE DEF upto
<1>7. /\ upto \o back \in Seq(S) /\ Len(upto \o back) = Len(s) + 1
      /\ \A k \in 1..(Len(s) + 1) :
            (upto \o back)[k] = IF k <= i THEN upto[k] ELSE back[k - i]
  <2>1. /\ upto \o back \in Seq(S)
        /\ Len(upto \o back) = Len(upto) + Len(back)
        /\ \A k \in 1..(Len(upto) + Len(back)) :
              (upto \o back)[k] = IF k <= Len(upto) THEN upto[k] ELSE back[k - Len(upto)]
    BY <1>3, <1>5, ConcatProperties
  <2>2. Len(upto) = i /\ Len(upto) + Len(back) = Len(s) + 1
    BY <1>1, <1>3, <1>5
  <2> QED BY <2>1, <2>2
<1>8. ASSUME NEW k \in 1..(Len(s) + 1)
      PROVE  (upto \o back)[k] = IF k < i THEN s[k] ELSE IF k = i THEN e ELSE s[k - 1]
  <2>1. CASE k <= i
    <3>1. k \in 1..i /\ (~(k < i) => k = i)
      BY <1>1, <2>1
    <3> QED BY <1>6, <1>7, <2>1, <3>1
  <2>2. CASE ~(k <= i)
    <3>1. k - i \in 1..(Len(s) - i + 1) /\ i + (k - i) - 1 = k - 1 /\ ~(k < i) /\ k # i
      BY <1>1, <2>2
    <3>2. back[k - i] = s[k - 1]
      BY <1>3, <3>1
    <3> QED BY <1>7, <2>2, <3>1, <3>2
  <2> QED BY <2>1, <2>2
<1> QED BY <1>7, <1>8 DEF InsertAt, Inserted, front, back, upto

\* A moved queue has as many entries as before, and a move to the same place changes nothing.
LEMMA MoveItemFacts ==
    ASSUME NEW S, NEW s \in Seq(S), NEW from \in DOMAIN s, NEW to \in DOMAIN s
    PROVE  /\ MoveItem(s, from, to) \in Seq(S)
           /\ Len(MoveItem(s, from, to)) = Len(s)
           /\ from = to => MoveItem(s, from, to) = s
<1> DEFINE rest == RemoveAt(s, from)
<1>1. Len(s) \in Nat /\ from \in 1..Len(s) /\ to \in 1..Len(s) /\ s[from] \in S
  OBVIOUS
<1>2. /\ rest \in Seq(S) /\ Len(rest) = Len(s) - 1
      /\ \A k \in 1..(Len(s) - 1) : rest[k] = IF k < from THEN s[k] ELSE s[k + 1]
  BY RemoveAtFacts DEF Removed
<1> HIDE DEF rest
<1>3. to \in 1..(Len(rest) + 1) /\ Len(rest) + 1 = Len(s)
  BY <1>1, <1>2
<1> DEFINE moved == InsertAt(rest, to, s[from])
<1>4. /\ moved \in Seq(S) /\ Len(moved) = Len(s)
      /\ \A k \in 1..Len(s) :
            moved[k] = IF k < to THEN rest[k] ELSE IF k = to THEN s[from] ELSE rest[k - 1]
  <2>1. /\ moved \in Seq(S) /\ Len(moved) = Len(rest) + 1
        /\ \A k \in 1..(Len(rest) + 1) :
              moved[k] = IF k < to THEN rest[k] ELSE IF k = to THEN s[from] ELSE rest[k - 1]
    <3>1. moved \in Seq(S) /\ Inserted(moved, rest, to, s[from])
      BY <1>1, <1>2, <1>3, InsertAtFacts
    <3> QED BY <3>1 DEF Inserted
  <2> QED BY <1>3, <2>1
<1> HIDE DEF moved
<1>5. from = to => \A k \in 1..Len(s) : moved[k] = s[k]
  <2> SUFFICES ASSUME from = to, NEW k \in 1..Len(s) PROVE moved[k] = s[k]
    OBVIOUS
  <2>1. k < to => rest[k] = s[k]
    BY <1>1, <1>2
  <2>2. k > to => rest[k - 1] = s[(k - 1) + 1] /\ (k - 1) + 1 = k
    BY <1>1, <1>2
  <2> QED BY <1>1, <1>4, <2>1, <2>2
<1>6. from = to => moved = s
  BY <1>4, <1>5, SeqEqual
<1> QED BY <1>4, <1>6 DEF MoveItem, moved, rest

LEMMA MinFacts ==
    ASSUME NEW a \in Nat, NEW b \in Nat
    PROVE  Min({a, b}) = IF a <= b THEN a ELSE b
<1>1. \E x \in {a, b} : \A y \in {a, b} : x <= y
  OBVIOUS
<1>2. Min({a, b}) \in {a, b} /\ \A y \in {a, b} : Min({a, b}) <= y
  BY <1>1 DEF Min
<1> QED BY <1>2

LEMMA RecordedType ==
    ASSUME history \in Seq(Track), NEW t \in Track
    PROVE  Recorded(t) \in Seq(Track)
<1> DEFINE longer == <<t>> \o history
           m == Min({MaxHistory, Len(longer)})
<1>1. longer \in Seq(Track) /\ Len(longer) \in Nat
  OBVIOUS
<1> HIDE DEF longer
<1>2. m \in 0..Len(longer)
  <2>1. MaxHistory \in Nat
    BY PlayerAssumption
  <2>2. m = IF MaxHistory <= Len(longer) THEN MaxHistory ELSE Len(longer)
    BY <1>1, <2>1, MinFacts
  <2> HIDE DEF m
  <2> QED BY <1>1, <2>1, <2>2
<1> HIDE DEF m
<1>3. \A i \in 1..m : longer[i] \in Track
  BY <1>1, <1>2
<1>4. SubSeq(longer, 1, m) \in Seq(Track)
  BY <1>2, <1>3, SubSeqProperties
<1> QED BY <1>4 DEF Recorded, longer, m

LEMMA IdentityFacts ==
    ASSUME NEW n \in Nat
    PROVE  /\ Identity(n) \in Bijection(1..n, 1..n)
           /\ \A i \in 1..n : Identity(n)[i] = i
<1>1. Identity(n) \in [1..n -> 1..n] /\ \A i \in 1..n : Identity(n)[i] = i
  BY DEF Identity
<1>2. \A a, b \in 1..n : Identity(n)[a] = Identity(n)[b] => a = b
  BY <1>1
<1>3. \A t \in 1..n : \E a \in 1..n : Identity(n)[a] = t
  BY <1>1
<1> QED BY <1>1, <1>2, <1>3, Fun_IsBij

\* A shuffle moves every entry to one place, and equal tracks keep their order.
LEMMA ShuffleFacts ==
    ASSUME NEW S, NEW s \in Seq(S), NEW p \in ShuffleOrders(s)
    PROVE  /\ DOMAIN s = 1..Len(s)
           /\ p \in Bijection(1..Len(s), 1..Len(s))
           /\ p \in [1..Len(s) -> 1..Len(s)]
           /\ \A i, j \in 1..Len(s) : i < j /\ s[p[i]] = s[p[j]] => p[i] < p[j]
<1>1. DOMAIN s = 1..Len(s)
  OBVIOUS
<1>2. p \in Bijection(1..Len(s), 1..Len(s))
  BY <1>1 DEF ShuffleOrders
<1>3. \A i, j \in 1..Len(s) : i < j /\ s[p[i]] = s[p[j]] => p[i] < p[j]
  BY <1>1 DEF ShuffleOrders
<1> QED BY <1>1, <1>2, <1>3, Fun_BijectionProperties

\* RemoveOccurrence removes one entry or none.
LEMMA RemoveOccurrenceType ==
    ASSUME NEW S, NEW s \in Seq(S), NEW e, NEW n
    PROVE  RemoveOccurrence(s, e, n) \in Seq(S)
<1> DEFINE hits == {k \in DOMAIN s : s[k] = e /\ Occurrence(s, k) = n}
<1>1. CASE hits = {}
  BY <1>1 DEF RemoveOccurrence
<1>2. CASE hits # {}
  <2>1. (CHOOSE k \in hits : TRUE) \in DOMAIN s
    BY <1>2
  <2> QED BY <1>2, <2>1, RemoveAtFacts DEF RemoveOccurrence
<1> QED BY <1>1, <1>2

-----------------------------------------------------------------------------
(* The cursor.                                                             *)
(*                                                                         *)
(* The invariant is that of the fields without the places in the saved     *)
(* order: their types, and CursorMarksCurrent, without which selecting an  *)
(* entry could select nothing.                                             *)

SavedType == original \in IF shuffle THEN Seq(Track) ELSE {None}

LEMMA SavedKept == SavedType /\ UNCHANGED <<shuffle, original>> => SavedType'
<1>1. SavedType /\ shuffle' = shuffle /\ original' = original => SavedType'
  BY DEF SavedType
<1> QED BY <1>1

PlayerTypes ==
    /\ status \in Status
    /\ current \in Track \cup {None}
    /\ position \in Position
    /\ lastError \in BOOLEAN
    /\ shuffle \in BOOLEAN
    /\ repeat \in Repeat
    /\ queue \in Seq(Track)
    /\ SavedType
    /\ cursor \in Nat
    /\ history \in Seq(Track)
    /\ available \in SUBSET Track
    /\ drifted \in BOOLEAN

CursorInv == PlayerTypes /\ CursorMarksCurrent

\* A cursor that was set to an entry of the current track.
LEMMA MarkedEntry ==
    ASSUME cursor' \in Nat, Len(queue') \in Nat, current' \in Track,
           1 <= cursor', cursor' <= Len(queue'), queue'[cursor'] = current'
    PROVE  CursorMarksCurrent'
<1>1. current' # None /\ cursor' # 0
  BY PlayerAssumption
<1> QED BY <1>1 DEF CursorMarksCurrent

\* Selecting an entry of q, the queue after the step.
LEMMA SelectStep ==
    ASSUME CursorInv, NEW q \in Seq(Track), NEW index \in 1..Len(q),
           queue' = q, Select(q, index)
    PROVE  /\ current' \in Track /\ position' \in Position /\ status' \in Status
           /\ lastError' \in BOOLEAN /\ cursor' \in Nat /\ drifted' \in BOOLEAN
           /\ history' \in Seq(Track)
           /\ CursorMarksCurrent'
<1>1. q[index] \in Track /\ index \in Nat /\ index # 0 /\ q[index] # None
  BY PlayerAssumption
<1>2. history' \in Seq(Track)
  BY <1>1, RecordedType DEF CursorInv, PlayerTypes, Select
<1>3. 0 \in Position
  BY PlayerAssumption DEF Position
<1>4. /\ cursor' = index /\ current' = q[index] /\ queue'[cursor'] = current'
      /\ cursor' <= Len(queue') /\ 1 <= cursor' /\ Len(queue') \in Nat
  BY <1>1 DEF Select
<1>5. CursorMarksCurrent'
  BY <1>1, <1>4, MarkedEntry
<1> QED BY <1>1, <1>2, <1>3, <1>5 DEF Select, Status

LEMMA CursorInit == Init => CursorInv
<1> SUFFICES ASSUME Init PROVE CursorInv
  OBVIOUS
<1>1. SavedType
  BY DEF Init, SavedType
<1>2. 0 \in Position
  BY PlayerAssumption DEF Position
<1>3. /\ queue = <<>> /\ history = <<>> /\ cursor = 0 /\ current = None /\ position = 0
      /\ status = "stopped" /\ repeat = "off" /\ available = {}
      /\ shuffle \in BOOLEAN /\ lastError \in BOOLEAN /\ drifted \in BOOLEAN
  BY DEF Init
<1>4. PlayerTypes
  BY <1>1, <1>2, <1>3 DEF PlayerTypes, Status, Repeat
<1>5. CursorMarksCurrent
  BY <1>3 DEF CursorMarksCurrent
<1> QED BY <1>4, <1>5 DEF CursorInv

LEMMA CursorPlay == CursorInv /\ Play => CursorInv'
<1> SUFFICES ASSUME CursorInv, Play PROVE CursorInv'
  OBVIOUS
<1>1. CASE current # None
  BY <1>1, SavedKept DEF Play, CursorInv, PlayerTypes, CursorMarksCurrent, modes, entries, Status
<1>2. CASE current = None
  <2>1. /\ queue \in Seq(Track) /\ Len(queue) >= 1 /\ Head(queue) = queue[1]
        /\ queue[1] \in Track /\ Len(queue) \in Nat
    BY <1>2 DEF Play, CursorInv, PlayerTypes
  <2>2. /\ cursor' = 1 /\ current' = queue[1] /\ queue' = queue
        /\ history' = Recorded(queue[1])
    BY <1>2, <2>1 DEF Play, entries
  <2>3. history' \in Seq(Track)
    BY <2>1, <2>2, RecordedType DEF CursorInv, PlayerTypes
  <2>4. CursorMarksCurrent'
    BY <2>1, <2>2, MarkedEntry
  <2>5. PlayerTypes'
    BY <1>2, <2>1, <2>2, <2>3, SavedKept DEF Play, CursorInv, PlayerTypes, modes, entries, Status
  <2> QED BY <2>4, <2>5 DEF CursorInv
<1> QED BY <1>1, <1>2

LEMMA CursorPauseStop == CursorInv /\ (Pause \/ Stop) => CursorInv'
BY PlayerAssumption, SavedKept
   DEF CursorInv, PlayerTypes, CursorMarksCurrent, Pause, Stop, modes, entries, Status, Position

\* Appending an entry keeps the cursor's.
LEMMA PushFacts ==
    ASSUME CursorInv, NEW t \in Track, Push(t), UNCHANGED modes
    PROVE  /\ queue' \in Seq(Track) /\ Len(queue') = Len(queue) + 1
           /\ \A i \in 1..Len(queue) : queue'[i] = queue[i]
           /\ queue'[Len(queue) + 1] = t
           /\ SavedType'
<1>1. /\ queue \in Seq(Track) /\ shuffle \in BOOLEAN /\ shuffle' = shuffle
      /\ original \in IF shuffle THEN Seq(Track) ELSE {None}
  BY DEF CursorInv, PlayerTypes, SavedType, modes
<1>2. shuffle => Append(original, t) \in Seq(Track) /\ original # None
  BY <1>1, PlayerAssumption
<1>3. SavedType'
  <2>1. original' \in IF shuffle THEN Seq(Track) ELSE {None}
    BY <1>1, <1>2 DEF Push
  <2> QED BY <1>1, <2>1 DEF SavedType
<1>4. queue' = Append(queue, t)
  BY DEF Push
<1> QED BY <1>1, <1>3, <1>4, AppendProperties

LEMMA CursorPlayTrack ==
    ASSUME CursorInv, NEW t \in Track, PlayTrack(t)
    PROVE  CursorInv'
<1>1. t # None /\ 0 \in Position
  BY PlayerAssumption DEF Position
<1>2. history' \in Seq(Track)
  BY RecordedType DEF CursorInv, PlayerTypes, PlayTrack
<1>3. CASE Contains(queue, t) /\ cursor' = FirstIndex(queue, t) /\ UNCHANGED entries
  <2>1. queue \in Seq(Track) /\ Len(queue) \in Nat
    BY DEF CursorInv, PlayerTypes
  <2>2. cursor' \in 1..Len(queue) /\ queue[cursor'] = t
    BY <1>3, <2>1, FirstIndexFacts
  <2>3. /\ queue' = queue /\ original' = original
        /\ current' = t /\ UNCHANGED <<repeat, available>>
        /\ shuffle' = shuffle /\ shuffle' \in BOOLEAN /\ lastError' \in BOOLEAN /\ drifted' \in BOOLEAN
        /\ position' = 0 /\ status' = "playing"
    BY <1>3 DEF PlayTrack, modes, entries, CursorInv, PlayerTypes
  <2>4. CursorMarksCurrent'
    BY <2>1, <2>2, <2>3, MarkedEntry
  <2>5. PlayerTypes'
    BY <1>1, <1>2, <2>2, <2>3, SavedKept DEF CursorInv, PlayerTypes, Status
  <2> QED BY <2>4, <2>5 DEF CursorInv
<1>4. CASE Push(t) /\ cursor' = Len(queue')
  <2>1. /\ UNCHANGED modes /\ UNCHANGED <<repeat, available>>
        /\ shuffle' \in BOOLEAN /\ lastError' \in BOOLEAN /\ drifted' \in BOOLEAN
        /\ current' = t /\ position' = 0 /\ status' = "playing"
    BY DEF PlayTrack, modes, CursorInv, PlayerTypes
  <2>2. /\ queue' \in Seq(Track) /\ Len(queue') = Len(queue) + 1 /\ Len(queue) \in Nat
        /\ queue'[Len(queue')] = t
        /\ SavedType'
    BY <1>4, <2>1, PushFacts DEF CursorInv, PlayerTypes
  <2>3. CursorMarksCurrent'
    BY <1>4, <2>1, <2>2, MarkedEntry
  <2>4. PlayerTypes'
    BY <1>1, <1>2, <1>4, <2>1, <2>2 DEF CursorInv, PlayerTypes, Status
  <2> QED BY <2>3, <2>4 DEF CursorInv
<1> QED BY <1>3, <1>4 DEF PlayTrack

LEMMA CursorSeek ==
    ASSUME CursorInv, NEW at \in Position, NEW t \in Track \cup {None}, Seek(at, t)
    PROVE  CursorInv'
<1>1. current \in Track /\ Duration[current] \in 0..MaxPosition /\ at \in 0..MaxPosition
  BY PlayerAssumption DEF CursorInv, PlayerTypes, Seek, Position
<1>2. MaxPosition \in Nat
  BY PlayerAssumption
<1>3. Min({at, Duration[current]}) \in 0..MaxPosition
  BY <1>1, <1>2, MinFacts
<1>4. position' \in Position
  BY <1>1, <1>3 DEF Seek, Position
<1> QED BY <1>4, SavedKept DEF Seek, CursorInv, PlayerTypes, CursorMarksCurrent, modes, entries

\* What `next` does to the fields, from a queue that types and has its cursor inside.
LEMMA CursorAdvance ==
    ASSUME CursorInv, NEW naturalEnd \in BOOLEAN, NEW at \in Position, NEW err \in BOOLEAN,
           Advance(naturalEnd, at, err)
    PROVE  CursorInv'
<1> DEFINE from == IF cursor = 0 THEN 1 ELSE cursor
           again == naturalEnd /\ repeat = "one"
<1>1. /\ queue \in Seq(Track) /\ Len(queue) \in Nat /\ cursor \in Nat /\ cursor <= Len(queue)
      /\ from \in Nat /\ (queue # <<>> => Len(queue) >= 1 /\ from \in 1..Len(queue))
  BY DEF CursorInv, PlayerTypes, CursorMarksCurrent
<1>2. /\ queue' = queue /\ shuffle' = shuffle /\ shuffle' \in BOOLEAN /\ repeat' \in Repeat
      /\ available' \in SUBSET Track /\ SavedType'
  BY SavedKept DEF Advance, modes, entries, CursorInv, PlayerTypes
<1>3. 0 \in Position
  BY PlayerAssumption DEF Position
<1>4. ASSUME NEW index \in 1..Len(queue), Select(queue, index)
      PROVE  CursorInv'
  BY <1>1, <1>2, <1>4, SelectStep DEF CursorInv, PlayerTypes
<1>5. ASSUME status' \in Status, position' \in Position, lastError' \in BOOLEAN,
             history' \in Seq(Track), UNCHANGED <<current, cursor, drifted>>
      PROVE  CursorInv'
  <2>1. CursorMarksCurrent'
    BY <1>2, <1>5 DEF CursorInv, CursorMarksCurrent
  <2> QED BY <1>1, <1>2, <1>5, <2>1 DEF CursorInv, PlayerTypes
<1>6. CASE queue = <<>> /\ status' = "stopped" /\ position' = at /\ lastError' = err
           /\ UNCHANGED <<current, cursor, history, drifted>>
  BY <1>5, <1>6 DEF CursorInv, PlayerTypes, Status
<1>7. CASE /\ queue # <<>> /\ again
           /\ status' = "playing" /\ position' = 0 /\ lastError' = err
           /\ history' = IF current = None THEN history ELSE Recorded(current)
           /\ UNCHANGED <<current, cursor, drifted>>
  <2>1. history' \in Seq(Track)
    BY <1>7, RecordedType DEF CursorInv, PlayerTypes
  <2> QED BY <1>3, <1>5, <1>7, <2>1 DEF Status
<1>8. CASE queue # <<>> /\ from < Len(queue) /\ Select(queue, from + 1)
  <2>1. from + 1 \in 1..Len(queue)
    BY <1>1, <1>8
  <2> QED BY <1>4, <1>8, <2>1
<1>9. CASE queue # <<>> /\ Select(queue, 1)
  <2>1. 1 \in 1..Len(queue)
    BY <1>1, <1>9
  <2> QED BY <1>4, <1>9, <2>1
<1>10. CASE /\ queue # <<>>
            /\ status' = "stopped" /\ position' = 0 /\ lastError' = err
            /\ UNCHANGED <<current, cursor, history, drifted>>
  BY <1>3, <1>5, <1>10 DEF CursorInv, PlayerTypes, Status
<1> QED BY <1>6, <1>7, <1>8, <1>9, <1>10 DEF Advance

LEMMA CursorPrevious == CursorInv /\ Previous => CursorInv'
<1> SUFFICES ASSUME CursorInv, Previous PROVE CursorInv'
  OBVIOUS
<1>1. /\ queue \in Seq(Track) /\ Len(queue) \in Nat /\ cursor \in Nat /\ cursor <= Len(queue)
  BY DEF CursorInv, PlayerTypes, CursorMarksCurrent
<1>2. /\ queue' = queue /\ shuffle' = shuffle /\ shuffle' \in BOOLEAN /\ repeat' \in Repeat
      /\ available' \in SUBSET Track /\ SavedType'
  BY SavedKept DEF Previous, modes, entries, CursorInv, PlayerTypes
<1>3. 0 \in Position
  BY PlayerAssumption DEF Position
<1>4. CASE cursor > 1 /\ Select(queue, cursor - 1)
  <2>1. cursor - 1 \in 1..Len(queue)
    BY <1>1, <1>4
  <2> QED BY <1>1, <1>2, <1>4, <2>1, SelectStep DEF CursorInv, PlayerTypes
<1>5. CASE position' = 0 /\ UNCHANGED <<status, current, lastError, cursor, history, drifted>>
  <2>1. CursorMarksCurrent'
    BY <1>2, <1>5 DEF CursorInv, CursorMarksCurrent
  <2> QED BY <1>1, <1>2, <1>3, <1>5, <2>1 DEF CursorInv, PlayerTypes
<1> QED BY <1>4, <1>5 DEF Previous

LEMMA CursorReport ==
    ASSUME CursorInv, NEW s \in Status, NEW at \in Position, NEW err \in BOOLEAN,
           ReportPlayback(s, at, err)
    PROVE  CursorInv'
<1>1. CASE Advance(TRUE, at, err)
  BY <1>1, CursorAdvance
<1>2. CASE /\ status' = s /\ position' = at /\ lastError' = err
           /\ UNCHANGED <<current, modes, entries, cursor, history, available, drifted>>
  BY <1>2, SavedKept DEF CursorInv, PlayerTypes, CursorMarksCurrent, modes, entries
<1> QED BY <1>1, <1>2 DEF ReportPlayback

LEMMA CursorModes ==
    ASSUME CursorInv,
           \/ NextTrack
           \/ \E mode \in Repeat : SetRepeat(mode)
           \/ CatalogScan
    PROVE  CursorInv'
<1>1. CASE NextTrack
  <2>1. position \in Position /\ lastError \in BOOLEAN
    BY DEF CursorInv, PlayerTypes
  <2> QED BY <1>1, <2>1, CursorAdvance DEF NextTrack
<1>2. CASE \E mode \in Repeat : SetRepeat(mode)
  BY <1>2, SavedKept DEF SetRepeat, transport, entries, CursorInv, PlayerTypes, CursorMarksCurrent
<1>3. CASE CatalogScan
  BY <1>3, SavedKept
     DEF CatalogScan, transport, modes, entries, CursorInv, PlayerTypes, CursorMarksCurrent
<1> QED BY <1>1, <1>2, <1>3

LEMMA CursorQueueAdd ==
    ASSUME CursorInv, NEW t \in Track, QueueAdd(t)
    PROVE  CursorInv'
<1>1. /\ UNCHANGED modes /\ Push(t)
      /\ UNCHANGED <<status, current, position, cursor, history, available, repeat>>
      /\ shuffle' \in BOOLEAN /\ lastError' \in BOOLEAN /\ drifted' = drifted /\ drifted \in BOOLEAN
  BY DEF QueueAdd, modes, transport, CursorInv, PlayerTypes
<1>2. /\ queue' \in Seq(Track) /\ Len(queue') = Len(queue) + 1 /\ Len(queue) \in Nat
      /\ \A i \in 1..Len(queue) : queue'[i] = queue[i]
      /\ SavedType'
  BY <1>1, PushFacts DEF CursorInv, PlayerTypes
<1>3. CursorMarksCurrent'
  BY <1>1, <1>2 DEF CursorInv, PlayerTypes, CursorMarksCurrent
<1>4. PlayerTypes'
  BY <1>1, <1>2 DEF CursorInv, PlayerTypes
<1> QED BY <1>3, <1>4 DEF CursorInv

LEMMA CursorQueueRemove ==
    ASSUME CursorInv, NEW index \in 1..MaxQueue, QueueRemove(index)
    PROVE  CursorInv'
<1> DEFINE rest == RemoveAt(queue, index)
<1>1. /\ queue \in Seq(Track) /\ Len(queue) \in Nat /\ cursor \in Nat /\ cursor <= Len(queue)
      /\ index \in 1..Len(queue) /\ queue' = rest
  BY DEF CursorInv, PlayerTypes, CursorMarksCurrent, QueueRemove
<1>2. /\ rest \in Seq(Track) /\ Len(rest) = Len(queue) - 1
      /\ \A k \in 1..(Len(queue) - 1) : rest[k] = IF k < index THEN queue[k] ELSE queue[k + 1]
  <2>1. rest \in Seq(Track) /\ Removed(rest, queue, index)
    BY <1>1, RemoveAtFacts
  <2> QED BY <2>1 DEF Removed
<1> HIDE DEF rest
<1>3. /\ shuffle' = shuffle /\ shuffle' \in BOOLEAN /\ repeat' \in Repeat
      /\ available' \in SUBSET Track
  BY DEF QueueRemove, modes, CursorInv, PlayerTypes
<1>4. SavedType'
  <2>1. original \in IF shuffle THEN Seq(Track) ELSE {None}
    BY DEF CursorInv, PlayerTypes, SavedType
  <2>2. shuffle => RemoveOccurrence(original, queue[index], Occurrence(queue, index)) \in Seq(Track)
    BY <2>1, RemoveOccurrenceType
  <2>3. original' \in IF shuffle THEN Seq(Track) ELSE {None}
    BY <2>1, <2>2, PlayerAssumption DEF QueueRemove
  <2> QED BY <1>3, <2>3 DEF SavedType
<1>5. CASE /\ rest = <<>>
           /\ cursor' = 0 /\ current' = None /\ status' = "stopped" /\ drifted' = FALSE
           /\ UNCHANGED <<position, lastError, history>>
  <2>1. CursorMarksCurrent'
    BY <1>1, <1>2, <1>5 DEF CursorMarksCurrent
  <2>2. drifted' \in BOOLEAN /\ lastError' \in BOOLEAN
    BY <1>5 DEF CursorInv, PlayerTypes
  <2> QED BY <1>1, <1>2, <1>3, <1>4, <1>5, <2>1, <2>2 DEF CursorInv, PlayerTypes, Status
<1>6. CASE rest # <<>> /\ Select(rest, Min({index, Len(rest)}))
  <2>1. Len(rest) \in Nat /\ Len(rest) >= 1
    BY <1>2, <1>6
  <2>2. Min({index, Len(rest)}) \in 1..Len(rest)
    BY <1>1, <2>1, MinFacts
  <2> QED BY <1>1, <1>2, <1>3, <1>4, <1>6, <2>2, SelectStep DEF CursorInv, PlayerTypes
<1>7. CASE /\ cursor # index /\ cursor' = CursorWithout(index)
           /\ UNCHANGED <<transport, history, drifted>>
  <2>1. /\ cursor' \in Nat /\ cursor' <= Len(rest)
        /\ cursor' = 0 <=> cursor = 0
        /\ cursor # 0 => rest[cursor'] = queue[cursor]
    <3>1. CASE cursor > index
      <4>1. cursor' = cursor - 1 /\ cursor - 1 \in 1..(Len(queue) - 1) /\ ~(cursor - 1 < index)
        BY <1>1, <1>7, <3>1 DEF CursorWithout
      <4>2. rest[cursor - 1] = queue[(cursor - 1) + 1] /\ (cursor - 1) + 1 = cursor
        BY <1>1, <1>2, <4>1
      <4> QED BY <1>1, <1>2, <4>1, <4>2
    <3>2. CASE cursor < index
      <4>1. cursor' = cursor /\ cursor <= Len(queue) - 1
        BY <1>1, <1>7, <3>2 DEF CursorWithout
      <4>2. cursor # 0 => rest[cursor] = queue[cursor]
        BY <1>1, <1>2, <3>2, <4>1
      <4> QED BY <1>1, <1>2, <4>1, <4>2
    <3> QED BY <1>1, <1>7, <3>1, <3>2
  <2>2. /\ UNCHANGED <<status, current, position, history>>
        /\ lastError' \in BOOLEAN /\ drifted' = drifted /\ drifted \in BOOLEAN
    BY <1>7 DEF transport, CursorInv, PlayerTypes
  <2>3. CursorMarksCurrent'
    BY <1>1, <2>1, <2>2 DEF CursorInv, CursorMarksCurrent
  <2>4. PlayerTypes'
    BY <1>1, <1>2, <1>3, <1>4, <2>1, <2>2 DEF CursorInv, PlayerTypes
  <2> QED BY <2>3, <2>4 DEF CursorInv
<1> QED BY <1>5, <1>6, <1>7 DEF QueueRemove, rest

LEMMA CursorQueueMove ==
    ASSUME CursorInv, NEW from \in 1..MaxQueue, NEW to \in 1..MaxQueue, QueueMove(from, to)
    PROVE  CursorInv'
<1>1. /\ queue \in Seq(Track) /\ Len(queue) \in Nat
      /\ from \in DOMAIN queue /\ to \in DOMAIN queue /\ queue' = MoveItem(queue, from, to)
  BY DEF CursorInv, PlayerTypes, QueueMove
<1>2. /\ queue' \in Seq(Track) /\ Len(queue') = Len(queue) /\ (from = to => queue' = queue)
  BY <1>1, MoveItemFacts
<1>3. /\ UNCHANGED <<status, current, position, cursor, history, available, repeat>>
      /\ shuffle' = shuffle /\ shuffle' \in BOOLEAN /\ lastError' \in BOOLEAN
      /\ drifted' \in BOOLEAN /\ (~drifted' => ~drifted /\ from = to)
  BY DEF QueueMove, transport, modes, CursorInv, PlayerTypes
<1>4. SavedType'
  <2>1. original' \in IF shuffle THEN Seq(Track) ELSE {None}
    BY <1>2 DEF QueueMove, CursorInv, PlayerTypes, SavedType
  <2> QED BY <1>3, <2>1 DEF SavedType
<1>5. CursorMarksCurrent'
  BY <1>2, <1>3 DEF CursorInv, CursorMarksCurrent
<1>6. PlayerTypes'
  BY <1>2, <1>3, <1>4 DEF CursorInv, PlayerTypes
<1> QED BY <1>5, <1>6 DEF CursorInv

LEMMA CursorQueueClear == CursorInv /\ QueueClear => CursorInv'
<1> SUFFICES ASSUME CursorInv, QueueClear PROVE CursorInv'
  OBVIOUS
<1>1. /\ queue' = <<>> /\ cursor' = 0 /\ current' = None /\ status' = "stopped" /\ position' = 0
      /\ shuffle' = shuffle /\ shuffle' \in BOOLEAN /\ lastError' \in BOOLEAN
      /\ drifted' \in BOOLEAN /\ UNCHANGED <<history, available, repeat>>
  BY DEF QueueClear, modes, CursorInv, PlayerTypes
<1>2. SavedType'
  <2>1. <<>> \in Seq(Track)
    OBVIOUS
  <2>2. original' \in IF shuffle THEN Seq(Track) ELSE {None}
    BY <2>1 DEF QueueClear
  <2> QED BY <1>1, <2>2 DEF SavedType
<1>3. 0 \in Position
  BY PlayerAssumption DEF Position
<1>4. CursorMarksCurrent'
  BY <1>1 DEF CursorMarksCurrent
<1>5. PlayerTypes'
  BY <1>1, <1>2, <1>3 DEF CursorInv, PlayerTypes, Status
<1> QED BY <1>4, <1>5 DEF CursorInv

LEMMA CursorSetShuffle ==
    ASSUME CursorInv, NEW enabled \in BOOLEAN, SetShuffle(enabled)
    PROVE  CursorInv'
<1>1. /\ queue \in Seq(Track) /\ Len(queue) \in Nat /\ current \in Track \cup {None}
      /\ shuffle \in BOOLEAN /\ SavedType
  BY DEF CursorInv, PlayerTypes
<1>2. queue' \in Seq(Track) /\ SavedType'
  <2>1. CASE enabled
    <3>1. PICK p \in ShuffleOrders(queue) : queue' = [i \in DOMAIN queue |-> queue[p[i]]]
      BY <2>1 DEF SetShuffle
    <3>2. p \in [1..Len(queue) -> 1..Len(queue)] /\ DOMAIN queue = 1..Len(queue)
      BY <1>1, ShuffleFacts
    <3>3. queue' \in Seq(Track)
      BY <1>1, <3>1, <3>2
    <3>4. shuffle' = TRUE /\ original' = queue
      BY <2>1 DEF SetShuffle
    <3> QED BY <1>1, <3>3, <3>4 DEF SavedType
  <2>2. CASE ~enabled
    <3>1. shuffle /\ ~shuffle' /\ original' = None
      BY <1>1, <2>2 DEF SetShuffle
    <3>2. original \in Seq(Track) /\ original # None
      BY <1>1, <3>1, PlayerAssumption DEF SavedType
    <3> QED BY <2>2, <3>1, <3>2 DEF SetShuffle, SavedType
  <2> QED BY <2>1, <2>2
<1>3. /\ UNCHANGED <<status, current, position, history, available, repeat>>
      /\ lastError' \in BOOLEAN /\ shuffle' \in BOOLEAN
      /\ cursor' = FirstIndex(queue', current)
      /\ drifted' \in BOOLEAN /\ (~drifted' => (current = None \/ cursor' # 0))
  BY DEF SetShuffle, CursorIn, transport, CursorInv, PlayerTypes
<1>4. /\ cursor' \in 0..Len(queue') /\ Len(queue') \in Nat
      /\ cursor' = 0 <=> ~Contains(queue', current)
      /\ cursor' # 0 => queue'[cursor'] = current
  BY <1>2, <1>3, FirstIndexFacts
<1>5. current = None => cursor' = 0
  BY <1>2, <1>4, PlayerAssumption DEF Contains
<1>6. CursorMarksCurrent'
  BY <1>3, <1>4, <1>5 DEF CursorMarksCurrent
<1>7. PlayerTypes'
  BY <1>2, <1>3, <1>4 DEF CursorInv, PlayerTypes
<1> QED BY <1>6, <1>7 DEF CursorInv

\* Types of the fields, and the cursor stays in the queue and, unless an entry was
\* moved since the last selection, marks the current track.
THEOREM CursorInvariant == Spec => []CursorInv
<1>1. CursorInv /\ [Next]_vars => CursorInv'
  <2> SUFFICES ASSUME CursorInv, [Next]_vars PROVE CursorInv'
    OBVIOUS
  <2>1. CASE Ask
    <3>1. CASE Play \/ Pause \/ Stop \/ NextTrack \/ Previous \/ QueueClear \/ CatalogScan
      BY <3>1, CursorPlay, CursorPauseStop, CursorModes, CursorPrevious, CursorQueueClear
    <3>2. CASE \E t \in Track : PlayTrack(t) \/ QueueAdd(t)
      BY <3>2, CursorPlayTrack, CursorQueueAdd
    <3>3. CASE \E at \in Position, t \in Track \cup {None} : Seek(at, t)
      BY <3>3, CursorSeek
    <3>4. CASE \E mode \in Repeat : SetRepeat(mode)
      BY <3>4, CursorModes
    <3>5. CASE \E enabled \in BOOLEAN : SetShuffle(enabled)
      BY <3>5, CursorSetShuffle
    <3>6. CASE \E i \in 1..MaxQueue : QueueRemove(i)
      BY <3>6, CursorQueueRemove
    <3>7. CASE \E i, j \in 1..MaxQueue : QueueMove(i, j)
      BY <3>7, CursorQueueMove
    <3> QED BY <2>1, <3>1, <3>2, <3>3, <3>4, <3>5, <3>6, <3>7 DEF Ask
  <2>2. CASE \E s \in Status, at \in Position, err \in BOOLEAN : ReportPlayback(s, at, err)
    BY <2>2, CursorReport
  <2>3. CASE UNCHANGED vars
    BY <2>3, SavedKept
       DEF vars, transport, modes, entries, CursorInv, PlayerTypes, CursorMarksCurrent
  <2> QED BY <2>1, <2>2, <2>3 DEF Next
<1> QED BY <1>1, CursorInit, PTL DEF Spec

\* The cursor and the current track agree.
THEOREM CursorIsCurrent == Spec => []CursorMarksCurrent
<1>1. CursorInv => CursorMarksCurrent
  BY DEF CursorInv
<1> QED BY <1>1, CursorInvariant, PTL

-----------------------------------------------------------------------------
(* The saved order.                                                        *)
(*                                                                         *)
(* queue_remove takes out of the saved order the entry with the removed    *)
(* track that has as many equal ones in front of it as the removed entry   *)
(* has in the queue.  That this is the removed entry itself, and not       *)
(* another one with the same track, takes that equal entries are in the    *)
(* same order in both.                                                     *)

EqualsInOrder ==
    \A i, j \in DOMAIN queue : i < j /\ queue[i] = queue[j] => rank[i] < rank[j]

OrderInv == SavedOrderMatchesQueue /\ EqualsInOrder

\* r permutes N.
Permutes(r, N) ==
    /\ r \in [N -> N]
    /\ \A a, b \in N : r[a] = r[b] => a = b
    /\ \A m \in N : \E j \in N : r[j] = m

LEMMA BijectionPermutes ==
    ASSUME NEW N, NEW r
    PROVE  r \in Bijection(N, N) <=> Permutes(r, N)
<1>1. r \in Bijection(N, N) => Permutes(r, N)
  BY Fun_BijectionProperties DEF Permutes
<1>2. Permutes(r, N) => r \in Bijection(N, N)
  BY Fun_IsBij DEF Permutes
<1> QED BY <1>1, <1>2

LEMMA BelowIsFinite ==
    ASSUME NEW n \in Nat, NEW A, \A a \in A : a \in 1..(n - 1)
    PROVE  IsFiniteSet(A)
<1>1. IsFiniteSet(1..(n - 1))
  BY FS_Interval
<1>2. A \in SUBSET (1..(n - 1))
  OBVIOUS
<1> QED BY <1>1, <1>2, FS_Subset

\* Two orders of the same entries with equal ones in the same order: an entry has as
\* many equals in front of it in one as in the other.
LEMMA OccurrenceMoves ==
    ASSUME NEW S, NEW q \in Seq(S), NEW o \in Seq(S), NEW n \in Nat,
           Len(q) = n, Len(o) = n, NEW r \in Bijection(1..n, 1..n),
           \A j \in 1..n : o[r[j]] = q[j],
           \A j, k \in 1..n : j < k /\ q[j] = q[k] => r[j] < r[k],
           NEW i \in 1..n
    PROVE  Occurrence(o, r[i]) = Occurrence(q, i)
<1> DEFINE A == {j \in 1..(i - 1) : q[j] = q[i]}
           B == {m \in 1..(r[i] - 1) : o[m] = o[r[i]]}
           f == [j \in A |-> r[j]]
<1>1. /\ r \in [1..n -> 1..n]
      /\ \A a, b \in 1..n : r[a] = r[b] => a = b
      /\ \A m \in 1..n : \E j \in 1..n : r[j] = m
  <2>1. Permutes(r, 1..n)
    BY BijectionPermutes
  <2> QED BY <2>1 DEF Permutes
<1>2. r[i] \in 1..n /\ o[r[i]] = q[i]
  BY <1>1
<1>3. \A j \in A : j \in 1..n /\ j < i /\ q[j] = q[i]
  OBVIOUS
<1>4. \A j \in A : r[j] \in B
  <2> TAKE j \in A
  <2>1. r[j] \in 1..n /\ r[j] < r[i] /\ o[r[j]] = q[i]
    BY <1>1, <1>3
  <2> QED BY <1>2, <2>1
<1>5. f \in [A -> B]
  BY <1>4
<1>6. \A a, b \in A : f[a] = f[b] => a = b
  BY <1>1, <1>3
<1>7. \A m \in B : \E j \in A : f[j] = m
  <2> TAKE m \in B
  <2>1. m \in 1..n /\ m < r[i] /\ o[m] = q[i]
    BY <1>2
  <2>2. PICK j \in 1..n : r[j] = m
    BY <1>1, <2>1
  <2>3. q[j] = q[i] /\ j # i
    BY <1>2, <2>1, <2>2
  <2>4. ~(i < j)
    BY <1>2, <2>1, <2>2, <2>3
  <2>5. j \in A
    BY <2>3, <2>4
  <2> QED BY <2>2, <2>5
<1> HIDE DEF f
<1>8. f \in Bijection(A, B)
  BY <1>5, <1>6, <1>7, Fun_IsBij
<1>9. IsFiniteSet(A)
  BY BelowIsFinite
<1>10. Cardinality(B) = Cardinality(A)
  <2>1. ExistsBijection(A, B)
    BY <1>8 DEF ExistsBijection
  <2> HIDE DEF A, B
  <2> QED BY <1>9, <2>1, FS_Bijection
<1> QED BY <1>10 DEF Occurrence

\* Of equal entries, each has a number of its own of equals in front of it.
LEMMA OccurrenceGrows ==
    ASSUME NEW S, NEW s \in Seq(S), NEW k \in 1..Len(s), NEW l \in 1..Len(s),
           s[k] = s[l], k < l
    PROVE  Occurrence(s, k) # Occurrence(s, l)
<1> DEFINE A == {j \in 1..(k - 1) : s[j] = s[k]}
           B == {j \in 1..(l - 1) : s[j] = s[l]}
<1>1. A \in SUBSET B /\ k \in B /\ k \notin A
  OBVIOUS
<1>2. IsFiniteSet(B)
  <2>1. l \in Nat /\ \A a \in B : a \in 1..(l - 1)
    OBVIOUS
  <2> HIDE DEF B
  <2> QED BY <2>1, BelowIsFinite
<1>3. Cardinality(B) # Cardinality(A)
  <2> HIDE DEF A, B
  <2> QED BY <1>1, <1>2, FS_Subset
<1> QED BY <1>3 DEF Occurrence

\* So naming an entry by its track and that number names this entry.
LEMMA RemoveOccurrenceIsRemoveAt ==
    ASSUME NEW S, NEW s \in Seq(S), NEW k \in 1..Len(s)
    PROVE  RemoveOccurrence(s, s[k], Occurrence(s, k)) = RemoveAt(s, k)
<1> DEFINE hits == {l \in DOMAIN s : s[l] = s[k] /\ Occurrence(s, l) = Occurrence(s, k)}
<1>1. \A l \in 1..Len(s) : s[l] = s[k] /\ Occurrence(s, l) = Occurrence(s, k) => l = k
  <2> SUFFICES ASSUME NEW l \in 1..Len(s), s[l] = s[k], Occurrence(s, l) = Occurrence(s, k),
                      l # k
               PROVE  FALSE
    OBVIOUS
  <2>1. CASE l < k
    BY <2>1, OccurrenceGrows
  <2>2. CASE k < l
    BY <2>2, OccurrenceGrows
  <2> QED BY <2>1, <2>2
<1>2. hits = {k}
  BY <1>1
<1>3. hits # {} /\ (CHOOSE l \in hits : TRUE) = k
  BY <1>2
<1> QED BY <1>3 DEF RemoveOccurrence

\* The places that are left when one is taken out, renumbered.
Renumbered(r, index) ==
    [i \in 1..(Len(r) - 1) |->
        LET x == RemoveAt(r, index)[i] IN IF x > r[index] THEN x - 1 ELSE x]

\* Where the i-th entry was before the one at index went.
Before(i, index) == IF i < index THEN i ELSE i + 1

\* The places in new are those in r.
PlacesKept(new, r, index, n) ==
    \A i \in 1..(n - 1) :
        /\ Before(i, index) \in 1..n
        /\ r[Before(i, index)] # r[index]
        /\ new[i] = IF r[Before(i, index)] > r[index]
                    THEN r[Before(i, index)] - 1
                    ELSE r[Before(i, index)]

LEMMA RenumberedFacts ==
    ASSUME NEW n \in Nat, NEW r \in Seq(Nat), Len(r) = n, Permutes(r, 1..n),
           NEW index \in 1..n
    PROVE  /\ Permutes(Renumbered(r, index), 1..(n - 1))
           /\ PlacesKept(Renumbered(r, index), r, index, n)
<1> DEFINE new == Renumbered(r, index)
<1>1. /\ \A a \in 1..n : r[a] \in 1..n
      /\ \A a, b \in 1..n : r[a] = r[b] => a = b
      /\ \A m \in 1..n : \E j \in 1..n : r[j] = m
  BY DEF Permutes
<1>2. \A i \in 1..(n - 1) : Before(i, index) \in 1..n /\ Before(i, index) # index
  BY DEF Before
<1>3. \A i \in 1..(n - 1) : RemoveAt(r, index)[i] = r[Before(i, index)]
  <2>1. Removed(RemoveAt(r, index), r, index)
    BY RemoveAtFacts
  <2> QED BY <2>1 DEF Removed, Before
<1>4. DOMAIN new = 1..(n - 1)
  BY DEF Renumbered
<1>5. ASSUME NEW i \in 1..(n - 1)
      PROVE  /\ r[Before(i, index)] # r[index]
             /\ new[i] = IF r[Before(i, index)] > r[index]
                         THEN r[Before(i, index)] - 1
                         ELSE r[Before(i, index)]
             /\ new[i] \in 1..(n - 1)
  <2>1. r[Before(i, index)] \in 1..n /\ r[index] \in 1..n /\ r[Before(i, index)] # r[index]
    BY <1>1, <1>2
  <2>2. new[i] = IF r[Before(i, index)] > r[index]
                 THEN r[Before(i, index)] - 1
                 ELSE r[Before(i, index)]
    BY <1>3 DEF Renumbered
  <2> HIDE DEF new
  <2> QED BY <2>1, <2>2
<1>6. new \in [1..(n - 1) -> 1..(n - 1)]
  <2>1. new = [i \in 1..(n - 1) |-> new[i]]
    BY DEF Renumbered
  <2> HIDE DEF new
  <2> QED BY <1>5, <2>1
<1> HIDE DEF new
<1>7. \A a, b \in 1..(n - 1) : new[a] = new[b] => a = b
  <2> SUFFICES ASSUME NEW a \in 1..(n - 1), NEW b \in 1..(n - 1), new[a] = new[b]
               PROVE  a = b
    OBVIOUS
  <2>1. /\ r[Before(a, index)] \in 1..n /\ r[Before(b, index)] \in 1..n /\ r[index] \in 1..n
    BY <1>1, <1>2
  <2>2. r[Before(a, index)] = r[Before(b, index)]
    <3>1. /\ new[a] = IF r[Before(a, index)] > r[index]
                      THEN r[Before(a, index)] - 1 ELSE r[Before(a, index)]
          /\ new[b] = IF r[Before(b, index)] > r[index]
                      THEN r[Before(b, index)] - 1 ELSE r[Before(b, index)]
          /\ r[Before(a, index)] # r[index] /\ r[Before(b, index)] # r[index]
      BY <1>5
    <3>2. ASSUME NEW x \in Nat, NEW y \in Nat, NEW g \in Nat, x # g, y # g,
                 (IF x > g THEN x - 1 ELSE x) = (IF y > g THEN y - 1 ELSE y)
          PROVE  x = y
      BY <3>2
    <3>3. /\ r[Before(a, index)] \in Nat /\ r[Before(b, index)] \in Nat /\ r[index] \in Nat
      BY <2>1
    <3> QED BY <3>1, <3>2, <3>3
  <2>3. Before(a, index) = Before(b, index)
    BY <1>1, <1>2, <2>2
  <2> QED BY <2>3 DEF Before
<1>8. \A m \in 1..(n - 1) : \E a \in 1..(n - 1) : new[a] = m
  <2> TAKE m \in 1..(n - 1)
  <2> DEFINE x == IF m < r[index] THEN m ELSE m + 1
  <2>1. x \in 1..n /\ x # r[index] /\ r[index] \in 1..n
    <3>1. r[index] \in 1..n
      BY <1>1
    <3> QED BY <3>1
  <2>2. PICK j \in 1..n : r[j] = x
    BY <1>1, <2>1
  <2> DEFINE a == IF j < index THEN j ELSE j - 1
  <2>3. j # index
    BY <2>1, <2>2
  <2>4. a \in 1..(n - 1) /\ Before(a, index) = j
    BY <2>3 DEF Before
  <2>5. new[a] = IF x > r[index] THEN x - 1 ELSE x
    BY <1>5, <2>2, <2>4
  <2>6. new[a] = m
    BY <2>1, <2>5
  <2> QED BY <2>4, <2>6
<1>9. Permutes(new, 1..(n - 1))
  BY <1>6, <1>7, <1>8 DEF Permutes
<1>10. PlacesKept(new, r, index, n)
  BY <1>2, <1>5 DEF PlacesKept
<1> QED BY <1>9, <1>10 DEF new

LEMMA PermutationIsSeq ==
    ASSUME NEW n \in Nat, NEW r, Permutes(r, 1..n)
    PROVE  r \in Seq(Nat) /\ Len(r) = n
<1>1. r \in [1..n -> 1..n]
  BY DEF Permutes
<1>2. r \in [1..n -> Nat]
  BY <1>1
<1> QED BY <1>2

\* A new last place.
LEMMA AppendPermutes ==
    ASSUME NEW n \in Nat, NEW r, Permutes(r, 1..n)
    PROVE  /\ Permutes(Append(r, n + 1), 1..(n + 1))
           /\ \A i \in 1..n : Append(r, n + 1)[i] = r[i] /\ r[i] \in 1..n
           /\ Append(r, n + 1)[n + 1] = n + 1
<1> DEFINE new == Append(r, n + 1)
<1>1. r \in Seq(Nat) /\ Len(r) = n
  BY PermutationIsSeq
<1>2. /\ new \in Seq(Nat) /\ Len(new) = n + 1
      /\ \A i \in 1..n : new[i] = r[i]
      /\ new[n + 1] = n + 1
  BY <1>1, AppendProperties
<1> HIDE DEF new
<1>3. /\ \A i \in 1..n : r[i] \in 1..n
      /\ \A a, b \in 1..n : r[a] = r[b] => a = b
      /\ \A m \in 1..n : \E j \in 1..n : r[j] = m
  BY DEF Permutes
<1>4. \A i \in 1..(n + 1) : i \in 1..n \/ i = n + 1
  OBVIOUS
<1>5. new \in [1..(n + 1) -> 1..(n + 1)]
  <2>1. new \in [1..(n + 1) -> Nat]
    BY <1>2
  <2>2. ASSUME NEW i \in 1..(n + 1) PROVE new[i] \in 1..(n + 1)
    <3>1. CASE i \in 1..n
      <4>1. new[i] \in 1..n
        BY <1>2, <1>3, <3>1
      <4> QED BY <4>1
    <3>2. CASE i = n + 1
      BY <1>2, <3>2
    <3> QED BY <1>4, <3>1, <3>2
  <2> QED BY <2>1, <2>2
<1>6. ASSUME NEW a \in 1..(n + 1), NEW b \in 1..(n + 1), new[a] = new[b] PROVE a = b
  <2>1. ASSUME NEW i \in 1..n PROVE new[i] = r[i] /\ r[i] # n + 1
    <3>1. r[i] \in 1..n /\ new[i] = r[i]
      BY <1>2, <1>3
    <3>2. n + 1 \notin 1..n
      OBVIOUS
    <3> QED BY <3>1, <3>2
  <2>2. CASE a \in 1..n /\ b \in 1..n
    <3>1. r[a] = r[b]
      BY <1>6, <2>1, <2>2
    <3> QED BY <1>3, <2>2, <3>1
  <2>3. CASE a = n + 1 \/ b = n + 1
    BY <1>2, <1>4, <1>6, <2>1, <2>3
  <2> QED BY <1>4, <2>2, <2>3
<1>7. \A m \in 1..(n + 1) : \E j \in 1..(n + 1) : new[j] = m
  <2> TAKE m \in 1..(n + 1)
  <2>1. CASE m \in 1..n
    <3>1. PICK j \in 1..n : r[j] = m
      BY <1>3, <2>1
    <3> QED BY <1>2, <3>1
  <2>2. CASE m = n + 1
    BY <1>2, <2>2
  <2> QED BY <1>4, <2>1, <2>2
<1>8. Permutes(new, 1..(n + 1))
  BY <1>5, <1>6, <1>7 DEF Permutes
<1> QED BY <1>2, <1>3, <1>8 DEF new

\* OrderInv for a queue q of n entries, its saved order o (if shuffled) and places r.
Ordered(q, o, r, n, shuffled) ==
    /\ Permutes(r, 1..n)
    /\ \A i, j \in 1..n : i < j /\ q[i] = q[j] => r[i] < r[j]
    /\ shuffled => Len(o) = n /\ \A i \in 1..n : o[r[i]] = q[i]

LEMMA OrderedIsOrderInv ==
    ASSUME queue \in Seq(Track)
    PROVE  OrderInv <=> Ordered(queue, original, rank, Len(queue), shuffle)
<1>1. DOMAIN queue = 1..Len(queue)
  OBVIOUS
<1>2. rank \in Bijection(DOMAIN queue, DOMAIN queue) <=> Permutes(rank, 1..Len(queue))
  BY <1>1, BijectionPermutes
<1> QED BY <1>1, <1>2 DEF OrderInv, SavedOrderMatchesQueue, EqualsInOrder, Ordered

\* The same after a step.
LEMMA OrderedIsOrderInvNext ==
    ASSUME queue' \in Seq(Track)
    PROVE  OrderInv' <=> Ordered(queue', original', rank', Len(queue'), shuffle')
<1>1. DOMAIN queue' = 1..Len(queue')
  OBVIOUS
<1>2. rank' \in Bijection(DOMAIN queue', DOMAIN queue') <=> Permutes(rank', 1..Len(queue'))
  BY <1>1, BijectionPermutes
<1> QED BY <1>1, <1>2 DEF OrderInv, SavedOrderMatchesQueue, EqualsInOrder, Ordered

LEMMA IdentityOrdered ==
    ASSUME NEW n \in Nat, NEW q, NEW o, NEW shuffled,
           shuffled => o = q /\ Len(q) = n
    PROVE  Ordered(q, o, Identity(n), n, shuffled)
<1>1. Permutes(Identity(n), 1..n)
  BY IdentityFacts, BijectionPermutes
<1> QED BY <1>1, IdentityFacts DEF Ordered

LEMMA OrderPush ==
    ASSUME CursorInv, OrderInv, NEW t \in Track, Push(t), UNCHANGED modes
    PROVE  OrderInv'
<1> DEFINE n == Len(queue)
<1>1. queue \in Seq(Track) /\ n \in Nat /\ shuffle' = shuffle /\ SavedType
  BY DEF CursorInv, PlayerTypes, modes
<1>2. Ordered(queue, original, rank, n, shuffle)
  BY <1>1, OrderedIsOrderInv
<1>3. /\ queue' \in Seq(Track) /\ Len(queue') = n + 1
      /\ \A i \in 1..n : queue'[i] = queue[i]
      /\ queue'[n + 1] = t
  BY PushFacts
<1>4. /\ Permutes(rank', 1..(n + 1))
      /\ \A i \in 1..n : rank'[i] = rank[i] /\ rank[i] \in 1..n
      /\ rank'[n + 1] = n + 1
  <2>1. rank' = Append(rank, n + 1) /\ Permutes(rank, 1..n)
    BY <1>2 DEF Push, Ordered
  <2> QED BY <1>1, <2>1, AppendPermutes
<1> HIDE DEF n
<1>5. \A i, j \in 1..(n + 1) : i < j /\ queue'[i] = queue'[j] => rank'[i] < rank'[j]
  <2> SUFFICES ASSUME NEW i \in 1..(n + 1), NEW j \in 1..(n + 1), i < j, queue'[i] = queue'[j]
               PROVE  rank'[i] < rank'[j]
    OBVIOUS
  <2>1. i \in 1..n /\ (j \in 1..n \/ j = n + 1)
    BY <1>1
  <2>2. CASE j \in 1..n
    BY <1>2, <1>3, <1>4, <2>1, <2>2 DEF Ordered
  <2>3. CASE j = n + 1
    BY <1>1, <1>4, <2>1, <2>3
  <2> QED BY <2>1, <2>2, <2>3
<1>6. shuffle => /\ Len(original') = n + 1
                 /\ \A i \in 1..(n + 1) : original'[rank'[i]] = queue'[i]
  <2> SUFFICES ASSUME shuffle
               PROVE  /\ Len(original') = n + 1
                      /\ \A i \in 1..(n + 1) : original'[rank'[i]] = queue'[i]
    OBVIOUS
  <2>1. original \in Seq(Track) /\ original # None /\ original' = Append(original, t)
    BY <1>1, PlayerAssumption DEF Push, SavedType
  <2>2. Len(original) = n /\ \A i \in 1..n : original[rank[i]] = queue[i]
    BY <1>2 DEF Ordered
  <2>3. /\ Len(original') = n + 1 /\ original'[n + 1] = t
        /\ \A i \in 1..n : original'[i] = original[i]
    BY <2>1, <2>2, AppendProperties
  <2>4. ASSUME NEW i \in 1..(n + 1)
        PROVE  original'[rank'[i]] = queue'[i]
    <3>1. CASE i \in 1..n
      BY <1>3, <1>4, <2>2, <2>3, <3>1
    <3>2. CASE i = n + 1
      BY <1>3, <1>4, <2>3, <3>2
    <3> QED BY <1>1, <3>1, <3>2
  <2> QED BY <2>3, <2>4
<1>7. Ordered(queue', original', rank', n + 1, shuffle')
  BY <1>1, <1>4, <1>5, <1>6 DEF Ordered
<1> QED BY <1>3, <1>7, OrderedIsOrderInvNext

LEMMA OrderQueueRemove ==
    ASSUME CursorInv, OrderInv, NEW index \in 1..MaxQueue, QueueRemove(index)
    PROVE  OrderInv'
<1> DEFINE n == Len(queue)
           rest == RemoveAt(queue, index)
<1>1. /\ queue \in Seq(Track) /\ n \in Nat /\ index \in 1..n /\ SavedType
      /\ shuffle' = shuffle /\ queue' = rest
  BY DEF CursorInv, PlayerTypes, QueueRemove, modes
<1>2. Ordered(queue, original, rank, n, shuffle)
  BY <1>1, OrderedIsOrderInv
<1>3. /\ rest \in Seq(Track) /\ Len(rest) = n - 1
      /\ \A i \in 1..(n - 1) : rest[i] = queue[Before(i, index)]
  <2>1. rest \in Seq(Track) /\ Removed(rest, queue, index)
    BY <1>1, RemoveAtFacts
  <2> QED BY <2>1 DEF Removed, Before
<1>4. rank \in Seq(Nat) /\ Len(rank) = n /\ rank \in Bijection(1..n, 1..n)
  BY <1>1, <1>2, PermutationIsSeq, BijectionPermutes DEF Ordered
<1>5. rank' = Renumbered(rank, index)
  <2>1. rank' = [i \in DOMAIN rest |->
                   LET x == RemoveAt(rank, index)[i] IN IF x > rank[index] THEN x - 1 ELSE x]
    BY DEF QueueRemove
  <2>2. DOMAIN rest = 1..(n - 1)
    BY <1>3
  <2> QED BY <1>4, <2>1, <2>2 DEF Renumbered
<1> HIDE DEF rest, n
<1>6. /\ Permutes(rank', 1..(n - 1))
      /\ \A i \in 1..(n - 1) :
           /\ Before(i, index) \in 1..n
           /\ rank[Before(i, index)] # rank[index]
           /\ rank'[i] = IF rank[Before(i, index)] > rank[index]
                         THEN rank[Before(i, index)] - 1
                         ELSE rank[Before(i, index)]
  <2>1. Permutes(rank, 1..n)
    BY <1>2 DEF Ordered
  <2>2. Permutes(rank', 1..(n - 1)) /\ PlacesKept(rank', rank, index, n)
    BY <1>1, <1>4, <1>5, <2>1, RenumberedFacts
  <2> QED BY <2>2 DEF PlacesKept
<1>7. \A i \in 1..n : rank[i] \in 1..n
  BY <1>2 DEF Ordered, Permutes
<1>8. \A i, j \in 1..(n - 1) : i < j /\ rest[i] = rest[j] => rank'[i] < rank'[j]
  <2> SUFFICES ASSUME NEW i \in 1..(n - 1), NEW j \in 1..(n - 1), i < j, rest[i] = rest[j]
               PROVE  rank'[i] < rank'[j]
    OBVIOUS
  <2> DEFINE a == rank[Before(i, index)]
             b == rank[Before(j, index)]
             g == rank[index]
  <2>1. Before(i, index) < Before(j, index)
    BY DEF Before
  <2>2. a < b
    BY <1>2, <1>3, <1>6, <2>1 DEF Ordered
  <2>3. a \in Nat /\ b \in Nat /\ g \in Nat /\ a # g /\ b # g
    BY <1>1, <1>6, <1>7
  <2>4. /\ rank'[i] = (IF a > g THEN a - 1 ELSE a)
        /\ rank'[j] = (IF b > g THEN b - 1 ELSE b)
    BY <1>6
  <2> HIDE DEF a, b, g
  <2> QED BY <2>2, <2>3, <2>4
<1>9. shuffle => /\ Len(original') = n - 1
                 /\ \A i \in 1..(n - 1) : original'[rank'[i]] = rest[i]
  <2> SUFFICES ASSUME shuffle
               PROVE  /\ Len(original') = n - 1
                      /\ \A i \in 1..(n - 1) : original'[rank'[i]] = rest[i]
    OBVIOUS
  <2> DEFINE g == rank[index]
  <2>1. original \in Seq(Track) /\ original # None
    BY <1>1, PlayerAssumption DEF SavedType
  <2>2. Len(original) = n /\ \A i \in 1..n : original[rank[i]] = queue[i]
    BY <1>2 DEF Ordered
  <2>3. g \in 1..n /\ original[g] = queue[index]
    BY <1>1, <1>7, <2>2
  <2>4. Occurrence(original, g) = Occurrence(queue, index)
    BY <1>1, <1>2, <1>4, <2>1, <2>2, OccurrenceMoves DEF Ordered, n
  <2>5. original' = RemoveAt(original, g)
    <3>1. original' = RemoveOccurrence(original, queue[index], Occurrence(queue, index))
      BY <2>1 DEF QueueRemove
    <3> QED BY <2>1, <2>2, <2>3, <2>4, <3>1, RemoveOccurrenceIsRemoveAt
  <2>6. /\ Len(original') = n - 1
        /\ \A k \in 1..(n - 1) : original'[k] = original[Before(k, g)]
    <3>1. Removed(original', original, g)
      BY <2>1, <2>2, <2>3, <2>5, RemoveAtFacts
    <3> QED BY <2>2, <3>1 DEF Removed, Before
  <2>7. ASSUME NEW i \in 1..(n - 1)
        PROVE  original'[rank'[i]] = rest[i]
    <3> DEFINE x == rank[Before(i, index)]
    <3>1. x \in 1..n /\ x # g /\ original[x] = queue[Before(i, index)]
      BY <1>6, <1>7, <2>2
    <3>2. rank'[i] = (IF x > g THEN x - 1 ELSE x) /\ rank'[i] \in 1..(n - 1)
      BY <1>6 DEF Permutes
    <3> HIDE DEF x
    <3>3. Before(rank'[i], g) = x
      BY <2>3, <3>1, <3>2 DEF Before
    <3> QED BY <1>3, <2>6, <3>1, <3>2, <3>3
  <2> QED BY <2>6, <2>7
<1>10. Ordered(queue', original', rank', n - 1, shuffle')
  BY <1>1, <1>6, <1>8, <1>9 DEF Ordered
<1> QED BY <1>1, <1>3, <1>10, OrderedIsOrderInvNext

LEMMA OrderQueueMove ==
    ASSUME CursorInv, NEW from \in 1..MaxQueue, NEW to \in 1..MaxQueue, QueueMove(from, to)
    PROVE  OrderInv'
<1>1. /\ queue \in Seq(Track) /\ Len(queue) \in Nat /\ from \in DOMAIN queue /\ to \in DOMAIN queue
      /\ queue' = MoveItem(queue, from, to) /\ rank' = Identity(Len(queue))
      /\ shuffle' = shuffle /\ (shuffle => original' = queue')
  BY DEF CursorInv, PlayerTypes, QueueMove, modes
<1>2. queue' \in Seq(Track) /\ Len(queue') = Len(queue)
  BY <1>1, MoveItemFacts
<1>3. Ordered(queue', original', rank', Len(queue'), shuffle')
  BY <1>1, <1>2, IdentityOrdered
<1> QED BY <1>2, <1>3, OrderedIsOrderInvNext

LEMMA OrderQueueClear == QueueClear => OrderInv'
<1> SUFFICES ASSUME QueueClear PROVE OrderInv'
  OBVIOUS
<1>1. /\ queue' = <<>> /\ rank' = <<>> /\ queue' \in Seq(Track) /\ Len(queue') = 0
      /\ shuffle' = shuffle /\ (shuffle => original' = queue')
  BY DEF QueueClear, modes
<1>2. Identity(0) = <<>>
  BY DEF Identity
<1>3. Ordered(queue', original', rank', Len(queue'), shuffle')
  BY <1>1, <1>2, IdentityOrdered
<1> QED BY <1>1, <1>3, OrderedIsOrderInvNext

LEMMA OrderSetShuffle ==
    ASSUME CursorInv, OrderInv, NEW enabled \in BOOLEAN, SetShuffle(enabled)
    PROVE  OrderInv'
<1>1. queue \in Seq(Track) /\ Len(queue) \in Nat /\ shuffle \in BOOLEAN /\ SavedType
  BY DEF CursorInv, PlayerTypes
<1>2. CASE enabled
  <2>1. PICK p \in ShuffleOrders(queue) :
          queue' = [i \in DOMAIN queue |-> queue[p[i]]] /\ rank' = p
    BY <1>2 DEF SetShuffle
  <2>2. /\ DOMAIN queue = 1..Len(queue)
        /\ Permutes(p, 1..Len(queue))
        /\ p \in [1..Len(queue) -> 1..Len(queue)]
        /\ \A i, j \in 1..Len(queue) : i < j /\ queue[p[i]] = queue[p[j]] => p[i] < p[j]
    BY <1>1, ShuffleFacts, BijectionPermutes
  <2>3. queue' \in Seq(Track) /\ Len(queue') = Len(queue)
    BY <1>1, <2>1, <2>2
  <2>4. \A i \in 1..Len(queue) : queue'[i] = queue[p[i]]
    BY <2>1, <2>2
  <2>5. original' = queue
    BY <1>2 DEF SetShuffle
  <2>6. Ordered(queue', original', rank', Len(queue'), shuffle')
    BY <2>1, <2>2, <2>3, <2>4, <2>5 DEF Ordered
  <2> QED BY <2>3, <2>6, OrderedIsOrderInvNext
<1>3. CASE ~enabled
  <2>1. shuffle /\ ~shuffle' /\ rank' = Identity(Len(queue'))
    BY <1>1, <1>3 DEF SetShuffle
  <2>2. original \in Seq(Track) /\ original # None
    BY <1>1, <2>1, PlayerAssumption DEF SavedType
  <2>3. queue' \in Seq(Track) /\ Len(queue') \in Nat
    BY <1>3, <2>2 DEF SetShuffle
  <2>4. Ordered(queue', original', rank', Len(queue'), shuffle')
    BY <2>1, <2>3, IdentityOrdered
  <2> QED BY <2>3, <2>4, OrderedIsOrderInvNext
<1> QED BY <1>2, <1>3

\* The commands that change neither the queue nor the modes that say what is saved.
LEMMA OrderUnchanged ==
    OrderInv /\ UNCHANGED <<queue, original, rank, shuffle>> => OrderInv'
<1> SUFFICES ASSUME OrderInv, queue' = queue, original' = original, rank' = rank,
                    shuffle' = shuffle
             PROVE  OrderInv'
  OBVIOUS
<1> QED BY DEF OrderInv, SavedOrderMatchesQueue, EqualsInOrder

LEMMA OrderTransport ==
    ASSUME OrderInv,
           \/ Play \/ Pause \/ Stop \/ NextTrack \/ Previous \/ CatalogScan
           \/ \E at \in Position, t \in Track \cup {None} : Seek(at, t)
           \/ \E mode \in Repeat : SetRepeat(mode)
           \/ \E s \in Status, at \in Position, err \in BOOLEAN : ReportPlayback(s, at, err)
           \/ UNCHANGED vars
    PROVE  OrderInv'
<1>1. \A b \in BOOLEAN : \A at, err :
        Advance(b, at, err) => UNCHANGED <<queue, original, rank, shuffle>>
  BY DEF Advance, modes, entries
<1>2. UNCHANGED <<queue, original, rank, shuffle>>
  <2>1. CASE Play \/ Pause \/ Stop \/ Previous \/ CatalogScan \/ UNCHANGED vars
    BY <2>1 DEF Play, Pause, Stop, Previous, CatalogScan, vars, modes, entries
  <2>2. CASE NextTrack
    BY <1>1, <2>2 DEF NextTrack
  <2>3. CASE \E at \in Position, t \in Track \cup {None} : Seek(at, t)
    BY <2>3 DEF Seek, modes, entries
  <2>4. CASE \E mode \in Repeat : SetRepeat(mode)
    BY <2>4 DEF SetRepeat, entries
  <2>5. CASE \E s \in Status, at \in Position, err \in BOOLEAN : ReportPlayback(s, at, err)
    BY <1>1, <2>5 DEF ReportPlayback, modes, entries
  <2> QED BY <2>1, <2>2, <2>3, <2>4, <2>5
<1> QED BY <1>2, OrderUnchanged

LEMMA OrderStep == CursorInv /\ OrderInv /\ [Next]_vars => OrderInv'
<1> SUFFICES ASSUME CursorInv, OrderInv, [Next]_vars PROVE OrderInv'
  OBVIOUS
<1>1. CASE \E t \in Track : PlayTrack(t) \/ QueueAdd(t)
  <2> PICK t \in Track : PlayTrack(t) \/ QueueAdd(t)
    BY <1>1
  <2>1. CASE Push(t) /\ UNCHANGED modes
    BY <2>1, OrderPush
  <2>2. CASE UNCHANGED entries /\ UNCHANGED modes
    BY <2>2, OrderUnchanged DEF entries, modes
  <2> QED BY <2>1, <2>2 DEF PlayTrack, QueueAdd
<1>2. CASE \E i \in 1..MaxQueue : QueueRemove(i)
  BY <1>2, OrderQueueRemove
<1>3. CASE \E i, j \in 1..MaxQueue : QueueMove(i, j)
  BY <1>3, OrderQueueMove
<1>4. CASE QueueClear
  BY <1>4, OrderQueueClear
<1>5. CASE \E enabled \in BOOLEAN : SetShuffle(enabled)
  BY <1>5, OrderSetShuffle
<1>6. CASE \/ Play \/ Pause \/ Stop \/ NextTrack \/ Previous \/ CatalogScan
           \/ \E at \in Position, t \in Track \cup {None} : Seek(at, t)
           \/ \E mode \in Repeat : SetRepeat(mode)
           \/ \E s \in Status, at \in Position, err \in BOOLEAN : ReportPlayback(s, at, err)
           \/ UNCHANGED vars
  BY <1>6, OrderTransport
<1> QED BY <1>1, <1>2, <1>3, <1>4, <1>5, <1>6 DEF Next, Ask

LEMMA OrderInit == Init => OrderInv
<1> SUFFICES ASSUME Init PROVE OrderInv
  OBVIOUS
<1>1. queue = <<>> /\ rank = <<>> /\ queue \in Seq(Track) /\ Len(queue) = 0 /\ ~shuffle
  BY DEF Init
<1>2. Identity(0) = <<>>
  BY DEF Identity
<1>3. Ordered(queue, original, rank, Len(queue), shuffle)
  BY <1>1, <1>2, IdentityOrdered
<1> QED BY <1>1, <1>3, OrderedIsOrderInv

\* The saved order and the queue have the same entries, equal ones in the same order.
THEOREM OrderInvariant == Spec => []OrderInv
BY OrderInit, OrderStep, CursorInvariant, PTL DEF Spec

\* Turning shuffle off neither loses nor duplicates an entry.
THEOREM SavedOrderIsQueue == Spec => []SavedOrderMatchesQueue
<1>1. OrderInv => SavedOrderMatchesQueue
  BY DEF OrderInv
<1> QED BY <1>1, OrderInvariant, PTL

\* Every field has its type; that rank has is a consequence of it being a bijection.
THEOREM TypeCorrect == Spec => []TypeOK
<1>1. CursorInv /\ OrderInv => TypeOK
  <2> SUFFICES ASSUME CursorInv, OrderInv PROVE TypeOK
    OBVIOUS
  <2>1. queue \in Seq(Track) /\ Len(queue) \in Nat
    BY DEF CursorInv, PlayerTypes
  <2>2. rank \in Seq(Nat)
    BY <2>1, OrderedIsOrderInv, PermutationIsSeq DEF Ordered
  <2> QED BY <2>2 DEF CursorInv, PlayerTypes, SavedType, TypeOK
<1> QED BY <1>1, CursorInvariant, OrderInvariant, PTL

-----------------------------------------------------------------------------
(* The host implements the player.                                         *)

\* A queued command is a command of the player: the host asks for nothing
\* that PlayerQueue does not know.
LEMMA TaskIsCommand ==
    ASSUME NEW task \in Task, RunTask(task)
    PROVE  Next
<1>1. CASE task = "next" /\ NextTrack
  BY <1>1 DEF Next, Ask
<1>2. CASE \E at \in Position : ReportPlayback("error", at, TRUE)
  BY <1>2 DEF Next, Status
<1> QED BY <1>1, <1>2 DEF RunTask

\* Each step of the host is a command of the player or leaves it alone.
LEMMA HostStepsThePlayer == [HostNext]_hostVars => [Next]_vars
<1> SUFFICES ASSUME [HostNext]_hostVars PROVE [Next]_vars
  OBVIOUS
<1>1. CASE Command
  BY <1>1 DEF Command, Next
<1>2. CASE Sync
  BY <1>2 DEF Sync
<1>3. CASE TrackEnds
  BY <1>3 DEF TrackEnds, Event
<1>4. CASE MediaFails("playing") \/ MediaFails("paused")
  BY <1>4 DEF MediaFails, Event
<1>5. CASE RunTask("next") \/ RunTask("error")
  BY <1>5, TaskIsCommand DEF Task
<1>6. CASE Leave
  BY <1>6 DEF Leave
<1>7. CASE UNCHANGED hostVars
  BY <1>7 DEF hostVars
<1> QED BY <1>1, <1>2, <1>3, <1>4, <1>5, <1>6, <1>7 DEF HostNext

\* The radio as a whole, seen at the player, is a run of PlayerQueue: the
\* element's events, the task chain and the snapshots add no behaviour to it.
THEOREM HostImplementsPlayer == HostSpec => Spec
<1>1. HostInit => Init
  BY DEF HostInit
<1> QED BY <1>1, HostStepsThePlayer, PTL DEF HostSpec, Spec

\* While the host drives the player, the cursor still marks the current track.
THEOREM HostCursorIsCurrent == HostSpec => []CursorMarksCurrent
BY HostImplementsPlayer, CursorIsCurrent, PTL

-----------------------------------------------------------------------------
(* The types of the host's fields.                                         *)

HostTypes ==
    /\ element \in {"playing", "paused", "failed"}
    /\ loaded \in Track \cup {None}
    /\ tasks \in Seq(Task) /\ Len(tasks) <= MaxTasks
    /\ fresh \in BOOLEAN
    /\ attended \in BOOLEAN

\* An event of the element puts its command at the end of the chain.
LEMMA EventTypes ==
    ASSUME HostTypes, NEW before, NEW after \in {"playing", "paused", "failed"},
           NEW task \in Task, Event(before, after, task)
    PROVE  HostTypes'
<1>1. /\ Append(tasks, task) \in Seq(Task)
      /\ Len(Append(tasks, task)) = Len(tasks) + 1 /\ Len(tasks) \in Nat
  BY DEF HostTypes
<1>2. Len(tasks) + 1 <= MaxTasks
  BY <1>1, HostAssumption DEF Event
<1> QED BY <1>1, <1>2 DEF HostTypes, Event

\* Running a command takes it out of the chain.
LEMMA RunTaskTypes ==
    ASSUME HostTypes, NEW task, RunTask(task)
    PROVE  HostTypes'
<1>1. Tail(tasks) \in Seq(Task) /\ Len(Tail(tasks)) = Len(tasks) - 1 /\ Len(tasks) \in Nat
  BY DEF HostTypes, RunTask
<1>2. Len(tasks) - 1 <= MaxTasks
  BY <1>1, HostAssumption DEF HostTypes
<1> QED BY <1>1, <1>2 DEF HostTypes, RunTask

\* A snapshot leaves the element in one of its three conditions.
LEMMA SyncTypes == TypeOK /\ HostTypes /\ Sync => HostTypes'
<1> SUFFICES ASSUME TypeOK, HostTypes, Sync PROVE HostTypes'
  OBVIOUS
<1>1. element' \in {"playing", "paused", "failed"}
  BY DEF Sync, HostTypes
<1>2. loaded' \in Track \cup {None}
  BY DEF Sync, TypeOK
<1> QED BY <1>1, <1>2 DEF Sync, HostTypes

LEMMA HostTypesStep == TypeOK /\ HostTypes /\ [HostNext]_hostVars => HostTypes'
<1> SUFFICES ASSUME TypeOK, HostTypes, [HostNext]_hostVars PROVE HostTypes'
  OBVIOUS
<1>1. CASE Command
  BY <1>1 DEF Command, HostTypes
<1>2. CASE Sync
  BY <1>2, SyncTypes
<1>3. CASE TrackEnds
  BY <1>3, EventTypes DEF TrackEnds, Task
<1>4. CASE MediaFails("playing") \/ MediaFails("paused")
  BY <1>4, EventTypes DEF MediaFails, Task
<1>5. CASE RunTask("next") \/ RunTask("error")
  BY <1>5, RunTaskTypes
<1>6. CASE Leave
  BY <1>6 DEF Leave, HostTypes
<1>7. CASE UNCHANGED hostVars
  BY <1>7 DEF hostVars, host, HostTypes
<1> QED BY <1>1, <1>2, <1>3, <1>4, <1>5, <1>6, <1>7 DEF HostNext

LEMMA HostTypesInit == HostInit => HostTypes
BY HostAssumption DEF HostInit, HostTypes

\* Every field of the host and of the player has its type, and the chain stays
\* within its bound.
THEOREM HostTypeCorrect == HostSpec => []HostTypeOK
<1>1. TypeOK /\ HostTypes => HostTypeOK
  BY DEF HostTypes, HostTypeOK
<1> QED BY <1>1, HostImplementsPlayer, TypeCorrect, HostTypesInit, HostTypesStep, PTL
        DEF HostSpec

-----------------------------------------------------------------------------
(* What is heard.  The invariant is inductive as it stands: only a        *)
(* snapshot makes the host fresh, and from then on neither the player nor *)
(* what is loaded changes before it is stale again, while every event of  *)
(* the element silences it.                                               *)

\* A snapshot leaves the element playing nothing but the current track.
LEMMA SyncIsHeard == HeardIsPlaying /\ Sync => HeardIsPlaying'
<1> SUFFICES ASSUME Sync, element' = "playing"
             PROVE  loaded' = current' /\ status' \in {"playing", "buffering"}
  BY DEF HeardIsPlaying
<1>1. loaded' = current /\ current' = current /\ status' = status
  BY DEF Sync, vars, transport
<1>2. status \in {"playing", "buffering"}
  BY DEF Sync
<1> QED BY <1>1, <1>2

LEMMA HeardStep == HeardIsPlaying /\ [HostNext]_hostVars => HeardIsPlaying'
<1> SUFFICES ASSUME HeardIsPlaying, [HostNext]_hostVars PROVE HeardIsPlaying'
  OBVIOUS
<1>1. CASE Command
  BY <1>1 DEF Command, HeardIsPlaying
<1>2. CASE Sync
  BY <1>2, SyncIsHeard
<1>3. CASE TrackEnds
  BY <1>3 DEF TrackEnds, Event, HeardIsPlaying
<1>4. CASE MediaFails("playing") \/ MediaFails("paused")
  BY <1>4 DEF MediaFails, Event, HeardIsPlaying
<1>5. CASE RunTask("next") \/ RunTask("error")
  BY <1>5 DEF RunTask, HeardIsPlaying
<1>6. CASE Leave
  BY <1>6 DEF Leave, HeardIsPlaying, vars, transport
<1>7. CASE UNCHANGED hostVars
  BY <1>7 DEF hostVars, host, HeardIsPlaying, vars, transport
<1> QED BY <1>1, <1>2, <1>3, <1>4, <1>5, <1>6, <1>7 DEF HostNext

\* Once the latest snapshot is applied nothing but the current track sounds, and
\* only while the authority says so.
THEOREM HeardIsCurrent == HostSpec => []HeardIsPlaying
<1>1. HostInit => HeardIsPlaying
  BY DEF HostInit, HeardIsPlaying
<1> QED BY <1>1, HeardStep, PTL DEF HostSpec
=============================================================================
