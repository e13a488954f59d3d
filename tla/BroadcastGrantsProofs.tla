------------------------- MODULE BroadcastGrantsProofs -------------------------
(***************************************************************************)
(* Proofs about BroadcastGrants, for any number of handlers, peers, grants *)
(* and sessions: types, and that a revoked session authorizes nothing.     *)
(***************************************************************************)
EXTENDS BroadcastGrants, TLAPS

\* A handler's step tells which data it carries.
LEMMA HandlerKinds ==
    ASSUME NEW h \in Handler
    PROVE  /\ h.at \in {"clear", "revoke"} => h \in Ending
           /\ h.at = "insert" => h \in Verifying
           /\ h.at = "check" => h \in Checking
           /\ h.at = "run" => h \in Running
BY DEF Handler, Resting, Ending, Verifying, Checking, Running

\* The invariant TypeOK of the specification.
THEOREM TypeCorrect == Spec => []TypeOK
<1>1. Init => TypeOK
  BY GrantAssumption DEF Init, TypeOK, Idle, Handler, Resting, Session
<1>2. TypeOK /\ [Next]_vars => TypeOK'
  <2> SUFFICES ASSUME TypeOK, [Next]_vars PROVE TypeOK'
    OBVIOUS
  <2> USE GrantAssumption DEF TypeOK, Goes, seen
  <2>1. ASSUME NEW j \in Job, Start(j) PROVE TypeOK'
    BY <2>1 DEF Start, Session, Handler, Ending
  <2>2. ASSUME NEW j \in Job, Stop(j) PROVE TypeOK'
    BY <2>2 DEF Stop, Session, Handler, Ending
  <2>3. ASSUME NEW j \in Job, ClearGrants(j) PROVE TypeOK'
    BY <2>3, HandlerKinds DEF ClearGrants, Handler, Ending
  <2>4. ASSUME NEW j \in Job, RevokeUploads(j) PROVE TypeOK'
    BY <2>4, HandlerKinds DEF RevokeUploads, Handler, Ending, Resting, Idle
  <2>5. ASSUME NEW j \in Job, NEW peer \in Peer, NEW mode \in Mode, Verify(j, peer, mode)
        PROVE  TypeOK'
    BY <2>5 DEF Verify, Handler, Verifying
  <2>6. ASSUME NEW j \in Job, RejectProof(j) PROVE TypeOK'
    BY <2>6 DEF RejectProof, Handler, Resting, Idle
  <2>7. ASSUME NEW j \in Job, NEW id \in GrantId, InsertGrant(j, id) PROVE TypeOK'
    <3>1. job[j] \in Verifying
      BY <2>7, HandlerKinds DEF InsertGrant
    <3>2. [session |-> job[j].session, peer |-> job[j].peer,
           mode |-> job[j].mode, next |-> 1, live |-> TRUE] \in Grant
      BY <3>1 DEF Verifying, Grant
    <3> QED BY <2>7, <3>2 DEF InsertGrant, Handler, Resting, Idle
  <2>8. ASSUME NEW j \in Job, NEW request \in Request, Arrive(j, request) PROVE TypeOK'
    BY <2>8 DEF Arrive, Handler, Checking
  <2>9. ASSUME NEW j \in Job, Authorize(j) PROVE TypeOK'
    <3> DEFINE r == job[j].request
    <3>1. job[j] \in Checking /\ r \in Request /\ r.grant \in Unexpired
      BY <2>9, HandlerKinds DEF Authorize, Authorizes, Checking
    <3>2. grants[r.grant] \in Grant /\ grants[r.grant].session = job[j].active
          /\ grants[r.grant].next \in 1..MaxSequence
      BY <2>9, <3>1 DEF Authorize, Authorizes, Unexpired, Request
    <3>3. [grants[r.grant] EXCEPT !.next = @ + 1] \in Grant
      BY <3>2 DEF Grant
    <3>4. \A g \in DOMAIN grants' : grants'[g] \in Grant
      BY <2>9, <3>3 DEF Authorize, Unexpired
    <3>5. DOMAIN grants' \in SUBSET GrantId
      BY <2>9 DEF Authorize, Unexpired
    <3>6. [at |-> "run", request |-> r] \in Handler
      BY <3>1, <3>2 DEF Handler, Running, Grant
    <3> QED BY <2>9, <3>1, <3>4, <3>5, <3>6 DEF Authorize
  <2>10. ASSUME NEW j \in Job, Deny(j) PROVE TypeOK'
    BY <2>10 DEF Deny, Unexpired, Handler, Resting, Idle
  <2>11. ASSUME NEW j \in Job, Perform(j) PROVE TypeOK'
    <3>1. job[j] \in Running
      BY <2>11, HandlerKinds DEF Perform
    <3> QED BY <2>11, <3>1 DEF Perform, Running, Handler, Resting, Idle
  <2>12. ASSUME NEW id \in GrantId, Expire(id) PROVE TypeOK'
    <3>1. [grants[id] EXCEPT !.live = FALSE] \in Grant
      BY <2>12 DEF Expire, Grant
    <3> QED BY <2>12, <3>1 DEF Expire
  <2>13. CASE UNCHANGED vars
    BY <2>13 DEF vars
  <2> QED
    BY <2>1, <2>2, <2>3, <2>4, <2>5, <2>6, <2>7, <2>8, <2>9, <2>10, <2>11, <2>12, <2>13 DEF Next
<1> QED BY <1>1, <1>2, PTL DEF Spec

-----------------------------------------------------------------------------
(* What is gone: a session whose end has been carried out on the grants. *)

Gone == revoked \cup UNION {job[j].ends : j \in {k \in Job : job[k].at = "revoke"}}

\* The active session is none that a stop or a later start is ending, and no
\* handler about to check a grant can find one of a session that is gone: the
\* grants were cleared after the handler's request named its grant, and grants made
\* since then have other ids.  It is what makes the property inductive.
NoWayBack ==
    /\ DOMAIN grants \subseteq issued
    /\ revoked \subseteq 1..started
    /\ broadcast \notin revoked
    /\ \A j \in Job : job[j].at \in {"clear", "revoke"} =>
         job[j].ends \subseteq 1..started /\ broadcast \notin job[j].ends
    /\ \A j \in Job : job[j].at = "check" =>
         /\ job[j].request.grant \in issued
         /\ job[j].active \in Gone /\ job[j].request.grant \in DOMAIN grants =>
              grants[job[j].request.grant].session # job[j].active

\* NoWayBack holds throughout.
THEOREM NoWayBackInvariant == Spec => []NoWayBack
<1>1. Init => NoWayBack
  BY GrantAssumption DEF Init, NoWayBack, Idle
<1>2. TypeOK /\ NoWayBack /\ [Next]_vars => NoWayBack'
  <2> SUFFICES ASSUME TypeOK, NoWayBack, [Next]_vars PROVE NoWayBack'
    OBVIOUS
  <2> USE GrantAssumption
  <2>1. ASSUME NEW j \in Job, Start(j) PROVE NoWayBack'
    <3>1. Gone' = Gone
      BY <2>1 DEF Start, Goes, seen, Gone, TypeOK
    <3> QED BY <2>1, <3>1 DEF Start, Goes, seen, NoWayBack, TypeOK, Session
  <2>2. ASSUME NEW j \in Job, Stop(j) PROVE NoWayBack'
    <3>1. Gone' = Gone
      BY <2>2 DEF Stop, Goes, seen, Gone, TypeOK
    <3>2. None \notin 1..started
      OBVIOUS
    <3>3. \A k \in Job : job'[k].at \in {"clear", "revoke"} =>
            job'[k].ends \subseteq 1..started
      BY <2>2 DEF Stop, Goes, NoWayBack, TypeOK
    <3>4. \A k \in Job : job'[k].at = "check" => k # j /\ job'[k] = job[k]
      BY <2>2 DEF Stop, Goes, TypeOK
    <3> QED BY <2>2, <3>1, <3>2, <3>3, <3>4 DEF Stop, seen, NoWayBack
  <2>3. ASSUME NEW j \in Job, ClearGrants(j) PROVE NoWayBack'
    BY <2>3 DEF ClearGrants, Goes, seen, NoWayBack, TypeOK
  <2>4. ASSUME NEW j \in Job, RevokeUploads(j) PROVE NoWayBack'
    <3>1. Gone' \subseteq Gone
      BY <2>4 DEF RevokeUploads, Goes, Gone, TypeOK, Idle
    <3> QED BY <2>4, <3>1 DEF RevokeUploads, Goes, NoWayBack, TypeOK, Idle
  <2>5. ASSUME NEW j \in Job, NEW peer \in Peer, NEW mode \in Mode, Verify(j, peer, mode)
        PROVE  NoWayBack'
    <3>1. Gone' = Gone
      BY <2>5 DEF Verify, Goes, seen, Gone, TypeOK
    <3> QED BY <2>5, <3>1 DEF Verify, Goes, seen, NoWayBack, TypeOK
  <2>6. ASSUME NEW j \in Job, RejectProof(j) PROVE NoWayBack'
    <3>1. Gone' = Gone
      BY <2>6 DEF RejectProof, Goes, seen, Gone, TypeOK, Idle
    <3> QED BY <2>6, <3>1 DEF RejectProof, Goes, seen, NoWayBack, TypeOK, Idle
  <2>7. ASSUME NEW j \in Job, NEW id \in GrantId, InsertGrant(j, id) PROVE NoWayBack'
    <3>1. Gone' = Gone
      BY <2>7 DEF InsertGrant, Goes, Gone, TypeOK, Idle
    <3> QED BY <2>7, <3>1 DEF InsertGrant, Goes, NoWayBack, TypeOK, Idle
  <2>8. ASSUME NEW j \in Job, NEW request \in Request, Arrive(j, request) PROVE NoWayBack'
    <3>1. Gone' = Gone
      BY <2>8 DEF Arrive, Goes, seen, Gone, TypeOK
    <3>2. broadcast \notin Gone
      BY DEF Gone, NoWayBack
    <3> QED BY <2>8, <3>1, <3>2 DEF Arrive, Goes, seen, NoWayBack, TypeOK
  <2>9. ASSUME NEW j \in Job, Authorize(j) PROVE NoWayBack'
    <3>1. Gone' = Gone
      BY <2>9 DEF Authorize, Goes, Gone, TypeOK
    <3>2. DOMAIN grants' \subseteq DOMAIN grants
          /\ \A g \in DOMAIN grants' : grants'[g].session = grants[g].session
      BY <2>9 DEF Authorize, Unexpired, TypeOK, Grant
    <3> QED BY <2>9, <3>1, <3>2 DEF Authorize, Goes, NoWayBack, TypeOK
  <2>10. ASSUME NEW j \in Job, Deny(j) PROVE NoWayBack'
    <3>1. Gone' = Gone
      BY <2>10 DEF Deny, Goes, seen, Gone, TypeOK, Idle
    <3> QED BY <2>10, <3>1 DEF Deny, Unexpired, Goes, seen, NoWayBack, TypeOK, Idle
  <2>11. ASSUME NEW j \in Job, Perform(j) PROVE NoWayBack'
    <3>1. Gone' = Gone
      BY <2>11 DEF Perform, Goes, Gone, TypeOK, Idle
    <3> QED BY <2>11, <3>1 DEF Perform, Goes, NoWayBack, TypeOK, Idle
  <2>12. ASSUME NEW id \in GrantId, Expire(id) PROVE NoWayBack'
    <3>1. Gone' = Gone
      BY <2>12 DEF Expire, seen, Gone
    <3>2. DOMAIN grants' = DOMAIN grants
          /\ \A g \in DOMAIN grants' : grants'[g].session = grants[g].session
      BY <2>12 DEF Expire, TypeOK, Grant
    <3> QED BY <2>12, <3>1, <3>2 DEF Expire, seen, NoWayBack
  <2>13. CASE UNCHANGED vars
    BY <2>13 DEF vars, NoWayBack, Gone
  <2> QED
    BY <2>1, <2>2, <2>3, <2>4, <2>5, <2>6, <2>7, <2>8, <2>9, <2>10, <2>11, <2>12, <2>13 DEF Next
<1> QED BY <1>1, <1>2, TypeCorrect, PTL DEF Spec

\* The action property RevokedStaysRevoked: after stop, or the start of the next
\* session, has returned, the ended session authorizes no request.
THEOREM RevocationIsFinal == Spec => RevokedStaysRevoked
<1>1. TypeOK /\ NoWayBack /\ [Next]_vars =>
        [\A j \in Job : job[j].at = "check" /\ job'[j].at = "run"
            => grants[job[j].request.grant].session \notin revoked]_vars
  <2> SUFFICES ASSUME TypeOK, NoWayBack, Next,
                      NEW j \in Job, job[j].at = "check", job'[j].at = "run"
               PROVE  grants[job[j].request.grant].session \notin revoked
    OBVIOUS
  <2>1. Authorize(j)
    <3>1. ASSUME NEW k \in Job, Start(k) \/ Stop(k) \/ ClearGrants(k) \/ RevokeUploads(k)
                   \/ RejectProof(k) \/ Deny(k) \/ Perform(k)
          PROVE  FALSE
      BY <3>1 DEF Start, Stop, ClearGrants, RevokeUploads, RejectProof, Deny, Perform,
                  Goes, Idle, TypeOK
    <3>2. ASSUME NEW k \in Job, NEW peer \in Peer, NEW mode \in Mode, Verify(k, peer, mode)
          PROVE  FALSE
      BY <3>2 DEF Verify, Goes, TypeOK
    <3>3. ASSUME NEW k \in Job, NEW id \in GrantId, InsertGrant(k, id) PROVE FALSE
      BY <3>3 DEF InsertGrant, Goes, Idle, TypeOK
    <3>4. ASSUME NEW k \in Job, NEW request \in Request, Arrive(k, request) PROVE FALSE
      BY <3>4 DEF Arrive, Goes, TypeOK
    <3>5. ASSUME NEW id \in GrantId, Expire(id) PROVE FALSE
      BY <3>5 DEF Expire
    <3>6. ASSUME NEW k \in Job, Authorize(k), k # j PROVE FALSE
      BY <3>6 DEF Authorize, Goes, TypeOK
    <3> QED BY <3>1, <3>2, <3>3, <3>4, <3>5, <3>6 DEF Next
  <2>2. /\ job[j].request.grant \in DOMAIN grants
        /\ grants[job[j].request.grant].session = job[j].active
    BY <2>1 DEF Authorize, Authorizes, Unexpired
  <2> QED BY <2>2 DEF NoWayBack, Gone
<1> QED BY <1>1, TypeCorrect, NoWayBackInvariant, PTL DEF Spec, RevokedStaysRevoked

-----------------------------------------------------------------------------
(* Sequence numbers and executed operations. *)

\* The numbers below the next one of a grant are exactly those that were granted,
\* so that a number that is granted is new; what runs was granted, has not been
\* performed, and no two handlers run the same number of a grant.
Numbered ==
    /\ \A g \in DOMAIN grants : \A n \in 1..MaxSequence :
         (n < grants[g].next) <=> (\E q \in granted : q.grant = g /\ q.sequence = n)
    /\ \A r \in granted : r.grant \in issued
    /\ performed \subseteq granted
    /\ \A j \in Job : job[j].at = "run" => job[j].request \in granted \ performed
    /\ \A j, k \in Job : j # k /\ job[j].at = "run" /\ job[k].at = "run" =>
         \/ job[j].request.grant # job[k].request.grant
         \/ job[j].request.sequence # job[k].request.sequence

\* Numbered holds throughout.
THEOREM NumberedInvariant == Spec => []Numbered
<1>1. Init => Numbered
  BY DEF Init, Numbered, Idle
<1>2. TypeOK /\ NoWayBack /\ Numbered /\ [Next]_vars => Numbered'
  <2> SUFFICES ASSUME TypeOK, NoWayBack, Numbered, [Next]_vars PROVE Numbered'
    OBVIOUS
  <2> USE GrantAssumption
  <2>1. ASSUME NEW j \in Job, Start(j) PROVE Numbered'
    BY <2>1 DEF Start, Goes, seen, Numbered, TypeOK
  <2>2. ASSUME NEW j \in Job, Stop(j) PROVE Numbered'
    BY <2>2 DEF Stop, Goes, seen, Numbered, TypeOK
  <2>3. ASSUME NEW j \in Job, ClearGrants(j) PROVE Numbered'
    BY <2>3 DEF ClearGrants, Goes, seen, Numbered, TypeOK
  <2>4. ASSUME NEW j \in Job, RevokeUploads(j) PROVE Numbered'
    BY <2>4 DEF RevokeUploads, Goes, Numbered, TypeOK, Idle
  <2>5. ASSUME NEW j \in Job, NEW peer \in Peer, NEW mode \in Mode, Verify(j, peer, mode)
        PROVE  Numbered'
    BY <2>5 DEF Verify, Goes, seen, Numbered, TypeOK
  <2>6. ASSUME NEW j \in Job, RejectProof(j) PROVE Numbered'
    BY <2>6 DEF RejectProof, Goes, seen, Numbered, TypeOK, Idle
  <2>7. ASSUME NEW j \in Job, NEW id \in GrantId, InsertGrant(j, id) PROVE Numbered'
    <3>1. \A g \in DOMAIN grants' : \A n \in 1..MaxSequence :
            (n < grants'[g].next) <=> (\E q \in granted' : q.grant = g /\ q.sequence = n)
      <4> TAKE g \in DOMAIN grants'
      <4>1. CASE g = id
        BY <2>7, <4>1 DEF InsertGrant, Numbered
      <4>2. CASE g # id
        BY <2>7, <4>2 DEF InsertGrant, Numbered
      <4> QED BY <4>1, <4>2
    <3> QED BY <2>7, <3>1 DEF InsertGrant, Goes, Numbered, TypeOK, Idle
  <2>8. ASSUME NEW j \in Job, NEW request \in Request, Arrive(j, request) PROVE Numbered'
    BY <2>8 DEF Arrive, Goes, seen, Numbered, TypeOK
  <2>9. ASSUME NEW j \in Job, Authorize(j) PROVE Numbered'
    <3> DEFINE r == job[j].request
    <3>1. /\ r \in Request /\ r.sequence \in 1..MaxSequence
          /\ r.grant \in DOMAIN grants /\ r.grant \in Unexpired
          /\ r.sequence = grants[r.grant].next
      <4>1. job[j] \in Checking
        BY <2>9, HandlerKinds DEF Authorize, TypeOK
      <4> QED BY <2>9, <4>1 DEF Authorize, Authorizes, Unexpired, Checking, Request
    <3>2. \A q \in granted : q.grant # r.grant \/ q.sequence # r.sequence
      BY <3>1 DEF Numbered
    <3>3. grants[r.grant] \in Grant
      BY <3>1 DEF TypeOK
    <3>4. /\ DOMAIN grants' = Unexpired
          /\ grants'[r.grant].next = r.sequence + 1
          /\ \A g \in Unexpired : g # r.grant => grants'[g] = grants[g]
      BY <2>9, <3>1, <3>3 DEF Authorize, Grant
    <3>5. granted' = granted \cup {r}
      BY <2>9 DEF Authorize
    <3>6. \A g \in DOMAIN grants' : \A n \in 1..MaxSequence :
            (n < grants'[g].next) <=> (\E q \in granted' : q.grant = g /\ q.sequence = n)
      <4> TAKE g \in DOMAIN grants'
      <4>1. CASE g = r.grant
        <5> TAKE n \in 1..MaxSequence
        <5>1. n < grants'[g].next <=> (n < grants[g].next \/ n = r.sequence)
          BY <3>1, <3>4, <4>1
        <5>2. n < grants[g].next <=> (\E q \in granted : q.grant = g /\ q.sequence = n)
          BY <3>1, <4>1 DEF Numbered
        <5> QED BY <3>5, <4>1, <5>1, <5>2
      <4>2. CASE g # r.grant
        BY <3>4, <3>5, <4>2 DEF Numbered, Unexpired
      <4> QED BY <4>1, <4>2
    <3>7. job' = [job EXCEPT ![j] = [at |-> "run", request |-> r]]
          /\ performed' = performed /\ issued' = issued
      BY <2>9 DEF Authorize, Goes
    <3>8. r \notin performed
      BY <3>2 DEF Numbered
    <3>9. \A k \in Job : k # j => job'[k] = job[k]
      BY <3>7 DEF TypeOK
    <3>10. job'[j].at = "run" /\ job'[j].request = r
      BY <3>7 DEF TypeOK
    <3>11. \A k \in Job : k # j /\ job[k].at = "run" =>
             job[k].request.grant # r.grant \/ job[k].request.sequence # r.sequence
      BY <3>2 DEF Numbered
    <3>12. \A q \in granted' : q.grant \in issued'
      BY <3>1, <3>5, <3>7 DEF Numbered, NoWayBack
    <3>13. \A k \in Job : job'[k].at = "run" => job'[k].request \in granted' \ performed'
      BY <3>5, <3>7, <3>8, <3>9, <3>10 DEF Numbered
    <3>14. \A i, k \in Job : i # k /\ job'[i].at = "run" /\ job'[k].at = "run" =>
             \/ job'[i].request.grant # job'[k].request.grant
             \/ job'[i].request.sequence # job'[k].request.sequence
      BY <3>9, <3>10, <3>11 DEF Numbered
    <3> QED BY <3>5, <3>6, <3>7, <3>12, <3>13, <3>14 DEF Numbered
  <2>10. ASSUME NEW j \in Job, Deny(j) PROVE Numbered'
    BY <2>10 DEF Deny, Unexpired, Goes, seen, Numbered, TypeOK, Idle
  <2>11. ASSUME NEW j \in Job, Perform(j) PROVE Numbered'
    <3>1. /\ job[j].at = "run" /\ performed' = performed \cup {job[j].request}
          /\ grants' = grants /\ granted' = granted /\ issued' = issued
      BY <2>11 DEF Perform
    <3>2. job'[j].at = "idle" /\ \A k \in Job : k # j => job'[k] = job[k]
      BY <2>11 DEF Perform, Goes, Idle, TypeOK
    <3>3. \A k \in Job : k # j /\ job[k].at = "run" => job[k].request # job[j].request
      BY <3>1 DEF Numbered
    <3> QED BY <3>1, <3>2, <3>3 DEF Numbered
  <2>12. ASSUME NEW id \in GrantId, Expire(id) PROVE Numbered'
    <3>1. DOMAIN grants' = DOMAIN grants
          /\ \A g \in DOMAIN grants' : grants'[g].next = grants[g].next
      BY <2>12 DEF Expire, TypeOK, Grant
    <3> QED BY <2>12, <3>1 DEF Expire, seen, Numbered
  <2>13. CASE UNCHANGED vars
    BY <2>13 DEF vars, Numbered
  <2> QED
    BY <2>1, <2>2, <2>3, <2>4, <2>5, <2>6, <2>7, <2>8, <2>9, <2>10, <2>11, <2>12, <2>13 DEF Next
<1> QED BY <1>1, <1>2, TypeCorrect, NoWayBackInvariant, PTL DEF Spec

\* The invariant OperationRunsOnce: a sequence number of a grant is executed at most
\* once, whatever copies of the request are in flight.
THEOREM OperationsRunOnce == Spec => []OperationRunsOnce
<1>1. Numbered => OperationRunsOnce
  BY DEF Numbered, OperationRunsOnce
<1> QED BY <1>1, NumberedInvariant, PTL

\* The action property SequencesInOrder: the numbers of a grant are authorized
\* one after the other from 1, without a gap and without a repetition.
THEOREM SequencesAreInOrder == Spec => SequencesInOrder
<1>1. TypeOK /\ Numbered /\ [Next]_vars =>
        [\A r \in granted' \ granted : \A n \in 1..MaxSequence :
           (n < r.sequence) <=> (\E q \in granted : q.grant = r.grant /\ q.sequence = n)]_vars
  <2> SUFFICES ASSUME TypeOK, Numbered, Next,
                      NEW r \in granted' \ granted, NEW n \in 1..MaxSequence
               PROVE  (n < r.sequence)
                        <=> (\E q \in granted : q.grant = r.grant /\ q.sequence = n)
    OBVIOUS
  <2>1. PICK j \in Job : Authorize(j)
    BY DEF Next, Start, Stop, ClearGrants, RevokeUploads, Verify, RejectProof, InsertGrant,
           Arrive, Deny, Perform, Expire, seen
  <2>2. r = job[j].request
    BY <2>1 DEF Authorize
  <2>3. r.grant \in DOMAIN grants /\ grants[r.grant].next = r.sequence
    BY <2>1, <2>2 DEF Authorize, Authorizes, Unexpired
  <2> QED BY <2>3 DEF Numbered
<1> QED BY <1>1, TypeCorrect, NumberedInvariant, PTL DEF Spec, SequencesInOrder
=============================================================================
