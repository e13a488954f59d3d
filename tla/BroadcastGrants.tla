---------------------------- MODULE BroadcastGrants ----------------------------
(***************************************************************************)
(* Broadcast sessions and the grants of remote peers in the daemon         *)
(* (crates/zuradio-daemon/src/server.rs: start_broadcast, stop_broadcast,  *)
(* remote_verify, authorize_remote_grant, remote_action, remote_upload).   *)
(*                                                                         *)
(* The handlers run concurrently and take the three mutexes broadcast,     *)
(* grants and uploads one after the other, never two together: every       *)
(* critical section is a step of its own, and the handlers interleave      *)
(* between them.  A session id is the number of the start that made it; a  *)
(* grant id is a fresh random secret, so a request can only name one that  *)
(* a verify has already answered with.                                     *)
(***************************************************************************)
EXTENDS Integers

CONSTANTS
    Job,           \* request handlers that may be in flight at the same time
    GrantId,       \* grant secrets
    Peer,
    MaxSession,    \* bound on the sessions that are started
    MaxSequence,   \* bound on the requests made with one grant
    None

Mode == {"listen", "control", "upload"}
Session == 1..MaxSession

ASSUME GrantAssumption ==
    /\ MaxSession \in Nat
    /\ MaxSequence \in Nat
    /\ None \notin Nat

\* A grant; live is FALSE once expires_at has passed.
Grant == [session : Session, peer : Peer, mode : Mode,
          next : 1..(MaxSequence + 1), live : BOOLEAN]

\* What a remote request names: a grant, the peer, the mode of the route, and
\* its sequence number.
Request == [grant : GrantId, peer : Peer, mode : Mode, sequence : 1..MaxSequence]

\* A handler between two critical sections.
Resting == [at : {"idle"}]
Ending == [at : {"clear", "revoke"}, ends : SUBSET Session]
Verifying == [at : {"insert"}, session : Session, peer : Peer, mode : Mode]
Checking == [at : {"check"}, active : Session \cup {None}, request : Request]
Running == [at : {"run"}, request : Request]
Handler == Resting \cup Ending \cup Verifying \cup Checking \cup Running

VARIABLES
    broadcast,   \* state.broadcast: the active session or None
    started,     \* sessions started so far
    grants,      \* state.grants
    job,         \* the handlers
    (* Observation only: no handler reads these. *)
    issued,      \* grant ids that have been handed out
    revoked,     \* sessions whose stop, or whose successor's start, has returned
    granted,     \* requests that passed the check
    performed    \* requests whose operation was executed

vars == <<broadcast, started, grants, job, issued, revoked, granted, performed>>
seen == <<issued, revoked, granted, performed>>

Idle == [at |-> "idle"]

Init ==
    /\ broadcast = None
    /\ started = 0
    /\ grants = <<>>
    /\ job = [j \in Job |-> Idle]
    /\ issued = {} /\ revoked = {} /\ granted = {} /\ performed = {}

Goes(j, handler) == job' = [job EXCEPT ![j] = handler]
-----------------------------------------------------------------------------
(* start_broadcast and stop_broadcast: broadcast, then grants, then uploads. *)

Start(j) ==
    /\ job[j].at = "idle"
    /\ started < MaxSession
    /\ started' = started + 1
    /\ broadcast' = started + 1
    /\ Goes(j, [at |-> "clear", ends |-> 1..started])
    /\ UNCHANGED <<grants, seen>>

\* Mutant: stop zeroes the session instead of taking it away.
StopZeroed(j) ==
    /\ job[j].at = "idle"
    /\ broadcast' = 0
    /\ Goes(j, [at |-> "clear", ends |-> 1..started])
    /\ UNCHANGED <<started, grants, seen>>

Stop(j) ==
    /\ job[j].at = "idle"
    /\ broadcast' = None
    /\ Goes(j, [at |-> "clear", ends |-> 1..started])
    /\ UNCHANGED <<started, grants, seen>>

ClearGrants(j) ==
    /\ job[j].at = "clear"
    /\ grants' = <<>>
    /\ Goes(j, [at |-> "revoke", ends |-> job[j].ends])
    /\ UNCHANGED <<broadcast, started, seen>>

\* revoke_all of the upload manager (UploadTransfer!Revoke); then the handler returns.
RevokeUploads(j) ==
    /\ job[j].at = "revoke"
    /\ revoked' = revoked \cup job[j].ends
    /\ Goes(j, Idle)
    /\ UNCHANGED <<broadcast, started, grants, issued, granted, performed>>

-----------------------------------------------------------------------------
(* remote_verify: the session is read, the proof checked, the grant inserted. *)

Verify(j, peer, mode) ==
    /\ job[j].at = "idle"
    /\ broadcast # None
    /\ Goes(j, [at |-> "insert", session |-> broadcast, peer |-> peer, mode |-> mode])
    /\ UNCHANGED <<broadcast, started, grants, seen>>

\* authenticate_remote refuses: the session has been replaced, or the proof is
\* not one for it.
RejectProof(j) ==
    /\ job[j].at = "insert"
    /\ Goes(j, Idle)
    /\ UNCHANGED <<broadcast, started, grants, seen>>

InsertGrant(j, id) ==
    /\ job[j].at = "insert"
    /\ id \notin issued
    /\ grants' = [g \in DOMAIN grants \cup {id} |->
                    IF g = id
                    THEN [session |-> job[j].session, peer |-> job[j].peer,
                          mode |-> job[j].mode, next |-> 1, live |-> TRUE]
                    ELSE grants[g]]
    /\ issued' = issued \cup {id}
    /\ Goes(j, Idle)
    /\ UNCHANGED <<broadcast, started, revoked, granted, performed>>

Expire(id) ==
    /\ id \in DOMAIN grants
    /\ grants[id].live
    /\ grants' = [grants EXCEPT ![id].live = FALSE]
    /\ UNCHANGED <<broadcast, started, job, seen>>

-----------------------------------------------------------------------------
(* remote_action and remote_upload: authorize_remote_grant reads the active   *)
(* session under one lock and checks the grant under another; then the        *)
(* operation runs.                                                            *)

Arrive(j, request) ==
    /\ job[j].at = "idle"
    /\ request.grant \in issued
    /\ request.mode # "listen"
    /\ Goes(j, [at |-> "check", active |-> broadcast, request |-> request])
    /\ UNCHANGED <<broadcast, started, grants, seen>>

Unexpired == {g \in DOMAIN grants : grants[g].live}

\* Mutant: a grant is as good as its presence in the table.
AuthorizesAnySession(active, r) ==
    /\ r.grant \in Unexpired
    /\ grants[r.grant].peer = r.peer
    /\ grants[r.grant].mode = r.mode
    /\ grants[r.grant].next = r.sequence

\* Mutant: sequence numbers may be skipped.
AuthorizesGaps(active, r) ==
    /\ r.grant \in Unexpired
    /\ grants[r.grant].session = active
    /\ grants[r.grant].peer = r.peer
    /\ grants[r.grant].mode = r.mode
    /\ grants[r.grant].next <= r.sequence

Authorizes(active, r) ==
    /\ r.grant \in Unexpired
    /\ grants[r.grant].session = active
    /\ grants[r.grant].peer = r.peer
    /\ grants[r.grant].mode = r.mode
    /\ grants[r.grant].next = r.sequence

\* Mutant: the sequence number is left for the operation to move.
AuthorizeUncounted(j) ==
    LET r == job[j].request
    IN  /\ job[j].at = "check"
        /\ Authorizes(job[j].active, r)
        /\ grants' = [g \in Unexpired |-> grants[g]]
        /\ granted' = granted \cup {r}
        /\ Goes(j, [at |-> "run", request |-> r])
        /\ UNCHANGED <<broadcast, started, issued, revoked, performed>>

\* retain() drops the expired grants on every check; the sequence number moves
\* before the operation is tried.
Authorize(j) ==
    LET r == job[j].request
    IN  /\ job[j].at = "check"
        /\ Authorizes(job[j].active, r)
        /\ grants' = [g \in Unexpired |->
                        IF g = r.grant THEN [grants[g] EXCEPT !.next = @ + 1] ELSE grants[g]]
        /\ granted' = granted \cup {r}
        /\ Goes(j, [at |-> "run", request |-> r])
        /\ UNCHANGED <<broadcast, started, issued, revoked, performed>>

Deny(j) ==
    /\ job[j].at = "check"
    /\ ~Authorizes(job[j].active, job[j].request)
    /\ grants' = [g \in Unexpired |-> grants[g]]
    /\ Goes(j, Idle)
    /\ UNCHANGED <<broadcast, started, seen>>

\* The operation, under the core's or the upload manager's lock; whether it
\* succeeds does not matter to the grant.  What an upload does to the batches is
\* UploadTransfer's.
Perform(j) ==
    /\ job[j].at = "run"
    /\ performed' = performed \cup {job[j].request}
    /\ Goes(j, Idle)
    /\ UNCHANGED <<broadcast, started, grants, issued, revoked, granted>>

-----------------------------------------------------------------------------
Next ==
    \/ \E j \in Job :
        \/ Start(j) \/ Stop(j) \/ ClearGrants(j) \/ RevokeUploads(j)
        \/ \E peer \in Peer, mode \in Mode : Verify(j, peer, mode)
        \/ RejectProof(j)
        \/ \E id \in GrantId : InsertGrant(j, id)
        \/ \E request \in Request : Arrive(j, request)
        \/ Authorize(j) \/ Deny(j) \/ Perform(j)
    \/ \E id \in GrantId : Expire(id)

Spec == Init /\ [][Next]_vars

-----------------------------------------------------------------------------
(* Properties. *)

TypeOK ==
    /\ broadcast \in Session \cup {None}
    /\ started \in 0..MaxSession
    /\ DOMAIN grants \in SUBSET GrantId
    /\ \A g \in DOMAIN grants : grants[g] \in Grant
    /\ job \in [Job -> Handler]
    /\ issued \in SUBSET GrantId
    /\ revoked \in SUBSET Session
    /\ granted \in SUBSET Request
    /\ performed \in SUBSET Request

\* Once a stop (or the start of the next session) has returned, no request is
\* authorized under the ended session any more, although the session is read and
\* the grant is looked up under different locks and a verify that was in flight may
\* still insert a grant of the ended session (docs/upload-protocol.md:36, "revokes
\* every grant").  Neither the clearing of the grants nor the comparison of the
\* session ids would be enough alone.
RevokedStaysRevoked ==
    [][\A j \in Job : job[j].at = "check" /\ job'[j].at = "run"
         => grants[job[j].request.grant].session \notin revoked]_vars

\* Requests made with one grant are authorized in the order of their sequence
\* numbers, without a gap, each number once: "strictly increasing request
\* sequence" (docs/upload-protocol.md:22), through concurrent copies of a request.
SequencesInOrder ==
    [][\A r \in granted' \ granted : \A n \in 1..MaxSequence :
         (n < r.sequence) <=> (\E q \in granted : q.grant = r.grant /\ q.sequence = n)]_vars

\* An operation is executed at most once for a sequence number of a grant: two
\* handlers never hold the same authorization, and none holds one that was used.
OperationRunsOnce ==
    \A j, k \in Job :
        job[j].at = "run" =>
            /\ job[j].request \notin performed
            /\ k # j /\ job[k].at = "run" =>
                 \/ job[k].request.grant # job[j].request.grant
                 \/ job[k].request.sequence # job[j].request.sequence
=============================================================================
