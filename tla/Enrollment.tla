----------------------------- MODULE Enrollment -----------------------------
(***************************************************************************)
(* Enrollment with bootstrap tokens (internal/controlplane/server.go):     *)
(* POST /enroll with automatic or manual approval, the approval queue, the *)
(* re-mint for a peer that was approved before, token revocation, and the  *)
(* sweep of the rows they leave.                                           *)
(*                                                                         *)
(* Every store call of a handler is a step of its own.  The bootstrap      *)
(* token is read early and only spent by an atomic UPDATE; the node row    *)
(* and the enrollment request are written by two separate statements.      *)
(***************************************************************************)
EXTENDS NodeStore, FiniteSets

CONSTANTS
    Tokens,                 \* bootstrap tokens, minted before the run starts
    Handlers,               \* the requests that can be in flight at once
    AutoApproveEnrollment,  \* Options.AutoApproveEnrollment
    EphemeralTokens,        \* those with the ephemeral flag
    MaxUsages,              \* max_usages of each token
    TokenExpiry,            \* expires_at of each token
    MaxTime,                \* bound on the clock
    MaxBiscuits,            \* bound on the credentials minted
    MaxRequests             \* bound on the enrollment requests created

ASSUME EnrollmentAssumption ==
    /\ AutoApproveEnrollment \in BOOLEAN
    /\ EphemeralTokens \subseteq Tokens
    /\ MaxUsages \in [Tokens -> Nat]
    /\ TokenExpiry \in [Tokens -> Nat]
    /\ MaxTime \in Nat \ {0}
    /\ MaxBiscuits \in Nat
    /\ MaxRequests \in Nat

VARIABLES
    now,        \* the clock, from 1
    nodes,      \* table nodes
    requests,   \* table enrollment_requests, by its unique peer_id
    usages,     \* bootstrap_tokens.usages_count
    revoked,    \* tokens with revoked_at set
    lastB,      \* biscuits minted so far
    paidBy,     \* history: the token each biscuit was minted for
    lastReq,    \* enrollment request ids so far
    pc,         \* where each handler is
    loc,        \* each handler's locals
    gc,         \* the sweep: next statement and the time it started
    forgotten   \* history: peers whose node row the sweep deleted

vars == <<now, nodes, requests, usages, revoked, lastB, paidBy, lastReq, pc, loc, gc, forgotten>>

\* storage.EnrollmentRequest; at is resolved_at, or created_at while pending.
EnrollmentRequest ==
    [id: Nat, token: Tokens, status: {"PENDING", "APPROVED", "REJECTED"},
     biscuit: Nat, at: Nat]

\* op: what the handler is for.  id: the enrollment request it read.  rec: the
\* node record it will write.
Locals == [op: {"enroll", "remint", "approve"}, peer: Peers, token: Tokens,
           id: Nat, rec: EnrolledNode]

ASSUME NullIsNoRow == Null \notin EnrollmentRequest \cup Locals

PC == {"idle", "ban", "lookup", "read", "token", "consume", "enroll", "create", "update",
       "resolve"}

TypeOK ==
    /\ now \in 1 .. MaxTime
    /\ nodes \in NodesTable
    /\ requests \in [Peers -> EnrollmentRequest \cup {Null}]
    /\ usages \in [Tokens -> Nat]
    /\ \A t \in Tokens : usages[t] <= MaxUsages[t]
    /\ revoked \subseteq Tokens
    /\ lastB \in 0 .. MaxBiscuits
    /\ paidBy \in [1 .. lastB -> Tokens]
    /\ lastReq \in 0 .. MaxRequests
    /\ pc \in [Handlers -> PC]
    /\ loc \in [Handlers -> Locals \cup {Null}]
    /\ \A h \in Handlers : pc[h] # "idle" => loc[h] # Null
    /\ gc \in [stmt: {"nodes", "ephemeralNodes", "requests", "ephemeralRequests"}, at: Nat]
    /\ forgotten \subseteq Peers

Init ==
    /\ now = 1
    /\ nodes = [p \in Peers |-> Null]
    /\ requests = [p \in Peers |-> Null]
    /\ usages = [t \in Tokens |-> 0]
    /\ revoked = {}
    /\ lastB = 0
    /\ paidBy = <<>>
    /\ lastReq = 0
    /\ pc = [h \in Handlers |-> "idle"]
    /\ loc = [h \in Handlers |-> Null]
    /\ gc = [stmt |-> "nodes", at |-> 0]
    /\ forgotten = {}

tables == <<nodes, requests, usages, revoked, forgotten>>
ids == <<lastB, paidBy, lastReq>>

\* What HandleEnroll and the approval see of the token: only advisory.
LooksUsable(t) ==
    /\ now <= TokenExpiry[t]
    /\ t \notin revoked
    /\ usages[t] < MaxUsages[t]

Step(h, from, to) ==
    /\ pc[h] = from
    /\ pc' = [pc EXCEPT ![h] = to]

\* The handler answers, with a result or with an error; what it wrote stays.
Answer(h) ==
    /\ pc' = [pc EXCEPT ![h] = "idle"]
    /\ loc' = [loc EXCEPT ![h] = Null]

\* The record both enrollment paths build; the flags come from the token.
BootstrapRecord(t) ==
    [biscuit |-> 0, type |-> "BOOTSTRAP", identity |-> NoIdentity, expiresAt |-> 0,
     enrolledAt |-> 0, banned |-> FALSE, autonomousRecovery |-> FALSE,
     ephemeral |-> t \in EphemeralTokens]

(***************************************************************************)
(* POST /enroll.  A refusal that leaves no trace is not a step.            *)
(***************************************************************************)

\* GetBootstrapToken and the checks on it, and the proof of possession.
EnrollCheck(h, p, t) ==
    /\ Step(h, "idle", "ban")
    /\ LooksUsable(t)
    /\ loc' = [loc EXCEPT ![h] = [op |-> "enroll", peer |-> p, token |-> t, id |-> 0,
                                  rec |-> BootstrapRecord(t)]]
    /\ UNCHANGED <<now, tables, ids, gc>>

\* IsNodeBanned.
EnrollBanCheck(h) ==
    /\ pc[h] = "ban"
    /\ \/ /\ ~IsNodeBanned(nodes, loc[h].peer)
          /\ Step(h, "ban", "lookup")
          /\ UNCHANGED loc
       \/ /\ IsNodeBanned(nodes, loc[h].peer)
          /\ Answer(h)
    /\ UNCHANGED <<now, tables, ids, gc>>

\* GetEnrollmentRequest: an approved peer is re-minted, another one that is
\* known gets its status, a new one is enrolled or queued.
EnrollLookup(h) ==
    LET r == requests[loc[h].peer] IN
    /\ pc[h] = "lookup"
    /\ \/ /\ r = Null
          /\ Step(h, "lookup", IF AutoApproveEnrollment THEN "consume" ELSE "create")
          /\ UNCHANGED loc
       \/ /\ r # Null /\ r.status = "APPROVED"
          /\ Step(h, "lookup", "read")
          /\ loc' = [loc EXCEPT ![h].op = "remint", ![h].id = r.id]
       \/ /\ r # Null /\ r.status # "APPROVED"
          /\ Answer(h)
    /\ UNCHANGED <<now, tables, ids, gc>>

\* Mutant: a re-mint is free.
RemintFree(h) ==
    LET n == nodes[loc[h].peer] IN
    /\ pc[h] = "read"
    /\ \/ /\ n # Null /\ ~n.banned
          /\ Step(h, "read", "update")
          /\ loc' = [loc EXCEPT ![h].rec = n]
       \/ /\ ~(n # Null /\ ~n.banned)
          /\ Answer(h)
    /\ UNCHANGED <<now, tables, ids, gc>>

\* remintApprovedBootstrapBiscuit: GetNode and CheckAdmission (a bootstrap row
\* has no session to expire).
RemintRead(h) ==
    LET n == nodes[loc[h].peer] IN
    /\ pc[h] = "read"
    /\ \/ /\ n # Null /\ ~n.banned
          /\ Step(h, "read", "consume")
          /\ loc' = [loc EXCEPT ![h].rec = n]
       \/ /\ ~(n # Null /\ ~n.banned)
          /\ Answer(h)
    /\ UNCHANGED <<now, tables, ids, gc>>

\* POST /admin/enrollments/{id}/approve: GetEnrollmentRequestByID, still
\* pending.
ApproveRead(h, p) ==
    /\ requests[p] # Null
    /\ requests[p].status = "PENDING"
    /\ Step(h, "idle", "token")
    /\ loc' = [loc EXCEPT ![h] = [op |-> "approve", peer |-> p, token |-> requests[p].token,
                                  id |-> requests[p].id,
                                  rec |-> BootstrapRecord(requests[p].token)]]
    /\ UNCHANGED <<now, tables, ids, gc>>

\* GetBootstrapToken and the checks on it; the ban of the node is not asked.
ApproveCheck(h) ==
    /\ pc[h] = "token"
    /\ \/ /\ LooksUsable(loc[h].token)
          /\ Step(h, "token", "consume")
          /\ UNCHANGED loc
       \/ /\ ~LooksUsable(loc[h].token)
          /\ Answer(h)
    /\ UNCHANGED <<now, tables, ids, gc>>

\* Mutant: the request is approved before the node row is written.
AfterConsumeRequestFirst(op) ==
    CASE op = "remint" -> "update" [] op = "approve" -> "resolve" [] OTHER -> "create"

\* The node row before the request, but after it when re-minting.
AfterConsume(op) == IF op = "remint" THEN "update" ELSE "enroll"

\* Mutant: the increment trusts the check made when the token was read.
ConsumeUnchecked(h) ==
    /\ Step(h, "consume", AfterConsume(loc[h].op))
    /\ usages' = [usages EXCEPT ![loc[h].token] = @ + 1]
    /\ UNCHANGED <<now, nodes, requests, revoked, forgotten, ids, loc, gc>>

\* ConsumeBootstrapTokenUsage: the check and the increment are one UPDATE.
Consume(h) ==
    LET t == loc[h].token
        usable == usages[t] < MaxUsages[t] /\ t \notin revoked /\ TokenExpiry[t] > now IN
    /\ pc[h] = "consume"
    /\ \/ /\ usable
          /\ usages' = [usages EXCEPT ![t] = @ + 1]
          /\ Step(h, "consume", AfterConsume(loc[h].op))
          /\ UNCHANGED loc
       \/ /\ ~usable
          /\ Answer(h)
          /\ UNCHANGED usages
    /\ UNCHANGED <<now, nodes, requests, revoked, forgotten, ids, gc>>

\* A biscuit is minted in memory, just before the first row that holds it.
MintFor(t) ==
    /\ lastB < MaxBiscuits
    /\ lastB' = lastB + 1
    /\ paidBy' = [b \in 1 .. lastB + 1 |-> IF b <= lastB THEN paidBy[b] ELSE t]

\* EnrollNode, then the request; last when re-minting.
WriteNode(h) ==
    LET l == loc[h]
        write(b) ==
            /\ nodes' = EnrollNode(nodes, l.peer, [l.rec EXCEPT !.biscuit = b, !.enrolledAt = now])
            /\ forgotten' = forgotten \ {l.peer} IN
    /\ pc[h] = "enroll"
    /\ \/ /\ l.op = "remint"
          /\ write(l.rec.biscuit)
          /\ Answer(h)
          /\ UNCHANGED <<lastB, paidBy>>
       \/ /\ l.op # "remint"
          /\ MintFor(l.token)
          /\ write(lastB + 1)
          /\ Step(h, "enroll", IF l.op = "approve" THEN "resolve" ELSE "create")
          /\ loc' = [loc EXCEPT ![h].rec.biscuit = lastB + 1]
    /\ UNCHANGED <<now, requests, usages, revoked, lastReq, gc>>

\* CreateEnrollmentRequest: an INSERT, which the unique peer_id may refuse.
CreateRequest(h) ==
    LET l == loc[h]
        status == IF AutoApproveEnrollment THEN "APPROVED" ELSE "PENDING" IN
    /\ pc[h] = "create"
    /\ Answer(h)
    /\ \/ /\ requests[l.peer] = Null
          /\ lastReq < MaxRequests
          /\ lastReq' = lastReq + 1
          /\ requests' = [requests EXCEPT ![l.peer] =
                            [id |-> lastReq + 1, token |-> l.token, status |-> status,
                             biscuit |-> l.rec.biscuit, at |-> now]]
       \/ /\ requests[l.peer] # Null
          /\ UNCHANGED <<requests, lastReq>>
    /\ UNCHANGED <<now, nodes, usages, revoked, forgotten, lastB, paidBy, gc>>

HasRequest(p, id) == requests[p] # Null /\ requests[p].id = id

\* SET status = ?, biscuit_token = ?, resolved_at = ?
Resolved(r, status, biscuit) == [r EXCEPT !.status = status, !.biscuit = biscuit, !.at = now]

\* UpdateEnrollmentRequest, by id and whatever its status; no row, no error.
UpdateRequest(h) ==
    LET l == loc[h] IN
    /\ Step(h, "update", "enroll")
    /\ MintFor(l.token)
    /\ loc' = [loc EXCEPT ![h].rec.biscuit = lastB + 1]
    /\ requests' = IF HasRequest(l.peer, l.id)
                   THEN [requests EXCEPT ![l.peer] = Resolved(@, "APPROVED", lastB + 1)]
                   ELSE requests
    /\ UNCHANGED <<now, nodes, usages, revoked, forgotten, lastReq, gc>>

\* Mutant: UPDATE ... WHERE id = ?, as UpdateEnrollmentRequest does.
ResolveAnyStatus(p, id, status, biscuit) ==
    requests' = IF HasRequest(p, id)
                THEN [requests EXCEPT ![p] = Resolved(@, status, biscuit)]
                ELSE requests

\* ResolveEnrollmentRequest: WHERE id = ? AND status = PENDING.
Resolve(p, id, status, biscuit) ==
    requests' = IF HasRequest(p, id) /\ requests[p].status = "PENDING"
                THEN [requests EXCEPT ![p] = Resolved(@, status, biscuit)]
                ELSE requests

ResolveApproved(h) ==
    /\ pc[h] = "resolve"
    /\ Answer(h)
    /\ Resolve(loc[h].peer, loc[h].id, "APPROVED", loc[h].rec.biscuit)
    /\ UNCHANGED <<now, nodes, usages, revoked, forgotten, ids, gc>>

\* A store error, a cancelled request or a crash.
Abort(h) ==
    /\ pc[h] # "idle"
    /\ Answer(h)
    /\ UNCHANGED <<now, tables, ids, gc>>

(***************************************************************************)
(* The operator: reject, revoke a token, ban and unban.                    *)
(***************************************************************************)

\* The handler's own look at the status adds nothing to the UPDATE's.
Reject(p) ==
    /\ requests[p] # Null
    /\ requests[p].status = "PENDING"
    /\ Resolve(p, requests[p].id, "REJECTED", 0)
    /\ UNCHANGED <<now, nodes, usages, revoked, forgotten, ids, pc, loc, gc>>

RevokeBootstrapToken(t) ==
    /\ revoked' = revoked \cup {t}
    /\ UNCHANGED <<now, nodes, requests, usages, forgotten, ids, pc, loc, gc>>

SetNodeBan(p, ban) ==
    /\ nodes[p] # Null
    /\ nodes' = SetNodeBanned(nodes, p, ban)
    /\ UNCHANGED <<now, requests, usages, revoked, forgotten, ids, pc, loc, gc>>

(***************************************************************************)
(* The sweep, gcExpiredNodes and gcEnrollmentRecords: bootstrap rows, then *)
(* requests, by the deadlines of the time it started.  An error skips the  *)
(* rest of the nodes, and the ephemeral requests.                          *)
(***************************************************************************)

SweepNodes(rows, next) ==
    /\ nodes' = rows
    /\ forgotten' = forgotten \cup {p \in Peers : nodes[p] # Null /\ rows[p] = Null}
    /\ gc' = next
    /\ UNCHANGED <<now, requests, usages, revoked, ids, pc, loc>>

SweepSilent ==
    /\ gc.stmt = "nodes"
    /\ SweepNodes(DeleteSilentBootstrapNodes(nodes, FALSE, now - NodeRetention),
                  [stmt |-> "ephemeralNodes", at |-> now])

SweepEphemeral ==
    /\ gc.stmt = "ephemeralNodes"
    /\ SweepNodes(DeleteSilentBootstrapNodes(nodes, TRUE, gc.at - EphemeralNodeRetention),
                  [gc EXCEPT !.stmt = "requests"])

\* One statement of DeleteStaleEnrollmentRequests.
DeleteStaleRequests(before, ofTokens) ==
    [p \in Peers |-> IF /\ requests[p] # Null
                        /\ requests[p].at < before
                        /\ requests[p].token \in ofTokens
                     THEN Null ELSE requests[p]]

SweepRequests ==
    /\ \/ /\ gc.stmt = "requests"
          /\ requests' = DeleteStaleRequests(gc.at - NodeRetention, Tokens)
          /\ gc' = [gc EXCEPT !.stmt = "ephemeralRequests"]
       \/ /\ gc.stmt = "ephemeralRequests"
          /\ requests' = DeleteStaleRequests(gc.at - EphemeralNodeRetention, EphemeralTokens)
          /\ gc' = [stmt |-> "nodes", at |-> 0]
    /\ UNCHANGED <<now, nodes, usages, revoked, forgotten, ids, pc, loc>>

SweepFails ==
    /\ gc' = IF gc.stmt \in {"nodes", "ephemeralNodes"}
             THEN [stmt |-> "requests", at |-> IF gc.stmt = "nodes" THEN now ELSE gc.at]
             ELSE [stmt |-> "nodes", at |-> 0]
    /\ UNCHANGED <<now, tables, ids, pc, loc>>

\* The replica stops; the next sweep is a new one.
SweepStops ==
    /\ gc.stmt # "nodes"
    /\ gc' = [stmt |-> "nodes", at |-> 0]
    /\ UNCHANGED <<now, tables, ids, pc, loc>>

Tick ==
    /\ now < MaxTime
    /\ now' = now + 1
    /\ UNCHANGED <<tables, ids, pc, loc, gc>>

Handle(h) ==
    \/ \E p \in Peers, t \in Tokens : EnrollCheck(h, p, t)
    \/ EnrollBanCheck(h)
    \/ EnrollLookup(h)
    \/ RemintRead(h)
    \/ \E p \in Peers : ApproveRead(h, p)
    \/ ApproveCheck(h)
    \/ Consume(h)
    \/ WriteNode(h)
    \/ CreateRequest(h)
    \/ UpdateRequest(h)
    \/ ResolveApproved(h)
    \/ Abort(h)

Operator ==
    \/ \E p \in Peers : Reject(p)
    \/ \E t \in Tokens : RevokeBootstrapToken(t)
    \/ \E p \in Peers, ban \in BOOLEAN : SetNodeBan(p, ban)

Sweep ==
    \/ SweepSilent
    \/ SweepEphemeral
    \/ SweepRequests
    \/ SweepFails
    \/ SweepStops

Next ==
    \/ \E h \in Handlers : Handle(h)
    \/ Operator
    \/ Sweep
    \/ Tick

Spec == Init /\ [][Next]_vars

(***************************************************************************)
(* Properties.                                                             *)
(***************************************************************************)

\* A token buys at most max_usages credentials, counting enrollments,
\* approvals and re-mints, whatever races and whichever handlers die halfway
\* (ConsumeBootstrapTokenUsage comes before every mint).
TokenBudget ==
    \A t \in Tokens : Cardinality({b \in 1 .. lastB : paidBy[b] = t}) <= MaxUsages[t]

\* An approved request has a node row behind it, which /admin/revoke can
\* find, unless the sweep has already forgotten that member: the row is
\* written before the request says APPROVED, and an error between the two
\* leaves them in the safe order.
ApprovedHasNode ==
    \A p \in Peers : requests[p] # Null /\ requests[p].status = "APPROVED"
                        => nodes[p] # Null \/ p \in forgotten

\* A resolution is final: of an approval and a rejection of one request that
\* race, the first wins, and no re-mint turns a rejection into an approval.
ResolutionIsFinal ==
    [][\A p \in Peers :
         requests[p] # Null /\ requests[p].status # "PENDING" /\ requests'[p] # Null
         /\ requests'[p].id = requests[p].id
            => requests'[p].status = requests[p].status]_vars

AtRest == \A h \in Handlers : pc[h] = "idle"

\* "Keep the node record's biscuit in lockstep": at rest, the biscuit that
\* /enroll/status hands out is the one /refresh accepts.  Of the writers of
\* the two rows only enrollments, approvals and re-mints are here: a later
\* /refresh moves the node row alone.
BiscuitsInLockstep ==
    AtRest => \A p \in Peers : requests[p] # Null /\ requests[p].status = "APPROVED" /\ nodes[p] # Null
                                  => requests[p].biscuit = nodes[p].biscuit

\* "A node row with a still-pending request is the harmless failure: ... the
\* admin can retry": at rest, with a token that was neither revoked nor has
\* expired, the approval of such a request is possible.
FailedApprovalCanBeRetried ==
    AtRest => \A p \in Peers :
        LET r == requests[p] IN
        (/\ nodes[p] # Null
         /\ r # Null
         /\ r.status = "PENDING"
         /\ r.token \notin revoked
         /\ now < TokenExpiry[r.token]) => LooksUsable(r.token)
=============================================================================
