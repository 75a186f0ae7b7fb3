----------------------------- MODULE Membership -----------------------------
(***************************************************************************)
(* The life of a node record: /register, /refresh, bans and their removal, *)
(* the autonomous-recovery toggle and the retention sweep, as the handlers *)
(* of internal/controlplane run them against one store.                    *)
(*                                                                         *)
(* A handler reads the row, decides, mints and writes the WHOLE record     *)
(* back, one store call per step, with no transaction around them; the     *)
(* other handlers, the operator, the sweep and the clock move in between.  *)
(* Requests carry any biscuit ever issued to the peer, so a retry after a  *)
(* lost answer, a duplicate and a late delivery are all requests here.     *)
(*                                                                         *)
(* The keyring is reduced to generations: curKey signs, those from         *)
(* oldestKey on verify (KeyRotation has the real one).                     *)
(***************************************************************************)
EXTENDS NodeStore

CONSTANTS
    Handlers,       \* the requests that can be in flight at once
    IdentityOf,     \* the OIDC identity behind each peer
    BootstrapPeers, \* the peers given a bootstrap token
    SessionTTL,     \* sessionTTLForClaims
    MaxTime,        \* bound on the clock
    MaxBiscuits,    \* bound on the credentials issued
    MaxKeys         \* bound on key generations

ASSUME MembershipAssumption ==
    /\ IdentityOf \in [Peers -> Identities]
    /\ BootstrapPeers \subseteq Peers
    /\ SessionTTL \in Nat \ {0}
    /\ MaxTime \in Nat \ {0}
    /\ MaxBiscuits \in Nat
    /\ MaxKeys \in Nat \ {0}

VARIABLES
    now,        \* the clock, from 1: 0 is the zero time
    nodes,      \* table nodes
    bannedIds,  \* table banned_identities
    curKey,     \* generation of the signing key
    oldestKey,  \* oldest generation still valid
    lastB,      \* biscuits issued so far
    issued,     \* history: what each biscuit is (see Biscuit)
    escaped,    \* history: biscuits of OIDC records written under a standing ban
    pc,         \* where each handler is
    req,        \* each handler's request and locals
    adm,        \* the operator's ban or unban in progress
    gc          \* the sweep: next statement and the time it started

vars == <<now, nodes, bannedIds, curKey, oldestKey, lastB, issued, escaped, pc,
          req, adm, gc>>

\* from: the biscuit redeemed for it, 0 if none.  raced: another write to the
\* same row landed between this handler's read and its write.
Biscuit == [peer: Peers, key: Nat, from: Nat, raced: BOOLEAN]

Request == [peer: Peers, from: Nat, jwt: BOOLEAN, recovering: BOOLEAN,
            rec: EnrolledNode, key: Nat, raced: BOOLEAN]

AdminRequest == [peer: Peers, ban: BOOLEAN, identity: Identities \cup {NoIdentity}]

ASSUME NullIsNoRequest == Null \notin Request \cup AdminRequest \cup Handlers

PC == {"idle", "read", "mint", "write"}

TypeOK ==
    /\ now \in 1 .. MaxTime
    /\ nodes \in NodesTable
    /\ bannedIds \subseteq Identities
    /\ curKey \in 1 .. MaxKeys
    /\ oldestKey \in 1 .. curKey
    /\ lastB \in 0 .. MaxBiscuits
    /\ issued \in [1 .. lastB -> Biscuit]
    /\ escaped \subseteq 1 .. lastB
    /\ pc \in [Handlers -> PC]
    /\ req \in [Handlers -> Request \cup {Null}]
    /\ \A h \in Handlers : pc[h] # "idle" => req[h] # Null
    /\ adm \in AdminRequest \cup {Null}
    /\ gc \in [stmt: {"expired", "silent", "ephemeral"}, at: Nat]

Init ==
    /\ now = 1
    /\ nodes = [p \in Peers |-> Null]
    /\ bannedIds = {}
    /\ curKey = 1
    /\ oldestKey = 1
    /\ lastB = 0
    /\ issued = <<>>
    /\ escaped = {}
    /\ pc = [h \in Handlers |-> "idle"]
    /\ req = [h \in Handlers |-> Null]
    /\ adm = Null
    /\ gc = [stmt |-> "expired", at |-> 0]

store == <<nodes, bannedIds>>
keys == <<curKey, oldestKey>>
log == <<lastB, issued, escaped>>

Step(h, from, to) ==
    /\ pc[h] = from
    /\ pc' = [pc EXCEPT ![h] = to]

\* The handler answers with an error; what it did so far stays.
Refuse(h) ==
    /\ pc' = [pc EXCEPT ![h] = "idle"]
    /\ req' = [req EXCEPT ![h] = Null]

\* The record /register builds: the flags of an older row are not carried over.
FreshRecord(type, identity) ==
    [biscuit |-> 0, type |-> type, identity |-> identity, expiresAt |-> 0,
     enrolledAt |-> 0, banned |-> FALSE, autonomousRecovery |-> FALSE,
     ephemeral |-> FALSE]

\* The other handlers that hold a copy of p's row hold a superseded one now.
Raced(r, p) == IF r.peer = p THEN [r EXCEPT !.raced = TRUE] ELSE r

MarkRaced(p, h) ==
    [g \in Handlers |-> IF g = h \/ req[g] = Null THEN req[g] ELSE Raced(req[g], p)]

(***************************************************************************)
(* /register and /refresh.                                                 *)
(***************************************************************************)

\* HandleRegister up to IsNodeBanned; the JWT and the challenge verified.
Register(h, p) ==
    /\ Step(h, "idle", "mint")
    /\ ~IsNodeBanned(nodes, p)
    /\ req' = [req EXCEPT ![h] =
                 [peer |-> p, from |-> 0, jwt |-> TRUE, recovering |-> FALSE,
                  rec |-> FreshRecord("OIDC", IdentityOf[p]), key |-> 0,
                  raced |-> FALSE]]
    /\ UNCHANGED <<now, store, keys, log, adm, gc>>

\* HandleRefresh up to the signature check, which a retired key fails: the
\* request then goes on in recovery.
RefreshVerify(h, b, jwt) ==
    /\ Step(h, "idle", "read")
    /\ req' = [req EXCEPT ![h] =
                 [peer |-> issued[b].peer, from |-> b, jwt |-> jwt,
                  recovering |-> issued[b].key < oldestKey,
                  rec |-> FreshRecord("OIDC", NoIdentity),
                  key |-> 0, raced |-> FALSE]]
    /\ UNCHANGED <<now, store, keys, log, adm, gc>>

\* Mutant: no byte-match with the last biscuit issued.
RedeemableAnyBiscuit(n, r) ==
    /\ ~n.banned
    /\ SessionExpired(n, now) => r.jwt
    /\ r.recovering => n.autonomousRecovery
    /\ r.jwt => n.type = "OIDC"

\* What HandleRefresh decides on the row alone: admission (a JWT may renew a
\* lapsed session), the byte-match with the last biscuit issued, the opt-in to
\* recovery, and a JWT on OIDC rows only.
Redeemable(n, r) ==
    /\ ~n.banned
    /\ SessionExpired(n, now) => r.jwt
    /\ n.biscuit = r.from
    /\ r.recovering => n.autonomousRecovery
    /\ r.jwt => n.type = "OIDC"

\* GetNode and the checks above.
RefreshRead(h) ==
    LET n == nodes[req[h].peer] IN
    /\ pc[h] = "read"
    /\ \/ /\ n # Null /\ Redeemable(n, req[h])
          /\ Step(h, "read", "mint")
          /\ req' = [req EXCEPT ![h].rec = n, ![h].raced = FALSE]
       \/ /\ ~(n # Null /\ Redeemable(n, req[h]))
          /\ Refuse(h)
    /\ UNCHANGED <<now, store, keys, log, adm, gc>>

\* MintBiscuitToken with the current key; a JWT has renewed the session in the
\* handler's copy of the record.  Nothing is stored yet.
Minted(r) ==
    [r EXCEPT !.key = curKey,
              !.rec = IF r.jwt THEN [@ EXCEPT !.expiresAt = now + SessionTTL] ELSE @]

\* Mutant: the stored identity is looked up only when a JWT comes with it.
MintWithoutLookup(h) ==
    /\ pc[h] = "mint"
    /\ \/ /\ req[h].jwt => req[h].rec.identity \notin bannedIds
          /\ Step(h, "mint", "write")
          /\ req' = [req EXCEPT ![h] = Minted(@)]
       \/ /\ req[h].jwt /\ req[h].rec.identity \in bannedIds
          /\ Refuse(h)
    /\ UNCHANGED <<now, store, keys, log, adm, gc>>

\* IsIdentityBanned for the identity in the claims, or for the owner of a node
\* without claims, then GetCurrentKey: two reads whose order nothing depends
\* on, then the mint.  The owner's ban is only looked at when GetUser finds
\* the owner, with an issuer: an error there lets the request pass.
Mint(h) ==
    /\ pc[h] = "mint"
    /\ \/ /\ req[h].rec.identity \notin bannedIds \/ req[h].rec.type = "BOOTSTRAP"
          /\ Step(h, "mint", "write")
          /\ req' = [req EXCEPT ![h] = Minted(@)]
       \/ /\ req[h].rec.identity \in bannedIds
          /\ Refuse(h)
    /\ UNCHANGED <<now, store, keys, log, adm, gc>>

\* EnrollNode with the new biscuit: the whole record as the handler has it.
Persist(p, rec, key, from, raced, others) ==
    /\ lastB < MaxBiscuits
    /\ lastB' = lastB + 1
    /\ issued' = [b \in 1 .. lastB + 1 |->
                    IF b <= lastB THEN issued[b]
                    ELSE [peer |-> p, key |-> key, from |-> from, raced |-> raced]]
    /\ escaped' = IF rec.type = "OIDC" /\ rec.identity \in bannedIds
                  THEN escaped \cup {lastB + 1} ELSE escaped
    /\ nodes' = EnrollNode(nodes, p, [rec EXCEPT !.biscuit = lastB + 1, !.enrolledAt = now])
    /\ req' = others

Write(h) ==
    /\ Step(h, "write", "idle")
    /\ Persist(req[h].peer, req[h].rec, req[h].key, req[h].from, req[h].raced,
               [MarkRaced(req[h].peer, h) EXCEPT ![h] = Null])
    /\ UNCHANGED <<now, bannedIds, keys, adm, gc>>

\* A store error, a cancelled request, a role no longer bound, a crash.
Abort(h) ==
    /\ pc[h] # "idle"
    /\ Refuse(h)
    /\ UNCHANGED <<now, store, keys, log, adm, gc>>

\* A bootstrap token enrolls p, whether or not it has a row: the write that
\* ends HandleEnroll or the approval (Enrollment has them in detail).  Their
\* checks of the bans of the node and of the token's owner are earlier store
\* calls, so a ban may have landed since.  The flags come from the token.
BootstrapEnroll(p, owner, recovery, ephemeral) ==
    /\ Persist(p, [FreshRecord("BOOTSTRAP", owner) EXCEPT !.autonomousRecovery = recovery,
                                                          !.ephemeral = ephemeral],
               curKey, 0, FALSE, MarkRaced(p, Null))
    /\ UNCHANGED <<now, bannedIds, keys, pc, adm, gc>>

(***************************************************************************)
(* The operator: POST /admin/revoke, /admin/nodes/{id}/unban,              *)
(* /admin/nodes/{id}/autonomous-recovery.                                  *)
(***************************************************************************)

\* GetNode; the identity to ban comes from the claims of the record read.
BanRead(p, ban) ==
    /\ adm = Null
    /\ nodes[p] # Null
    /\ adm' = [peer |-> p, ban |-> ban,
               identity |-> IF nodes[p].type = "OIDC" THEN nodes[p].identity ELSE NoIdentity]
    /\ UNCHANGED <<now, store, keys, log, pc, req, gc>>

\* SetNodeAndIdentityBanned, one transaction; ErrNotFound if the row is gone.
BanCommit ==
    /\ adm # Null
    /\ \/ /\ nodes[adm.peer] # Null
          /\ nodes' = SetNodeBanned(nodes, adm.peer, adm.ban)
          /\ bannedIds' = IF adm.ban THEN bannedIds \cup ({adm.identity} \ {NoIdentity})
                                     ELSE bannedIds \ {adm.identity}
          /\ escaped' = {b \in escaped : IdentityOf[issued[b].peer] \in bannedIds'}
       \/ /\ nodes[adm.peer] = Null
          /\ UNCHANGED <<store, escaped>>
    /\ adm' = Null
    /\ UNCHANGED <<now, keys, lastB, issued, pc, req, gc>>

ToggleRecovery(p, enabled) ==
    /\ nodes[p] # Null
    /\ nodes' = SetNodeAutonomousRecovery(nodes, p, enabled)
    /\ UNCHANGED <<now, bannedIds, keys, log, pc, req, adm, gc>>

(***************************************************************************)
(* The sweep, gcExpiredNodes: three DELETE statements with the deadlines   *)
(* of the time it started; an error ends it.                               *)
(***************************************************************************)

Swept(next, rows) ==
    /\ nodes' = rows
    /\ gc' = next
    /\ UNCHANGED <<now, bannedIds, keys, log, pc, req, adm>>

SweepExpired ==
    /\ gc.stmt = "expired"
    /\ Swept([stmt |-> "silent", at |-> now], DeleteExpiredNodes(nodes, now - NodeRetention))

SweepSilent ==
    /\ gc.stmt = "silent"
    /\ Swept([gc EXCEPT !.stmt = "ephemeral"],
             DeleteSilentBootstrapNodes(nodes, FALSE, gc.at - NodeRetention))

\* Mutant: the regular members' rows are compared with the ephemeral deadline.
SweepRegularAsEphemeral ==
    /\ gc.stmt = "ephemeral"
    /\ Swept([stmt |-> "expired", at |-> 0],
             DeleteSilentBootstrapNodes(nodes, FALSE, gc.at - EphemeralNodeRetention))

SweepEphemeral ==
    /\ gc.stmt = "ephemeral"
    /\ Swept([stmt |-> "expired", at |-> 0],
             DeleteSilentBootstrapNodes(nodes, TRUE, gc.at - EphemeralNodeRetention))

SweepFails ==
    /\ gc.stmt # "expired"
    /\ gc' = [stmt |-> "expired", at |-> 0]
    /\ UNCHANGED <<now, store, keys, log, pc, req, adm>>

(***************************************************************************)
(* The environment: the clock, and the keyring (KeyRotation).              *)
(***************************************************************************)

Tick ==
    /\ now < MaxTime
    /\ now' = now + 1
    /\ UNCHANGED <<store, keys, log, pc, req, adm, gc>>

RotateKey ==
    /\ curKey < MaxKeys
    /\ curKey' = curKey + 1
    /\ UNCHANGED <<now, store, oldestKey, log, pc, req, adm, gc>>

\* Mutant: the signing key itself may be retired.
RetireSigningKey ==
    /\ oldestKey <= curKey
    /\ oldestKey' = oldestKey + 1
    /\ UNCHANGED <<now, store, curKey, log, pc, req, adm, gc>>

RetireKey ==
    /\ oldestKey < curKey
    /\ oldestKey' = oldestKey + 1
    /\ UNCHANGED <<now, store, curKey, log, pc, req, adm, gc>>

Handle(h) ==
    \/ \E p \in Peers : Register(h, p)
    \/ \E b \in 1 .. lastB, jwt \in BOOLEAN : RefreshVerify(h, b, jwt)
    \/ RefreshRead(h)
    \/ Mint(h)
    \/ Write(h)
    \/ Abort(h)

Operator ==
    \/ \E p \in Peers, ban \in BOOLEAN : BanRead(p, ban)
    \/ BanCommit
    \/ \E p \in Peers, enabled \in BOOLEAN : ToggleRecovery(p, enabled)
    \/ \E p \in BootstrapPeers, recovery, ephemeral, owned \in BOOLEAN :
          BootstrapEnroll(p, IF owned THEN IdentityOf[p] ELSE NoIdentity, recovery, ephemeral)

Sweep ==
    \/ SweepExpired
    \/ SweepSilent
    \/ SweepEphemeral
    \/ SweepFails

Next ==
    \/ \E h \in Handlers : Handle(h)
    \/ Operator
    \/ Sweep
    \/ Tick
    \/ RotateKey
    \/ RetireKey

Spec == Init /\ [][Next]_vars

(***************************************************************************)
(* Properties.                                                             *)
(***************************************************************************)

\* A ban outlives everything but the commit of its unban: no registration,
\* refresh, enrollment or retention sweep, whatever it read before the ban
\* committed, clears the banned column or drops the row that carries it
\* (EnrollNode leaves the column alone, the DELETEs spare banned rows).
BanSticks ==
    [][\A p \in Peers : IsNodeBanned(nodes, p) =>
          \/ IsNodeBanned(nodes', p)
          \/ adm # Null /\ adm' = Null /\ adm.peer = p /\ ~adm.ban]_vars

\* A ban of an identity that lands while a request is under way lets that
\* one request through and no more: the biscuit it gets is a dead end, which
\* /refresh exchanges for nothing as long as the ban stands, with or without a
\* JWT, also when only the operator's ban of another device of that identity
\* is in the way.  For OIDC nodes: the ban of an owner is checked less
\* strictly (see Mint).
BannedIdentityNotRenewed ==
    \A c \in 1 .. lastB : issued[c].from \notin escaped

\* A biscuit is redeemed once, except by handlers that raced each other: a
\* refresh that starts reading after another redeemed the same biscuit is
\* refused, so a replayed or retried request mints nothing ("Rotation with
\* reuse detection" in HandleRefresh).
ReplayMintsNothing ==
    \A b, c \in 1 .. lastB :
        b < c /\ issued[c].from # 0 /\ issued[b].from = issued[c].from => issued[c].raced

\* The sweep forgets a member only after its retention: an OIDC row past its
\* session by NodeRetention, a bootstrap row silent for its own retention,
\* and never a banned one, although the deadline is older than the DELETE.
OnlyForgottenAreDeleted ==
    [][\A p \in Peers :
         nodes[p] # Null /\ nodes'[p] = Null =>
            /\ ~nodes[p].banned
            /\ IF nodes[p].expiresAt > 0 THEN now > nodes[p].expiresAt + NodeRetention
               ELSE now > nodes[p].enrolledAt
                            + IF nodes[p].ephemeral THEN EphemeralNodeRetention
                                                    ELSE NodeRetention]_vars

\* "A biscuit can be redeemed exactly once": no two biscuits were issued for
\* the same one.
RedeemedOnce ==
    \A b, c \in 1 .. lastB :
        b # c /\ issued[c].from # 0 => issued[b].from # issued[c].from

\* A refresh never changes whether the node may recover on its own: only the
\* token that enrolled it and the operator set the flag.
RefreshKeepsRecovery ==
    [][\A h \in Handlers : LET p == req[h].peer IN
         pc[h] = "write" /\ Write(h) /\ req[h].from # 0 /\ nodes[p] # Null =>
            nodes'[p].autonomousRecovery = nodes[p].autonomousRecovery]_vars

\* A ban of an OIDC node holds against a new keypair: the identity behind
\* every banned OIDC row is banned as well.
BanCoversIdentity ==
    \A p \in Peers : IsNodeBanned(nodes, p) /\ nodes[p].type = "OIDC" =>
        nodes[p].identity \in bannedIds
=============================================================================
