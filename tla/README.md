# Agent Mesh: a TLA+ verification project

Agent Mesh connects agents (nodes) over libp2p. A *control plane* decides who is a member and signs their
credentials (Biscuits); *routers* relay between members and admit them on their credentials; *nodes* enroll,
renew, and talk to each other through the routers. This project models the parts of it where several processes
share state, checks them with TLC on small instances, and proves the main properties with TLAPS.

## The system and its parts

| Part | Where | State it owns | Talks to |
|---|---|---|---|
| Control plane | `internal/controlplane` | none of its own beyond caches: every replica works on one SQL store | nodes and routers over HTTP, the mesh through events |
| Store | `internal/storage` | keyrings, rotation claim, nodes, banned identities, bootstrap tokens, enrollment requests, router leases, policy, revoked biscuits | control plane replicas, several at once |
| Router | `internal/router` | trusted keys, admitted peers, banned peers, lease, directory records | control plane (sync, lease), nodes (handshake, go-away) |
| Node | `internal/node` | identity and trusted keys on disk, router sessions, revocation cache, services | control plane (enroll, refresh, sync), routers, peers |
| Credentials and policy | `internal/identity`, `api` | none (pure functions) | everyone |
| Limits | `internal/p2plimits`, `internal/ratelimit` | counters per source and peer | routers and nodes |
| Front ends, SDKs, tools | `internal/console`, `internal/envoy`, `internal/standalone`, `internal/tunnel`, `sdk`, `mobile`, `cmd` | client sessions only | the parts above |

`PROJECT.json` lists all 32 components with their status. What they share, and what makes them hard to test, is
that **a handler of the control plane is a sequence of store calls with no transaction around it**. Other handlers,
other replicas, the operator, the retention sweep and the clock all move in between. The models therefore take one
store call per step. Three places differ. The two rotations of the keyrings take *two* steps, because their
transactions are not serialised either. In `Membership` the reads of the identity ban and of the current key are one
step (nothing a handler does depends on their order), and an enrollment by token is only its final write there.

## Modules

| Module | Models | Its runs and proofs |
|---|---|---|
| `KeyStore` | the two keyring tables and the transactions on them (`sql_store.go`) | through `KeyRotation` |
| `KeyRotation` | start-up and rotation of the signing keys by several replicas (`server.go`, `sts.go`) | `MCKeyRotation`, `KeyRotationProofs` |
| `NodeStore` | the `nodes` table and its statements (`sql_store.go`, `storage.go`) | `NodeStoreProofs`, and the two below |
| `Membership` | `/register`, `/refresh`, bans, the recovery toggle, the sweep of node rows | `MCMembership`, `MembershipProofs` |
| `Enrollment` | `/enroll`, approval and rejection, re-minting, token revocation, the sweep of requests | `MCEnrollment`, `EnrollmentProofs` |

`KeyStore` and `NodeStore` hold operators only, one per store transaction or statement. The modules that extend
them hold the state machines. `map` in `PROJECT.json` gives the source lines of every definition.

### KeyStore and KeyRotation

A keyring maps a key to its `expiration` column: `Absent`, `NULL` for a signing key, or a time. Keys are numbered in
the order in which their rows are committed. A replica goes `down` → (`oidcSave`) → `init` → (`save`) → `schedule` →
`idle`: it looks for an ES256 key and saves one if it saw none, and then does the same for the Ed25519 key, so another
replica may come between each look and its save. For each tick of its timer it goes `claim` → `rotate` → `commit` →
`oidc` → `oidcCommit` → `publish` → `idle`, or from `rotate` or `commit` to `release` after an error. `at[r]` is the time
the ticker read, which the claim and the release use although the clock may have moved on.

`RotateKeys` and `RotateOIDCKeys` take no lock, and PostgreSQL runs them at READ COMMITTED. Their first step fixes
`time.Now()` and the signing rows that the UPDATE sees (`tx[r]`); their second is the commit, which retires those of
these rows that are still signing rows, inserts the new key and purges. Two rotations that overlap each leave a signing
row, since neither UPDATE sees the other's insert. `overlapped` is a history variable with the tables to which this
happened in their last rotation. With several signing rows the model lets a handler read any of them, because the ids
by which `GetCurrentKey` chooses are drawn before the commit. `TxTime` bounds how long a rotation stays open. The saves
of a first key are one step: they lock the `rotation_lock` row first.

`Crash` stops a replica anywhere and rolls back. The `...Fails` actions are store errors; those of the claim and of the
rotations come with and without the effect, because a commit may succeed and its answer be lost. `readAt` is a history
variable: when an issuing handler last read each key as current.

### NodeStore and Membership

A row is a record of the columns the handlers decide on; the biscuit column holds the number of the biscuit. A
handler is at `idle`, `read`, `mint` or `write`, and `req[h]` holds its request and the copy of the row it works on.
The write is `EnrollNode`: the whole record except `banned`, which the upsert leaves alone. A request may carry *any*
biscuit ever issued, so retries after a lost answer, duplicates and late deliveries need no extra actions. `Abort`
covers every error return, a cancelled request and a crash. `raced` is a history field of a request: another write hit
the row since this handler read it. `escaped` is a history variable: the biscuits written to an OIDC record while its
identity was banned, which happens when the ban lands between the handler's check and its write; lifting the ban clears
them. The check of a token owner's ban fails open, as in the code (`GetUser` finds no owner, or one without an issuer),
so `Mint` lets an owned bootstrap node pass although the owner is banned, or refuses it.
The sweep runs its three DELETEs as separate steps with the deadlines of its start. Key generations stand for the
keyring, because a refresh only asks whether the key of the biscuit is still valid.

### Enrollment

A token has `MaxUsages`, an expiry and possibly the ephemeral flag. A handler reads and checks the token, then the
node's ban, looks for an earlier request of the peer, and then creates a pending one, or approves at once (`AutoApproveEnrollment`), or re-mints for an
approved one. An operator's approval reads the request, then its token (the node's ban is not asked), and goes on with
the same store steps. The order inside an approval is the
code's: spend a usage (`Consume`, one conditional UPDATE), mint, write the node row, then resolve the request (`Resolve`,
an UPDATE conditional on *pending*); a re-mint updates the request unconditionally and before the node row. `paidBy`
(which token paid for each biscuit) and `forgotten` (the peers whose row the sweep deleted) are history variables.

## Runs

| Run | Checks | Instance | States |
|---|---|---|---|
| `key_rotation` | `TypeOK`, `SingleSigningKey`, `ReadKeyOutlivesRotation`, `OneReplicaPerWindow` | 2 replicas, 4 keys, time to 4, interval 1, grace 2, transactions of up to 1, 1 fault | 1,875,403 |
| `key_rotation_live` | `DueRotationHappens`, `FailedRotationRetried` | 2 replicas, 3 keys, time to 3, interval 2, grace 1, transactions of up to 1, 2 faults, fairness | 28,220 |
| `membership` | `TypeOK`, `ReplayMintsNothing` | 1 peer, 2 handlers, 3 biscuits | 278,280 |
| `membership_identities` | `BannedIdentityNotRenewed` | 2 devices of one OIDC identity, 1 handler, 3 biscuits, 2 key generations | 888,645 |
| `membership_sweep` | `BanSticks`, `OnlyForgottenAreDeleted` | 1 peer, enrolled by token too, 1 handler, time to 5, retention 2 and 1 | 1,777,611 |
| `enrollment` | `TypeOK`, `TokenBudget`, `ApprovedHasNode`, `ResolutionIsFinal` | manual approval, 2 peers, 2 handlers, 1 token of 2 usages, time to 2 | 587,254 |
| `enrollment_auto` | `ApprovedHasNode`, `TokenBudget` | automatic approval, 1 peer, 2 handlers, a regular and an ephemeral token, 3 biscuits, time to 4 | 559,480 |

What they show:

- **One signing key, unless rotations overlap.** However replicas start, fail and crash, each keyring has a signing row
  from its first key on, and exactly one as long as the last rotation ran alone. Rotations that overlap leave several,
  and the next one that runs alone retires them all.
- **A key that was read lives on.** A handler that read a signing key and is overtaken by rotations still mints a
  credential that verifies for the rest of the grace period, less the time a rotation's transaction was open (the grace
  period is counted from the start of the transaction, and the key can be read until its commit).
- **One replica per window.** A stale release never re-opens a window that another replica has claimed.
- **Rotation happens.** A due rotation takes place, and a failed one is retried within its window.
- **Replay mints nothing.** A biscuit is redeemed a second time only by handlers that raced each other.
- **Bans hold.** No write-back of a stale row, no enrollment and no sweep lifts a ban. A ban of an OIDC identity may
  miss one request of its other devices that is already past the check, and the biscuit that request gets is a dead
  end: it is renewed for nobody while the ban stands. Neither is claimed of nodes that were enrolled by the identity's
  token, whose check is fail-open.
- **Nothing is forgotten early.** The sweep spares rows renewed or banned after it computed its deadlines.
- **The token budget holds.** At most `MaxUsages` credentials are minted for a token, re-mints included.
- **Resolutions are final**, and an approved request has a node row behind it until the sweep forgets the member. The
  sweep deletes nothing in the `enrollment` run (its clock ends at the retention) and does in `enrollment_auto`. Once
  the row is forgotten the request may say APPROVED for a while; no property is about that time.

### Where the code and its own words differ

Five runs each end in a counterexample to a sentence of the repository (`findings` has the quotes).

- `membership_redeemed_once`: two concurrent refreshes with one biscuit both mint, because the byte-match and the
  write are separate store calls. The test that says "redeemed exactly once" replays sequentially.
- `membership_toggle`: a refresh in flight writes the old autonomous-recovery flag back over the operator's toggle.
- `membership_restore`: unbanning one device deletes the identity ban on which another banned device relies.
- `enrollment_lockstep`: two attempts of one peer leave different biscuits in the request and in the node row.
- `enrollment_retry`: an approval that fails after spending the last usage leaves a request nobody can approve.

### Bounds, and why they are enough

Every bound is a constant that appears in a guard: `MaxTime`, `TxTime`, `MaxKeys`, `MaxFaults`, `MaxBiscuits`, `MaxRequests`. Two
replicas or handlers suffice for races over one window, row or request: the store calls are atomic and each race is
between a reader that writes back and one writer. Four keys allow a first key, two rotations that overlap and one more
that clears up after them; three rotations in a row are also when a retired key could be lost. A second key generation
is only in `membership_identities`, which for that leaves out the enrollment by token. Three biscuits allow one original and two redemptions of it. Time runs past the longest retention or
grace period, so both sides of each deadline are reached; the runs about races alone hold the clock still. Replicas,
handlers and interchangeable peers are symmetric; no run that checks liveness uses symmetry, and peers are not
permuted across the set of those given a token. The theorems below lift most bounds altogether.

Deadlock is checked in every run: each system can always take some step (a ticker, an operator, the sweep).

### Fairness

Only `key_rotation_live` needs it. `FairSpec` asks for weak fairness of the clock and of each replica's own steps: the
rotation loop is a goroutine with a ticker, and a stopped process is restarted by its supervisor. Faults are never
fair, and both properties start after the last one, so they do not hold by faults running out in the future.

## Proofs

The theorems hold for every value of the constants that satisfies the named assumptions (`KeyStoreAssumption`,
`KeyRotationAssumption`, those of `NodeStore`, `MembershipAssumption`, `EnrollmentAssumption`, and that `Null` is no row
and no request), which TLC evaluates on every run. Any number of replicas, peers, handlers, tokens and any bounds.

| Module | Theorems | Argument |
|---|---|---|
| `KeyRotationProofs` | `TypeCorrect`, `SingleSigningKeyHolds`, `ReadKeyOutlivesRotationHolds`, `OneReplicaPerWindowHolds` | see below |
| `NodeStoreProofs` | lemmas on the row operators: what `EnrollNode` leaves alone, that the DELETEs spare banned rows | definitions |
| `MembershipProofs` | `TypeCorrect`, `ReplayMintsNothingHolds`, `BannedIdentityNotRenewedHolds`, `BanSticksHolds` | see below |
| `EnrollmentProofs` | `TypeCorrect`, `ApprovedHasNodeHolds`, `ResolutionIsFinalHolds` | see below |

- *Key rotation.* The inductive invariant adds three things to the types. Each ring is well formed: rows only for keys
  inserted so far, a signing row from the first key on, one unless the last rotation overlapped, and each key read is a
  signing row, or expires no earlier than its grace period less `TxTime`, or has lived through that time. Each open
  transaction began at most `TxTime` ago and, as long as no key was inserted since, saw every signing row there is; this
  is why a rotation that runs alone leaves one. And the stored deadline is at least an interval after every claim in
  progress, which makes a late release harmless: the deadline equals `at + Interval` only for the latest claim.
- *Membership.* The biscuit in a row is one that nobody has redeemed. A handler past its read presents a biscuit that is
  still unredeemed, unless another write to the row raced it; that gives `ReplayMintsNothing`. A second invariant, proved
  on top of the first, follows the escaped biscuits: the ban behind each still stands, the row that holds one is an OIDC
  row of that identity, and so is the copy of a handler that presents one, which is therefore stopped at its ban check
  and never reaches the write (`BannedIdentityNotRenewed`). `BanSticks` follows from the lemmas on the row operators, step
  by step.
- *Enrollment.* For every handler in flight, the peer has a row, or was forgotten, from the handler's node write on, and
  before every write of an approved status. Request ids stay below the counter, so a new request is never confused with
  one that a handler remembers.

Only model-checked: both liveness properties (fairness is out of the prover's reach), `OnlyForgottenAreDeleted`, and
`TokenBudget`, whose proof counts handlers and biscuits.

## What is abstracted or left out

- A transaction of the store is one step, except the two rotations (above). Within a rotation's first step, `time.Now()`
  and the UPDATE are not separated. `SetKeyring` is an operator only and has no run yet.
- Replicas share one clock. Keys, signatures and JWTs are assumed to verify when they should.
- Roles, labels and policy decide only whether a handler returns an error, which `Abort` covers.
- In `Membership`, enrollment by a token is one step; `Enrollment` has it in full. In `Enrollment`, tokens exist from
  the start, and the ban of a token's owner and the sweep of expired tokens are left out.
- Not modelled yet: routers, nodes, the ES256 signer cache, revocation lists, events, leases, policy (see the plan).
- Out of scope: the console, metrics, flags, process control, protocol parsing and cryptography.

## Plan

1. `OperatorKeys` over `KeyStore`: the key file, its reconciliation by replicas with different files, leaving operator
   mode; `OidcSigner`: the cached ES256 key and the JWKS, for which cache time plus token lifetime must fit the grace.
2. `Enrollment` composed with `KeyRotation`: the public key an approved answer carries against the key that signed.
3. `KeyTrust`: the trust set of a node or router, events, `/keys` sync, pruning and restarts, composed with `KeyRotation`;
   abstract specification: a member that syncs within the grace period can always verify the control plane.
4. `BanPropagation`: events that may be lost or late, `/info` answers that are stale, and the handshake's check-then-admit;
   liveness: every ban reaches every router. `Revocation`: the cached list of each replica.
5. `RouterLease` (renewal, withdrawal, expiry), `RouterSession` (redial, single flight, go-away, shedding), `Directory`
   (lifetimes, bounded store), each against a short abstract specification by refinement.
6. `Policy`, `Labels` and the Datalog rules as pure operators against reference definitions; limits and rate limiting.
7. Node renewal and recovery, the token services, the service registry and egress accounting; then the SDK sessions.
8. Proofs: `TokenBudget` and `OnlyForgottenAreDeleted`; safety of the modules of steps 1, 3 and 4; their refinements.
