---------------------------- MODULE KeyRotation ----------------------------
(***************************************************************************)
(* Automatic rotation of the signing keys by control-plane replicas that   *)
(* share one store (internal/controlplane/server.go, sts.go).              *)
(*                                                                         *)
(* A replica starts (NewServer, Init), then its ticker calls               *)
(* rotateKeysIfDue: claim the window in the store, generate, rotate the    *)
(* Ed25519 keyring, rotate the ES256 keyring, announce.  Each store call   *)
(* is one step, except that the transactions of the two rotations have a   *)
(* first step, which fixes the time and the rows they see, and a commit:   *)
(* nothing serialises them.  So the replicas' steps interleave, the clock  *)
(* moves between them, a replica may crash between any two, and a call may *)
(* fail, with or without having been applied (a commit whose answer is     *)
(* lost).                                                                  *)
(***************************************************************************)
EXTENDS KeyStore

CONSTANTS
    Replicas,   \* the control-plane processes
    Interval,   \* Options.KeyRotationInterval, positive: the loop is off otherwise
    TxTime,     \* bound: the longest a rotation's transaction stays open
    MaxFaults   \* bound: crashes and failed calls of a behaviour

ASSUME KeyRotationAssumption ==
    /\ MaxTime > 0
    /\ Interval \in Nat \ {0}
    /\ TxTime \in Nat
    /\ MaxFaults \in Nat

VARIABLES
    now,            \* the wall clock, shared by the replicas; starts at 1
    ring,           \* table keyring
    oidc,           \* table oidc_keyring
    nextRotation,   \* rotation_lock.next_rotation_at; 0 while never scheduled
    lastKey,        \* Ed25519 keys inserted so far
    lastKid,        \* ES256 keys inserted so far
    pc,             \* where each replica is
    at,             \* the time each replica passed to rotateKeysIfDue
    tx,             \* the rotation's transaction each replica has open
    faults,         \* faults so far
    readAt,         \* history: when an issuing handler last read each key as current
    overlapped      \* history: the tables whose last rotation overlapped an insert

vars == <<now, ring, oidc, nextRotation, lastKey, lastKid, pc, at, tx, faults, readAt,
          overlapped>>

PC == {"down", "oidcSave", "init", "save", "schedule", "idle", "claim", "rotate",
       "commit", "release", "oidc", "oidcCommit", "publish"}

\* at: the time.Now() of the transaction.  saw: the signing rows its UPDATE
\* saw.  last: the keys inserted before it.
Transaction == [at: Nat, saw: SUBSET Keys, last: Nat]

NoTransaction == [at |-> 0, saw |-> {}, last |-> 0]

InTransaction(r) == pc[r] \in {"commit", "oidcCommit"}

TypeOK ==
    /\ now \in 1 .. MaxTime
    /\ ring \in Keyring
    /\ oidc \in Keyring
    /\ nextRotation \in Nat
    /\ lastKey \in 0 .. MaxKeys
    /\ lastKid \in 0 .. MaxKeys
    /\ pc \in [Replicas -> PC]
    /\ at \in [Replicas -> Nat]
    /\ tx \in [Replicas -> Transaction]
    /\ \A r \in Replicas : ~InTransaction(r) => tx[r] = NoTransaction
    /\ faults \in 0 .. MaxFaults
    /\ readAt \in [Keys -> Nat]
    /\ overlapped \subseteq {"keyring", "oidc_keyring"}

Init ==
    /\ now = 1
    /\ ring = EmptyKeyring
    /\ oidc = EmptyKeyring
    /\ nextRotation = 0
    /\ lastKey = 0
    /\ lastKid = 0
    /\ pc = [r \in Replicas |-> "down"]
    /\ at = [r \in Replicas |-> 0]
    /\ tx = [r \in Replicas |-> NoTransaction]
    /\ faults = 0
    /\ readAt = [k \in Keys |-> 0]
    /\ overlapped = {}

history == <<readAt, overlapped>>

Goto(r, from, to) ==
    /\ pc[r] = from
    /\ pc' = [pc EXCEPT ![r] = to]

\* A crash or a failed store call, counted against the bound.
Fault ==
    /\ faults < MaxFaults
    /\ faults' = faults + 1

(***************************************************************************)
(* Start-up.                                                               *)
(***************************************************************************)

\* NewServer: the ES256 signer looks for a signing row.
NewServer(r) ==
    /\ Goto(r, "down", IF SigningRows(oidc) = {} THEN "oidcSave" ELSE "init")
    /\ UNCHANGED <<now, ring, oidc, nextRotation, lastKey, lastKid, at, tx, faults, history>>

\* GetAllValidOIDCKeys fails, which the signer takes for an empty table.
NewServerReadFails(r) ==
    /\ Goto(r, "down", "oidcSave")
    /\ Fault
    /\ UNCHANGED <<now, ring, oidc, nextRotation, lastKey, lastKid, at, tx, history>>

\* SaveInitialOIDCKey.
NewServerSave(r) ==
    /\ Goto(r, "oidcSave", "init")
    /\ lastKid < MaxKeys
    /\ oidc' = SaveInitialKey(oidc, lastKid + 1)
    /\ lastKid' = IF SigningRows(oidc) = {} THEN lastKid + 1 ELSE lastKid
    /\ UNCHANGED <<now, ring, nextRotation, lastKey, at, tx, faults, history>>

\* Its error is ignored and the start goes on.
NewServerSaveFails(r) ==
    /\ Goto(r, "oidcSave", "init")
    /\ Fault
    /\ UNCHANGED <<now, ring, oidc, nextRotation, lastKey, lastKid, at, tx, history>>

\* Init: GetCurrentKey decides whether a first key is needed.
InitReadKey(r) ==
    /\ Goto(r, "init", IF SigningRows(ring) = {} THEN "save" ELSE "schedule")
    /\ UNCHANGED <<now, ring, oidc, nextRotation, lastKey, lastKid, at, tx, faults, history>>

InitSaveKey(r) ==
    /\ Goto(r, "save", "schedule")
    /\ lastKey < MaxKeys
    /\ ring' = SaveInitialKey(ring, lastKey + 1)
    /\ lastKey' = IF SigningRows(ring) = {} THEN lastKey + 1 ELSE lastKey
    /\ UNCHANGED <<now, oidc, nextRotation, lastKid, at, tx, faults, history>>

\* ScheduleKeyRotationIfUnset: only a store that never had a deadline gets one.
InitSchedule(r) ==
    /\ Goto(r, "schedule", "idle")
    /\ nextRotation' = IF nextRotation = 0 THEN now + Interval ELSE nextRotation
    /\ UNCHANGED <<now, ring, oidc, lastKey, lastKid, at, tx, faults, history>>

(***************************************************************************)
(* rotateKeysIfDue.                                                        *)
(***************************************************************************)

\* runKeyRotationLoop: the ticker fires and the replica reads its clock.
TickerFires(r) ==
    /\ Goto(r, "idle", "claim")
    /\ at' = [at EXCEPT ![r] = now]
    /\ UNCHANGED <<now, ring, oidc, nextRotation, lastKey, lastKid, tx, faults, history>>

\* Mutant: "<" for "<=".
ClaimKeyRotationStrict(r) ==
    /\ IF nextRotation < at[r]
       THEN /\ Goto(r, "claim", "rotate")
            /\ nextRotation' = at[r] + Interval
       ELSE /\ Goto(r, "claim", "idle")
            /\ UNCHANGED nextRotation
    /\ UNCHANGED <<now, ring, oidc, lastKey, lastKid, at, tx, faults, history>>

\* "UPDATE ... WHERE next_rotation_at <= now", with the time the ticker read.
ClaimKeyRotation(r) ==
    /\ IF nextRotation <= at[r]
       THEN /\ Goto(r, "claim", "rotate")
            /\ nextRotation' = at[r] + Interval
       ELSE /\ Goto(r, "claim", "idle")
            /\ UNCHANGED nextRotation
    /\ UNCHANGED <<now, ring, oidc, lastKey, lastKid, at, tx, faults, history>>

\* The claim returns an error, applied or not: the replica gives up this tick.
ClaimFails(r) ==
    /\ Goto(r, "claim", "idle")
    /\ Fault
    /\ \/ UNCHANGED nextRotation
       \/ /\ nextRotation <= at[r]
          /\ nextRotation' = at[r] + Interval
    /\ UNCHANGED <<now, ring, oidc, lastKey, lastKid, at, tx, history>>

\* A rotation's transaction starts: time.Now, then the UPDATE's view of the rows.
Begin(r, table, last) ==
    tx' = [tx EXCEPT ![r] = [at |-> now, saw |-> SigningRows(table), last |-> last]]

End(r) == tx' = [tx EXCEPT ![r] = NoTransaction]

\* History: was a key inserted into the table while r's transaction was open?
Overlap(r, table, last) ==
    overlapped' = IF tx[r].last = last THEN overlapped \ {table} ELSE overlapped \cup {table}

Rotate(r) ==
    /\ Goto(r, "rotate", "commit")
    /\ Begin(r, ring, lastKey)
    /\ UNCHANGED <<now, ring, oidc, nextRotation, lastKey, lastKid, at, faults, history>>

\* The commit of RotateKeys makes its effect visible.
CommitRotation(r) ==
    /\ lastKey < MaxKeys
    /\ ring' = RotateKeys(ring, tx[r].saw, lastKey + 1, tx[r].at)
    /\ lastKey' = lastKey + 1
    /\ Overlap(r, "keyring", lastKey)
    /\ UNCHANGED readAt

RotateCommit(r) ==
    /\ Goto(r, "commit", "oidc")
    /\ End(r)
    /\ CommitRotation(r)
    /\ UNCHANGED <<now, oidc, nextRotation, lastKid, at, faults>>

\* Mutant: the transaction that failed is not rolled back.
RotateFailsNoRollback(r) ==
    /\ Goto(r, "rotate", "release") \/ Goto(r, "commit", "release")
    /\ Fault
    /\ UNCHANGED <<now, ring, oidc, nextRotation, lastKey, lastKid, at, tx, history>>

\* GenerateKey or RotateKeys fails; the transaction may have committed all the same.
RotateFails(r) ==
    /\ \/ /\ Goto(r, "rotate", "release")
          /\ UNCHANGED <<ring, lastKey, tx, history>>
       \/ /\ Goto(r, "commit", "release")
          /\ End(r)
          /\ CommitRotation(r) \/ UNCHANGED <<ring, lastKey, history>>
    /\ Fault
    /\ UNCHANGED <<now, oidc, nextRotation, lastKid, at>>

\* Mutant: the release resets the deadline whoever set it.
ReleaseAnyClaim(r) ==
    /\ Goto(r, "release", "idle")
    /\ nextRotation' = at[r]
    /\ UNCHANGED <<now, ring, oidc, lastKey, lastKid, at, tx, faults, history>>

\* Mutant: the claim is kept when the rotation failed.
ReleaseNothing(r) ==
    /\ Goto(r, "release", "idle")
    /\ UNCHANGED <<now, ring, oidc, nextRotation, lastKey, lastKid, at, tx, faults, history>>

\* ReleaseKeyRotationClaim: only the deadline this very claim set is reset.
ReleaseKeyRotationClaim(r) ==
    /\ Goto(r, "release", "idle")
    /\ nextRotation' = IF nextRotation = at[r] + Interval THEN at[r] ELSE nextRotation
    /\ UNCHANGED <<now, ring, oidc, lastKey, lastKid, at, tx, faults, history>>

ReleaseFails(r) ==
    /\ Goto(r, "release", "idle")
    /\ Fault
    /\ UNCHANGED <<now, ring, oidc, nextRotation, lastKey, lastKid, at, tx, history>>

RotateOIDCKey(r) ==
    /\ Goto(r, "oidc", "oidcCommit")
    /\ Begin(r, oidc, lastKid)
    /\ UNCHANGED <<now, ring, oidc, nextRotation, lastKey, lastKid, at, faults, history>>

CommitOIDCRotation(r) ==
    /\ lastKid < MaxKeys
    /\ oidc' = RotateOIDCKeys(oidc, tx[r].saw, lastKid + 1, tx[r].at)
    /\ lastKid' = lastKid + 1
    /\ Overlap(r, "oidc_keyring", lastKid)
    /\ UNCHANGED readAt

RotateOIDCCommit(r) ==
    /\ Goto(r, "oidcCommit", "publish")
    /\ End(r)
    /\ CommitOIDCRotation(r)
    /\ UNCHANGED <<now, ring, nextRotation, lastKey, at, faults>>

\* A warning only: the announcement follows whether or not the ES256 key rotated.
RotateOIDCKeyFails(r) ==
    /\ \/ Goto(r, "oidc", "publish") /\ UNCHANGED <<oidc, lastKid, tx, history>>
       \/ /\ Goto(r, "oidcCommit", "publish")
          /\ End(r)
          /\ CommitOIDCRotation(r) \/ UNCHANGED <<oidc, lastKid, history>>
    /\ Fault
    /\ UNCHANGED <<now, ring, nextRotation, lastKey, at>>

\* PublishEvent(KEY_ROTATION) changes nothing in the store, and its failure
\* is only logged.
Publish(r) ==
    /\ Goto(r, "publish", "idle")
    /\ UNCHANGED <<now, ring, oidc, nextRotation, lastKey, lastKid, at, tx, faults, history>>

(***************************************************************************)
(* The environment.                                                        *)
(***************************************************************************)

\* The process stops anywhere, a failed Init included; its locals are lost.
Crash(r) ==
    /\ pc[r] # "down"
    /\ pc' = [pc EXCEPT ![r] = "down"]
    /\ at' = [at EXCEPT ![r] = 0]
    /\ End(r)
    /\ Fault
    /\ UNCHANGED <<now, ring, oidc, nextRotation, lastKey, lastKid, history>>

\* Every handler that issues a Biscuit (register, refresh, enroll, approve)
\* starts by reading the current key, the signing row with the greatest id.
\* Ids are drawn at the INSERT and not at the commit, so of the signing rows
\* that overlapping rotations leave, any may be that one.
HandlerReadsKey ==
    /\ \E k \in SigningRows(ring) : readAt' = [readAt EXCEPT ![k] = now]
    /\ UNCHANGED <<now, ring, oidc, nextRotation, lastKey, lastKid, pc, at, tx, faults, overlapped>>

\* Transactions are short: none stays open for more than TxTime.
Tick ==
    /\ now < MaxTime
    /\ \A r \in Replicas : InTransaction(r) => now < tx[r].at + TxTime
    /\ now' = now + 1
    /\ UNCHANGED <<ring, oidc, nextRotation, lastKey, lastKid, pc, at, tx, faults, history>>

\* The steps a healthy replica takes by itself.
Progress(r) ==
    \/ NewServer(r) \/ NewServerSave(r)
    \/ InitReadKey(r) \/ InitSaveKey(r) \/ InitSchedule(r)
    \/ TickerFires(r) \/ ClaimKeyRotation(r) \/ Rotate(r) \/ RotateCommit(r)
    \/ ReleaseKeyRotationClaim(r)
    \/ RotateOIDCKey(r) \/ RotateOIDCCommit(r) \/ Publish(r)

Failure(r) ==
    \/ NewServerReadFails(r) \/ NewServerSaveFails(r) \/ ClaimFails(r) \/ RotateFails(r)
    \/ ReleaseFails(r) \/ RotateOIDCKeyFails(r) \/ Crash(r)

Next ==
    \/ \E r \in Replicas : Progress(r) \/ Failure(r)
    \/ HandlerReadsKey
    \/ Tick

Spec == Init /\ [][Next]_vars

(***************************************************************************)
(* Fairness: the scheduler runs every replica's goroutine and restarts a   *)
(* stopped process, and time passes.  Faults are never forced.             *)
(***************************************************************************)
FairSpec ==
    /\ Spec
    /\ WF_vars(Tick)
    /\ \A r \in Replicas : WF_vars(Progress(r))

(***************************************************************************)
(* Properties.                                                             *)
(***************************************************************************)

\* Replicas that hold a claimed window: between the claim and the end of
\* RotateKeys or of the release.
Holds(r) == pc[r] \in {"rotate", "commit", "release"}

\* One key signs: from the first key on, however replicas start, rotate, fail
\* and crash, each keyring has a row without an expiration, and it has just
\* one unless the last rotation overlapped another insert.  So replicas that
\* start together agree on the first key, and the signing rows that
\* overlapping rotations leave side by side are all retired by the next
\* rotation that runs alone.
SingleSigningKey ==
    /\ lastKey > 0 => SigningRows(ring) # {}
    /\ lastKid > 0 => SigningRows(oidc) # {}
    /\ "keyring" \notin overlapped => \A j, k \in SigningRows(ring) : j = k
    /\ "oidc_keyring" \notin overlapped => \A j, k \in SigningRows(oidc) : j = k

\* A rotation, even one that overtakes a handler between its read of the
\* current key and its mint, several in a row or several at once, leaves that
\* key in /keys for the grace period after the read, less the time a rotation
\* may hold its transaction open: what the key signed verifies, and a member
\* that knew only this key can still authenticate /keys.
ReadKeyOutlivesRotation ==
    \A k \in Keys :
        readAt[k] # 0 /\ now + TxTime < readAt[k] + Grace => k \in GetAllValidKeys(ring, now)

\* No two replicas work in one rotation window: the windows of two claims in
\* progress are at least an interval apart, and the stored deadline is past
\* every one of them, also when a slow replica releases an old claim late.
OneReplicaPerWindow ==
    /\ \A r \in Replicas : Holds(r) => nextRotation >= at[r] + Interval
    /\ \A r, q \in Replicas :
        r # q /\ Holds(r) /\ Holds(q) =>
            \/ at[r] >= at[q] + Interval
            \/ at[q] >= at[r] + Interval

Due == nextRotation # 0 /\ nextRotation <= now

\* A due rotation happens: once faults are over, a deadline that has passed
\* is followed by a new signing key (the claim neither blocks nor is skipped).
DueRotationHappens ==
    \A n \in 1 .. MaxKeys - 1 :
        (Due /\ faults = MaxFaults /\ lastKey = n) ~> (lastKey > n)

\* A rotation that failed after its claim is retried in the same window
\* ("Give up the window so a retry isn't stuck waiting a full interval").
FailedRotationRetried ==
    \A r \in Replicas, n \in 1 .. MaxKeys - 1 :
        (/\ pc[r] = "release" /\ nextRotation = at[r] + Interval
         /\ faults = MaxFaults /\ lastKey = n) ~> (lastKey > n)
=============================================================================
