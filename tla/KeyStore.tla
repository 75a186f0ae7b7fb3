------------------------------ MODULE KeyStore ------------------------------
(***************************************************************************)
(* The signing keyrings of the control plane's SQL store                   *)
(* (internal/storage/sql_store.go): the Ed25519 keyring behind Biscuits    *)
(* and the ES256 keyring behind the /sts/token JWTs.  Both tables have the *)
(* same columns, so one set of operators models both.                      *)
(*                                                                         *)
(* A keyring is a function from keys to the row's expiration column:       *)
(* Absent when there is no row, NULL for a signing key, otherwise the time *)
(* from which the key no longer verifies.  An operator is what the commit  *)
(* of a transaction does to the rows.  The rotations take no lock, so at   *)
(* PostgreSQL's default READ COMMITTED two may overlap: their UPDATE sees  *)
(* the rows committed when it starts, and the operator gets those as saw.  *)
(* Keys are numbered in the order in which their rows are committed.       *)
(***************************************************************************)
EXTENDS Integers, FiniteSets

CONSTANTS
    NULL,       \* the SQL null of the expiration column
    Absent,     \* no row for the key
    MaxKeys,    \* bound: the keys a behaviour may use
    MaxTime,    \* bound: the last value of the clock
    Grace,      \* Options.KeyGracePeriod
    NoExpiry    \* operatorKeyNoExpiry, the last day of the year 9999

ASSUME KeyStoreAssumption ==
    /\ MaxKeys \in Nat
    /\ MaxTime \in Nat
    /\ Grace \in Nat
    /\ NoExpiry \in Nat
    /\ NoExpiry > MaxTime + Grace
    /\ NULL \notin Nat
    /\ Absent \notin Nat
    /\ NULL # Absent

Keys == 1 .. MaxKeys

Keyring == [Keys -> Nat \cup {NULL, Absent}]

EmptyKeyring == [k \in Keys |-> Absent]

\* The rows with "expiration IS NULL".
SigningRows(ring) == {k \in Keys : ring[k] = NULL}

\* "expiration IS NULL OR expiration > now": the keys /keys and /jwks publish.
GetAllValidKeys(ring, t) ==
    {k \in Keys : ring[k] = NULL \/ (ring[k] \in Nat /\ ring[k] > t)}

\* "DELETE ... WHERE expiration <= now"; the comparison is never true of NULL.
Purge(e, t) == IF e \in Nat /\ e <= t THEN Absent ELSE e

\* Mutant: the retired key is purged at once.
RotateKeysNoGrace(ring, saw, new, t) ==
    [k \in Keys |->
        Purge(IF k = new THEN NULL ELSE IF k \in saw /\ ring[k] = NULL THEN t ELSE ring[k], t)]

(***************************************************************************)
(* RotateKeys, begun at time t: the signing rows its UPDATE saw get the    *)
(* grace period unless another transaction retired them first (a row that  *)
(* was locked is looked at again), the new key is inserted as a signing    *)
(* row, and rows past their expiration go.  A signing row that was         *)
(* committed after the UPDATE started is left alone.                       *)
(***************************************************************************)
RotateKeys(ring, saw, new, t) ==
    [k \in Keys |->
        Purge(IF k = new THEN NULL
              ELSE IF k \in saw /\ ring[k] = NULL THEN t + Grace
              ELSE ring[k], t)]

(***************************************************************************)
(* RotateOIDCKeys differs in one case: without a grace period the signing  *)
(* rows are deleted instead of retired.                                    *)
(***************************************************************************)
RotateOIDCKeys(ring, saw, new, t) ==
    [k \in Keys |->
        Purge(IF k = new THEN NULL
              ELSE IF k \in saw /\ ring[k] = NULL THEN (IF Grace > 0 THEN t + Grace ELSE Absent)
              ELSE ring[k], t)]

\* Mutant: the insert forgets its WHERE NOT EXISTS.
SaveInitialKeyAlways(ring, new) == [ring EXCEPT ![new] = NULL]

(***************************************************************************)
(* SaveInitialKey / SaveInitialOIDCKey: "INSERT ... WHERE NOT EXISTS" a    *)
(* signing row, serialised on the rotation_lock row.                       *)
(***************************************************************************)
SaveInitialKey(ring, new) ==
    IF SigningRows(ring) = {} THEN [ring EXCEPT ![new] = NULL] ELSE ring

(***************************************************************************)
(* SetKeyring / SetOIDCKeyring, the operator's file as the keyring: purge, *)
(* upsert the verifying keys without an expiry, upsert the signing key,    *)
(* and give every other row at most the grace period.                      *)
(***************************************************************************)
SetKeyring(ring, current, verifying, t) ==
    [k \in Keys |->
        LET e == Purge(ring[k], t) IN
        IF k = current THEN NULL
        ELSE IF k \in verifying THEN NoExpiry
        ELSE IF e = NULL \/ (e \in Nat /\ e > t + Grace) THEN t + Grace
        ELSE e]
=============================================================================
