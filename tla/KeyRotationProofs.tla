------------------------- MODULE KeyRotationProofs -------------------------
(***************************************************************************)
(* The safety properties of KeyRotation for every set of replicas, every   *)
(* interval, grace period, length of a transaction and number of faults.   *)
(***************************************************************************)
EXTENDS KeyRotation, TLAPS

(***************************************************************************)
(* Facts about the keyring operators.                                      *)
(***************************************************************************)

\* A keyring whose rows are numbered up to n, with a signing row once it has
\* any.
WellFormed(rg, n) ==
    /\ \A k \in Keys : k > n => rg[k] = Absent
    /\ n > 0 => \E k \in Keys : rg[k] = NULL

OneSigns(rg) == \A j, k \in Keys : rg[j] = NULL /\ rg[k] = NULL => j = k

\* RotateKeys keeps the keyring well formed, and the new key is the only
\* signing one when its UPDATE saw every signing row.
LEMMA RotateKeysWellFormed ==
    ASSUME NEW rg \in Keyring, NEW n \in 0 .. MaxKeys, n < MaxKeys, NEW t \in Nat,
           NEW saw \in SUBSET Keys, WellFormed(rg, n)
    PROVE  /\ RotateKeys(rg, saw, n + 1, t) \in Keyring
           /\ WellFormed(RotateKeys(rg, saw, n + 1, t), n + 1)
           /\ SigningRows(rg) \subseteq saw => OneSigns(RotateKeys(rg, saw, n + 1, t))
<1> DEFINE rr == RotateKeys(rg, saw, n + 1, t)
<1>1. n + 1 \in Keys /\ n \in Nat
  BY KeyStoreAssumption DEF Keys
<1>2. rr[n + 1] = NULL
  BY <1>1, KeyStoreAssumption DEF RotateKeys, Purge
<1>3. ASSUME NEW k \in Keys, k # n + 1
      PROVE  /\ rr[k] \in Nat \cup {NULL, Absent}
             /\ rg[k] = Absent => rr[k] = Absent
             /\ rr[k] = NULL => rg[k] = NULL /\ k \notin saw
  BY <1>3, KeyStoreAssumption DEF RotateKeys, Purge, Keyring
<1>4. rr \in Keyring
  BY <1>2, <1>3 DEF RotateKeys, Keyring
<1> HIDE DEF rr
<1>5. WellFormed(rr, n + 1)
  BY <1>1, <1>2, <1>3, KeyStoreAssumption DEF WellFormed, Keys
<1>6. ASSUME SigningRows(rg) \subseteq saw PROVE OneSigns(rr)
  BY <1>3, <1>6 DEF OneSigns, SigningRows
<1> QED
  BY <1>4, <1>5, <1>6 DEF rr

\* RotateOIDCKeys keeps the keyring well formed, and the new key is the only
\* signing one when its UPDATE saw every signing row.
LEMMA RotateOIDCKeysWellFormed ==
    ASSUME NEW rg \in Keyring, NEW n \in 0 .. MaxKeys, n < MaxKeys, NEW t \in Nat,
           NEW saw \in SUBSET Keys, WellFormed(rg, n)
    PROVE  /\ RotateOIDCKeys(rg, saw, n + 1, t) \in Keyring
           /\ WellFormed(RotateOIDCKeys(rg, saw, n + 1, t), n + 1)
           /\ SigningRows(rg) \subseteq saw => OneSigns(RotateOIDCKeys(rg, saw, n + 1, t))
<1> DEFINE rr == RotateOIDCKeys(rg, saw, n + 1, t)
<1>1. n + 1 \in Keys /\ n \in Nat
  BY KeyStoreAssumption DEF Keys
<1>2. rr[n + 1] = NULL
  BY <1>1, KeyStoreAssumption DEF RotateOIDCKeys, Purge
<1>3. ASSUME NEW k \in Keys, k # n + 1
      PROVE  /\ rr[k] \in Nat \cup {NULL, Absent}
             /\ rg[k] = Absent => rr[k] = Absent
             /\ rr[k] = NULL => rg[k] = NULL /\ k \notin saw
  BY <1>3, KeyStoreAssumption DEF RotateOIDCKeys, Purge, Keyring
<1>4. rr \in Keyring
  BY <1>2, <1>3 DEF RotateOIDCKeys, Keyring
<1> HIDE DEF rr
<1>5. WellFormed(rr, n + 1)
  BY <1>1, <1>2, <1>3, KeyStoreAssumption DEF WellFormed, Keys
<1>6. ASSUME SigningRows(rg) \subseteq saw PROVE OneSigns(rr)
  BY <1>3, <1>6 DEF OneSigns, SigningRows
<1> QED
  BY <1>4, <1>5, <1>6 DEF rr

\* A first key is inserted only where no row signs.
LEMMA SaveInitialKeyWellFormed ==
    ASSUME NEW rg \in Keyring, NEW n \in 0 .. MaxKeys, n < MaxKeys,
           WellFormed(rg, n)
    PROVE  /\ SaveInitialKey(rg, n + 1) \in Keyring
           /\ SigningRows(rg) = {} =>
                 /\ WellFormed(SaveInitialKey(rg, n + 1), n + 1)
                 /\ OneSigns(SaveInitialKey(rg, n + 1))
           /\ SigningRows(rg) # {} => SaveInitialKey(rg, n + 1) = rg
BY KeyStoreAssumption DEF SaveInitialKey, SigningRows, Keyring, Keys, WellFormed, OneSigns

(***************************************************************************)
(* The inductive invariant.  Beyond the properties it says which keys have *)
(* rows; that a key read as current is signing, has its grace period ahead *)
(* of it or has lived through it, give or take an open transaction; and    *)
(* that an open rotation has seen every signing row of its table unless a  *)
(* key was inserted since.                                                 *)
(***************************************************************************)
Graced(rg, rd, t) ==
    \A k \in Keys :
        /\ rd[k] <= t
        /\ rd[k] # 0 =>
              \/ rg[k] = NULL
              \/ rg[k] \in Nat /\ rg[k] + TxTime >= rd[k] + Grace
              \/ t + TxTime >= rd[k] + Grace

Rings ==
    /\ WellFormed(ring, lastKey)
    /\ WellFormed(oidc, lastKid)
    /\ "keyring" \notin overlapped => OneSigns(ring)
    /\ "oidc_keyring" \notin overlapped => OneSigns(oidc)
    /\ Graced(ring, readAt, now)

Sees(x, rg, n) ==
    /\ x.last <= n
    /\ x.last = n => SigningRows(rg) \subseteq x.saw

Open ==
    \A r \in Replicas :
        /\ InTransaction(r) => tx[r].at <= now /\ now <= tx[r].at + TxTime
        /\ pc[r] = "commit" => Sees(tx[r], ring, lastKey)
        /\ pc[r] = "oidcCommit" => Sees(tx[r], oidc, lastKid)

IInv ==
    /\ TypeOK
    /\ Rings
    /\ Open
    /\ OneReplicaPerWindow

\* A rotation begun at time s and committed by time t keeps every key read so
\* far within its grace period, up to TxTime.
LEMMA RotateKeysGraced ==
    ASSUME NEW rg \in Keyring, NEW rd \in [Keys -> Nat], NEW new \in Keys,
           NEW saw \in SUBSET Keys, NEW s \in Nat, NEW t \in Nat,
           s <= t, t <= s + TxTime, Graced(rg, rd, t), rg[new] = Absent
    PROVE  Graced(RotateKeys(rg, saw, new, s), rd, t)
<1> DEFINE rr == RotateKeys(rg, saw, new, s)
<1> SUFFICES ASSUME NEW k \in Keys, rd[k] # 0
             PROVE  \/ rr[k] = NULL
                    \/ rr[k] \in Nat /\ rr[k] + TxTime >= rd[k] + Grace
                    \/ t + TxTime >= rd[k] + Grace
  BY DEF Graced
<1>1. rd[k] \in Nat /\ rd[k] <= t
  BY DEF Graced
<1>2. CASE k = new
  BY <1>2, KeyStoreAssumption DEF RotateKeys, Purge
<1>3. CASE k # new /\ k \in saw /\ rg[k] = NULL
  <2>1. rr[k] = Purge(s + Grace, s)
    BY <1>3 DEF RotateKeys
  <2> QED
    BY <1>1, <2>1, KeyStoreAssumption, KeyRotationAssumption DEF Purge
<1>4. CASE k # new /\ ~(k \in saw /\ rg[k] = NULL)
  <2>1. rr[k] = Purge(rg[k], s)
    BY <1>4 DEF RotateKeys
  <2>2. \/ rg[k] = NULL
        \/ rg[k] \in Nat /\ rg[k] + TxTime >= rd[k] + Grace
        \/ t + TxTime >= rd[k] + Grace
    BY DEF Graced
  <2> QED
    BY <1>1, <2>1, <2>2, KeyStoreAssumption, KeyRotationAssumption DEF Purge
<1> QED
  BY <1>2, <1>3, <1>4

\* A first key disturbs no key that was read.
LEMMA SaveInitialKeyGraced ==
    ASSUME NEW rg \in Keyring, NEW rd \in [Keys -> Nat], NEW new \in Keys,
           NEW t \in Nat, Graced(rg, rd, t)
    PROVE  Graced(SaveInitialKey(rg, new), rd, t)
BY KeyStoreAssumption DEF Graced, SaveInitialKey, SigningRows, Keyring, Keys

\* Empty keyrings and stopped replicas satisfy the invariant.
LEMMA InitIInv == Init => IInv
BY KeyStoreAssumption, KeyRotationAssumption
   DEF Init, IInv, TypeOK, PC, Rings, WellFormed, OneSigns, Graced, Open, InTransaction,
       OneReplicaPerWindow, Holds, EmptyKeyring, Keyring, Keys, Transaction, NoTransaction

\* The invariant of the tables reads these variables only.
LEMMA SameTables ==
    ASSUME Rings, UNCHANGED <<now, ring, oidc, lastKey, lastKid, readAt, overlapped>>
    PROVE  Rings'
BY DEF Rings, WellFormed, OneSigns, Graced

\* A step of one replica outside its transactions, in which the tables stay,
\* concerns no open transaction.
LEMMA SameTransactions ==
    ASSUME TypeOK, Open, NEW r \in Replicas, NEW to \in PC \ {"commit", "oidcCommit"},
           pc' = [pc EXCEPT ![r] = to], \A q \in Replicas \ {r} : tx'[q] = tx[q],
           UNCHANGED <<now, ring, oidc, lastKey, lastKid>>
    PROVE  Open'
<1> SUFFICES ASSUME NEW q \in Replicas
             PROVE  (/\ InTransaction(q) => tx[q].at <= now /\ now <= tx[q].at + TxTime
                     /\ pc[q] = "commit" => Sees(tx[q], ring, lastKey)
                     /\ pc[q] = "oidcCommit" => Sees(tx[q], oidc, lastKid))'
  BY DEF Open
<1>1. CASE q = r
  BY <1>1 DEF TypeOK, InTransaction
<1>2. CASE q # r
  BY <1>2 DEF TypeOK, Open, InTransaction, Sees, SigningRows
<1> QED
  BY <1>1, <1>2

\* A key inserted into the keyring, with what it leaves signing, concerns no
\* transaction of the others: they have not seen it.
LEMMA KeyInserted ==
    ASSUME TypeOK, Rings, Open, NEW r \in Replicas, NEW to \in PC \ {"commit", "oidcCommit"},
           pc' = [pc EXCEPT ![r] = to], \A q \in Replicas \ {r} : tx'[q] = tx[q],
           lastKey' = lastKey + 1, WellFormed(ring', lastKey'),
           "keyring" \notin overlapped' => OneSigns(ring'),
           "oidc_keyring" \in overlapped' <=> "oidc_keyring" \in overlapped,
           Graced(ring', readAt, now), UNCHANGED <<now, oidc, lastKid, readAt>>
    PROVE  Rings' /\ Open'
<1>1. Rings'
  BY DEF Rings, WellFormed, OneSigns, Graced
<1>2. ASSUME NEW q \in Replicas
      PROVE  (/\ InTransaction(q) => tx[q].at <= now /\ now <= tx[q].at + TxTime
              /\ pc[q] = "commit" => Sees(tx[q], ring, lastKey)
              /\ pc[q] = "oidcCommit" => Sees(tx[q], oidc, lastKid))'
  <2>1. CASE q = r
    BY <2>1 DEF TypeOK, InTransaction
  <2>2. CASE q # r
    <3>1. pc'[q] = pc[q] /\ tx'[q] = tx[q] /\ tx[q].last \in Nat /\ lastKey \in Nat
      BY <2>2, KeyStoreAssumption DEF TypeOK, Transaction
    <3>2. pc[q] = "commit" => Sees(tx[q], ring, lastKey)'
      BY <3>1 DEF Open, Sees
    <3>3. pc[q] = "oidcCommit" => Sees(tx[q], oidc, lastKid)'
      BY <3>1 DEF Open, Sees, SigningRows
    <3> QED
      BY <3>1, <3>2, <3>3 DEF Open, InTransaction
  <2> QED
    BY <2>1, <2>2
<1> QED
  BY <1>1, <1>2 DEF Open

\* The same for the ES256 keyring.
LEMMA KidInserted ==
    ASSUME TypeOK, Rings, Open, NEW r \in Replicas, NEW to \in PC \ {"commit", "oidcCommit"},
           pc' = [pc EXCEPT ![r] = to], \A q \in Replicas \ {r} : tx'[q] = tx[q],
           lastKid' = lastKid + 1, WellFormed(oidc', lastKid'),
           "oidc_keyring" \notin overlapped' => OneSigns(oidc'),
           "keyring" \in overlapped' <=> "keyring" \in overlapped,
           UNCHANGED <<now, ring, lastKey, readAt>>
    PROVE  Rings' /\ Open'
<1>1. Rings'
  BY DEF Rings, WellFormed, OneSigns, Graced
<1>2. ASSUME NEW q \in Replicas
      PROVE  (/\ InTransaction(q) => tx[q].at <= now /\ now <= tx[q].at + TxTime
              /\ pc[q] = "commit" => Sees(tx[q], ring, lastKey)
              /\ pc[q] = "oidcCommit" => Sees(tx[q], oidc, lastKid))'
  <2>1. CASE q = r
    BY <2>1 DEF TypeOK, InTransaction
  <2>2. CASE q # r
    <3>1. pc'[q] = pc[q] /\ tx'[q] = tx[q] /\ tx[q].last \in Nat /\ lastKid \in Nat
      BY <2>2, KeyStoreAssumption DEF TypeOK, Transaction
    <3>2. pc[q] = "oidcCommit" => Sees(tx[q], oidc, lastKid)'
      BY <3>1 DEF Open, Sees
    <3>3. pc[q] = "commit" => Sees(tx[q], ring, lastKey)'
      BY <3>1 DEF Open, Sees, SigningRows
    <3> QED
      BY <3>1, <3>2, <3>3 DEF Open, InTransaction
  <2> QED
    BY <2>1, <2>2
<1> QED
  BY <1>1, <1>2 DEF Open

\* A step that leaves the deadline alone and moves one replica to a place
\* where it holds no window keeps the windows apart.
LEMMA SameWindows ==
    ASSUME TypeOK, OneReplicaPerWindow, NEW r \in Replicas,
           NEW to \in PC \ {"rotate", "commit", "release"},
           pc' = [pc EXCEPT ![r] = to], \A q \in Replicas \ {r} : at'[q] = at[q],
           UNCHANGED nextRotation
    PROVE  OneReplicaPerWindow'
BY DEF TypeOK, OneReplicaPerWindow, Holds

\* So does one that moves a replica on within its window.
LEMMA WithinWindow ==
    ASSUME TypeOK, OneReplicaPerWindow, NEW r \in Replicas, Holds(r), NEW to \in PC,
           pc' = [pc EXCEPT ![r] = to], UNCHANGED <<at, nextRotation>>
    PROVE  OneReplicaPerWindow'
BY DEF TypeOK, OneReplicaPerWindow, Holds

\* A step of one replica that touches neither table nor deadline, holds no
\* window and opens no transaction keeps the invariant.
LEMMA QuietStep ==
    ASSUME IInv, NEW r \in Replicas, tx'[r] = NoTransaction,
           NEW to \in PC \ {"rotate", "commit", "release", "oidcCommit"},
           pc' = [pc EXCEPT ![r] = to],
           at' \in [Replicas -> Nat], \A q \in Replicas \ {r} : at'[q] = at[q],
           tx' \in [Replicas -> Transaction], \A q \in Replicas \ {r} : tx'[q] = tx[q],
           faults' \in 0 .. MaxFaults,
           UNCHANGED <<now, ring, oidc, nextRotation, lastKey, lastKid, readAt, overlapped>>
    PROVE  IInv'
<1>1. TypeOK'
  BY Zenon DEF IInv, TypeOK, InTransaction
<1>2. Rings'
  BY SameTables DEF IInv
<1>3. Open'
  BY Zenon, SameTransactions DEF IInv
<1>4. OneReplicaPerWindow'
  BY Zenon, SameWindows DEF IInv
<1> QED
  BY <1>1, <1>2, <1>3, <1>4 DEF IInv

\* The count of faults stays within its bound.
LEMMA FaultType == ASSUME TypeOK, Fault PROVE faults' \in 0 .. MaxFaults
BY KeyRotationAssumption DEF TypeOK, Fault

\* The end of a transaction is a type-correct change of one replica's own.
LEMMA EndType ==
    ASSUME TypeOK, NEW r \in Replicas, End(r)
    PROVE  /\ tx' \in [Replicas -> Transaction] /\ tx'[r] = NoTransaction
           /\ \A q \in Replicas \ {r} : tx'[q] = tx[q]
BY DEF TypeOK, End, Transaction, NoTransaction

\* Every step preserves the invariant.
LEMMA NextIInv == IInv /\ [Next]_vars => IInv'
<1> SUFFICES ASSUME IInv, [Next]_vars PROVE IInv'
  OBVIOUS
<1> USE DEF Goto, history, InTransaction
<1>t. TypeOK /\ Rings /\ Open /\ OneReplicaPerWindow
  BY DEF IInv
<1>n. now \in Nat /\ now > 0
  BY <1>t, KeyStoreAssumption, KeyRotationAssumption DEF TypeOK
<1>1. ASSUME NEW r \in Replicas, NewServer(r) PROVE IInv'
  <2> DEFINE to == IF SigningRows(oidc) = {} THEN "oidcSave" ELSE "init"
  <2>1. to \in PC \ {"rotate", "commit", "release", "oidcCommit"}
    BY DEF PC
  <2> HIDE DEF to
  <2>2. pc' = [pc EXCEPT ![r] = to]
    BY <1>1 DEF NewServer, to
  <2> QED
    BY <1>1, <1>t, <2>1, <2>2, QuietStep DEF NewServer, TypeOK
<1>2. ASSUME NEW r \in Replicas, NewServerReadFails(r) \/ NewServerSaveFails(r) PROVE IInv'
  <2> DEFINE to == IF NewServerReadFails(r) THEN "oidcSave" ELSE "init"
  <2>1. to \in PC \ {"rotate", "commit", "release", "oidcCommit"}
    BY DEF PC
  <2>2. pc' = [pc EXCEPT ![r] = to]
    BY <1>2 DEF NewServerReadFails, NewServerSaveFails
  <2> HIDE DEF to
  <2> QED
    BY Zenon, <1>2, <1>t, <2>1, <2>2, FaultType, QuietStep
       DEF NewServerReadFails, NewServerSaveFails, TypeOK
<1>3. ASSUME NEW r \in Replicas, NewServerSave(r) PROVE IInv'
  <2>1. lastKid \in 0 .. MaxKeys /\ lastKid < MaxKeys /\ lastKid' \in 0 .. MaxKeys
    BY <1>3, <1>t, KeyStoreAssumption DEF NewServerSave, TypeOK
  <2>2. oidc' = SaveInitialKey(oidc, lastKid + 1) /\ oidc' \in Keyring
    BY <1>3, <1>t, <2>1, SaveInitialKeyWellFormed DEF NewServerSave, TypeOK, Rings
  <2>3. pc' = [pc EXCEPT ![r] = "init"] /\ "init" \in PC \ {"rotate", "commit", "release", "oidcCommit"}
    BY <1>3 DEF NewServerSave, PC
  <2>4. TypeOK'
    BY <1>3, <1>t, <2>1, <2>2, <2>3 DEF NewServerSave, TypeOK
  <2>5. OneReplicaPerWindow'
    BY Zenon, <1>3, <1>t, <2>3, SameWindows DEF NewServerSave
  <2>6. CASE SigningRows(oidc) # {}
    <3>1. oidc' = oidc /\ lastKid' = lastKid
      BY <1>3, <1>t, <2>1, <2>6, SaveInitialKeyWellFormed DEF NewServerSave, TypeOK, Rings
    <3>2. Rings' /\ Open'
      BY Zenon, <1>3, <1>t, <2>3, <3>1, SameTables, SameTransactions DEF NewServerSave
    <3> QED
      BY <2>4, <2>5, <3>2 DEF IInv
  <2>7. CASE SigningRows(oidc) = {}
    <3>1. WellFormed(oidc', lastKid + 1) /\ OneSigns(oidc')
      BY <1>t, <2>1, <2>2, <2>7, SaveInitialKeyWellFormed DEF TypeOK, Rings
    <3>2. Rings' /\ Open'
      BY Zenon, <1>3, <1>t, <2>3, <2>7, <3>1, KidInserted DEF NewServerSave
    <3> QED
      BY <2>4, <2>5, <3>2 DEF IInv
  <2> QED
    BY <2>6, <2>7
<1>4. ASSUME NEW r \in Replicas, InitReadKey(r) PROVE IInv'
  <2> DEFINE to == IF SigningRows(ring) = {} THEN "save" ELSE "schedule"
  <2>1. to \in PC \ {"rotate", "commit", "release", "oidcCommit"}
    BY DEF PC
  <2> HIDE DEF to
  <2>2. pc' = [pc EXCEPT ![r] = to]
    BY <1>4 DEF InitReadKey, to
  <2> QED
    BY <1>4, <1>t, <2>1, <2>2, QuietStep DEF InitReadKey, TypeOK
<1>5. ASSUME NEW r \in Replicas, InitSaveKey(r) PROVE IInv'
  <2>1. /\ lastKey \in 0 .. MaxKeys /\ lastKey < MaxKeys /\ lastKey' \in 0 .. MaxKeys
        /\ lastKey + 1 \in Keys
    BY <1>5, <1>t, KeyStoreAssumption DEF InitSaveKey, TypeOK, Keys
  <2>2. ring' = SaveInitialKey(ring, lastKey + 1) /\ ring' \in Keyring
    BY <1>5, <1>t, <2>1, SaveInitialKeyWellFormed DEF InitSaveKey, TypeOK, Rings
  <2>3. pc' = [pc EXCEPT ![r] = "schedule"]
        /\ "schedule" \in PC \ {"rotate", "commit", "release", "oidcCommit"}
    BY <1>5 DEF InitSaveKey, PC
  <2>4. TypeOK'
    BY <1>5, <1>t, <2>1, <2>2, <2>3 DEF InitSaveKey, TypeOK
  <2>5. OneReplicaPerWindow'
    BY Zenon, <1>5, <1>t, <2>3, SameWindows DEF InitSaveKey
  <2>6. CASE SigningRows(ring) # {}
    <3>1. ring' = ring /\ lastKey' = lastKey
      BY <1>5, <1>t, <2>1, <2>6, SaveInitialKeyWellFormed DEF InitSaveKey, TypeOK, Rings
    <3>2. Rings' /\ Open'
      BY Zenon, <1>5, <1>t, <2>3, <3>1, SameTables, SameTransactions DEF InitSaveKey
    <3> QED
      BY <2>4, <2>5, <3>2 DEF IInv
  <2>7. CASE SigningRows(ring) = {}
    <3>1. WellFormed(ring', lastKey + 1) /\ OneSigns(ring')
      BY <1>t, <2>1, <2>2, <2>7, SaveInitialKeyWellFormed DEF TypeOK, Rings
    <3>2. Graced(ring', readAt, now)
      BY <1>t, <1>n, <2>1, <2>2, SaveInitialKeyGraced DEF TypeOK, Rings
    <3>3. Rings' /\ Open'
      BY Zenon, <1>5, <1>t, <2>3, <2>7, <3>1, <3>2, KeyInserted DEF InitSaveKey
    <3> QED
      BY <2>4, <2>5, <3>3 DEF IInv
  <2> QED
    BY <2>6, <2>7
<1>6. ASSUME NEW r \in Replicas, InitSchedule(r) PROVE IInv'
  <2>1. TypeOK'
    BY <1>6, <1>t, <1>n, KeyRotationAssumption DEF InitSchedule, TypeOK, PC
  <2>2. nextRotation' >= nextRotation
    BY <1>6, <1>t, <1>n, KeyRotationAssumption DEF InitSchedule, TypeOK
  <2>3. OneReplicaPerWindow'
    BY <1>6, <1>t, <2>1, <2>2, KeyRotationAssumption
       DEF InitSchedule, TypeOK, OneReplicaPerWindow, Holds
  <2>4. Rings' /\ Open'
    BY Zenon, <1>6, <1>t, SameTables, SameTransactions DEF InitSchedule, PC
  <2> QED
    BY <2>1, <2>3, <2>4 DEF IInv
<1>7. ASSUME NEW r \in Replicas, TickerFires(r) PROVE IInv'
  BY Zenon, <1>7, <1>t, <1>n, QuietStep DEF TickerFires, TypeOK, PC
<1>8. ASSUME NEW r \in Replicas, ClaimKeyRotation(r) PROVE IInv'
  <2>1. CASE nextRotation <= at[r]
    <3>1. TypeOK'
      BY <1>8, <1>t, <2>1, KeyRotationAssumption DEF ClaimKeyRotation, TypeOK, PC
    <3>2. \A q \in Replicas : Holds(q) => at[r] >= at[q] + Interval
      BY <1>t, <2>1, KeyRotationAssumption DEF TypeOK, OneReplicaPerWindow
    <3>3. OneReplicaPerWindow'
      BY <1>8, <1>t, <2>1, <3>2, KeyRotationAssumption
         DEF ClaimKeyRotation, TypeOK, OneReplicaPerWindow, Holds
    <3>4. Rings' /\ Open'
      BY <1>8, <1>t, <2>1, SameTables, SameTransactions DEF ClaimKeyRotation, PC
    <3> QED
      BY <3>1, <3>3, <3>4 DEF IInv
  <2>2. CASE ~(nextRotation <= at[r])
    BY <1>8, <1>t, <2>2, QuietStep DEF ClaimKeyRotation, TypeOK, PC
  <2> QED
    BY <2>1, <2>2
<1>9. ASSUME NEW r \in Replicas, ClaimFails(r) PROVE IInv'
  <2>f. faults' \in 0 .. MaxFaults
    BY <1>9, <1>t, FaultType DEF ClaimFails
  <2>1. CASE UNCHANGED nextRotation
    BY Zenon, <1>9, <1>t, <2>1, <2>f, QuietStep DEF ClaimFails, TypeOK, PC
  <2>2. CASE nextRotation <= at[r] /\ nextRotation' = at[r] + Interval
    <3>1. TypeOK'
      BY <1>9, <1>t, <2>2, <2>f, KeyRotationAssumption DEF ClaimFails, TypeOK, PC
    <3>2. OneReplicaPerWindow'
      BY <1>9, <1>t, <2>2, KeyRotationAssumption
         DEF ClaimFails, TypeOK, OneReplicaPerWindow, Holds
    <3>3. Rings' /\ Open'
      BY Zenon, <1>9, <1>t, SameTables, SameTransactions DEF ClaimFails, PC
    <3> QED
      BY <3>1, <3>2, <3>3 DEF IInv
  <2> QED
    BY <1>9, <2>1, <2>2 DEF ClaimFails
<1>10. ASSUME NEW r \in Replicas, Rotate(r) PROVE IInv'
  <2>1. lastKey \in Nat /\ lastKid \in Nat /\ SigningRows(ring) \in SUBSET Keys
    BY <1>t, KeyStoreAssumption DEF TypeOK, SigningRows
  <2>2. tx' = [tx EXCEPT ![r] = [at |-> now, saw |-> SigningRows(ring), last |-> lastKey]]
    BY <1>10 DEF Rotate, Begin
  <2>3. TypeOK'
    BY <1>10, <1>t, <1>n, <2>1, <2>2 DEF Rotate, TypeOK, PC, Transaction
  <2>4. Rings'
    BY <1>10, <1>t, SameTables DEF Rotate
  <2>5. ASSUME NEW q \in Replicas
        PROVE  (/\ InTransaction(q) => tx[q].at <= now /\ now <= tx[q].at + TxTime
                /\ pc[q] = "commit" => Sees(tx[q], ring, lastKey)
                /\ pc[q] = "oidcCommit" => Sees(tx[q], oidc, lastKid))'
    <3>1. CASE q = r
      BY <1>10, <1>t, <1>n, <2>1, <2>2, <3>1, KeyRotationAssumption
         DEF Rotate, TypeOK, InTransaction, Sees, SigningRows
    <3>2. CASE q # r
      BY SMTT(60), <1>10, <1>t, <2>2, <3>2 DEF Rotate, TypeOK, Open, InTransaction, Sees, SigningRows
    <3> QED
      BY <3>1, <3>2
  <2>6. OneReplicaPerWindow'
    BY Zenon, <1>10, <1>t, WithinWindow DEF Rotate, PC, Holds
  <2> QED
    BY <2>3, <2>4, <2>5, <2>6 DEF IInv, Open
<1>11. ASSUME NEW r \in Replicas, NEW to \in PC \ {"commit", "oidcCommit"}, pc[r] = "commit",
              pc' = [pc EXCEPT ![r] = to], End(r), CommitRotation(r),
              faults' \in 0 .. MaxFaults, UNCHANGED <<now, oidc, nextRotation, lastKid, at>>
       PROVE  IInv'
  <2> DEFINE x == tx[r]
  <2>1. /\ x.at \in Nat /\ x.saw \in SUBSET Keys /\ x.at <= now /\ now <= x.at + TxTime
        /\ x.last = lastKey => SigningRows(ring) \subseteq x.saw
    BY <1>11, <1>t DEF TypeOK, Transaction, Open, InTransaction, Sees
  <2> HIDE DEF x
  <2>2. /\ lastKey \in 0 .. MaxKeys /\ lastKey < MaxKeys /\ lastKey' = lastKey + 1
        /\ ring' = RotateKeys(ring, x.saw, lastKey + 1, x.at)
        /\ overlapped' = IF x.last = lastKey THEN overlapped \ {"keyring"}
                         ELSE overlapped \cup {"keyring"}
        /\ UNCHANGED readAt
    BY <1>11, <1>t DEF CommitRotation, Overlap, TypeOK, x
  <2>3. lastKey + 1 \in Keys /\ ring[lastKey + 1] = Absent /\ lastKey' \in 0 .. MaxKeys
    BY SMTT(60), <1>t, <2>2, KeyStoreAssumption DEF Rings, Keys, WellFormed
  <2>4. /\ ring' \in Keyring /\ WellFormed(ring', lastKey')
        /\ x.last = lastKey => OneSigns(ring')
    BY SMTT(60), <1>t, <2>1, <2>2, RotateKeysWellFormed DEF TypeOK, Rings
  <2>5. Graced(ring', readAt, now)
    BY <1>t, <1>n, <2>1, <2>2, <2>3, RotateKeysGraced DEF TypeOK, Rings
  <2>6. /\ tx' \in [Replicas -> Transaction] /\ tx'[r] = NoTransaction
        /\ \A q \in Replicas \ {r} : tx'[q] = tx[q]
    BY <1>11, <1>t, EndType
  <2>7. TypeOK'
    BY <1>11, <1>t, <2>2, <2>3, <2>4, <2>6 DEF TypeOK
  <2>8. /\ "keyring" \notin overlapped' => OneSigns(ring')
        /\ "oidc_keyring" \in overlapped' <=> "oidc_keyring" \in overlapped
    BY <2>2, <2>4
  <2>9. Rings' /\ Open'
    BY Zenon, <1>11, <1>t, <2>2, <2>4, <2>5, <2>6, <2>8, KeyInserted
  <2>10. OneReplicaPerWindow'
    BY Zenon, <1>11, <1>t, WithinWindow DEF Holds
  <2> QED
    BY <2>7, <2>9, <2>10 DEF IInv
<1>12. ASSUME NEW r \in Replicas, RotateCommit(r) PROVE IInv'
  BY Zenon, <1>11, <1>12, <1>t DEF RotateCommit, PC, TypeOK
<1>13. ASSUME NEW r \in Replicas, RotateFails(r) PROVE IInv'
  <2>1. faults' \in 0 .. MaxFaults
    BY <1>13, <1>t, FaultType DEF RotateFails
  <2>2. CASE pc[r] = "commit" /\ End(r) /\ CommitRotation(r)
    BY <1>11, <1>13, <2>1, <2>2 DEF RotateFails, PC
  <2>3. CASE UNCHANGED <<ring, lastKey, history>>
    <3>1. /\ tx' \in [Replicas -> Transaction] /\ tx'[r] = NoTransaction
        /\ \A q \in Replicas \ {r} : tx'[q] = tx[q]
      BY <1>13, <1>t, EndType DEF RotateFails, TypeOK
    <3>2. pc' = [pc EXCEPT ![r] = "release"] /\ Holds(r) /\ "release" \in PC \ {"commit", "oidcCommit"}
      BY <1>13 DEF RotateFails, PC, Holds
    <3>3. TypeOK'
      BY <1>13, <1>t, <2>1, <2>3, <3>1, <3>2 DEF RotateFails, TypeOK
    <3>4. Rings' /\ Open'
      BY Zenon, <1>13, <1>t, <2>3, <3>1, <3>2, SameTables, SameTransactions DEF RotateFails
    <3>5. OneReplicaPerWindow'
      BY ZenonT(60), <1>13, <1>t, <3>2, WithinWindow DEF RotateFails
    <3> QED
      BY <3>3, <3>4, <3>5 DEF IInv
  <2> QED
    BY <1>13, <2>2, <2>3 DEF RotateFails
<1>14. ASSUME NEW r \in Replicas, ReleaseKeyRotationClaim(r) PROVE IInv'
  <2>1. TypeOK'
    BY <1>14, <1>t, KeyRotationAssumption DEF ReleaseKeyRotationClaim, TypeOK, PC
  <2>2. \A q \in Replicas \ {r} : Holds(q) =>
            \/ at[r] >= at[q] + Interval
            \/ at[q] >= at[r] + Interval
    BY <1>14, <1>t DEF ReleaseKeyRotationClaim, OneReplicaPerWindow, Holds
  <2>3. \A q \in Replicas \ {r} : Holds(q) => nextRotation' >= at[q] + Interval
    BY <1>14, <1>t, <2>2, KeyRotationAssumption
       DEF ReleaseKeyRotationClaim, TypeOK, OneReplicaPerWindow
  <2>4. OneReplicaPerWindow'
    BY SMTT(60), <1>14, <1>t, <2>3 DEF ReleaseKeyRotationClaim, TypeOK, OneReplicaPerWindow, Holds
  <2>5. Rings' /\ Open'
    BY Zenon, <1>14, <1>t, SameTables, SameTransactions DEF ReleaseKeyRotationClaim, PC
  <2> QED
    BY <2>1, <2>4, <2>5 DEF IInv
<1>15. ASSUME NEW r \in Replicas, ReleaseFails(r) PROVE IInv'
  BY ZenonT(60), <1>15, <1>t, FaultType, QuietStep DEF ReleaseFails, TypeOK, PC
<1>16. ASSUME NEW r \in Replicas, RotateOIDCKey(r) PROVE IInv'
  <2>1. lastKey \in Nat /\ lastKid \in Nat /\ SigningRows(oidc) \in SUBSET Keys
    BY <1>t, KeyStoreAssumption DEF TypeOK, SigningRows
  <2>2. tx' = [tx EXCEPT ![r] = [at |-> now, saw |-> SigningRows(oidc), last |-> lastKid]]
    BY <1>16 DEF RotateOIDCKey, Begin
  <2>3. TypeOK'
    BY <1>16, <1>t, <1>n, <2>1, <2>2 DEF RotateOIDCKey, TypeOK, PC, Transaction
  <2>4. Rings'
    BY <1>16, <1>t, SameTables DEF RotateOIDCKey
  <2>5. ASSUME NEW q \in Replicas
        PROVE  (/\ InTransaction(q) => tx[q].at <= now /\ now <= tx[q].at + TxTime
                /\ pc[q] = "commit" => Sees(tx[q], ring, lastKey)
                /\ pc[q] = "oidcCommit" => Sees(tx[q], oidc, lastKid))'
    <3>1. CASE q = r
      BY <1>16, <1>t, <1>n, <2>1, <2>2, <3>1, KeyRotationAssumption
         DEF RotateOIDCKey, TypeOK, InTransaction, Sees, SigningRows
    <3>2. CASE q # r
      BY <1>16, <1>t, <2>2, <3>2
         DEF RotateOIDCKey, TypeOK, Open, InTransaction, Sees, SigningRows
    <3> QED
      BY <3>1, <3>2
  <2>6. OneReplicaPerWindow'
    BY ZenonT(60), <1>16, <1>t, SameWindows DEF RotateOIDCKey, PC
  <2> QED
    BY <2>3, <2>4, <2>5, <2>6 DEF IInv, Open
<1>17. ASSUME NEW r \in Replicas, pc[r] = "oidcCommit", pc' = [pc EXCEPT ![r] = "publish"],
              End(r), CommitOIDCRotation(r), faults' \in 0 .. MaxFaults,
              UNCHANGED <<now, ring, nextRotation, lastKey, at>>
       PROVE  IInv'
  <2> DEFINE x == tx[r]
  <2>1. /\ x.at \in Nat /\ x.saw \in SUBSET Keys
        /\ x.last = lastKid => SigningRows(oidc) \subseteq x.saw
    BY <1>17, <1>t DEF TypeOK, Transaction, Open, Sees
  <2> HIDE DEF x
  <2>2. /\ lastKid \in 0 .. MaxKeys /\ lastKid < MaxKeys /\ lastKid' = lastKid + 1
        /\ oidc' = RotateOIDCKeys(oidc, x.saw, lastKid + 1, x.at)
        /\ overlapped' = IF x.last = lastKid THEN overlapped \ {"oidc_keyring"}
                         ELSE overlapped \cup {"oidc_keyring"}
        /\ UNCHANGED readAt
    BY <1>17, <1>t DEF CommitOIDCRotation, Overlap, TypeOK, x
  <2>3. lastKid' \in 0 .. MaxKeys
    BY <2>2, KeyStoreAssumption
  <2>4. /\ oidc' \in Keyring /\ WellFormed(oidc', lastKid')
        /\ x.last = lastKid => OneSigns(oidc')
    BY <1>t, <2>1, <2>2, RotateOIDCKeysWellFormed DEF TypeOK, Rings
  <2>5. /\ tx' \in [Replicas -> Transaction] /\ tx'[r] = NoTransaction
        /\ \A q \in Replicas \ {r} : tx'[q] = tx[q]
    BY <1>17, <1>t, EndType
  <2>6. "publish" \in PC \ {"rotate", "commit", "release", "oidcCommit"}
    BY DEF PC
  <2>7. TypeOK'
    BY <1>17, <1>t, <2>2, <2>3, <2>4, <2>5, <2>6 DEF TypeOK
  <2>8. /\ "oidc_keyring" \notin overlapped' => OneSigns(oidc')
        /\ "keyring" \in overlapped' <=> "keyring" \in overlapped
    BY <2>2, <2>4
  <2>9. Rings' /\ Open'
    BY Zenon, <1>17, <1>t, <2>2, <2>4, <2>5, <2>6, <2>8, KidInserted
  <2>10. OneReplicaPerWindow'
    BY Zenon, <1>17, <1>t, <2>6, SameWindows
  <2> QED
    BY <2>7, <2>9, <2>10 DEF IInv
<1>18. ASSUME NEW r \in Replicas, RotateOIDCCommit(r) PROVE IInv'
  BY Zenon, <1>17, <1>18, <1>t DEF RotateOIDCCommit, TypeOK
<1>19. ASSUME NEW r \in Replicas, RotateOIDCKeyFails(r) PROVE IInv'
  <2>1. faults' \in 0 .. MaxFaults
    BY <1>19, <1>t, FaultType DEF RotateOIDCKeyFails
  <2>2. CASE pc[r] = "oidcCommit" /\ End(r) /\ CommitOIDCRotation(r)
    BY <1>17, <1>19, <2>1, <2>2 DEF RotateOIDCKeyFails
  <2>3. CASE UNCHANGED <<oidc, lastKid, history>>
    <3>1. /\ tx' \in [Replicas -> Transaction] /\ tx'[r] = NoTransaction
        /\ \A q \in Replicas \ {r} : tx'[q] = tx[q]
      BY <1>19, <1>t, EndType DEF RotateOIDCKeyFails, TypeOK
    <3>2. pc' = [pc EXCEPT ![r] = "publish"]
          /\ "publish" \in PC \ {"rotate", "commit", "release", "oidcCommit"}
      BY <1>19 DEF RotateOIDCKeyFails, PC
    <3> QED
      BY Zenon, <1>19, <1>t, <2>1, <2>3, <3>1, <3>2, QuietStep DEF RotateOIDCKeyFails, TypeOK
  <2> QED
    BY <1>19, <2>2, <2>3 DEF RotateOIDCKeyFails
<1>20. ASSUME NEW r \in Replicas, Publish(r) PROVE IInv'
  BY Zenon, <1>20, <1>t, QuietStep DEF Publish, TypeOK, PC
<1>21. ASSUME NEW r \in Replicas, Crash(r) PROVE IInv'
  BY Zenon, <1>21, <1>t, FaultType, EndType, QuietStep DEF Crash, TypeOK, PC
<1>22. CASE HandlerReadsKey
  <2>1. PICK c \in SigningRows(ring) : readAt' = [readAt EXCEPT ![c] = now]
    BY Zenon, <1>22 DEF HandlerReadsKey
  <2>2. c \in Keys /\ ring[c] = NULL
    BY <2>1 DEF SigningRows
  <2>3. TypeOK'
    BY ZenonT(60), <1>22, <1>t, <1>n, <2>1, <2>2 DEF HandlerReadsKey, TypeOK
  <2>4. Graced(ring, readAt, now)'
    BY <1>22, <1>t, <1>n, <2>1, <2>2 DEF HandlerReadsKey, TypeOK, Rings, Graced
  <2>5. Rings'
    BY <1>22, <1>t, <2>4 DEF HandlerReadsKey, Rings, WellFormed, OneSigns
  <2>6. Open' /\ OneReplicaPerWindow'
    BY Zenon, <1>22, <1>t
       DEF HandlerReadsKey, Open, InTransaction, Sees, SigningRows, OneReplicaPerWindow, Holds
  <2> QED
    BY <2>3, <2>5, <2>6 DEF IInv
<1>23. CASE Tick
  <2>1. TypeOK'
    BY <1>23, <1>t, KeyStoreAssumption DEF Tick, TypeOK
  <2>2. Graced(ring, readAt, now)'
    BY SMTT(60), <1>23, <1>t, <1>n, KeyStoreAssumption, KeyRotationAssumption
       DEF Tick, TypeOK, Rings, Graced
  <2>3. Rings'
    BY <1>23, <1>t, <2>2 DEF Tick, Rings, WellFormed, OneSigns
  <2>4. ASSUME NEW q \in Replicas, InTransaction(q)
        PROVE  tx[q].at <= now' /\ now' <= tx[q].at + TxTime
    BY <1>23, <1>t, <1>n, <2>4, KeyRotationAssumption DEF Tick, TypeOK, Transaction, Open
  <2>5. Open'
    BY <1>23, <1>t, <2>4 DEF Tick, Open, InTransaction, Sees, SigningRows
  <2>6. OneReplicaPerWindow'
    BY SMTT(60), <1>23, <1>t DEF Tick, OneReplicaPerWindow, Holds
  <2> QED
    BY <2>1, <2>3, <2>5, <2>6 DEF IInv
<1>24. CASE UNCHANGED vars
  BY <1>24, <1>t DEF vars, IInv, TypeOK, Rings, WellFormed, OneSigns, Graced, Open,
                     InTransaction, Sees, SigningRows, OneReplicaPerWindow, Holds
<1> QED
  BY <1>1, <1>2, <1>3, <1>4, <1>5, <1>6, <1>7, <1>8, <1>9, <1>10, <1>12, <1>13, <1>14,
     <1>15, <1>16, <1>18, <1>19, <1>20, <1>21, <1>22, <1>23, <1>24 DEF Next, Progress, Failure

(***************************************************************************)
(* The theorems.                                                           *)
(***************************************************************************)

\* The invariant holds in every reachable state.
LEMMA Inductive == Spec => []IInv
BY InitIInv, NextIInv, PTL DEF Spec

\* The tables and the replicas' local state keep their types.
THEOREM TypeCorrect == Spec => []TypeOK
<1>1. IInv => TypeOK
  BY DEF IInv
<1> QED
  BY <1>1, Inductive, PTL

\* Each keyring has a signing key from its first key on, and one only unless
\* the last rotation overlapped another insert.
THEOREM SingleSigningKeyHolds == Spec => []SingleSigningKey
<1>1. IInv => SingleSigningKey
  BY DEF IInv, Rings, WellFormed, OneSigns, SingleSigningKey, SigningRows
<1> QED
  BY <1>1, Inductive, PTL

\* A key a handler read as current verifies for the grace period, less the
\* time a rotation's transaction may be open.
THEOREM ReadKeyOutlivesRotationHolds == Spec => []ReadKeyOutlivesRotation
<1>1. IInv => ReadKeyOutlivesRotation
  BY KeyStoreAssumption, KeyRotationAssumption
     DEF IInv, TypeOK, Rings, Graced, ReadKeyOutlivesRotation, GetAllValidKeys, Keyring
<1> QED
  BY <1>1, Inductive, PTL

\* Two replicas never work in the same rotation window, and the deadline is
\* past every window in progress.
THEOREM OneReplicaPerWindowHolds == Spec => []OneReplicaPerWindow
<1>1. IInv => OneReplicaPerWindow
  BY DEF IInv
<1> QED
  BY <1>1, Inductive, PTL
=============================================================================
