-------------------------- MODULE MembershipProofs --------------------------
(***************************************************************************)
(* Proofs about Membership for any number of peers, requests in flight,    *)
(* biscuits and keys.                                                      *)
(***************************************************************************)
EXTENDS Membership, NodeStoreProofs

(***************************************************************************)
(* The inductive invariant.                                                *)
(***************************************************************************)

\* No biscuit was issued in exchange for b.
Unredeemed(b) == \A c \in 1 .. lastB : issued[c].from # b

\* The biscuit in a row is one issued to that peer that nobody redeemed yet,
\* and a biscuit is newer than the one it was issued for.
RowsUnredeemed ==
    /\ \A p \in Peers : nodes[p] # Null =>
          /\ nodes[p].biscuit \in 1 .. lastB
          /\ issued[nodes[p].biscuit].peer = p
          /\ Unredeemed(nodes[p].biscuit)
    /\ \A b \in 1 .. lastB : issued[b].from < b

\* A handler presents a biscuit of its own peer; as long as nobody raced it,
\* that biscuit is unredeemed.
InFlight(h) ==
    /\ req[h].from <= lastB
    /\ req[h].from # 0 => issued[req[h].from].peer = req[h].peer
    /\ pc[h] # "read" /\ req[h].from # 0 /\ ~req[h].raced => Unredeemed(req[h].from)

IInv ==
    /\ TypeOK
    /\ RowsUnredeemed
    /\ \A h \in Handlers : pc[h] # "idle" => InFlight(h)
    /\ ReplayMintsNothing

\* A store without rows and without requests satisfies the invariant.
LEMMA InitIInv == Init => IInv
<1> SUFFICES ASSUME Init PROVE IInv
  OBVIOUS
<1>1. TypeOK
  BY MembershipAssumption DEF Init, TypeOK, NodesTable, PC
<1> QED
  BY <1>1 DEF Init, IInv, RowsUnredeemed, ReplayMintsNothing

\* A step that issues nothing and leaves the biscuit of every row it keeps
\* preserves the invariant if it preserves types and the handlers' part.
LEMMA NothingIssued ==
    ASSUME IInv, TypeOK', UNCHANGED <<lastB, issued>>,
           \A p \in Peers : nodes'[p] # Null =>
              nodes[p] # Null /\ nodes'[p].biscuit = nodes[p].biscuit,
           \A h \in Handlers : pc'[h] # "idle" => InFlight(h)'
    PROVE  IInv'
  BY DEF IInv, RowsUnredeemed, Unredeemed, ReplayMintsNothing

\* A handler that does not move keeps its part while nothing is issued.
LEMMA HandlerWaits ==
    ASSUME NEW h \in Handlers, InFlight(h), UNCHANGED <<lastB, issued, req[h], pc[h]>>
    PROVE  InFlight(h)'
  BY DEF InFlight, Unredeemed

\* Minting changes the key and the session in the handler's copy, nothing else.
LEMMA MintedRequest ==
    ASSUME NEW r \in Request, TypeOK
    PROVE  /\ Minted(r) \in Request
           /\ Minted(r).from = r.from /\ Minted(r).peer = r.peer
           /\ Minted(r).raced = r.raced
           /\ Minted(r).rec.identity = r.rec.identity /\ Minted(r).rec.type = r.rec.type
<1> DEFINE n == IF r.jwt THEN [r.rec EXCEPT !.expiresAt = now + SessionTTL] ELSE r.rec
<1>1. now + SessionTTL \in Nat /\ curKey \in Nat
  BY MembershipAssumption DEF TypeOK
<1>2. r.rec \in EnrolledNode
  BY DEF Request
<1>3. n \in EnrolledNode /\ n.identity = r.rec.identity /\ n.type = r.rec.type
  <2>1. [r.rec EXCEPT !.expiresAt = now + SessionTTL] \in EnrolledNode
    BY <1>1, <1>2 DEF EnrolledNode
  <2>2. /\ [r.rec EXCEPT !.expiresAt = now + SessionTTL].identity = r.rec.identity
        /\ [r.rec EXCEPT !.expiresAt = now + SessionTTL].type = r.rec.type
    BY <1>2 DEF EnrolledNode
  <2> QED
    BY <1>2, <2>1, <2>2
<1>4. Minted(r) = [r EXCEPT !.key = curKey, !.rec = n]
  BY DEF Minted, Request
<1> HIDE DEF n
<1> QED
  BY Zenon, <1>1, <1>3, <1>4 DEF Request

\* The record a handler builds is a row.
LEMMA FreshRecordRow ==
    ASSUME NEW i \in Identities \cup {NoIdentity}, NEW t \in {"OIDC", "BOOTSTRAP"}
    PROVE  FreshRecord(t, i) \in EnrolledNode /\ FreshRecord(t, i).identity = i
  BY DEF FreshRecord, EnrolledNode

\* One handler moves and changes nothing but its own state.
LEMMA HandlerStep ==
    ASSUME IInv, NEW h \in Handlers, NEW x \in PC, NEW r \in Request \cup {Null},
           pc' = [pc EXCEPT ![h] = x], req' = [req EXCEPT ![h] = r],
           UNCHANGED <<now, store, keys, log, adm, gc>>,
           x # "idle" => r # Null /\ InFlight(h)'
    PROVE  IInv'
<1>1. TypeOK'
  BY DEF IInv, TypeOK, store, keys, log
<1>2. ASSUME NEW g \in Handlers, pc'[g] # "idle" PROVE InFlight(g)'
  <2>1. CASE g = h
    BY <1>2, <2>1 DEF IInv, TypeOK
  <2>2. CASE g # h
    BY <1>2, <2>2, HandlerWaits DEF IInv, TypeOK, log
  <2> QED
    BY <2>1, <2>2
<1> QED
  BY <1>1, <1>2, NothingIssued DEF store, log

\* A refused or aborted request leaves nothing behind.
LEMMA RefuseIInv ==
    ASSUME IInv, NEW h \in Handlers, Refuse(h), UNCHANGED <<now, store, keys, log, adm, gc>>
    PROVE  IInv'
  BY Zenon, HandlerStep DEF Refuse, PC

\* /register presents no biscuit.
LEMMA RegisterIInv ==
    ASSUME IInv, NEW h \in Handlers, NEW p \in Peers, Register(h, p)
    PROVE  IInv'
<1> DEFINE r == [peer |-> p, from |-> 0, jwt |-> TRUE, recovering |-> FALSE,
                 rec |-> FreshRecord("OIDC", IdentityOf[p]), key |-> 0,
                 raced |-> FALSE]
<1>1. IdentityOf[p] \in Identities
  BY MembershipAssumption
<1>2. r \in Request /\ r.from = 0
  BY <1>1, FreshRecordRow DEF Request
<1>3. /\ req' = [req EXCEPT ![h] = r]
      /\ pc' = [pc EXCEPT ![h] = "mint"]
      /\ UNCHANGED <<now, store, keys, log, adm, gc>>
  BY DEF Register, Step
<1> HIDE DEF r
<1>4. r # Null
  BY <1>2, NullIsNoRequest
<1>5. InFlight(h)'
  BY <1>2, <1>3 DEF IInv, TypeOK, InFlight, log
<1> QED
  BY Zenon, <1>2, <1>3, <1>4, <1>5, HandlerStep DEF PC

\* /refresh presents a biscuit that was issued to its peer.
LEMMA RefreshVerifyIInv ==
    ASSUME IInv, NEW h \in Handlers, NEW b \in 1 .. lastB, NEW jwt \in BOOLEAN,
           RefreshVerify(h, b, jwt)
    PROVE  IInv'
<1> DEFINE r == [peer |-> issued[b].peer, from |-> b, jwt |-> jwt,
                 recovering |-> issued[b].key < oldestKey,
                 rec |-> FreshRecord("OIDC", NoIdentity),
                 key |-> 0, raced |-> FALSE]
<1>1. issued[b].peer \in Peers /\ b \in Nat /\ b <= lastB
  BY DEF IInv, TypeOK, Biscuit
<1>2. r \in Request /\ r.from = b /\ r.peer = issued[b].peer
  <2>1. (issued[b].key < oldestKey) \in BOOLEAN
    OBVIOUS
  <2> QED
    BY <1>1, <2>1, FreshRecordRow DEF Request
<1>3. /\ req' = [req EXCEPT ![h] = r]
      /\ pc' = [pc EXCEPT ![h] = "read"]
      /\ UNCHANGED <<now, store, keys, log, adm, gc>>
  BY DEF RefreshVerify, Step
<1> HIDE DEF r
<1>4. r # Null
  BY <1>2, NullIsNoRequest
<1>5. InFlight(h)'
  BY <1>1, <1>2, <1>3 DEF IInv, TypeOK, InFlight, log
<1> QED
  BY Zenon, <1>2, <1>3, <1>4, <1>5, HandlerStep DEF PC

\* The byte-match is what makes the biscuit unredeemed: it is the row's.
LEMMA RefreshReadIInv ==
    ASSUME IInv, NEW h \in Handlers, RefreshRead(h)
    PROVE  IInv'
<1> DEFINE n == nodes[req[h].peer]
<1>1. req[h] \in Request /\ req[h].peer \in Peers /\ pc[h] = "read"
  BY DEF RefreshRead, IInv, TypeOK, Request
<1>2. CASE n # Null /\ Redeemable(n, req[h]) /\ pc' = [pc EXCEPT ![h] = "mint"]
           /\ req' = [req EXCEPT ![h].rec = n, ![h].raced = FALSE]
  <2> DEFINE r == [req[h] EXCEPT !.rec = n, !.raced = FALSE]
  <2>1. n \in EnrolledNode
    BY <1>1, <1>2 DEF IInv, TypeOK, NodesTable
  <2>2. n.biscuit = req[h].from
    BY <1>2 DEF Redeemable
  <2> HIDE DEF n
  <2>3. r \in Request /\ r.from = req[h].from /\ r.peer = req[h].peer
    BY Zenon, <1>1, <2>1 DEF Request
  <2>4. req' = [req EXCEPT ![h] = r]
    BY Zenon, <1>1, <1>2 DEF IInv, TypeOK
  <2>5. UNCHANGED <<now, store, keys, log, adm, gc>>
    BY DEF RefreshRead
  <2> HIDE DEF r
  <2>6. Unredeemed(req[h].from)
    BY <1>1, <1>2, <2>2 DEF IInv, RowsUnredeemed, n
  <2>7. req'[h] = r /\ pc'[h] = "mint"
    BY Zenon, <1>2, <2>4 DEF IInv, TypeOK
  <2>8. InFlight(h)
    BY <1>1 DEF IInv
  <2>9. InFlight(h)'
    <3>1. r.from <= lastB /\ (r.from # 0 => issued[r.from].peer = r.peer)
      BY <2>3, <2>8 DEF InFlight
    <3>2. \A c \in 1 .. lastB' : issued'[c].from # r.from
      BY <2>3, <2>5, <2>6 DEF log, Unredeemed
    <3> QED
      BY <2>5, <2>7, <3>1, <3>2 DEF InFlight, Unredeemed, log
  <2>10. r # Null
    BY <2>3, NullIsNoRequest
  <2> QED
    BY Zenon, <1>2, <2>3, <2>4, <2>5, <2>9, <2>10, HandlerStep DEF PC
<1>3. CASE Refuse(h)
  BY <1>3, RefuseIInv DEF RefreshRead
<1> QED
  BY <1>2, <1>3 DEF RefreshRead, Step

\* A handler that mints keeps what it presents.
LEMMA MintIInv ==
    ASSUME IInv, NEW h \in Handlers, Mint(h)
    PROVE  IInv'
<1>1. CASE pc[h] = "mint" /\ pc' = [pc EXCEPT ![h] = "write"]
           /\ req' = [req EXCEPT ![h] = Minted(req[h])]
  <2>1. req[h] \in Request /\ InFlight(h)
    BY <1>1 DEF IInv, TypeOK
  <2>2. TypeOK
    BY DEF IInv
  <2>3. /\ Minted(req[h]) \in Request
        /\ Minted(req[h]).from = req[h].from /\ Minted(req[h]).peer = req[h].peer
        /\ Minted(req[h]).raced = req[h].raced
    BY <2>1, <2>2, MintedRequest
  <2>4. UNCHANGED <<now, store, keys, log, adm, gc>>
    BY DEF Mint
  <2>5. req'[h] = Minted(req[h]) /\ pc'[h] = "write"
    BY <1>1 DEF IInv, TypeOK
  <2>6. InFlight(h)'
    BY <1>1, <2>1, <2>3, <2>4, <2>5 DEF InFlight, log, Unredeemed
  <2>7. Minted(req[h]) # Null
    BY <2>3, NullIsNoRequest
  <2> QED
    BY Zenon, <1>1, <2>3, <2>4, <2>6, <2>7, HandlerStep DEF PC
<1>2. CASE Refuse(h)
  BY <1>2, RefuseIInv DEF Mint
<1> QED
  BY <1>1, <1>2 DEF Mint, Step

\* The bookkeeping of MarkRaced touches the raced mark alone.
LEMMA RacedRequest ==
    ASSUME NEW r \in Request, NEW p \in Peers
    PROVE  /\ Raced(r, p) \in Request
           /\ Raced(r, p).from = r.from /\ Raced(r, p).peer = r.peer
           /\ Raced(r, p).rec = r.rec
           /\ r.peer = p => Raced(r, p).raced
           /\ r.peer # p => Raced(r, p) = r
  BY Zenon DEF Request, Raced

\* The row that a write of rec leaves, its banned column aside.
Written(rec) == [rec EXCEPT !.biscuit = lastB + 1, !.enrolledAt = now]

\* A record with the new biscuit and the time is a record of the same type and
\* identity.
LEMMA WrittenRow ==
    ASSUME TypeOK, NEW rec \in EnrolledNode
    PROVE  /\ Written(rec) \in EnrolledNode /\ Written(rec).biscuit = lastB + 1
           /\ Written(rec).type = rec.type /\ Written(rec).identity = rec.identity
<1> DEFINE b == lastB + 1
           k == [rec EXCEPT !.biscuit = b]
<1>1. now \in Nat /\ b \in Nat
  BY DEF TypeOK
<1> HIDE DEF b
<1>2. k \in EnrolledNode /\ k.biscuit = b /\ k.type = rec.type /\ k.identity = rec.identity
  BY <1>1 DEF EnrolledNode
<1> HIDE DEF k
<1> DEFINE m == [k EXCEPT !.enrolledAt = now]
<1>3. m \in EnrolledNode /\ m.biscuit = b /\ m.type = rec.type /\ m.identity = rec.identity
  BY <1>1, <1>2 DEF EnrolledNode
<1>4. Written(rec) = m
  BY DEF Written, k, b
<1> QED
  BY <1>3, <1>4 DEF b

\* A write: the new biscuit is unredeemed and goes into the row, and the
\* handlers of the same peer are raced by it.  Those of other peers present
\* other biscuits.
LEMMA PersistIInv ==
    ASSUME IInv, NEW p \in Peers, NEW rec \in EnrolledNode, NEW key \in Nat,
           NEW from \in Nat, NEW raced \in BOOLEAN, NEW others,
           Persist(p, rec, key, from, raced, others),
           UNCHANGED <<now, bannedIds, keys, adm, gc>>,
           from <= lastB, from # 0 => issued[from].peer = p,
           from # 0 /\ ~raced => Unredeemed(from),
           pc' \in [Handlers -> PC], others \in [Handlers -> Request \cup {Null}],
           \A g \in Handlers : pc'[g] # "idle" =>
              /\ pc'[g] = pc[g]
              /\ others[g] = Raced(req[g], p)
    PROVE  IInv'
<1> DEFINE new == [peer |-> p, key |-> key, from |-> from, raced |-> raced]
           row == Written(rec)
<1>1. lastB \in Nat /\ lastB + 1 \in 1 .. MaxBiscuits /\ lastB + 1 \in Nat /\ now \in Nat
  BY MembershipAssumption DEF IInv, TypeOK, Persist
<1>2. row \in EnrolledNode /\ row.biscuit = lastB + 1
  BY WrittenRow DEF IInv
<1>3. /\ nodes' = EnrollNode(nodes, p, row)
      /\ lastB' = lastB + 1
      /\ req' = others
  BY DEF Persist, Written
<1> HIDE DEF row
<1>4. /\ nodes' \in NodesTable
      /\ \A q \in Peers : q # p => nodes'[q] = nodes[q]
      /\ nodes'[p].biscuit = lastB + 1
  BY <1>2, <1>3, EnrollNodeRow DEF IInv, TypeOK
<1>5. new \in Biscuit /\ new.peer = p /\ new.from = from /\ new.raced = raced
  BY DEF Biscuit
<1>6. /\ issued' \in [1 .. lastB' -> Biscuit]
      /\ \A b \in 1 .. lastB : issued'[b] = issued[b]
      /\ issued'[lastB'] = new
  <2>1. issued' = [b \in 1 .. lastB + 1 |-> IF b <= lastB THEN issued[b] ELSE new]
    BY DEF Persist
  <2> HIDE DEF new
  <2> QED
    BY <1>1, <1>3, <1>5, <2>1 DEF IInv, TypeOK
<1> HIDE DEF new
<1>7. \A b \in 1 .. lastB' : b \in 1 .. lastB \/ b = lastB'
  BY <1>1, <1>3
<1>8. ASSUME NEW g \in Handlers, pc'[g] # "idle"
      PROVE  req'[g] # Null /\ InFlight(g)'
  <2>1. req[g] \in Request /\ pc'[g] = pc[g] /\ InFlight(g)
    BY <1>8 DEF IInv, TypeOK
  <2>2. CASE req[g].peer = p
    <3>1. req'[g] = Raced(req[g], p)
      BY <1>3, <1>8
    <3>2. /\ req'[g] \in Request /\ req'[g].raced /\ req'[g].from = req[g].from
          /\ req'[g].peer = req[g].peer
      BY <2>1, <2>2, <3>1, RacedRequest
    <3>3. req[g].from \in Nat
      BY SMTT(60), <2>1 DEF Request
    <3> QED
      BY <1>1, <1>3, <1>6, <2>1, <3>2, <3>3, NullIsNoRequest DEF InFlight
  <2>3. CASE req[g].peer # p
    <3>1. req'[g] = req[g]
      BY <1>3, <1>8, <2>1, <2>3, RacedRequest
    <3>2. req[g].from # 0 => req[g].from # from
      BY <2>1, <2>3 DEF InFlight
    <3>3. req[g].from \in Nat
      BY <2>1 DEF Request
    <3>4. Unredeemed(req[g].from) /\ req[g].from # 0 => Unredeemed(req[g].from)'
      BY <1>5, <1>6, <1>7, <3>1, <3>2 DEF Unredeemed
    <3> QED
      BY SMTT(60), <1>1, <1>3, <1>6, <2>1, <3>1, <3>3, <3>4, NullIsNoRequest DEF InFlight
  <2> QED
    BY <2>2, <2>3
<1>9. TypeOK'
  <2>1. escaped' \subseteq 1 .. lastB'
    BY <1>1, <1>3 DEF Persist, IInv, TypeOK
  <2> QED
    BY <1>1, <1>3, <1>4, <1>6, <1>8, <2>1 DEF IInv, TypeOK, keys
<1>10. RowsUnredeemed'
  <2>1. ASSUME NEW q \in Peers, nodes'[q] # Null
        PROVE  /\ nodes'[q].biscuit \in 1 .. lastB'
               /\ issued'[nodes'[q].biscuit].peer = q
               /\ \A c \in 1 .. lastB' : issued'[c].from # nodes'[q].biscuit
    <3>1. CASE q = p
      <4>1. \A c \in 1 .. lastB : issued[c].from < c
        BY DEF IInv, RowsUnredeemed
      <4>2. \A c \in 1 .. lastB : issued[c].from \in Nat
        BY DEF IInv, TypeOK, Biscuit
      <4> QED
        BY SMTT(60), <1>1, <1>3, <1>4, <1>5, <1>6, <1>7, <3>1, <4>1, <4>2
    <3>2. CASE q # p
      <4>1. /\ nodes'[q] = nodes[q] /\ nodes[q].biscuit \in 1 .. lastB
            /\ issued[nodes[q].biscuit].peer = q /\ Unredeemed(nodes[q].biscuit)
        BY SMTT(60), <1>4, <2>1, <3>2 DEF IInv, RowsUnredeemed
      <4>2. nodes[q].biscuit # from
        BY SMTT(60), <3>2, <4>1
      <4> QED
        BY SMTT(60), <1>1, <1>3, <1>5, <1>6, <1>7, <4>1, <4>2 DEF Unredeemed
    <3> QED
      BY <3>1, <3>2
  <2>2. \A b \in 1 .. lastB' : issued'[b].from < b
    BY SMTT(60), <1>1, <1>3, <1>5, <1>6, <1>7 DEF IInv, RowsUnredeemed
  <2> QED
    BY <2>1, <2>2 DEF RowsUnredeemed, Unredeemed
<1>11. ReplayMintsNothing'
  <2>1. ASSUME NEW b \in 1 .. lastB', NEW c \in 1 .. lastB', b < c,
               issued'[c].from # 0, issued'[b].from = issued'[c].from
        PROVE  issued'[c].raced
    <3>1. b \in 1 .. lastB
      BY <1>1, <1>3, <2>1
    <3>2. CASE c \in 1 .. lastB
      BY SMTT(60), <1>6, <2>1, <3>1, <3>2 DEF IInv, ReplayMintsNothing
    <3>3. CASE c = lastB'
      BY <1>5, <1>6, <2>1, <3>1, <3>3 DEF Unredeemed
    <3> QED
      BY <1>7, <3>2, <3>3
  <2> QED
    BY <2>1 DEF ReplayMintsNothing
<1> QED
  BY <1>8, <1>9, <1>10, <1>11 DEF IInv

\* A handler that was not raced redeems a biscuit nobody redeemed yet.
LEMMA WriteIInv ==
    ASSUME IInv, NEW h \in Handlers, Write(h)
    PROVE  IInv'
<1>1. pc[h] = "write" /\ req[h] \in Request /\ InFlight(h)
  BY DEF Write, Step, IInv, TypeOK
<1>2. /\ req[h].peer \in Peers /\ req[h].rec \in EnrolledNode /\ req[h].key \in Nat
      /\ req[h].from \in Nat /\ req[h].raced \in BOOLEAN
  BY <1>1 DEF Request
<1> DEFINE others == [MarkRaced(req[h].peer, h) EXCEPT ![h] = Null]
<1>3. /\ Persist(req[h].peer, req[h].rec, req[h].key, req[h].from, req[h].raced, others)
      /\ pc' = [pc EXCEPT ![h] = "idle"]
      /\ UNCHANGED <<now, bannedIds, keys, adm, gc>>
  BY DEF Write, Step
<1>4. ASSUME NEW g \in Handlers
      PROVE  /\ others[g] \in Request \cup {Null}
             /\ g # h /\ req[g] # Null =>
                  others[g] = Raced(req[g], req[h].peer)
  <2>1. CASE g = h
    BY <2>1 DEF MarkRaced
  <2>2. CASE g # h /\ req[g] = Null
    BY <2>2 DEF MarkRaced
  <2>3. CASE g # h /\ req[g] # Null
    <3>1. req[g] \in Request
      BY <2>3 DEF IInv, TypeOK
    <3>2. Raced(req[g], req[h].peer) \in Request
      BY <1>2, <3>1, RacedRequest
    <3> QED
      BY <2>3, <3>1, <3>2 DEF MarkRaced
  <2> QED
    BY <2>1, <2>2, <2>3
<1>5. others \in [Handlers -> Request \cup {Null}]
  <2>1. others = [g \in Handlers |-> others[g]]
    BY Zenon DEF MarkRaced
  <2> HIDE DEF others
  <2> QED
    BY <1>4, <2>1
<1>6. pc' \in [Handlers -> PC]
  BY <1>3 DEF IInv, TypeOK, PC
<1> HIDE DEF others
<1>7. \A g \in Handlers : pc'[g] # "idle" =>
         /\ pc'[g] = pc[g]
         /\ others[g] = Raced(req[g], req[h].peer)
  BY <1>3, <1>4 DEF IInv, TypeOK
<1>8. /\ req[h].from <= lastB
      /\ req[h].from # 0 => issued[req[h].from].peer = req[h].peer
      /\ req[h].from # 0 /\ ~req[h].raced => Unredeemed(req[h].from)
  BY <1>1 DEF InFlight
<1> QED
  BY <1>2, <1>3, <1>5, <1>6, <1>7, <1>8, PersistIInv

\* An enrollment redeems nothing.
LEMMA BootstrapEnrollIInv ==
    ASSUME IInv, NEW p \in Peers, NEW owner \in Identities \cup {NoIdentity},
           NEW recovery \in BOOLEAN, NEW ephemeral \in BOOLEAN,
           BootstrapEnroll(p, owner, recovery, ephemeral)
    PROVE  IInv'
<1> DEFINE rec == [FreshRecord("BOOTSTRAP", owner) EXCEPT !.autonomousRecovery = recovery,
                                                          !.ephemeral = ephemeral]
           others == MarkRaced(p, Null)
<1>1. rec \in EnrolledNode
  BY Zenon DEF FreshRecord, EnrolledNode
<1>2. curKey \in Nat /\ lastB \in Nat
  BY DEF IInv, TypeOK
<1>3. /\ Persist(p, rec, curKey, 0, FALSE, others)
      /\ UNCHANGED <<now, bannedIds, keys, pc, adm, gc>>
  BY Zenon DEF BootstrapEnroll
<1>4. ASSUME NEW g \in Handlers
      PROVE  /\ others[g] \in Request \cup {Null}
             /\ pc[g] # "idle" =>
                  others[g] = Raced(req[g], p)
  <2>1. CASE req[g] = Null
    BY <2>1 DEF MarkRaced, IInv, TypeOK
  <2>2. CASE req[g] # Null
    <3>1. req[g] \in Request
      BY <2>2 DEF IInv, TypeOK
    <3>2. Raced(req[g], p) \in Request
      BY <3>1, RacedRequest
    <3>3. g # Null
      BY NullIsNoRequest
    <3> QED
      BY <2>2, <3>1, <3>2, <3>3 DEF MarkRaced
  <2> QED
    BY <2>1, <2>2
<1>5. others \in [Handlers -> Request \cup {Null}]
  <2>1. others = [g \in Handlers |-> others[g]]
    BY DEF MarkRaced
  <2> HIDE DEF others
  <2> QED
    BY <1>4, <2>1
<1>6. pc' \in [Handlers -> PC]
  BY <1>3 DEF IInv, TypeOK
<1> HIDE DEF rec, others
<1>7. \A g \in Handlers : pc'[g] # "idle" =>
         /\ pc'[g] = pc[g]
         /\ others[g] = Raced(req[g], p)
  BY <1>3, <1>4
<1>8. UNCHANGED <<now, bannedIds, keys, adm, gc>>
  BY <1>3
<1>9. 0 \in Nat /\ 0 <= lastB /\ FALSE \in BOOLEAN
  BY <1>2
<1>10. PICK from, raced : /\ from \in Nat /\ raced \in BOOLEAN /\ from = 0 /\ from <= lastB
                          /\ Persist(p, rec, curKey, from, raced, others)
  BY <1>3, <1>9, Zenon
<1> QED
  BY <1>1, <1>2, <1>5, <1>6, <1>7, <1>8, <1>10, PersistIInv

\* Handlers at rest: nothing is issued, and the rows that remain keep their
\* biscuit.
LEMMA HandlersRest ==
    ASSUME IInv, TypeOK', UNCHANGED <<lastB, issued, pc, req>>,
           \A p \in Peers : nodes'[p] # Null =>
              nodes[p] # Null /\ nodes'[p].biscuit = nodes[p].biscuit
    PROVE  IInv'
<1>1. ASSUME NEW h \in Handlers, pc'[h] # "idle" PROVE InFlight(h)'
  BY <1>1, HandlerWaits DEF IInv
<1> QED
  BY <1>1, NothingIssued

\* Reading the record to ban changes nothing yet.
LEMMA BanReadIInv ==
    ASSUME IInv, NEW p \in Peers, NEW ban \in BOOLEAN, BanRead(p, ban)
    PROVE  IInv'
<1> DEFINE i == IF nodes[p].type = "OIDC" THEN nodes[p].identity ELSE NoIdentity
<1>1. i \in Identities \cup {NoIdentity}
  BY DEF BanRead, IInv, TypeOK, NodesTable, EnrolledNode
<1>2. adm' = [peer |-> p, ban |-> ban, identity |-> i]
  BY DEF BanRead
<1> HIDE DEF i
<1>3. adm' \in AdminRequest
  BY <1>1, <1>2 DEF AdminRequest
<1>4. UNCHANGED <<now, store, keys, log, pc, req, gc>>
  BY DEF BanRead
<1>5. TypeOK'
  BY <1>3, <1>4 DEF IInv, TypeOK, store, keys, log
<1> QED
  BY <1>4, <1>5, HandlersRest DEF store, log

\* A ban or an unban leaves the biscuits of the rows.
LEMMA BanCommitIInv ==
    ASSUME IInv, BanCommit
    PROVE  IInv'
<1>1. adm \in AdminRequest /\ adm' = Null /\ UNCHANGED <<now, keys, lastB, issued, pc, req, gc>>
  BY DEF BanCommit, IInv, TypeOK
<1>2. /\ adm.peer \in Peers /\ adm.ban \in BOOLEAN
      /\ adm.identity \in Identities \cup {NoIdentity}
  BY <1>1 DEF AdminRequest
<1>3. CASE nodes[adm.peer] = Null /\ UNCHANGED <<store, escaped>>
  <2>1. TypeOK'
    BY <1>1, <1>3 DEF IInv, TypeOK, keys, store
  <2> QED
    BY SMTT(60), <1>1, <1>3, <2>1, HandlersRest DEF store
<1>4. CASE /\ nodes[adm.peer] # Null /\ nodes' = SetNodeBanned(nodes, adm.peer, adm.ban)
           /\ bannedIds' = IF adm.ban THEN bannedIds \cup ({adm.identity} \ {NoIdentity})
                                      ELSE bannedIds \ {adm.identity}
           /\ escaped' = {b \in escaped : IdentityOf[issued[b].peer] \in bannedIds'}
  <2>1. nodes \in NodesTable
    BY DEF IInv, TypeOK
  <2>2. /\ nodes' \in NodesTable
        /\ \A p \in Peers : nodes'[p] # Null =>
              nodes[p] # Null /\ nodes'[p].biscuit = nodes[p].biscuit
    BY <1>2, <1>4, <2>1, FlagSet
  <2>3. bannedIds' \subseteq Identities /\ escaped' \subseteq 1 .. lastB
    BY Zenon, <1>2, <1>4 DEF IInv, TypeOK
  <2>4. TypeOK'
    BY <1>1, <2>2, <2>3 DEF IInv, TypeOK, keys
  <2> QED
    BY <1>1, <2>2, <2>4, HandlersRest
<1> QED
  BY <1>3, <1>4 DEF BanCommit

\* The recovery toggle leaves the biscuit of the row.
LEMMA ToggleRecoveryIInv ==
    ASSUME IInv, NEW p \in Peers, NEW enabled \in BOOLEAN, ToggleRecovery(p, enabled)
    PROVE  IInv'
<1>1. nodes \in NodesTable /\ nodes[p] # Null
  BY DEF ToggleRecovery, IInv, TypeOK
<1>2. nodes' = SetNodeAutonomousRecovery(nodes, p, enabled)
  BY DEF ToggleRecovery
<1>3. /\ nodes' \in NodesTable
      /\ \A q \in Peers : nodes'[q] # Null =>
            nodes[q] # Null /\ nodes'[q].biscuit = nodes[q].biscuit
  BY <1>1, <1>2, FlagSet
<1>4. TypeOK'
  BY <1>3 DEF ToggleRecovery, IInv, TypeOK, keys, log
<1> QED
  BY <1>3, <1>4, HandlersRest DEF ToggleRecovery, log

\* Each statement of the sweep keeps rows or deletes them.
LEMMA SweepRows ==
    ASSUME IInv, SweepExpired \/ SweepSilent \/ SweepEphemeral
    PROVE  /\ nodes' \in NodesTable
           /\ \A p \in Peers : nodes'[p] \in {nodes[p], Null}
           /\ \A p \in Peers : IsNodeBanned(nodes, p) => nodes'[p] = nodes[p]
<1>1. /\ nodes \in NodesTable /\ now - NodeRetention \in Int
      /\ gc.at - NodeRetention \in Int /\ gc.at - EphemeralNodeRetention \in Int
  BY NodeStoreAssumption DEF IInv, TypeOK
<1>2. CASE SweepExpired
  BY Zenon, <1>1, <1>2, DeletesSpareBanned DEF SweepExpired, Swept
<1>3. CASE SweepSilent
  BY ZenonT(60), <1>1, <1>3, DeletesSpareBanned DEF SweepSilent, Swept
<1>4. CASE SweepEphemeral
  BY ZenonT(60), <1>1, <1>4, DeletesSpareBanned DEF SweepEphemeral, Swept
<1> QED
  BY <1>2, <1>3, <1>4

\* The sweep deletes rows; it brings no biscuit back.
LEMMA SweepIInv ==
    ASSUME IInv, Sweep
    PROVE  IInv'
<1>1. gc' \in [stmt: {"expired", "silent", "ephemeral"}, at: Nat]
  <2>1. now \in Nat /\ gc \in [stmt: {"expired", "silent", "ephemeral"}, at: Nat]
    BY DEF IInv, TypeOK
  <2>2. CASE SweepSilent
    <3>1. gc' = [gc EXCEPT !.stmt = "ephemeral"]
      BY <2>2 DEF SweepSilent, Swept
    <3> QED
      BY <2>1, <3>1
  <2>3. CASE SweepExpired
    <3>1. gc' = [stmt |-> "silent", at |-> now]
      BY <2>3 DEF SweepExpired, Swept
    <3> QED
      BY <2>1, <3>1
  <2>4. CASE SweepEphemeral \/ SweepFails
    <3>1. gc' = [stmt |-> "expired", at |-> 0]
      BY Zenon, <2>4 DEF SweepEphemeral, SweepFails, Swept
    <3> QED
      BY <3>1
  <2> QED
    BY <2>2, <2>3, <2>4 DEF Sweep
<1>2. CASE SweepExpired \/ SweepSilent \/ SweepEphemeral
  <2>1. UNCHANGED <<now, bannedIds, keys, log, pc, req, adm>>
    BY Zenon, <1>2 DEF SweepExpired, SweepSilent, SweepEphemeral, Swept
  <2>2. TypeOK'
    BY <1>1, <1>2, <2>1, SweepRows DEF IInv, TypeOK, keys, log
  <2> QED
    BY <1>2, <2>1, <2>2, SweepRows, HandlersRest DEF log
<1>3. CASE SweepFails
  <2>1. TypeOK'
    BY <1>1, <1>3 DEF SweepFails, IInv, TypeOK, keys, log, store
  <2> QED
    BY <1>3, <2>1, HandlersRest DEF SweepFails, store, log
<1> QED
  BY <1>2, <1>3 DEF Sweep

\* The clock and the keyring touch neither rows nor requests.
LEMMA EnvironmentIInv ==
    ASSUME IInv, Tick \/ RotateKey \/ RetireKey \/ UNCHANGED vars
    PROVE  IInv'
<1>1. UNCHANGED <<store, log, pc, req, adm, gc>>
  BY DEF Tick, RotateKey, RetireKey, vars, store, log
<1>2. now' \in 1 .. MaxTime /\ curKey' \in 1 .. MaxKeys /\ oldestKey' \in 1 .. curKey'
  BY MembershipAssumption DEF Tick, RotateKey, RetireKey, vars, keys, IInv, TypeOK
<1>3. TypeOK'
  BY <1>1, <1>2 DEF IInv, TypeOK, store, log
<1> QED
  BY <1>1, <1>3, HandlersRest DEF store, log

\* Each operator action preserves the invariant.
LEMMA OperatorIInv ==
    ASSUME IInv, Operator
    PROVE  IInv'
<1>1. \A p \in Peers, owned \in BOOLEAN :
         (IF owned THEN IdentityOf[p] ELSE NoIdentity) \in Identities \cup {NoIdentity}
  BY MembershipAssumption
<1>2. BootstrapPeers \subseteq Peers
  BY MembershipAssumption
<1>3. ASSUME NEW p \in BootstrapPeers, NEW recovery \in BOOLEAN, NEW ephemeral \in BOOLEAN,
             NEW owned \in BOOLEAN,
             BootstrapEnroll(p, IF owned THEN IdentityOf[p] ELSE NoIdentity, recovery, ephemeral)
      PROVE  IInv'
  BY <1>1, <1>2, <1>3, BootstrapEnrollIInv
<1> QED
  BY <1>3, BanReadIInv, BanCommitIInv, ToggleRecoveryIInv DEF Operator

\* Each handler step preserves the invariant.
LEMMA HandleIInv ==
    ASSUME IInv, NEW h \in Handlers, Handle(h)
    PROVE  IInv'
  BY RegisterIInv, RefreshVerifyIInv, RefreshReadIInv, MintIInv, WriteIInv, RefuseIInv
     DEF Handle, Abort

\* Every step preserves the invariant.
LEMMA NextIInv == IInv /\ [Next]_vars => IInv'
  BY HandleIInv, OperatorIInv, SweepIInv, EnvironmentIInv DEF Next

\* The invariant holds in every reachable state.
LEMMA Inductive == Spec => []IInv
  BY InitIInv, NextIInv, PTL DEF Spec

(***************************************************************************)
(* What got out under a ban.                                               *)
(***************************************************************************)

\* A record of type OIDC, in a row or in a handler, names its peer's identity.
OwnIdentity(rec, p) == rec.type = "OIDC" => rec.identity = IdentityOf[p]

\* An escaped biscuit in a row stands on an OIDC record.
RowEscapes(p) ==
    /\ OwnIdentity(nodes[p], p)
    /\ nodes[p].biscuit \in escaped => nodes[p].type = "OIDC"

\* So does one that a handler presents, and no handler gets past the mint
\* with it.
HandlerEscapes(h) ==
    /\ pc[h] \in {"mint", "write"} => OwnIdentity(req[h].rec, req[h].peer)
    /\ pc[h] = "mint" /\ req[h].from \in escaped => req[h].rec.type = "OIDC"
    /\ pc[h] = "write" => req[h].from \notin escaped

EInv ==
    /\ \A p \in Peers : nodes[p] # Null => RowEscapes(p)
    /\ \A h \in Handlers : HandlerEscapes(h)
    /\ \A b \in escaped : IdentityOf[issued[b].peer] \in bannedIds
    /\ BannedIdentityNotRenewed

\* Nothing has escaped at the start.
LEMMA InitEInv == Init => EInv
  BY SMTT(60) DEF Init, EInv, HandlerEscapes, BannedIdentityNotRenewed

\* The rows of a step that writes no new record: gone, or with the biscuit, the
\* type and the identity they had.
SameRecords ==
    \A p \in Peers : nodes'[p] # Null =>
        /\ nodes[p] # Null /\ nodes'[p].biscuit = nodes[p].biscuit
        /\ nodes'[p].type = nodes[p].type /\ nodes'[p].identity = nodes[p].identity

\* The operator, the sweep and the clock: nothing escapes, the handlers rest.
LEMMA HandlersRestEInv ==
    ASSUME EInv, SameRecords, UNCHANGED <<lastB, issued, pc, req>>, escaped' \subseteq escaped,
           \A b \in escaped' : IdentityOf[issued[b].peer] \in bannedIds'
    PROVE  EInv'
<1>1. ASSUME NEW p \in Peers, nodes'[p] # Null PROVE RowEscapes(p)'
  BY SMTT(60), <1>1 DEF EInv, SameRecords, RowEscapes, OwnIdentity
<1>2. ASSUME NEW h \in Handlers PROVE HandlerEscapes(h)'
  BY SMTT(60), <1>2 DEF EInv, HandlerEscapes, OwnIdentity
<1> QED
  BY SMTT(60), <1>1, <1>2 DEF EInv, BannedIdentityNotRenewed

\* One handler moves and changes nothing but its own state.
LEMMA HandlerStepEInv ==
    ASSUME EInv, NEW h \in Handlers, UNCHANGED <<store, log>>, HandlerEscapes(h)',
           \A g \in Handlers : g # h => pc'[g] = pc[g] /\ req'[g] = req[g]
    PROVE  EInv'
<1>1. ASSUME NEW p \in Peers, nodes'[p] # Null PROVE RowEscapes(p)'
  BY SMTT(60), <1>1 DEF EInv, RowEscapes, OwnIdentity, store, log
<1>2. ASSUME NEW g \in Handlers, g # h PROVE HandlerEscapes(g)'
  BY <1>2 DEF EInv, HandlerEscapes, OwnIdentity, log
<1> QED
  BY <1>1, <1>2 DEF EInv, BannedIdentityNotRenewed, store, log

\* A handler at rest presents nothing.
LEMMA RefuseEInv ==
    ASSUME IInv, EInv, NEW h \in Handlers, Refuse(h), UNCHANGED <<store, log>>
    PROVE  EInv'
<1>1. pc'[h] = "idle" /\ \A g \in Handlers : g # h => pc'[g] = pc[g] /\ req'[g] = req[g]
  BY SMTT(60) DEF Refuse, IInv, TypeOK
<1>2. HandlerEscapes(h)'
  BY SMTT(60), <1>1 DEF HandlerEscapes
<1> QED
  BY <1>1, <1>2, HandlerStepEInv

\* /register has a record of its own identity; /refresh has none yet.
LEMMA StartEInv ==
    ASSUME IInv, EInv, NEW h \in Handlers,
           \/ \E p \in Peers : Register(h, p)
           \/ \E b \in 1 .. lastB, jwt \in BOOLEAN : RefreshVerify(h, b, jwt)
    PROVE  EInv'
<1>1. /\ \A g \in Handlers : g # h => pc'[g] = pc[g] /\ req'[g] = req[g]
      /\ UNCHANGED <<store, log>>
  BY ZenonT(60) DEF Register, RefreshVerify, Step, IInv, TypeOK
<1>2. ASSUME NEW p \in Peers, Register(h, p) PROVE HandlerEscapes(h)'
  <2>1. /\ pc'[h] = "mint" /\ req'[h].from = 0 /\ req'[h].peer = p
        /\ req'[h].rec = FreshRecord("OIDC", IdentityOf[p])
    BY <1>2 DEF Register, Step, IInv, TypeOK
  <2>2. FreshRecord("OIDC", IdentityOf[p]).identity = IdentityOf[p]
    BY SMTT(60) DEF FreshRecord
  <2>3. 0 \notin escaped'
    BY <1>1 DEF IInv, TypeOK, log
  <2> QED
    BY SMTT(60), <2>1, <2>2, <2>3 DEF HandlerEscapes, OwnIdentity
<1>3. ASSUME NEW b \in 1 .. lastB, NEW jwt \in BOOLEAN, RefreshVerify(h, b, jwt)
      PROVE  HandlerEscapes(h)'
  <2>1. pc'[h] = "read"
    BY Zenon, <1>3 DEF RefreshVerify, Step, IInv, TypeOK
  <2> QED
    BY SMTT(60), <2>1 DEF HandlerEscapes
<1>4. HandlerEscapes(h)'
  BY <1>2, <1>3
<1> QED
  BY SMTT(60), <1>1, <1>4, HandlerStepEInv

\* The byte-match: a handler that presents an escaped biscuit has its row.
LEMMA RefreshReadEInv ==
    ASSUME IInv, EInv, NEW h \in Handlers, RefreshRead(h)
    PROVE  EInv'
<1> DEFINE n == nodes[req[h].peer]
<1>1. req[h] \in Request /\ req[h].peer \in Peers /\ UNCHANGED <<store, log>>
  BY DEF RefreshRead, IInv, TypeOK, Request
<1>2. CASE n # Null /\ Redeemable(n, req[h]) /\ pc' = [pc EXCEPT ![h] = "mint"]
           /\ req' = [req EXCEPT ![h].rec = n, ![h].raced = FALSE]
  <2>1. RowEscapes(req[h].peer) /\ n.biscuit = req[h].from
    BY <1>1, <1>2 DEF EInv, Redeemable
  <2>2. pc'[h] = "mint" /\ \A g \in Handlers : g # h => pc'[g] = pc[g] /\ req'[g] = req[g]
    BY <1>2 DEF IInv, TypeOK
  <2>3. req'[h] = [req[h] EXCEPT !.rec = n, !.raced = FALSE]
    BY <1>2 DEF IInv, TypeOK
  <2>4. req'[h].rec = n /\ req'[h].from = req[h].from /\ req'[h].peer = req[h].peer
    BY SMTT(60), <1>1, <2>3 DEF Request
  <2>5. HandlerEscapes(h)'
    BY <1>1, <2>1, <2>2, <2>4 DEF HandlerEscapes, RowEscapes, OwnIdentity, log
  <2> QED
    BY <1>1, <2>2, <2>5, HandlerStepEInv
<1>3. CASE Refuse(h)
  BY SMTT(60), <1>1, <1>3, RefuseEInv
<1> QED
  BY <1>2, <1>3 DEF RefreshRead, Step

\* The identity of an escaped biscuit is still banned, and that of an OIDC
\* record is always looked up: its handler is refused.
LEMMA MintEInv ==
    ASSUME IInv, EInv, NEW h \in Handlers, Mint(h)
    PROVE  EInv'
<1>1. UNCHANGED <<store, log>> /\ pc[h] = "mint"
  BY DEF Mint
<1>2. CASE /\ req[h].rec.identity \notin bannedIds \/ req[h].rec.type = "BOOTSTRAP"
           /\ pc' = [pc EXCEPT ![h] = "write"] /\ req' = [req EXCEPT ![h] = Minted(req[h])]
  <2>1. req[h] \in Request /\ InFlight(h) /\ HandlerEscapes(h) /\ TypeOK
    BY <1>1 DEF IInv, EInv, TypeOK
  <2>2. req[h].from \notin escaped
    <3>1. SUFFICES ASSUME req[h].from \in escaped PROVE FALSE
      OBVIOUS
    <3>2. req[h].from # 0
      BY SMTT(60), <2>1, <3>1 DEF TypeOK
    <3>3. req[h].rec.type = "OIDC" /\ req[h].rec.identity = IdentityOf[req[h].peer]
      BY SMTT(60), <1>1, <2>1, <3>1 DEF HandlerEscapes, OwnIdentity
    <3>4. IdentityOf[req[h].peer] \in bannedIds
      BY SMTT(60), <2>1, <3>1, <3>2 DEF InFlight, EInv
    <3> QED
      BY <1>2, <3>3, <3>4
  <2>3. /\ pc'[h] = "write" /\ req'[h] = Minted(req[h])
        /\ \A g \in Handlers : g # h => pc'[g] = pc[g] /\ req'[g] = req[g]
    BY SMTT(60), <1>2 DEF IInv, TypeOK
  <2>4. /\ req'[h].from = req[h].from /\ req'[h].peer = req[h].peer
        /\ req'[h].rec.identity = req[h].rec.identity /\ req'[h].rec.type = req[h].rec.type
    BY ZenonT(60), <2>1, <2>3, MintedRequest
  <2>5. HandlerEscapes(h)'
    BY <1>1, <2>1, <2>2, <2>3, <2>4 DEF HandlerEscapes, OwnIdentity, log
  <2> QED
    BY SMTT(60), <1>1, <2>3, <2>5, HandlerStepEInv
<1>3. CASE Refuse(h)
  BY <1>1, <1>3, RefuseEInv
<1> QED
  BY SMTT(60), <1>2, <1>3 DEF Mint, Step

\* The counters and the table at a write.
LEMMA Counters ==
    ASSUME IInv
    PROVE  /\ lastB \in Nat /\ lastB + 1 \in Nat /\ nodes \in NodesTable
           /\ escaped \subseteq 1 .. lastB
<1>1. lastB \in 0 .. MaxBiscuits /\ nodes \in NodesTable /\ escaped \subseteq 1 .. lastB
  BY Zenon DEF IInv, TypeOK
<1>2. lastB \in Nat /\ lastB + 1 \in Nat
  BY SMTT(60), <1>1
<1> QED
  BY Zenon, <1>1, <1>2

\* A write under a ban escapes with the OIDC record it writes; what it redeems
\* had not escaped.
LEMMA PersistEInv ==
    ASSUME IInv, EInv, NEW p \in Peers, NEW rec \in EnrolledNode, NEW key, NEW from \in Nat,
           NEW raced, NEW others, Persist(p, rec, key, from, raced, others),
           UNCHANGED bannedIds, OwnIdentity(rec, p), from <= lastB, from \notin escaped,
           \A g \in Handlers : pc'[g] # "idle" =>
              /\ pc'[g] = pc[g]
              /\ others[g] = Raced(req[g], p)
    PROVE  EInv'
<1> DEFINE row == Written(rec)
<1>1. lastB \in Nat /\ lastB + 1 \in Nat /\ nodes \in NodesTable /\ escaped \subseteq 1 .. lastB
  BY Zenon, Counters
<1>2. row \in EnrolledNode /\ row.biscuit = lastB + 1
      /\ row.type = rec.type /\ row.identity = rec.identity
  BY Zenon, WrittenRow DEF IInv
<1>3. /\ nodes' = EnrollNode(nodes, p, row) /\ lastB' = lastB + 1 /\ req' = others
      /\ escaped' = IF rec.type = "OIDC" /\ rec.identity \in bannedIds
                    THEN escaped \cup {lastB + 1} ELSE escaped
  BY DEF Persist, Written
<1> HIDE DEF row
<1>4. /\ \A q \in Peers : q # p => nodes'[q] = nodes[q]
      /\ nodes'[p].biscuit = lastB + 1
      /\ nodes'[p].type = rec.type /\ nodes'[p].identity = rec.identity
  BY ZenonT(60), <1>1, <1>2, <1>3, EnrollNodeRow
<1>5. /\ \A b \in 1 .. lastB : issued'[b] = issued[b]
      /\ issued'[lastB + 1].peer = p /\ issued'[lastB + 1].from = from
  BY <1>1 DEF Persist
<1>6. \A b \in 1 .. lastB : b \in escaped' <=> b \in escaped
  <2>1. \A b \in 1 .. lastB : b # lastB + 1
    BY SMTT(60), <1>1
  <2> QED
    BY ZenonT(60), <1>3, <2>1
<1>7. from \notin escaped' /\ escaped' \subseteq escaped \cup {lastB + 1}
  <2>1. from # lastB + 1
    BY SMTT(60), <1>1
  <2> QED
    BY ZenonT(60), <1>3, <2>1
<1>8. ASSUME NEW q \in Peers, nodes'[q] # Null PROVE RowEscapes(q)'
  <2>1. CASE q = p
    <3>1. lastB + 1 \notin escaped
      BY SMTT(60), <1>1
    <3>2. lastB + 1 \in escaped' => rec.type = "OIDC"
      BY ZenonT(60), <1>3, <3>1
    <3> QED
      BY ZenonT(60), <1>4, <2>1, <3>2 DEF RowEscapes, OwnIdentity
  <2>2. CASE q # p
    <3>1. nodes'[q] = nodes[q] /\ RowEscapes(q) /\ nodes[q].biscuit \in 1 .. lastB
      BY SMTT(60), <1>4, <1>8, <2>2 DEF EInv, IInv, RowsUnredeemed
    <3> QED
      BY ZenonT(60), <1>6, <3>1 DEF RowEscapes, OwnIdentity
  <2> QED
    BY SMTT(60), <2>1, <2>2
<1>9. ASSUME NEW g \in Handlers PROVE HandlerEscapes(g)'
  <2>1. CASE pc'[g] = "idle"
    BY SMTT(60), <2>1 DEF HandlerEscapes
  <2>2. CASE pc'[g] # "idle"
    <3>1. pc'[g] = pc[g] /\ req'[g] = Raced(req[g], p) /\ HandlerEscapes(g)
      BY ZenonT(60), <1>3, <2>2 DEF EInv
    <3>2. req[g] \in Request /\ req[g].from \in Nat /\ req[g].from <= lastB
      BY ZenonT(60), <2>2, <3>1 DEF IInv, TypeOK, InFlight, Request
    <3>3. req'[g].from = req[g].from /\ req'[g].peer = req[g].peer /\ req'[g].rec = req[g].rec
      <4>1. LET r == Raced(req[g], p) IN
              r.from = req[g].from /\ r.peer = req[g].peer /\ r.rec = req[g].rec
        BY ZenonT(60), <3>2, RacedRequest
      <4> QED
        BY ZenonT(60), <3>1, <4>1
    <3>4. req[g].from \in escaped' => req[g].from \in escaped
      <4>1. req[g].from # lastB + 1
        BY SMTT(60), <1>1, <3>2
      <4> QED
        BY ZenonT(60), <1>7, <4>1
    <3> QED
      BY SMTT(60), <3>1, <3>3, <3>4 DEF HandlerEscapes, OwnIdentity
  <2> QED
    BY SMTT(60), <2>1, <2>2
<1>10. ASSUME NEW b \in escaped' PROVE IdentityOf[issued'[b].peer] \in bannedIds'
  <2>1. CASE b \in escaped
    BY ZenonT(60), <1>1, <1>5, <2>1 DEF EInv
  <2>2. CASE b \notin escaped
    <3>1. b = lastB + 1 /\ rec.type = "OIDC" /\ rec.identity \in bannedIds
      BY ZenonT(60), <1>3, <1>10, <2>2
    <3> QED
      BY ZenonT(60), <1>5, <3>1 DEF OwnIdentity
  <2> QED
    BY <2>1, <2>2
<1>11. ASSUME NEW c \in 1 .. lastB' PROVE issued'[c].from \notin escaped'
  <2>1. CASE c = lastB + 1
    BY SMTT(60), <1>5, <1>7, <2>1
  <2>2. CASE c # lastB + 1
    <3>1. c \in 1 .. lastB /\ issued'[c] = issued[c]
      BY SMTT(60), <1>1, <1>3, <1>5, <2>2
    <3>2. issued[c].from \in Nat /\ issued[c].from < c /\ issued[c].from \notin escaped
      BY ZenonT(60), <3>1 DEF IInv, TypeOK, Biscuit, RowsUnredeemed, EInv, BannedIdentityNotRenewed
    <3> QED
      BY SMTT(60), <1>1, <1>3, <3>1, <3>2
  <2> QED
    BY SMTT(60), <2>1, <2>2
<1> QED
  BY ZenonT(60), <1>8, <1>9, <1>10, <1>11 DEF EInv, BannedIdentityNotRenewed

\* The end of a registration or a refresh.
LEMMA WriteEInv ==
    ASSUME IInv, EInv, NEW h \in Handlers, Write(h)
    PROVE  EInv'
<1>1. pc[h] = "write" /\ req[h] \in Request /\ InFlight(h) /\ HandlerEscapes(h)
  BY SMTT(60) DEF Write, Step, IInv, TypeOK, EInv
<1>2. req[h].peer \in Peers /\ req[h].rec \in EnrolledNode /\ req[h].from \in Nat
  BY <1>1 DEF Request
<1> DEFINE others == [MarkRaced(req[h].peer, h) EXCEPT ![h] = Null]
<1>3. /\ Persist(req[h].peer, req[h].rec, req[h].key, req[h].from, req[h].raced, others)
      /\ pc' = [pc EXCEPT ![h] = "idle"] /\ UNCHANGED bannedIds
  BY SMTT(60) DEF Write, Step
<1>4. ASSUME NEW g \in Handlers, pc'[g] # "idle"
      PROVE  pc'[g] = pc[g] /\ others[g] = Raced(req[g], req[h].peer)
  <2>1. g # h /\ pc'[g] = pc[g] /\ req[g] # Null
    BY SMTT(60), <1>3, <1>4 DEF IInv, TypeOK
  <2> QED
    BY <2>1 DEF MarkRaced
<1>5. /\ OwnIdentity(req[h].rec, req[h].peer) /\ req[h].from <= lastB
      /\ req[h].from \notin escaped
  BY SMTT(60), <1>1 DEF HandlerEscapes, InFlight
<1> HIDE DEF others
<1> QED
  BY SMTT(60), <1>2, <1>3, <1>4, <1>5, PersistEInv

\* A bootstrap record has no OIDC identity.
LEMMA BootstrapEnrollEInv ==
    ASSUME IInv, EInv, NEW p \in Peers, NEW owner \in Identities \cup {NoIdentity},
           NEW recovery \in BOOLEAN, NEW ephemeral \in BOOLEAN,
           BootstrapEnroll(p, owner, recovery, ephemeral)
    PROVE  EInv'
<1> DEFINE rec == [FreshRecord("BOOTSTRAP", owner) EXCEPT !.autonomousRecovery = recovery,
                                                          !.ephemeral = ephemeral]
           others == MarkRaced(p, Null)
<1>1. rec \in EnrolledNode /\ rec.type = "BOOTSTRAP"
  BY Zenon DEF FreshRecord, EnrolledNode
<1>2. Persist(p, rec, curKey, 0, FALSE, others) /\ UNCHANGED <<bannedIds, pc>>
  BY Zenon DEF BootstrapEnroll
<1>3. ASSUME NEW g \in Handlers, pc'[g] # "idle"
      PROVE  pc'[g] = pc[g] /\ others[g] = Raced(req[g], p)
  <2>1. req[g] # Null /\ g # Null
    BY SMTT(60), <1>2, <1>3, NullIsNoRequest DEF IInv, TypeOK
  <2> QED
    BY <1>2, <2>1 DEF MarkRaced
<1> HIDE DEF rec, others
<1>4. OwnIdentity(rec, p)
  BY <1>1 DEF OwnIdentity
<1>5. 0 \in Nat /\ 0 <= lastB /\ 0 \notin escaped
  BY DEF IInv, TypeOK
<1>6. PICK from, raced : /\ from \in Nat /\ from <= lastB /\ from \notin escaped
                         /\ Persist(p, rec, curKey, from, raced, others)
  BY <1>2, <1>5, Zenon
<1> QED
  BY Zenon, <1>1, <1>2, <1>3, <1>4, <1>6, PersistEInv

\* A ban only adds to what is banned, and an unban takes what it frees off the
\* list of the escaped.
LEMMA BanCommitEInv ==
    ASSUME IInv, EInv, BanCommit
    PROVE  EInv'
<1>1. adm \in AdminRequest /\ nodes \in NodesTable /\ UNCHANGED <<lastB, issued, pc, req>>
  BY DEF BanCommit, IInv, TypeOK
<1>2. adm.peer \in Peers /\ adm.ban \in BOOLEAN
  BY SMTT(60), <1>1 DEF AdminRequest
<1>3. CASE UNCHANGED <<store, escaped>>
  <2>1. SameRecords
    BY <1>3 DEF SameRecords, store
  <2> QED
    BY <1>1, <1>3, <2>1, HandlersRestEInv DEF EInv, store
<1>4. CASE /\ nodes[adm.peer] # Null /\ nodes' = SetNodeBanned(nodes, adm.peer, adm.ban)
           /\ escaped' = {b \in escaped : IdentityOf[issued[b].peer] \in bannedIds'}
  <2>1. SameRecords
    BY <1>1, <1>2, <1>4, FlagSet DEF SameRecords
  <2> QED
    BY SMTT(60), <1>1, <1>4, <2>1, HandlersRestEInv
<1> QED
  BY SMTT(60), <1>3, <1>4 DEF BanCommit

\* The operator's other actions.
LEMMA OperatorEInv ==
    ASSUME IInv, EInv, Operator
    PROVE  EInv'
<1>1. ASSUME NEW p \in Peers, NEW ban \in BOOLEAN, BanRead(p, ban) PROVE EInv'
  <2>1. SameRecords /\ UNCHANGED <<bannedIds, lastB, issued, escaped, pc, req>>
    BY <1>1 DEF BanRead, SameRecords, store, log
  <2> QED
    BY SMTT(60), <2>1, HandlersRestEInv DEF EInv
<1>2. ASSUME NEW p \in Peers, NEW enabled \in BOOLEAN, ToggleRecovery(p, enabled)
      PROVE  EInv'
  <2>1. nodes \in NodesTable /\ UNCHANGED <<bannedIds, lastB, issued, escaped, pc, req>>
    BY <1>2 DEF ToggleRecovery, IInv, TypeOK, log
  <2>2. SameRecords
    BY <1>2, <2>1, FlagSet DEF SameRecords, ToggleRecovery
  <2> QED
    BY SMTT(60), <2>1, <2>2, HandlersRestEInv DEF EInv
<1>3. ASSUME NEW p \in BootstrapPeers, NEW recovery \in BOOLEAN, NEW ephemeral \in BOOLEAN,
             NEW owned \in BOOLEAN,
             BootstrapEnroll(p, IF owned THEN IdentityOf[p] ELSE NoIdentity, recovery, ephemeral)
      PROVE  EInv'
  <2>1. p \in Peers /\ (IF owned THEN IdentityOf[p] ELSE NoIdentity) \in Identities \cup {NoIdentity}
    BY MembershipAssumption
  <2> QED
    BY <1>3, <2>1, BootstrapEnrollEInv
<1> QED
  BY SMTT(60), <1>1, <1>2, <1>3, BanCommitEInv DEF Operator

\* The sweep, the clock and the keyring.
LEMMA BackgroundEInv ==
    ASSUME IInv, EInv, Sweep \/ Tick \/ RotateKey \/ RetireKey \/ UNCHANGED vars
    PROVE  EInv'
<1>1. UNCHANGED <<bannedIds, lastB, issued, escaped, pc, req>>
  BY Zenon DEF Sweep, SweepExpired, SweepSilent, SweepEphemeral, SweepFails, Swept, Tick, RotateKey,
         RetireKey, vars, store, log
<1>2. SameRecords
  <2>1. CASE SweepExpired \/ SweepSilent \/ SweepEphemeral
    BY <2>1, SweepRows DEF SameRecords
  <2>2. CASE SweepFails \/ Tick \/ RotateKey \/ RetireKey \/ UNCHANGED vars
    BY <2>2 DEF SweepFails, Tick, RotateKey, RetireKey, vars, store, SameRecords
  <2> QED
    BY <2>1, <2>2 DEF Sweep
<1> QED
  BY <1>1, <1>2, HandlersRestEInv DEF EInv

\* Each handler step.
LEMMA HandleEInv ==
    ASSUME IInv, EInv, NEW h \in Handlers, Handle(h)
    PROVE  EInv'
<1>1. CASE Abort(h)
  BY <1>1, RefuseEInv DEF Abort
<1> QED
  BY <1>1, StartEInv, RefreshReadEInv, MintEInv, WriteEInv DEF Handle

\* Every step preserves it, in the states the first invariant allows.
LEMMA NextEInv == IInv /\ EInv /\ [Next]_vars => EInv'
  BY HandleEInv, OperatorEInv, BackgroundEInv DEF Next

(***************************************************************************)
(* The theorems.                                                           *)
(***************************************************************************)

\* The tables and the handlers' locals keep their types.
THEOREM TypeCorrect == Spec => []TypeOK
<1>1. IInv => TypeOK
  BY DEF IInv
<1> QED
  BY <1>1, Inductive, PTL

\* HandleRefresh's reuse detection: a biscuit is redeemed a second time only by
\* a handler that raced the first one.
THEOREM ReplayMintsNothingHolds == Spec => []ReplayMintsNothing
<1>1. IInv => ReplayMintsNothing
  BY DEF IInv
<1> QED
  BY <1>1, Inductive, PTL

\* A biscuit that got out because its identity was banned while the request was
\* under way is exchanged for nothing as long as the ban stands.
THEOREM BannedIdentityNotRenewedHolds == Spec => []BannedIdentityNotRenewed
<1>1. EInv => BannedIdentityNotRenewed
  BY DEF EInv
<1> QED
  BY <1>1, Inductive, InitEInv, NextEInv, PTL DEF Spec

\* A ban outlives registrations, refreshes and the sweep, also those that read
\* the row before it: only the operator's unban of that peer lifts it.
THEOREM BanSticksHolds == Spec => BanSticks
<1> DEFINE Kept == \A p \in Peers : IsNodeBanned(nodes, p) =>
              \/ IsNodeBanned(nodes', p)
              \/ adm # Null /\ adm' = Null /\ adm.peer = p /\ ~adm.ban
<1>1. ASSUME IInv, Next PROVE Kept
  <2>1. nodes \in NodesTable
    BY <1>1 DEF IInv, TypeOK
  <2>2. ASSUME nodes' = nodes PROVE Kept
    BY SMTT(60), <2>2
  <2>3. ASSUME NEW p \in Peers, NEW n \in EnrolledNode, nodes' = EnrollNode(nodes, p, n)
        PROVE  Kept
    <3>1. /\ \A q \in Peers : q # p => nodes'[q] = nodes[q]
          /\ nodes'[p] \in EnrolledNode /\ nodes'[p].banned = IsNodeBanned(nodes, p)
      BY <2>1, <2>3, EnrollNodeRow
    <3> QED
      BY ZenonT(60), <3>1, NullAssumption DEF IsNodeBanned
  <2>4. ASSUME NEW h \in Handlers, Handle(h) PROVE Kept
    <3>1. CASE Write(h)
      <4>1. req[h] \in Request
        BY <1>1, <3>1 DEF Write, Step, IInv, TypeOK
      <4>2. req[h].peer \in Peers /\ req[h].rec \in EnrolledNode
        BY <4>1 DEF Request
      <4>3. nodes' = EnrollNode(nodes, req[h].peer, Written(req[h].rec))
        BY <3>1 DEF Write, Persist, Written
      <4> QED
        BY <1>1, <2>3, <4>2, <4>3, WrittenRow DEF IInv
    <3>2. CASE ~Write(h)
      BY SMTT(60), <2>2, <2>4, <3>2
         DEF Handle, Register, RefreshVerify, RefreshRead, Mint, Abort, store
    <3> QED
      BY <3>1, <3>2
  <2>5. ASSUME BanCommit PROVE Kept
    <3>1. adm \in AdminRequest /\ adm # Null /\ adm' = Null
      BY <1>1, <2>5 DEF BanCommit, IInv, TypeOK
    <3>2. adm.peer \in Peers /\ adm.ban \in BOOLEAN
      BY <3>1 DEF AdminRequest
    <3>3. CASE nodes' = nodes
      BY SMTT(60), <2>2, <3>3
    <3>4. CASE nodes[adm.peer] # Null /\ nodes' = SetNodeBanned(nodes, adm.peer, adm.ban)
      <4> DEFINE m == [nodes[adm.peer] EXCEPT !.banned = adm.ban]
      <4>1. nodes[adm.peer] \in EnrolledNode
        BY <2>1, <3>2, <3>4 DEF NodesTable
      <4>2. m \in EnrolledNode /\ m.banned = adm.ban
        BY <3>2, <4>1 DEF EnrolledNode
      <4>3. nodes' = [nodes EXCEPT ![adm.peer] = m]
        BY <3>4 DEF SetNodeBanned
      <4> HIDE DEF m
      <4>4. m # Null
        BY <4>2, NullAssumption
      <4>5. /\ nodes'[adm.peer] = m
            /\ \A q \in Peers : q # adm.peer => nodes'[q] = nodes[q]
        BY <2>1, <3>2, <4>3 DEF NodesTable
      <4> QED
        BY <3>1, <4>2, <4>4, <4>5 DEF IsNodeBanned
    <3> QED
      BY ZenonT(60), <2>5, <3>3, <3>4 DEF BanCommit, store
  <2>6. ASSUME NEW p \in Peers, NEW enabled \in BOOLEAN, ToggleRecovery(p, enabled)
        PROVE  Kept
    <3> DEFINE m == [nodes[p] EXCEPT !.autonomousRecovery = enabled]
    <3>1. nodes[p] \in EnrolledNode
      BY <2>1, <2>6 DEF ToggleRecovery, NodesTable
    <3>2. m \in EnrolledNode /\ m.banned = nodes[p].banned
      BY <3>1 DEF EnrolledNode
    <3>3. nodes' = [nodes EXCEPT ![p] = m]
      BY <2>6 DEF ToggleRecovery, SetNodeAutonomousRecovery
    <3> HIDE DEF m
    <3> QED
      BY <2>1, <3>2, <3>3, NullAssumption DEF NodesTable, IsNodeBanned
  <2>7. ASSUME NEW p \in BootstrapPeers, NEW recovery \in BOOLEAN, NEW ephemeral \in BOOLEAN,
               NEW owner \in Identities \cup {NoIdentity},
               BootstrapEnroll(p, owner, recovery, ephemeral)
        PROVE  Kept
    <3> DEFINE rec == [FreshRecord("BOOTSTRAP", owner) EXCEPT !.autonomousRecovery = recovery,
                                                              !.ephemeral = ephemeral]
    <3>1. p \in Peers
      BY <2>7, MembershipAssumption
    <3>2. rec \in EnrolledNode
      BY Zenon DEF FreshRecord, EnrolledNode
    <3>3. nodes' = EnrollNode(nodes, p, Written(rec))
      BY <2>7 DEF BootstrapEnroll, Persist, Written
    <3> HIDE DEF rec
    <3> QED
      BY <1>1, <2>3, <3>1, <3>2, <3>3, WrittenRow DEF IInv
  <2>8. CASE Operator
    <3>1. ASSUME NEW p \in Peers, NEW ban \in BOOLEAN, BanRead(p, ban) PROVE Kept
      BY <2>2, <3>1 DEF BanRead, store
    <3>2. \A p \in BootstrapPeers, owned \in BOOLEAN :
             (IF owned THEN IdentityOf[p] ELSE NoIdentity) \in Identities \cup {NoIdentity}
      BY MembershipAssumption
    <3> QED
      BY <2>5, <2>6, <2>7, <2>8, <3>1, <3>2 DEF Operator
  <2>9. CASE Sweep
    <3>1. CASE SweepExpired \/ SweepSilent \/ SweepEphemeral
      BY SMTT(60), <1>1, <3>1, SweepRows DEF IsNodeBanned
    <3>2. CASE SweepFails
      BY <2>2, <3>2 DEF SweepFails, store
    <3> QED
      BY <2>9, <3>1, <3>2 DEF Sweep
  <2>10. CASE Tick \/ RotateKey \/ RetireKey
    BY <2>2, <2>10 DEF Tick, RotateKey, RetireKey, store
  <2> HIDE DEF Kept
  <2> QED
    BY <1>1, <2>4, <2>8, <2>9, <2>10 DEF Next
<1>2. IInv /\ [Next]_vars => [Kept]_vars
  BY <1>1
<1> QED
  BY <1>2, Inductive, PTL DEF Spec, BanSticks
=============================================================================
