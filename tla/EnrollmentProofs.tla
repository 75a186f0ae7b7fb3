-------------------------- MODULE EnrollmentProofs --------------------------
(***************************************************************************)
(* Proofs about Enrollment for any number of peers, tokens and requests in *)
(* flight, with either approval mode.                                      *)
(***************************************************************************)
EXTENDS Enrollment, NodeStoreProofs

(***************************************************************************)
(* The inductive invariant.                                                *)
(***************************************************************************)

\* p has a node row, or had one that the sweep deleted.
Known(p) == nodes[p] # Null \/ p \in forgotten

\* Where a handler may still write APPROVED, the node row came first.
RowWritten(h) ==
    \/ pc[h] = "resolve"
    \/ pc[h] = "create" /\ AutoApproveEnrollment
    \/ pc[h] = "update"
    \/ pc[h] = "consume" /\ loc[h].op = "remint"

\* A handler names a request that exists or existed; a re-mint names one that
\* was approved and still is, if it exists.
InFlight(h) ==
    /\ loc[h].id <= lastReq
    /\ RowWritten(h) => Known(loc[h].peer)
    /\ pc[h] \in {"ban", "lookup"} => loc[h].op = "enroll"
    /\ pc[h] = "token" => loc[h].op = "approve"
    /\ pc[h] \in {"read", "update"} => loc[h].op = "remint"
    /\ loc[h].op = "remint" /\ HasRequest(loc[h].peer, loc[h].id)
          => requests[loc[h].peer].status = "APPROVED"

IInv ==
    /\ TypeOK
    /\ \A p \in Peers : requests[p] # Null => requests[p].id <= lastReq
    /\ ApprovedHasNode
    /\ \A h \in Handlers : pc[h] # "idle" => InFlight(h)

\* Empty tables and no requests in flight satisfy the invariant.
LEMMA InitIInv == Init => IInv
<1> SUFFICES ASSUME Init PROVE IInv
  OBVIOUS
<1>1. TypeOK
  BY EnrollmentAssumption DEF Init, TypeOK, NodesTable, PC
<1> QED
  BY <1>1 DEF Init, IInv, ApprovedHasNode

\* What a step may do to the request of p: nothing, delete it, create one with
\* a new id, or change one that it keeps approved if it was; and it approves
\* none of an unknown peer.
RequestStep(p) ==
    requests'[p] # Null =>
       \/ requests'[p] = requests[p]
       \/ /\ \/ requests'[p].id > lastReq /\ requests'[p].id <= lastReq'
             \/ /\ requests[p] # Null
                /\ requests'[p].id = requests[p].id
                /\ requests[p].status = "APPROVED" => requests'[p].status = "APPROVED"
          /\ requests'[p].status = "APPROVED" => Known(p)'

\* A handler that does not move keeps its part.
LEMMA HandlerWaits ==
    ASSUME IInv, NEW h \in Handlers, pc[h] # "idle", UNCHANGED <<pc[h], loc[h]>>,
           lastReq' \in Nat, lastReq <= lastReq',
           \A p \in Peers : RequestStep(p) /\ (Known(p) => Known(p)')
    PROVE  InFlight(h)'
<1>1. loc[h] \in Locals /\ InFlight(h) /\ lastReq \in Nat
  BY DEF IInv, TypeOK
<1>2. loc[h].peer \in Peers /\ loc[h].id \in Nat
  BY <1>1 DEF Locals
<1>3. RowWritten(h)' = RowWritten(h)
  BY DEF RowWritten
<1>4. HasRequest(loc[h].peer, loc[h].id)' /\ loc[h].op = "remint"
         => requests'[loc[h].peer].status = "APPROVED"
  BY <1>1, <1>2 DEF InFlight, HasRequest, RequestStep
<1> QED
  BY <1>1, <1>2, <1>3, <1>4 DEF InFlight, HasRequest

\* A step whose moving handler keeps its part, and which treats rows and
\* requests as above, preserves the invariant.
LEMMA StepIInv ==
    ASSUME IInv, TypeOK', lastReq <= lastReq',
           \A p \in Peers : RequestStep(p) /\ (Known(p) => Known(p)'),
           \A h \in Handlers : UNCHANGED <<pc[h], loc[h]>> \/ pc'[h] = "idle" \/ InFlight(h)'
    PROVE  IInv'
<1>1. lastReq \in Nat /\ lastReq' \in Nat
  BY DEF IInv, TypeOK
<1>2. \A p \in Peers : requests'[p] # Null => requests'[p].id <= lastReq'
  <2> SUFFICES ASSUME NEW p \in Peers, requests'[p] # Null
               PROVE  requests'[p].id <= lastReq'
    OBVIOUS
  <2>1. requests'[p] = requests[p] => requests[p].id \in Nat /\ requests[p].id <= lastReq
    BY DEF IInv, TypeOK, EnrollmentRequest
  <2>2. requests[p] # Null => requests[p].id \in Nat /\ requests[p].id <= lastReq
    BY DEF IInv, TypeOK, EnrollmentRequest
  <2> QED
    BY <1>1, <2>1, <2>2 DEF RequestStep
<1>3. ApprovedHasNode'
  BY DEF IInv, ApprovedHasNode, RequestStep, Known
<1>4. ASSUME NEW h \in Handlers, pc'[h] # "idle" PROVE InFlight(h)'
  BY <1>1, <1>4, HandlerWaits
<1> QED
  BY <1>2, <1>3, <1>4 DEF IInv

(***************************************************************************)
(* Handler steps.                                                          *)
(***************************************************************************)

\* A handler that moves and changes nothing but its own state.
LEMMA HandlerStep ==
    ASSUME IInv, NEW h \in Handlers, NEW x \in PC, NEW l \in Locals \cup {Null},
           pc' = [pc EXCEPT ![h] = x], loc' = [loc EXCEPT ![h] = l],
           UNCHANGED <<now, tables, ids, gc>>,
           x # "idle" => l # Null /\ InFlight(h)'
    PROVE  IInv'
<1>1. TypeOK'
  BY DEF IInv, TypeOK, tables, ids
<1>2. \A p \in Peers : RequestStep(p) /\ (Known(p) => Known(p)')
  BY DEF RequestStep, Known, tables
<1>3. \A g \in Handlers : UNCHANGED <<pc[g], loc[g]>> \/ pc'[g] = "idle" \/ InFlight(g)'
  BY DEF IInv, TypeOK
<1>4. lastReq <= lastReq'
  BY SMTT(60) DEF IInv, TypeOK, ids
<1> QED
  BY <1>1, <1>2, <1>3, <1>4, StepIInv

\* An answer without a write leaves nothing behind.
LEMMA AnswerIInv ==
    ASSUME IInv, NEW h \in Handlers, Answer(h), UNCHANGED <<now, tables, ids, gc>>
    PROVE  IInv'
  BY Zenon, HandlerStep DEF Answer, PC

\* The record an enrollment starts from is a row.
LEMMA BootstrapRecordRow ==
    ASSUME NEW t \in Tokens
    PROVE  BootstrapRecord(t) \in EnrolledNode
<1>1. (t \in EphemeralTokens) \in BOOLEAN
  OBVIOUS
<1> QED
  BY <1>1 DEF BootstrapRecord, EnrolledNode

\* A new enrollment has read no request.
LEMMA EnrollCheckIInv ==
    ASSUME IInv, NEW h \in Handlers, NEW p \in Peers, NEW t \in Tokens, EnrollCheck(h, p, t)
    PROVE  IInv'
<1> DEFINE l == [op |-> "enroll", peer |-> p, token |-> t, id |-> 0, rec |-> BootstrapRecord(t)]
<1>1. l \in Locals /\ l.id = 0 /\ l.op = "enroll"
  BY BootstrapRecordRow DEF Locals
<1>2. pc' = [pc EXCEPT ![h] = "ban"] /\ loc' = [loc EXCEPT ![h] = l]
  BY DEF EnrollCheck, Step
<1>3. UNCHANGED <<now, tables, ids, gc>>
  BY DEF EnrollCheck
<1> HIDE DEF l
<1>4. pc'[h] = "ban" /\ loc'[h] = l
  BY <1>2 DEF IInv, TypeOK
<1>5. InFlight(h)'
  BY <1>1, <1>3, <1>4 DEF InFlight, RowWritten, ids, IInv, TypeOK
<1> QED
  BY Zenon, <1>1, <1>2, <1>3, <1>5, NullIsNoRow, HandlerStep DEF PC

\* A handler that is not idle has locals.
LEMMA ActiveLocals ==
    ASSUME TypeOK, NEW h \in Handlers, pc[h] # "idle"
    PROVE  /\ loc[h] \in Locals /\ loc[h] # Null
           /\ loc[h].peer \in Peers /\ loc[h].token \in Tokens /\ loc[h].id \in Nat
           /\ loc[h].rec \in EnrolledNode
           /\ loc[h].op \in {"enroll", "remint", "approve"}
<1>1. loc[h] \in Locals /\ loc[h] # Null
  BY DEF TypeOK
<1> QED
  BY <1>1 DEF Locals

\* A check that passes moves the handler on and changes nothing else.
LEMMA CheckIInv ==
    ASSUME IInv, NEW h \in Handlers, EnrollBanCheck(h) \/ ApproveCheck(h)
    PROVE  IInv'
<1>1. TypeOK /\ InFlight(h) /\ pc[h] # "idle" /\ UNCHANGED <<now, tables, ids, gc>>
  BY DEF EnrollBanCheck, ApproveCheck, IInv
<1>2. loc[h] \in Locals /\ loc[h] # Null
  BY SMTT(60), <1>1, ActiveLocals
<1>3. ASSUME UNCHANGED loc, NEW x \in {"lookup", "consume"}, pc' = [pc EXCEPT ![h] = x],
             IF x = "lookup" THEN pc[h] = "ban" ELSE pc[h] = "token"
      PROVE  IInv'
  <2>1. pc'[h] = x /\ loc' = [loc EXCEPT ![h] = loc[h]] /\ loc'[h] = loc[h]
    BY <1>1, <1>3 DEF TypeOK
  <2>2. InFlight(h)'
    BY <1>1, <1>3, <2>1 DEF InFlight, RowWritten, HasRequest, ids, tables
  <2> QED
    BY Zenon, <1>1, <1>2, <1>3, <2>1, <2>2, HandlerStep DEF PC
<1>4. CASE Answer(h)
  BY <1>1, <1>4, AnswerIInv
<1> QED
  BY <1>3, <1>4 DEF EnrollBanCheck, ApproveCheck, Step

\* A request that was read as approved is approved.
LEMMA EnrollLookupIInv ==
    ASSUME IInv, NEW h \in Handlers, EnrollLookup(h)
    PROVE  IInv'
<1> DEFINE r == requests[loc[h].peer]
<1>1. pc[h] = "lookup" /\ TypeOK /\ InFlight(h) /\ loc[h].op = "enroll"
  BY DEF EnrollLookup, IInv, InFlight
<1>2. UNCHANGED <<now, tables, ids, gc>>
  BY DEF EnrollLookup
<1>3. loc[h] \in Locals /\ loc[h] # Null /\ loc[h].peer \in Peers
  BY SMTT(60), <1>1, ActiveLocals
<1>4. ASSUME Step(h, "lookup", IF AutoApproveEnrollment THEN "consume" ELSE "create"),
             UNCHANGED loc
      PROVE  IInv'
  <2>1. PICK x \in {"consume", "create"} : /\ pc' = [pc EXCEPT ![h] = x]
                                           /\ x = "create" => ~AutoApproveEnrollment
    BY Zenon, <1>4 DEF Step
  <2>2. pc'[h] = x /\ loc' = [loc EXCEPT ![h] = loc[h]] /\ loc'[h] = loc[h]
    BY <1>1, <1>4, <2>1 DEF TypeOK
  <2>3. InFlight(h)'
    BY <1>1, <1>2, <2>1, <2>2 DEF InFlight, RowWritten, ids
  <2> QED
    BY Zenon, <1>2, <1>3, <2>1, <2>2, <2>3, HandlerStep DEF PC
<1>5. ASSUME r # Null, r.status = "APPROVED", Step(h, "lookup", "read"),
             loc' = [loc EXCEPT ![h].op = "remint", ![h].id = r.id]
      PROVE  IInv'
  <2> DEFINE l == [loc[h] EXCEPT !.op = "remint", !.id = r.id]
  <2>1. r.id \in Nat /\ r.id <= lastReq
    BY <1>3, <1>5 DEF IInv, TypeOK, EnrollmentRequest
  <2>2. l \in Locals /\ l.id = r.id /\ l.op = "remint" /\ l.peer = loc[h].peer
    BY Zenon, <1>3, <2>1 DEF Locals
  <2>3. loc' = [loc EXCEPT ![h] = l] /\ pc' = [pc EXCEPT ![h] = "read"]
    BY ZenonT(60), <1>1, <1>3, <1>5 DEF Step, TypeOK
  <2> HIDE DEF l
  <2>4. loc'[h] = l /\ pc'[h] = "read"
    BY <1>1, <2>3 DEF TypeOK
  <2>5. InFlight(h)'
    BY <1>2, <1>5, <2>1, <2>2, <2>4 DEF InFlight, RowWritten, HasRequest, ids, tables
  <2> QED
    BY Zenon, <1>2, <2>2, <2>3, <2>5, NullIsNoRow, HandlerStep DEF PC
<1> QED
  BY <1>2, <1>4, <1>5, AnswerIInv DEF EnrollLookup

\* A re-mint goes on only with a row.
LEMMA RemintReadIInv ==
    ASSUME IInv, NEW h \in Handlers, RemintRead(h)
    PROVE  IInv'
<1> DEFINE n == nodes[loc[h].peer]
<1>1. pc[h] = "read" /\ TypeOK /\ InFlight(h) /\ loc[h].op = "remint"
  BY DEF RemintRead, IInv, InFlight
<1>2. UNCHANGED <<now, tables, ids, gc>>
  BY DEF RemintRead
<1>3. loc[h] \in Locals /\ loc[h].peer \in Peers
  BY SMTT(60), <1>1, ActiveLocals
<1>4. ASSUME n # Null, Step(h, "read", "consume"), loc' = [loc EXCEPT ![h].rec = n]
      PROVE  IInv'
  <2> DEFINE l == [loc[h] EXCEPT !.rec = n]
  <2>1. n \in EnrolledNode
    BY <1>1, <1>3, <1>4 DEF TypeOK, NodesTable
  <2>2. l \in Locals /\ l.id = loc[h].id /\ l.op = loc[h].op /\ l.peer = loc[h].peer
    BY <1>3, <2>1 DEF Locals
  <2>3. loc' = [loc EXCEPT ![h] = l] /\ pc' = [pc EXCEPT ![h] = "consume"]
    BY <1>1, <1>3, <1>4 DEF Step, TypeOK
  <2> HIDE DEF l
  <2>4. loc'[h] = l /\ pc'[h] = "consume"
    BY <1>1, <2>3 DEF TypeOK
  <2>5. InFlight(h)'
    BY SMTT(60), <1>1, <1>2, <1>4, <2>2, <2>4
       DEF InFlight, RowWritten, Known, HasRequest, ids, tables
  <2> QED
    BY Zenon, <1>2, <2>2, <2>3, <2>5, NullIsNoRow, HandlerStep DEF PC
<1> QED
  BY <1>2, <1>4, AnswerIInv DEF RemintRead

\* An approval starts from a pending request.
LEMMA ApproveReadIInv ==
    ASSUME IInv, NEW h \in Handlers, NEW p \in Peers, ApproveRead(h, p)
    PROVE  IInv'
<1> DEFINE r == requests[p]
           l == [op |-> "approve", peer |-> p, token |-> r.token, id |-> r.id,
                 rec |-> BootstrapRecord(r.token)]
<1>1. r \in EnrollmentRequest /\ r.id <= lastReq
  BY DEF ApproveRead, IInv, TypeOK
<1>2. r.token \in Tokens /\ r.id \in Nat
  BY <1>1 DEF EnrollmentRequest
<1>3. l \in Locals /\ l.id = r.id /\ l.op = "approve" /\ l.peer = p
  BY <1>2, BootstrapRecordRow DEF Locals
<1>4. /\ pc' = [pc EXCEPT ![h] = "token"] /\ loc' = [loc EXCEPT ![h] = l]
      /\ UNCHANGED <<now, tables, ids, gc>>
  BY DEF ApproveRead, Step
<1> HIDE DEF l
<1>5. pc'[h] = "token" /\ loc'[h] = l
  BY <1>4 DEF IInv, TypeOK
<1>6. InFlight(h)'
  BY SMTT(60), <1>1, <1>3, <1>4, <1>5 DEF InFlight, RowWritten, ids
<1> QED
  BY ZenonT(60), <1>3, <1>4, <1>6, NullIsNoRow, HandlerStep DEF PC

\* Spending a usage: the count stays within the token's budget.
LEMMA ConsumeIInv ==
    ASSUME IInv, NEW h \in Handlers, Consume(h)
    PROVE  IInv'
<1> DEFINE t == loc[h].token
<1>1. pc[h] = "consume" /\ TypeOK /\ InFlight(h)
  BY SMTT(60) DEF Consume, IInv
<1>2. UNCHANGED <<now, nodes, requests, revoked, forgotten, ids, gc>>
  BY DEF Consume
<1>3. loc[h] \in Locals /\ loc[h] # Null /\ t \in Tokens
  BY <1>1, ActiveLocals
<1>4. ASSUME Answer(h), UNCHANGED usages PROVE IInv'
  BY <1>2, <1>4, AnswerIInv DEF tables
<1>5. ASSUME usages[t] < MaxUsages[t], usages' = [usages EXCEPT ![t] = @ + 1],
             Step(h, "consume", AfterConsume(loc[h].op)), UNCHANGED loc
      PROVE  IInv'
  <2>1. PICK x \in {"update", "enroll"} : /\ pc' = [pc EXCEPT ![h] = x]
                                          /\ x = "update" => loc[h].op = "remint"
    BY Zenon, <1>5 DEF Step, AfterConsume
  <2>2. pc'[h] = x /\ pc' \in [Handlers -> PC] /\ (\A g \in Handlers : g # h => pc'[g] = pc[g])
    BY <1>1, <2>1 DEF TypeOK, PC
  <2>3. usages' \in [Tokens -> Nat] /\ \A u \in Tokens : usages'[u] <= MaxUsages[u]
    <3>1. usages[t] \in Nat /\ MaxUsages[t] \in Nat
      BY <1>1, <1>3, EnrollmentAssumption DEF TypeOK
    <3> QED
      BY SMTT(60), <1>1, <1>3, <1>5, <3>1, EnrollmentAssumption DEF TypeOK
  <2>4. TypeOK'
    BY SMTT(60), <1>1, <1>2, <1>3, <1>5, <2>2, <2>3 DEF TypeOK, ids
  <2>5. InFlight(h)'
    BY <1>1, <1>2, <1>5, <2>1, <2>2 DEF InFlight, RowWritten, Known, HasRequest, ids
  <2>6. \A p \in Peers : RequestStep(p) /\ (Known(p) => Known(p)')
    BY <1>2 DEF RequestStep, Known
  <2>7. lastReq <= lastReq'
    BY <1>1, <1>2 DEF TypeOK, ids
  <2> QED
    BY <1>5, <2>2, <2>4, <2>5, <2>6, <2>7, StepIInv
<1> QED
  BY SMTT(60), <1>4, <1>5 DEF Consume

\* Minting keeps the history of biscuits a history.
LEMMA MintForType ==
    ASSUME TypeOK, NEW t \in Tokens, MintFor(t)
    PROVE  lastB' \in 0 .. MaxBiscuits /\ lastB' = lastB + 1 /\ lastB + 1 \in Nat
           /\ paidBy' \in [1 .. lastB' -> Tokens]
<1>1. lastB' = lastB + 1 /\ lastB < MaxBiscuits /\ lastB \in Nat
  BY DEF MintFor, TypeOK
<1> QED
  BY <1>1, EnrollmentAssumption DEF MintFor, TypeOK

\* The handler keeps a biscuit in the record it holds.
LEMMA BiscuitHeld ==
    ASSUME NEW l \in Locals, NEW b \in Nat
    PROVE  LET k == [l EXCEPT !.rec.biscuit = b] IN
           k \in Locals /\ k.id = l.id /\ k.op = l.op /\ k.peer = l.peer
<1> DEFINE n == [l.rec EXCEPT !.biscuit = b]
<1>1. n \in EnrolledNode
  BY DEF Locals, EnrolledNode
<1>2. [l EXCEPT !.rec.biscuit = b] = [l EXCEPT !.rec = n]
  BY DEF Locals
<1> HIDE DEF n
<1> QED
  BY <1>1, <1>2 DEF Locals

\* The node row: its peer is known from now on.
LEMMA WriteNodeIInv ==
    ASSUME IInv, NEW h \in Handlers, WriteNode(h)
    PROVE  IInv'
<1> DEFINE l == loc[h]
           Row(b) == [l.rec EXCEPT !.biscuit = b, !.enrolledAt = now]
<1>1. pc[h] = "enroll" /\ TypeOK /\ InFlight(h)
  BY DEF WriteNode, IInv
<1>2. UNCHANGED <<now, requests, usages, revoked, lastReq, gc>>
  BY DEF WriteNode
<1>3. /\ l \in Locals /\ l # Null /\ l.peer \in Peers /\ l.token \in Tokens
      /\ l.rec \in EnrolledNode
  BY <1>1, ActiveLocals
<1>4. now \in Nat /\ nodes \in NodesTable /\ forgotten \subseteq Peers
  BY <1>1 DEF TypeOK
<1>5. ASSUME NEW b \in Nat, nodes' = EnrollNode(nodes, l.peer, Row(b)),
             forgotten' = forgotten \ {l.peer}
      PROVE  /\ nodes' \in NodesTable /\ forgotten' \subseteq Peers
             /\ \A p \in Peers : Known(p) => Known(p)'
             /\ nodes'[l.peer] # Null
  <2>1. Row(b) \in EnrolledNode
    BY ZenonT(60), <1>3, <1>4, RewrittenRow
  <2> HIDE DEF Row
  <2>2. /\ nodes' \in NodesTable
        /\ \A q \in Peers : q # l.peer => nodes'[q] = nodes[q]
        /\ nodes'[l.peer] \in EnrolledNode
    BY <1>3, <1>4, <1>5, <2>1, EnrollNodeRow
  <2> QED
    BY SMTT(60), <1>3, <1>4, <1>5, <2>2, NullAssumption DEF Known
<1>6. ASSUME \A p \in Peers : Known(p) => Known(p)', TypeOK',
             \A g \in Handlers : g # h => UNCHANGED <<pc[g], loc[g]>>,
             pc'[h] = "idle" \/ InFlight(h)'
      PROVE  IInv'
  <2>1. \A p \in Peers : RequestStep(p)
    BY <1>2 DEF RequestStep
  <2>2. lastReq <= lastReq'
    BY <1>1, <1>2 DEF TypeOK
  <2> QED
    BY <1>6, <2>1, <2>2, StepIInv
<1>7. ASSUME nodes' = EnrollNode(nodes, l.peer, Row(l.rec.biscuit)),
             forgotten' = forgotten \ {l.peer}, Answer(h), UNCHANGED <<lastB, paidBy>>
      PROVE  IInv'
  <2>1. l.rec.biscuit \in Nat
    BY SMTT(60), <1>3 DEF EnrolledNode
  <2>2. /\ nodes' \in NodesTable /\ forgotten' \subseteq Peers
        /\ \A p \in Peers : Known(p) => Known(p)'
    BY Zenon, <1>5, <1>7, <2>1
  <2>3. /\ pc' \in [Handlers -> PC] /\ loc' \in [Handlers -> Locals \cup {Null}]
        /\ pc'[h] = "idle" /\ \A g \in Handlers : g # h => UNCHANGED <<pc[g], loc[g]>>
    BY <1>1, <1>7 DEF Answer, TypeOK, PC
  <2>4. TypeOK'
    BY SMTT(60), <1>1, <1>2, <1>7, <2>2, <2>3 DEF TypeOK
  <2> QED
    BY <1>6, <2>2, <2>3, <2>4
<1>8. ASSUME MintFor(l.token), nodes' = EnrollNode(nodes, l.peer, Row(lastB + 1)),
             forgotten' = forgotten \ {l.peer}, l.op # "remint",
             Step(h, "enroll", IF l.op = "approve" THEN "resolve" ELSE "create"),
             loc' = [loc EXCEPT ![h].rec.biscuit = lastB + 1]
      PROVE  IInv'
  <2> DEFINE k == [loc[h] EXCEPT !.rec.biscuit = lastB + 1]
  <2>1. lastB' \in 0 .. MaxBiscuits /\ lastB + 1 \in Nat /\ paidBy' \in [1 .. lastB' -> Tokens]
    BY SMTT(60), <1>1, <1>3, <1>8, MintForType
  <2>2. /\ nodes' \in NodesTable /\ forgotten' \subseteq Peers
        /\ \A p \in Peers : Known(p) => Known(p)'
        /\ nodes'[l.peer] # Null
    BY Zenon, <1>5, <1>8, <2>1
  <2>3. k \in Locals /\ k.id = l.id /\ k.op = l.op /\ k.peer = l.peer
    BY <1>3, <2>1, BiscuitHeld
  <2>4. PICK x \in {"resolve", "create"} : pc' = [pc EXCEPT ![h] = x]
    BY Zenon, <1>8 DEF Step
  <2>5. loc' = [loc EXCEPT ![h] = k]
    BY <1>1, <1>3, <1>8 DEF TypeOK
  <2> HIDE DEF k
  <2>6. /\ pc' \in [Handlers -> PC] /\ loc' \in [Handlers -> Locals \cup {Null}]
        /\ pc'[h] = x /\ loc'[h] = k /\ k # Null
        /\ \A g \in Handlers : g # h => UNCHANGED <<pc[g], loc[g]>>
    BY <1>1, <2>3, <2>4, <2>5, NullIsNoRow DEF TypeOK, PC
  <2>7. TypeOK'
    BY SMTT(60), <1>1, <1>2, <2>1, <2>2, <2>6 DEF TypeOK
  <2>8. InFlight(h)'
    BY <1>1, <1>2, <1>8, <2>2, <2>3, <2>6 DEF InFlight, Known
  <2> QED
    BY <1>6, <2>2, <2>6, <2>7, <2>8
<1> QED
  BY <1>7, <1>8 DEF WriteNode

\* A new request has a new id, and is approved only after the node row.
LEMMA CreateRequestIInv ==
    ASSUME IInv, NEW h \in Handlers, CreateRequest(h)
    PROVE  IInv'
<1> DEFINE l == loc[h]
           status == IF AutoApproveEnrollment THEN "APPROVED" ELSE "PENDING"
           r == [id |-> lastReq + 1, token |-> l.token, status |-> status,
                 biscuit |-> l.rec.biscuit, at |-> now]
<1>1. pc[h] = "create" /\ TypeOK /\ InFlight(h) /\ Answer(h)
  BY DEF CreateRequest, IInv
<1>2. UNCHANGED <<now, nodes, usages, revoked, forgotten, lastB, paidBy, gc>>
  BY DEF CreateRequest
<1>3. l \in Locals /\ l.peer \in Peers /\ l.token \in Tokens /\ l.rec \in EnrolledNode
  BY <1>1, ActiveLocals
<1>4. ASSUME UNCHANGED <<requests, lastReq>> PROVE IInv'
  BY <1>1, <1>2, <1>4, AnswerIInv DEF tables, ids
<1>5. ASSUME lastReq < MaxRequests, lastReq' = lastReq + 1,
             requests' = [requests EXCEPT ![l.peer] = r]
      PROVE  IInv'
  <2>1. lastReq \in Nat /\ lastReq' \in 0 .. MaxRequests /\ lastReq + 1 \in Nat
    BY SMTT(60), <1>1, <1>5, EnrollmentAssumption DEF TypeOK
  <2>2. l.rec.biscuit \in Nat /\ now \in Nat /\ status \in {"PENDING", "APPROVED"}
    BY <1>1, <1>3 DEF TypeOK, EnrolledNode
  <2>3. /\ r \in EnrollmentRequest /\ r.id = lastReq + 1
        /\ r.status = "APPROVED" => AutoApproveEnrollment
    BY <1>3, <2>1, <2>2 DEF EnrollmentRequest
  <2> HIDE DEF r
  <2>4. /\ requests' \in [Peers -> EnrollmentRequest \cup {Null}]
        /\ requests'[l.peer] = r /\ \A q \in Peers : q # l.peer => requests'[q] = requests[q]
    BY <1>1, <1>3, <1>5, <2>3 DEF TypeOK
  <2>5. /\ pc' \in [Handlers -> PC] /\ loc' \in [Handlers -> Locals \cup {Null}]
        /\ pc'[h] = "idle" /\ \A g \in Handlers : g # h => UNCHANGED <<pc[g], loc[g]>>
    BY <1>1 DEF Answer, TypeOK, PC
  <2>6. TypeOK'
    BY SMTT(60), <1>1, <1>2, <2>1, <2>4, <2>5 DEF TypeOK
  <2>7. \A p \in Peers : Known(p) = Known(p)'
    BY <1>2 DEF Known
  <2>8. AutoApproveEnrollment => Known(l.peer)
    BY <1>1 DEF InFlight, RowWritten
  <2>9. \A p \in Peers : RequestStep(p)
    BY <1>3, <1>5, <2>1, <2>3, <2>4, <2>7, <2>8 DEF RequestStep
  <2> QED
    BY <1>5, <2>1, <2>5, <2>6, <2>7, <2>9, StepIInv
<1> QED
  BY <1>4, <1>5 DEF CreateRequest

\* A request with another resolution is a request.
LEMMA ResolvedRequest ==
    ASSUME NEW r \in EnrollmentRequest, NEW s \in {"APPROVED", "REJECTED"}, NEW b \in Nat, TypeOK
    PROVE  /\ Resolved(r, s, b) \in EnrollmentRequest
           /\ Resolved(r, s, b).id = r.id /\ Resolved(r, s, b).status = s
<1> DEFINE q == [r EXCEPT !.status = s]
           u == [q EXCEPT !.biscuit = b]
<1>1. now \in Nat
  BY DEF TypeOK
<1>2. q \in EnrollmentRequest /\ q.id = r.id /\ q.status = s
  BY DEF EnrollmentRequest
<1>3. Resolved(r, s, b) = [u EXCEPT !.at = now]
  BY DEF Resolved
<1> HIDE DEF q
<1>4. u \in EnrollmentRequest /\ u.id = r.id /\ u.status = s
  BY SMTT(60), <1>2 DEF EnrollmentRequest
<1> HIDE DEF u
<1> QED
  BY <1>1, <1>3, <1>4 DEF EnrollmentRequest

\* A resolution of the request of p, or none.
LEMMA ResolutionStep ==
    ASSUME TypeOK, NEW p \in Peers, NEW s \in {"APPROVED", "REJECTED"}, NEW b \in Nat,
           NEW ok \in BOOLEAN, ok => requests[p] # Null,
           requests' = IF ok THEN [requests EXCEPT ![p] = Resolved(@, s, b)] ELSE requests
    PROVE  /\ requests' \in [Peers -> EnrollmentRequest \cup {Null}]
           /\ \A q \in Peers : q # p => requests'[q] = requests[q]
           /\ ~ok => requests'[p] = requests[p]
           /\ ok => /\ requests'[p] \in EnrollmentRequest
                    /\ requests'[p].id = requests[p].id
                    /\ requests'[p].status = s
<1>1. CASE ~ok
  BY <1>1 DEF TypeOK
<1>2. CASE ok
  <2>1. requests[p] \in EnrollmentRequest
    BY <1>2 DEF TypeOK
  <2>2. /\ Resolved(requests[p], s, b) \in EnrollmentRequest
        /\ Resolved(requests[p], s, b).id = requests[p].id
        /\ Resolved(requests[p], s, b).status = s
    BY SMTT(60), <2>1, ResolvedRequest
  <2> QED
    BY <1>2, <2>2 DEF TypeOK
<1> QED
  BY <1>1, <1>2

\* The re-mint's UPDATE finds an approved request or none.
LEMMA UpdateRequestIInv ==
    ASSUME IInv, NEW h \in Handlers, UpdateRequest(h)
    PROVE  IInv'
<1> DEFINE l == loc[h]
           k == [loc[h] EXCEPT !.rec.biscuit = lastB + 1]
<1>1. pc[h] = "update" /\ TypeOK /\ InFlight(h) /\ MintFor(l.token)
  BY DEF UpdateRequest, Step, IInv
<1>2. UNCHANGED <<now, nodes, usages, revoked, forgotten, lastReq, gc>>
  BY DEF UpdateRequest
<1>3. l \in Locals /\ l.peer \in Peers /\ l.token \in Tokens /\ l.id \in Nat
  BY <1>1, ActiveLocals
<1>4. lastB' \in 0 .. MaxBiscuits /\ lastB + 1 \in Nat /\ paidBy' \in [1 .. lastB' -> Tokens]
  BY <1>1, <1>3, MintForType
<1>5. k \in Locals /\ k.id = l.id /\ k.op = l.op /\ k.peer = l.peer
  BY <1>3, <1>4, BiscuitHeld
<1>6. loc' = [loc EXCEPT ![h] = k] /\ pc' = [pc EXCEPT ![h] = "enroll"]
  BY <1>1, <1>3 DEF UpdateRequest, Step, TypeOK
<1> HIDE DEF k
<1>7. /\ pc' \in [Handlers -> PC] /\ loc' \in [Handlers -> Locals \cup {Null}]
      /\ pc'[h] = "enroll" /\ loc'[h] = k /\ k # Null
      /\ \A g \in Handlers : g # h => UNCHANGED <<pc[g], loc[g]>>
  BY SMTT(60), <1>1, <1>5, <1>6, NullIsNoRow DEF TypeOK, PC
<1>8. Known(l.peer) /\ l.op = "remint"
  BY SMTT(60), <1>1 DEF InFlight, RowWritten
<1> DEFINE ok == HasRequest(l.peer, l.id)
<1>9. /\ requests' \in [Peers -> EnrollmentRequest \cup {Null}]
      /\ \A q \in Peers : q # l.peer => requests'[q] = requests[q]
      /\ ~ok => requests'[l.peer] = requests[l.peer]
      /\ ok => /\ requests'[l.peer] \in EnrollmentRequest
               /\ requests'[l.peer].id = requests[l.peer].id
               /\ requests'[l.peer].status = "APPROVED"
  <2>1. ok \in BOOLEAN /\ (ok => requests[l.peer] # Null)
    BY DEF HasRequest
  <2>2. requests' = IF ok THEN [requests EXCEPT ![l.peer] = Resolved(@, "APPROVED", lastB + 1)]
                    ELSE requests
    BY SMTT(60) DEF UpdateRequest
  <2> HIDE DEF ok
  <2> QED
    BY ZenonT(60), <1>1, <1>3, <1>4, <2>1, <2>2, ResolutionStep
<1>10. TypeOK'
  BY ZenonT(60), <1>1, <1>2, <1>4, <1>7, <1>9 DEF TypeOK
<1>11. \A p \in Peers : Known(p) = Known(p)'
  BY <1>2 DEF Known
<1>12. ok => requests[l.peer] # Null /\ requests[l.peer].id = l.id
  BY DEF HasRequest
<1>13. \A p \in Peers : RequestStep(p)
  BY Zenon, <1>3, <1>8, <1>9, <1>11, <1>12 DEF RequestStep
<1>14. HasRequest(l.peer, l.id) => requests[l.peer].status = "APPROVED"
  BY SMTT(60), <1>1, <1>8 DEF InFlight
<1>15. requests'[l.peer] # Null /\ requests'[l.peer].id = l.id
          => requests'[l.peer].status = "APPROVED"
  BY SMTT(60), <1>9, <1>14 DEF HasRequest
<1>16. InFlight(h)'
  BY Zenon, <1>1, <1>2, <1>5, <1>7, <1>15 DEF InFlight, RowWritten, HasRequest
<1>17. lastReq <= lastReq'
  BY <1>1, <1>2 DEF TypeOK
<1> QED
  BY <1>7, <1>10, <1>11, <1>13, <1>16, <1>17, StepIInv

\* Resolve changes pending requests only.
LEMMA ResolveRequests ==
    ASSUME IInv, NEW p \in Peers, NEW id \in Nat, NEW s \in {"APPROVED", "REJECTED"},
           NEW b \in Nat, Resolve(p, id, s, b), UNCHANGED <<nodes, forgotten, lastReq>>,
           s = "APPROVED" => Known(p)
    PROVE  /\ requests' \in [Peers -> EnrollmentRequest \cup {Null}]
           /\ \A q \in Peers : RequestStep(q) /\ (Known(q) => Known(q)')
<1> DEFINE ok == HasRequest(p, id) /\ requests[p].status = "PENDING"
<1>1. /\ requests' \in [Peers -> EnrollmentRequest \cup {Null}]
      /\ \A q \in Peers : q # p => requests'[q] = requests[q]
      /\ ~ok => requests'[p] = requests[p]
      /\ ok => /\ requests'[p] \in EnrollmentRequest
               /\ requests'[p].id = requests[p].id
               /\ requests'[p].status = s
  <2>1. ok \in BOOLEAN /\ (ok => requests[p] # Null)
    BY DEF HasRequest
  <2>2. requests' = IF ok THEN [requests EXCEPT ![p] = Resolved(@, s, b)] ELSE requests
    BY DEF Resolve
  <2>3. TypeOK
    BY DEF IInv
  <2> HIDE DEF ok
  <2> QED
    BY ZenonT(60), <2>1, <2>2, <2>3, ResolutionStep
<1>2. \A q \in Peers : Known(q) = Known(q)'
  BY DEF Known
<1>3. ok => requests[p] # Null /\ requests[p].status = "PENDING"
  BY DEF HasRequest
<1> HIDE DEF ok
<1> QED
  BY <1>1, <1>2, <1>3 DEF RequestStep

\* The approval's last step comes after its node row.
LEMMA ResolveApprovedIInv ==
    ASSUME IInv, NEW h \in Handlers, ResolveApproved(h)
    PROVE  IInv'
<1>1. pc[h] = "resolve" /\ TypeOK /\ InFlight(h) /\ Answer(h)
  BY DEF ResolveApproved, IInv
<1>2. UNCHANGED <<now, nodes, usages, revoked, forgotten, ids, gc>>
  BY DEF ResolveApproved
<1>3. loc[h].peer \in Peers /\ loc[h].id \in Nat /\ loc[h].rec \in EnrolledNode
  BY <1>1, ActiveLocals
<1>4. loc[h].rec.biscuit \in Nat
  BY <1>3 DEF EnrolledNode
<1>5. Known(loc[h].peer)
  BY <1>1 DEF InFlight, RowWritten
<1>6. UNCHANGED <<nodes, forgotten, lastReq>>
  BY SMTT(60), <1>2 DEF ids
<1>7. /\ requests' \in [Peers -> EnrollmentRequest \cup {Null}]
      /\ \A q \in Peers : RequestStep(q) /\ (Known(q) => Known(q)')
  <2>1. Resolve(loc[h].peer, loc[h].id, "APPROVED", loc[h].rec.biscuit)
    BY DEF ResolveApproved
  <2> QED
    BY <1>3, <1>4, <1>5, <1>6, <2>1, ResolveRequests
<1>8. /\ pc' \in [Handlers -> PC] /\ loc' \in [Handlers -> Locals \cup {Null}]
      /\ pc'[h] = "idle" /\ \A g \in Handlers : g # h => UNCHANGED <<pc[g], loc[g]>>
  BY <1>1 DEF Answer, TypeOK, PC
<1>9. TypeOK'
  BY <1>1, <1>2, <1>7, <1>8 DEF TypeOK, ids
<1>10. lastReq <= lastReq'
  BY <1>1, <1>6 DEF TypeOK
<1> QED
  BY <1>7, <1>8, <1>9, <1>10, StepIInv

(***************************************************************************)
(* The operator, the sweep and the clock.                                  *)
(***************************************************************************)

\* A rejection approves nothing; revocations and bans touch no request.
LEMMA OperatorIInv ==
    ASSUME IInv, Operator
    PROVE  IInv'
<1>1. ASSUME TypeOK', UNCHANGED <<pc, loc, lastReq>>,
             \A q \in Peers : RequestStep(q) /\ (Known(q) => Known(q)')
      PROVE  IInv'
  <2>1. lastReq <= lastReq'
    BY <1>1 DEF IInv, TypeOK
  <2> QED
    BY <1>1, <2>1, StepIInv
<1>2. ASSUME NEW p \in Peers, Reject(p) PROVE IInv'
  <2>1. requests[p] \in EnrollmentRequest
    BY <1>2 DEF Reject, IInv, TypeOK
  <2>2. requests[p].id \in Nat
    BY SMTT(60), <2>1 DEF EnrollmentRequest
  <2>3. /\ UNCHANGED <<now, nodes, usages, revoked, forgotten, ids, pc, loc, gc>>
        /\ Resolve(p, requests[p].id, "REJECTED", 0)
    BY <1>2 DEF Reject
  <2>4. UNCHANGED <<nodes, forgotten, lastReq>>
    BY <2>3 DEF ids
  <2>5. /\ requests' \in [Peers -> EnrollmentRequest \cup {Null}]
        /\ \A q \in Peers : RequestStep(q) /\ (Known(q) => Known(q)')
    BY <2>2, <2>3, <2>4, ResolveRequests
  <2>6. TypeOK'
    BY <2>3, <2>5 DEF IInv, TypeOK, ids
  <2> QED
    BY <1>1, <2>3, <2>4, <2>5, <2>6
<1>3. ASSUME NEW t \in Tokens, RevokeBootstrapToken(t) PROVE IInv'
  <2>1. TypeOK'
    BY <1>3 DEF RevokeBootstrapToken, IInv, TypeOK, ids
  <2>2. \A q \in Peers : RequestStep(q) /\ (Known(q) => Known(q)')
    BY <1>3 DEF RevokeBootstrapToken, RequestStep, Known
  <2> QED
    BY <1>1, <1>3, <2>1, <2>2 DEF RevokeBootstrapToken, ids
<1>4. ASSUME NEW p \in Peers, NEW ban \in BOOLEAN, SetNodeBan(p, ban) PROVE IInv'
  <2>1. nodes \in NodesTable /\ nodes[p] # Null /\ nodes' = SetNodeBanned(nodes, p, ban)
    BY <1>4 DEF SetNodeBan, IInv, TypeOK
  <2>2. /\ nodes' \in NodesTable /\ nodes'[p] # Null
        /\ \A q \in Peers : q # p => nodes'[q] = nodes[q]
    BY SMTT(60), <2>1, FlagSet
  <2>3. TypeOK'
    BY SMTT(60), <1>4, <2>2 DEF SetNodeBan, IInv, TypeOK, ids
  <2>4. \A q \in Peers : RequestStep(q) /\ (Known(q) => Known(q)')
    BY <1>4, <2>2 DEF SetNodeBan, RequestStep, Known
  <2> QED
    BY SMTT(60), <1>1, <1>4, <2>3, <2>4 DEF SetNodeBan, ids
<1> QED
  BY <1>2, <1>3, <1>4 DEF Operator

\* The sweep remembers in forgotten the rows it deletes, and only deletes
\* requests.
LEMMA SweepIInv ==
    ASSUME IInv, Sweep
    PROVE  IInv'
<1> DEFINE GC == [stmt: {"nodes", "ephemeralNodes", "requests", "ephemeralRequests"}, at: Nat]
<1>1. now \in Nat /\ gc \in GC /\ nodes \in NodesTable /\ forgotten \subseteq Peers
      /\ requests \in [Peers -> EnrollmentRequest \cup {Null}]
  BY DEF IInv, TypeOK
<1>2. gc.at \in Nat /\ gc.stmt \in {"nodes", "ephemeralNodes", "requests", "ephemeralRequests"}
  BY <1>1
<1>3. \A x \in {"nodes", "ephemeralNodes", "requests", "ephemeralRequests"} :
         [gc EXCEPT !.stmt = x] \in GC
  BY <1>1
<1>4. UNCHANGED <<now, usages, revoked, ids, pc, loc>>
  BY Zenon DEF Sweep, SweepSilent, SweepEphemeral, SweepRequests, SweepFails, SweepStops, SweepNodes,
         tables
<1>5. ASSUME gc' \in GC, nodes' \in NodesTable, forgotten' \subseteq Peers,
             requests' \in [Peers -> EnrollmentRequest \cup {Null}],
             \A p \in Peers : requests'[p] \in {requests[p], Null},
             \A p \in Peers : Known(p) => Known(p)'
      PROVE  IInv'
  <2>1. TypeOK'
    BY <1>4, <1>5 DEF IInv, TypeOK, ids
  <2>2. \A p \in Peers : RequestStep(p)
    BY <1>5 DEF RequestStep
  <2>3. lastReq <= lastReq' /\ UNCHANGED <<pc, loc>>
    BY <1>4 DEF IInv, TypeOK, ids
  <2> QED
    BY <1>5, <2>1, <2>2, <2>3, StepIInv
<1>6. ASSUME NEW rows \in NodesTable, NEW next \in GC, SweepNodes(rows, next) PROVE IInv'
  <2>1. \A p \in Peers : Known(p) => Known(p)'
    BY <1>6 DEF SweepNodes, Known
  <2> QED
    BY <1>1, <1>5, <1>6, <2>1 DEF SweepNodes
<1>7. CASE SweepSilent
  <2>1. DeleteSilentBootstrapNodes(nodes, FALSE, now - NodeRetention) \in NodesTable
    <3>1. now - NodeRetention \in Int
      BY <1>1, NodeStoreAssumption
    <3> QED
      BY Zenon, <1>1, <3>1, DeletesSpareBanned
  <2>2. [stmt |-> "ephemeralNodes", at |-> now] \in GC
    BY <1>1
  <2> QED
    BY Zenon, <1>6, <1>7, <2>1, <2>2 DEF SweepSilent
<1>8. CASE SweepEphemeral
  <2>1. DeleteSilentBootstrapNodes(nodes, TRUE, gc.at - EphemeralNodeRetention) \in NodesTable
    <3>1. gc.at - EphemeralNodeRetention \in Int
      BY <1>2, NodeStoreAssumption
    <3> QED
      BY Zenon, <1>1, <3>1, DeletesSpareBanned
  <2> QED
    BY Zenon, <1>3, <1>6, <1>8, <2>1 DEF SweepEphemeral
<1>9. ASSUME NEW before, NEW toks, requests' = DeleteStaleRequests(before, toks),
             gc' \in GC, UNCHANGED <<nodes, forgotten>>
      PROVE  IInv'
  <2>1. /\ requests' \in [Peers -> EnrollmentRequest \cup {Null}]
        /\ \A p \in Peers : requests'[p] \in {requests[p], Null}
    BY <1>1, <1>9 DEF DeleteStaleRequests
  <2>2. \A p \in Peers : Known(p) => Known(p)'
    BY <1>9 DEF Known
  <2> QED
    BY <1>1, <1>5, <1>9, <2>1, <2>2
<1>10. CASE SweepRequests
  <2>1. [stmt |-> "nodes", at |-> 0] \in GC
    OBVIOUS
  <2>2. UNCHANGED <<nodes, forgotten>>
    BY <1>10 DEF SweepRequests
  <2> QED
    BY <1>3, <1>9, <1>10, <2>1, <2>2 DEF SweepRequests
<1>11. CASE SweepFails \/ SweepStops
  <2>1. gc' \in GC
    <3>1. \A t \in Nat : [stmt |-> "requests", at |-> t] \in GC /\ [stmt |-> "nodes", at |-> 0] \in GC
      OBVIOUS
    <3>2. (IF gc.stmt = "nodes" THEN now ELSE gc.at) \in Nat
      BY <1>1, <1>2
    <3> QED
      BY <1>11, <3>1, <3>2 DEF SweepFails, SweepStops
  <2>2. UNCHANGED <<nodes, requests, forgotten>>
    BY <1>11 DEF SweepFails, SweepStops, tables
  <2>3. \A p \in Peers : Known(p) => Known(p)'
    BY <2>2 DEF Known
  <2> QED
    BY <1>1, <1>5, <2>1, <2>2, <2>3
<1> QED
  BY <1>7, <1>8, <1>10, <1>11 DEF Sweep

\* The clock touches no row.
LEMMA TickIInv ==
    ASSUME IInv, Tick \/ UNCHANGED vars
    PROVE  IInv'
<1>1. UNCHANGED <<tables, ids, pc, loc, gc>> /\ now' \in 1 .. MaxTime
  BY EnrollmentAssumption DEF Tick, vars, tables, ids, IInv, TypeOK
<1>2. TypeOK' /\ lastReq <= lastReq'
  BY <1>1 DEF IInv, TypeOK, tables, ids
<1>3. \A p \in Peers : RequestStep(p) /\ (Known(p) => Known(p)')
  BY <1>1 DEF RequestStep, Known, tables
<1> QED
  BY <1>1, <1>2, <1>3, StepIInv

\* Each handler step preserves the invariant.
LEMMA HandleIInv ==
    ASSUME IInv, NEW h \in Handlers, Handle(h)
    PROVE  IInv'
  BY EnrollCheckIInv, CheckIInv, EnrollLookupIInv, RemintReadIInv, ApproveReadIInv,
     ConsumeIInv, WriteNodeIInv, CreateRequestIInv, UpdateRequestIInv, ResolveApprovedIInv, AnswerIInv
     DEF Handle, Abort

\* Every step preserves the invariant.
LEMMA NextIInv == IInv /\ [Next]_vars => IInv'
  BY HandleIInv, OperatorIInv, SweepIInv, TickIInv DEF Next

\* The invariant holds in every reachable state.
LEMMA Inductive == Spec => []IInv
  BY InitIInv, NextIInv, PTL DEF Spec

(***************************************************************************)
(* The theorems.                                                           *)
(***************************************************************************)

\* The tables and the handlers' locals keep their types; in particular no
\* token is used more often than max_usages.
THEOREM TypeCorrect == Spec => []TypeOK
<1>1. IInv => TypeOK
  BY DEF IInv
<1> QED
  BY <1>1, Inductive, PTL

\* An approved request has a node row behind it until the sweep forgets the
\* member, for any interleaving of enrollments, approvals, re-mints and errors.
THEOREM ApprovedHasNodeHolds == Spec => []ApprovedHasNode
<1>1. IInv => ApprovedHasNode
  BY DEF IInv
<1> QED
  BY <1>1, Inductive, PTL

\* A resolution is final, also against approvals and re-mints that read the
\* request before it was resolved.
THEOREM ResolutionIsFinalHolds == Spec => ResolutionIsFinal
<1> DEFINE Final ==
      \A p \in Peers :
         requests[p] # Null /\ requests[p].status # "PENDING" /\ requests'[p] # Null
         /\ requests'[p].id = requests[p].id
            => requests'[p].status = requests[p].status
<1>1. ASSUME IInv, Next PROVE Final
  <2>1. TypeOK /\ requests \in [Peers -> EnrollmentRequest \cup {Null}] /\ lastReq \in Nat
    BY SMTT(60), <1>1 DEF IInv, TypeOK
  <2>2. ASSUME \A p \in Peers : requests'[p] \in {requests[p], Null} PROVE Final
    BY Zenon, <2>2
  <2>3. ASSUME NEW p \in Peers, NEW id, NEW s, NEW b, Resolve(p, id, s, b) PROVE Final
    BY SMTT(60), <2>1, <2>3 DEF Resolve
  <2>4. ASSUME NEW h \in Handlers, CreateRequest(h) PROVE Final
    <3>1. loc[h].peer \in Peers
      BY SMTT(60), <2>1, <2>4, ActiveLocals DEF CreateRequest
    <3> QED
      BY SMTT(60), <2>1, <2>4, <3>1 DEF CreateRequest
  <2>5. ASSUME NEW h \in Handlers, UpdateRequest(h) PROVE Final
    <3> DEFINE l == loc[h]
               ok == HasRequest(l.peer, l.id)
    <3>1. pc[h] = "update" /\ InFlight(h)
      BY <1>1, <2>5 DEF UpdateRequest, Step, IInv
    <3>2. l.peer \in Peers /\ l.id \in Nat /\ l.token \in Tokens
      BY <2>1, <3>1, ActiveLocals
    <3>3. lastB + 1 \in Nat
      BY <2>1 DEF TypeOK
    <3>4. ok \in BOOLEAN /\ (ok => requests[l.peer] # Null)
      BY DEF HasRequest
    <3>5. requests' = IF ok THEN [requests EXCEPT ![l.peer] = Resolved(@, "APPROVED", lastB + 1)]
                      ELSE requests
      BY SMTT(60), <2>5 DEF UpdateRequest
    <3>6. ok => requests[l.peer].status = "APPROVED"
      BY SMTT(60), <3>1 DEF InFlight
    <3> HIDE DEF ok
    <3>7. /\ \A q \in Peers : q # l.peer => requests'[q] = requests[q]
          /\ ~ok => requests'[l.peer] = requests[l.peer]
          /\ ok => requests'[l.peer].status = "APPROVED"
      BY ZenonT(60), <2>1, <3>2, <3>3, <3>4, <3>5, ResolutionStep
    <3> QED
      BY <3>6, <3>7
  <2>6. ASSUME NEW h \in Handlers, Handle(h) PROVE Final
    <3>1. CASE CreateRequest(h)
      BY <2>4, <3>1
    <3>2. CASE UpdateRequest(h)
      BY SMTT(60), <2>5, <3>2
    <3>3. CASE ResolveApproved(h)
      <4>1. loc[h].peer \in Peers
        BY <2>1, <3>3, ActiveLocals DEF ResolveApproved
      <4> QED
        BY <2>3, <3>3, <4>1 DEF ResolveApproved
    <3>4. CASE UNCHANGED requests
      BY SMTT(60), <2>2, <3>4
    <3> QED
      BY ZenonT(60), <2>6, <3>1, <3>2, <3>3, <3>4
         DEF Handle, EnrollCheck, EnrollBanCheck, EnrollLookup, RemintRead, ApproveRead,
             ApproveCheck, Consume, WriteNode, Abort, tables
  <2>7. CASE Operator
    <3>1. CASE UNCHANGED requests
      BY <2>2, <3>1
    <3> QED
      BY <2>3, <2>7, <3>1 DEF Operator, Reject, RevokeBootstrapToken, SetNodeBan
  <2>8. CASE Sweep
    BY Zenon, <2>1, <2>2, <2>8
       DEF Sweep, SweepSilent, SweepEphemeral, SweepRequests, SweepFails, SweepStops, SweepNodes,
           DeleteStaleRequests, tables
  <2>9. CASE Tick
    BY <2>2, <2>9 DEF Tick, tables
  <2> HIDE DEF Final
  <2> QED
    BY SMTT(60), <1>1, <2>6, <2>7, <2>8, <2>9 DEF Next
<1>2. IInv /\ [Next]_vars => [Final]_vars
  BY <1>1
<1> QED
  BY <1>2, Inductive, PTL DEF Spec, ResolutionIsFinal
=============================================================================
