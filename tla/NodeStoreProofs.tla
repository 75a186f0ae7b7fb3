-------------------------- MODULE NodeStoreProofs --------------------------
(***************************************************************************)
(* What the statements on the nodes table do to its rows.                  *)
(***************************************************************************)
EXTENDS NodeStore, TLAPS

\* What EnrollNode writes is a row, and the banned column is the old one's.
LEMMA EnrollNodeRow ==
    ASSUME NEW t \in NodesTable, NEW p \in Peers, NEW n \in EnrolledNode
    PROVE  /\ EnrollNode(t, p, n) \in NodesTable
           /\ \A q \in Peers : q # p => EnrollNode(t, p, n)[q] = t[q]
           /\ EnrollNode(t, p, n)[p] \in EnrolledNode
           /\ EnrollNode(t, p, n)[p].biscuit = n.biscuit
           /\ EnrollNode(t, p, n)[p].type = n.type
           /\ EnrollNode(t, p, n)[p].identity = n.identity
           /\ EnrollNode(t, p, n)[p].banned = IsNodeBanned(t, p)
  <1>1. IsNodeBanned(t, p) \in BOOLEAN
    BY DEF IsNodeBanned
  <1> DEFINE m == [n EXCEPT !.banned = IsNodeBanned(t, p)]
  <1>2. /\ m \in EnrolledNode
        /\ m.biscuit = n.biscuit /\ m.type = n.type /\ m.identity = n.identity
        /\ m.banned = IsNodeBanned(t, p)
    BY <1>1 DEF EnrolledNode
  <1>3. EnrollNode(t, p, n) = [t EXCEPT ![p] = m]
    BY DEF EnrollNode
  <1> HIDE DEF m
  <1> QED
    BY <1>2, <1>3 DEF NodesTable

\* Every sweep statement keeps a row as it is or deletes it, and keeps banned
\* ones.
LEMMA DeletesSpareBanned ==
    ASSUME NEW t \in NodesTable, NEW before \in Int, NEW e \in BOOLEAN
    PROVE  \A r \in {DeleteExpiredNodes(t, before), DeleteSilentBootstrapNodes(t, e, before)} :
              /\ r \in NodesTable
              /\ \A p \in Peers : r[p] \in {t[p], Null}
              /\ \A p \in Peers : IsNodeBanned(t, p) => r[p] = t[p]
  BY DEF DeleteExpiredNodes, DeleteSilentBootstrapNodes, DeleteWhere, NodesTable, IsNodeBanned

\* A record with another biscuit and another time is a record.
LEMMA RewrittenRow ==
    ASSUME NEW n \in EnrolledNode, NEW b \in Nat, NEW t \in Nat
    PROVE  LET m == [n EXCEPT !.biscuit = b, !.enrolledAt = t] IN
           m \in EnrolledNode /\ m.biscuit = b
<1> DEFINE k == [n EXCEPT !.biscuit = b]
<1>1. k \in EnrolledNode /\ k.biscuit = b
  BY DEF EnrolledNode
<1> HIDE DEF k
<1>2. [k EXCEPT !.enrolledAt = t] \in EnrolledNode /\ [k EXCEPT !.enrolledAt = t].biscuit = b
  BY <1>1 DEF EnrolledNode
<1> QED
  BY <1>2 DEF k

\* Setting a flag of a row leaves its biscuit, its type and its identity.
LEMMA FlagSet ==
    ASSUME NEW t \in NodesTable, NEW p \in Peers, NEW b \in BOOLEAN, t[p] # Null
    PROVE  \A u \in {SetNodeBanned(t, p, b), SetNodeAutonomousRecovery(t, p, b)} :
              /\ u \in NodesTable
              /\ \A q \in Peers : q # p => u[q] = t[q]
              /\ u[p] # Null /\ u[p].biscuit = t[p].biscuit
              /\ u[p].type = t[p].type /\ u[p].identity = t[p].identity
<1>1. t[p] \in EnrolledNode
  BY DEF NodesTable
<1> DEFINE m == [t[p] EXCEPT !.banned = b]
           n == [t[p] EXCEPT !.autonomousRecovery = b]
<1>2. /\ m \in EnrolledNode /\ m.biscuit = t[p].biscuit
      /\ m.type = t[p].type /\ m.identity = t[p].identity
  BY <1>1 DEF EnrolledNode
<1>3. /\ n \in EnrolledNode /\ n.biscuit = t[p].biscuit
      /\ n.type = t[p].type /\ n.identity = t[p].identity
  BY <1>1 DEF EnrolledNode
<1>4. /\ SetNodeBanned(t, p, b) = [t EXCEPT ![p] = m]
      /\ SetNodeAutonomousRecovery(t, p, b) = [t EXCEPT ![p] = n]
  BY DEF SetNodeBanned, SetNodeAutonomousRecovery, NodesTable
<1> HIDE DEF m, n
<1>5. m # Null /\ n # Null
  BY <1>2, <1>3, NullAssumption
<1> QED
  BY <1>2, <1>3, <1>4, <1>5 DEF NodesTable
=============================================================================
