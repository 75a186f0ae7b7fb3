----------------------------- MODULE NodeStore -----------------------------
(***************************************************************************)
(* The nodes table of the control plane (internal/storage): what each SQL  *)
(* statement does to the rows, as operators on a function from peers to    *)
(* rows.  A statement or transaction is one step wherever these are used.  *)
(***************************************************************************)
EXTENDS Integers

CONSTANTS
    Peers,                  \* peer ids: the keys of the table
    Identities,             \* "issuer|subject" keys an identity ban names
    Null,                   \* no row, no request
    NoIdentity,             \* the empty identity
    NodeRetention,          \* Options.NodeRetention
    EphemeralNodeRetention  \* Options.EphemeralNodeRetention

ASSUME NodeStoreAssumption ==
    /\ NoIdentity \notin Identities
    /\ NodeRetention \in Nat \ {0}
    /\ EphemeralNodeRetention \in Nat \ {0}

\* storage.EnrolledNode.  A biscuit is its serial number; identity is the one
\* vouching for the node: its OIDC claims', or its owner's when a bootstrap
\* token enrolled it.  expiresAt = 0 is the zero time: no session to expire.
EnrolledNode == [biscuit: Nat, type: {"OIDC", "BOOTSTRAP"},
                 identity: Identities \cup {NoIdentity},
                 expiresAt: Nat, enrolledAt: Nat, banned: BOOLEAN,
                 autonomousRecovery: BOOLEAN, ephemeral: BOOLEAN]

ASSUME NullAssumption == Null \notin EnrolledNode

NodesTable == [Peers -> EnrolledNode \cup {Null}]

IsNodeBanned(nodes, p) == nodes[p] # Null /\ nodes[p].banned

SessionExpired(n, t) == n.expiresAt # 0 /\ t > n.expiresAt

\* Mutant: the update writes the banned column too.
EnrollNodeOverwrites(nodes, p, n) == [nodes EXCEPT ![p] = [n EXCEPT !.banned = FALSE]]

\* INSERT ... ON CONFLICT DO UPDATE of every column but banned, which a new
\* row starts with FALSE.
EnrollNode(nodes, p, n) ==
    [nodes EXCEPT ![p] = [n EXCEPT !.banned = IsNodeBanned(nodes, p)]]

SetNodeBanned(nodes, p, b) == [nodes EXCEPT ![p].banned = b]

SetNodeAutonomousRecovery(nodes, p, b) == [nodes EXCEPT ![p].autonomousRecovery = b]

\* The rows a DELETE keeps.
DeleteWhere(nodes, Condition(_)) ==
    [p \in Peers |-> IF nodes[p] # Null /\ Condition(nodes[p]) THEN Null ELSE nodes[p]]

DeleteExpiredNodes(nodes, before) ==
    DeleteWhere(nodes, LAMBDA n : ~n.banned /\ n.expiresAt > 0 /\ n.expiresAt < before)

\* One of the two statements of DeleteSilentBootstrapNodes.
DeleteSilentBootstrapNodes(nodes, ephemeral, before) ==
    DeleteWhere(nodes, LAMBDA n : /\ ~n.banned
                                  /\ n.expiresAt = 0
                                  /\ n.ephemeral = ephemeral
                                  /\ n.enrolledAt < before)
=============================================================================
