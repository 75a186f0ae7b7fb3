---------------------------- MODULE MCMembership ----------------------------
(***************************************************************************)
(* Instances of Membership for TLC: two devices of one person.             *)
(***************************************************************************)
EXTENDS Membership, TLC

CONSTANT alice

MCIdentityOf == [p \in Peers |-> alice]

\* Peers with the same way in are alike (one identity), and so are handlers.
MembershipSymmetry ==
    Permutations(BootstrapPeers) \cup Permutations(Peers \ BootstrapPeers)
        \cup Permutations(Handlers)
=============================================================================
