---------------------------- MODULE MCEnrollment ----------------------------
(* Small instances of Enrollment: every token alike. *)
EXTENDS Enrollment, TLC

CONSTANTS Usages, Expiry

MCMaxUsages == [t \in Tokens |-> Usages]
MCTokenExpiry == [t \in Tokens |-> Expiry]

EnrollmentSymmetry ==
    Permutations(Handlers) \cup Permutations(Peers)
=============================================================================
