----------------------------- MODULE MCApprovals -----------------------------
(* Small instances of Approvals. *)
EXTENDS Approvals, TLC

CONSTANTS a1, a2, u1, u2, u3, r1, r2, r3, r4

(* a1 was asked for by u1, a2 by somebody unknown. *)
AskedByU1 == [a \in Approvals |-> IF a = a1 THEN u1 ELSE NoUser]

(* Requests are interchangeable, and an inode named after one goes with it. *)
Interchangeable == Permutations(Writers)

(* So are the two users who asked for nothing. *)
InterchangeableUsers == Permutations(Writers) \cup Permutations({u2, u3})
=============================================================================
