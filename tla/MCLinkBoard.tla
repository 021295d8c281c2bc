---------------------------- MODULE MCLinkBoard ----------------------------
(* LinkBoard for two requests at a time, two users, an address and a tag. *)
EXTENDS LinkBoard

CONSTANTS r1, r2, u1, u2, e1, t1

Symmetry == Permutations(Slot) \cup Permutations(User)
============================================================================
