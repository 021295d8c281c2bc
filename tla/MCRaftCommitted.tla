-------------------------- MODULE MCRaftCommitted --------------------------
(* RaftCommitted on a small instance, with the symmetry and the view of MCRaft. *)
EXTENDS RaftCommitted, MCRaft

ViewCommitted == <<View, chosen>>
============================================================================
