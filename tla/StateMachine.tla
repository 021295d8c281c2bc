--------------------------- MODULE StateMachine ---------------------------
(***************************************************************************)
(* What one server's state machine promises: its state is the effect of a  *)
(* prefix of the commands the cluster committed, each once and in order,   *)
(* and what a snapshot saved is never lost again.                          *)
(***************************************************************************)
EXTENDS Naturals, Sequences

CONSTANT Commands      \* the committed commands, in order

VARIABLES data,        \* the commands the state is the effect of
          saved        \* how many of them the snapshot on disk covers

vars == <<data, saved>>

Prefix(n) == SubSeq(Commands, 1, n)
Counts == 0..Len(Commands)

Init == data = <<>> /\ saved = 0

\* One more command takes effect.
Apply ==
    /\ \E n \in Counts : data = Prefix(n) /\ n + 1 \in Counts /\ data' = Prefix(n + 1)
    /\ UNCHANGED saved

\* A snapshot, the server's own or a leader's, is saved.
Save ==
    /\ saved' \in Counts
    /\ saved' >= saved
    /\ UNCHANGED data

\* The state of the saved snapshot takes the place of an older one.
Install ==
    /\ saved >= Len(data)
    /\ data' = Prefix(saved)
    /\ UNCHANGED saved

\* A restart falls back to what is on disk, the snapshot and some commands more.
Restart ==
    /\ \E n \in saved..Len(Commands) : data' = Prefix(n)
    /\ Len(data') <= (IF Len(data) > saved THEN Len(data) ELSE saved)
    /\ UNCHANGED saved

Next == Apply \/ Save \/ Install \/ Restart

Spec == Init /\ [][Next]_vars
============================================================================
