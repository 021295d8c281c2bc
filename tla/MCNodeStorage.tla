--------------------------- MODULE MCNodeStorage ---------------------------
(* NodeStorage with two leaders whose logs part after the first entry. *)
EXTENDS NodeStorage

CONSTANTS c1, c2, c3, c4, c5

Entry(t, k, command) == [term |-> t, index |-> k, cmd |-> command]

\* The first leader commits one entry at most; what it sent beyond is cut off.
TwoLeaders ==
    1 :> <<Entry(1, 1, c1), Entry(1, 2, c2), Entry(1, 3, c3)>> @@
    2 :> <<Entry(1, 1, c1), Entry(2, 2, NoOp), Entry(2, 3, c4), Entry(2, 4, c5)>>
============================================================================
