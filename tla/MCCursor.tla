------------------------------- MODULE MCCursor -------------------------------
(* CursorWorker for TLC: the large pointers at the large tier hash to 0. *)
EXTENDS CursorWorker

MCHashOf == [i \in Images |-> IF i[2] = 2 /\ i[3] = 2 THEN 0
                              ELSE 100 * i[1] + 10 * i[2] + i[3]]
MCFirstImage == <<1, 1, 1>>

=============================================================================
