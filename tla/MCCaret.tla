------------------------------- MODULE MCCaret -------------------------------
(* Four places under two layouts: the top edge of a monitor, next to the     *)
(* sentinel -1, and three places one threshold apart.                        *)
EXTENDS CaretMonitor

Heights == [one |-> [top |-> 0, mid |-> 4, next |-> 5, last |-> 6],
            two |-> [top |-> 5, mid |-> 6, next |-> 0, last |-> 1]]
MCStateOf == [l \in {"one", "two"} |-> Heights[l]]
=============================================================================
