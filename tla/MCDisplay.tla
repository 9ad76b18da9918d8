------------------------------ MODULE MCDisplay ------------------------------
(* Instances of DisplaySwitch for TLC: two targets of one source, and a     *)
(* third display on another adapter whose target has the id of the first.   *)
EXTENDS DisplaySwitch, TLC

MCDisplays == {"A#1", "A#2", "B#1"}
MCGdi == ("A#1" :> "A") @@ ("A#2" :> "A") @@ ("B#1" :> "B")
MCTarget == ("A#1" :> 1) @@ ("A#2" :> 2) @@ ("B#1" :> 1)
MCDefaults == {[k \in Kinds |-> v] : v \in Values}
=============================================================================
