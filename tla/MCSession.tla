------------------------------ MODULE MCSession ------------------------------
(***************************************************************************)
(* SidebandSession for TLC.  The kernel buffer takes one byte, so every    *)
(* full cursor packet and every command can be torn; a short packet is one *)
(* byte and cannot.                                                        *)
(***************************************************************************)
EXTENDS SidebandSession

MCLenOf == [k \in Kinds |-> IF k \in {"full", "cmd"} THEN 2 ELSE 1]
=============================================================================
