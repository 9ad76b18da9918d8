------------------------------ MODULE MCReceive ------------------------------
(***************************************************************************)
(* ReceiveParser for TLC: fields of two bytes, so that a length can be cut *)
(* in the middle, and a packet of every kind the parser tells apart.       *)
(***************************************************************************)
EXTENDS ReceiveParser

P(len, hash, cmd, payload) ==
    [bodyLen |-> len, hash |-> hash, cmd |-> cmd, payloadLen |-> payload]

MCPackets ==
    {P(8, 7, 5, 0),     \* a command without a payload
     P(18, 7, 5, 10),   \* the longest command
     P(8, 7, 6, 0),     \* the failure that ends the session
     P(1, 0, 0, 0),     \* too short for a hash
     P(2, 3, 0, 0),     \* not a command
     P(3, 7, 0, 0),     \* a header cut short
     P(8, 7, 5, 1),     \* lengths that disagree
     P(19, 7, 5, 11)}   \* longer than the server accepts
=============================================================================
