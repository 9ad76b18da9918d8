---------------------------- MODULE PacketChannel ----------------------------
(***************************************************************************)
(* What a session's send path promises its callers: while the session is   *)
(* up, the stream grows by whole packets, each accepted once, behind those *)
(* accepted before it; what has been delivered is a beginning of it.  When *)
(* the session goes down nothing more is promised.                         *)
(***************************************************************************)
EXTENDS Naturals, Sequences

CONSTANTS
    Packets,    \* what callers may send
    Whole       \* the bytes of each packet

VARIABLES
    up,         \* the session is connected
    chan,       \* the bytes of the packets accepted so far, in order
    arrived     \* how many of them have been delivered

vars == <<up, chan, arrived>>

Init == up = TRUE /\ chan = <<>> /\ arrived = 0

\* A packet no byte of which is in the stream yet joins it whole.
Accept(p) ==
    /\ \A k \in 1..Len(chan) : chan[k] # Whole[p][1]
    /\ chan' = chan \o Whole[p]

\* At most one packet is accepted; some of the accepted bytes are delivered.
Transfer ==
    /\ up /\ up'
    /\ chan' = chan \/ \E p \in Packets : Accept(p)
    /\ arrived' \in arrived..Len(chan')

Break == up /\ ~up' /\ chan' = <<>> /\ arrived' = 0

Next == Transfer \/ Break

Spec == Init /\ [][Next]_vars

=============================================================================
