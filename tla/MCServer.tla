------------------------------ MODULE MCServer ------------------------------
(* Instances of SidebandServer for TLC. *)
EXTENDS SidebandServer

R(c, g) == [cmd |-> c, good |-> g]

\* Authorisation: one client that sends anything.
MCAuthRequests ==
    {R(AUTH_REQ, TRUE), R(AUTH_REQ, FALSE), R(AUDIO_MUTE_SET, FALSE),
     R(DISPLAY_SCALE_SET, FALSE), R(DISPLAY_LIST_REQ, FALSE), R(HEARTBEAT, FALSE), R(20, FALSE)}

\* Every broadcaster may be of either kind.
MCFrameCases == SUBSET Broadcasters

MCAuthQuota == [c \in Clients |-> 3]

\* Membership: requests matter little, and one client of two sends one.
MCFewRequests == {R(AUTH_REQ, FALSE)}
MCFewQuota == [c \in Clients |-> IF c = CHOOSE d \in Clients : TRUE THEN 1 ELSE 0]
=============================================================================
