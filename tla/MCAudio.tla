------------------------------- MODULE MCAudio -------------------------------
(***************************************************************************)
(* AudioModule for TLC.                                                    *)
(***************************************************************************)
EXTENDS AudioModule

CONSTANTS d1, low

\* Outputs are interchangeable, so one default output stands for the others; all
\* start with one level, and differ once somebody has changed one.
OneStart == Init /\ role["eConsole"] = d1 /\ \A d \in Devices : level[d] = low

OneStartSpec == OneStart /\ [][Next]_vars /\ Fairness
=============================================================================
