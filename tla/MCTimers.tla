------------------------------ MODULE MCTimers ------------------------------
(* The timers on a 32-bit counter, and beside them the counter of 16 bits: *)
(* a behaviour is one of either, as Init picks.                            *)
EXTENDS Timers, Timer16

VARIABLE part

Erases == {5, 13}

PartsInit == /\ Init /\ T16Init /\ part \in {"timers", "timer16"}
             /\ part = "timer16" => now = 0 /\ app_valid

PartsNext == /\ \/ part = "timers" /\ Next /\ UNCHANGED tvars
                \/ part = "timer16" /\ T16Next /\ UNCHANGED vars
             /\ UNCHANGED part

PartsSpec == PartsInit /\ [][PartsNext]_<<vars, tvars, part>>
=============================================================================
