------------------------------ MODULE MCLiveStore ------------------------------
(* Small stores for LiveStore.                                              *)
EXTENDS LiveStore

MCHash == 11..12    \* apart from the pack names
MCPackId == 1..3
MCDelta == [h \in MCHash |-> IF h = 12 THEN {11} ELSE {}]
=============================================================================
