-------------------------------- MODULE MCFleet --------------------------------
(* Small instances of Fleet for TLC: every project has a group of its own,  *)
(* but for the last, which shares that of the first.                        *)
EXTENDS Fleet

MCGroup   == 1..N
MCGroupOf == [p \in 1..N |-> IF p = N THEN 1 ELSE p]
=============================================================================
