------------------------------- MODULE MCStore -------------------------------
(* A number and a text, with values inside and on both sides of what their *)
(* entries in the table declare.                                           *)
EXTENDS Store

MCKeys == {"volume", "device_name"}
MCKeyOrder == <<"volume", "device_name">>
MCLo == [k \in MCKeys |-> 1]
MCHi == [k \in MCKeys |-> IF k = "volume" THEN 2 ELSE 1]
MCDefault == [k \in MCKeys |-> IF k = "volume" THEN 2 ELSE 1]
=============================================================================
