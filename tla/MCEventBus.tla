----------------------------- MODULE MCEventBus -----------------------------
(***************************************************************************)
(* A small device for EventBus: the shell's coalescing subscription, which *)
(* evicts the oldest as every shipped subscriber does, and an audit        *)
(* subscriber that keeps the oldest, as tests/test_bus.c has it.  The      *)
(* network task publishes what the bridge receives, the system task a      *)
(* payload-free snapshot and the overflow reports.                         *)
(***************************************************************************)
EXTENDS EventBus

CONSTANTS shell, audit, net, sys, b1, b2,
          heap, partial, token, overflow

MCSubs == {shell, audit}
MCTasks == {net, sys}
MCTypes == {heap, partial, token, overflow}
MCPublishes == [t \in MCTasks |-> IF t = net THEN {partial, token} ELSE {heap}]
MCAccepts == [s \in MCSubs |->
                IF s = shell THEN {heap, partial, token} ELSE {token, overflow}]
MCDepth == [s \in MCSubs |-> IF s = shell THEN 2 ELSE 1]
MCPolicy == [s \in MCSubs |-> IF s = audit THEN "DROP_NEWEST" ELSE "DROP_OLDEST"]
=============================================================================
