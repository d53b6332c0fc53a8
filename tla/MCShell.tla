------------------------------- MODULE MCShell -------------------------------
(* An app that needs the daemon, a game, and settings, which leads to Wi-Fi. *)
EXTENDS Shell

MCApps == {"agent", "snake", "settings", "wifi"}
MCOpens == [a \in MCApps |-> IF a = "settings" THEN {"wifi"} ELSE {}]
=============================================================================
