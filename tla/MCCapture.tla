----------------------------- MODULE MCCapture ------------------------------
(* Times in units of 60 ms: arming takes two frames of one unit or more, and  *)
(* a frame is two.  The clock's wrap is far above every time that is told     *)
(* apart.                                                                     *)
EXTENDS Capture

MCKindOf == [a \in TalkApps |-> IF a = "agent" THEN "question" ELSE "note"]
=============================================================================
