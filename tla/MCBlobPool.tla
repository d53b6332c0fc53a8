----------------------------- MODULE MCBlobPool -----------------------------
(* Two small blocks and a large one, three references, one sweeping task.   *)
EXTENDS BlobPool

CONSTANTS s1, s2, l1
MCBlobs == {s1, s2, l1}
MCClassOf == [b \in MCBlobs |-> IF b = l1 THEN "large" ELSE "small"]
=============================================================================
