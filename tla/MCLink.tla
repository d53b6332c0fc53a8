------------------------------ MODULE MCLink -------------------------------
(* Two connections, so that a stale one can stand beside a new one; two codes, *)
(* so that an older one can be told from the one on screen.                    *)
EXTENDS Link
=============================================================================
