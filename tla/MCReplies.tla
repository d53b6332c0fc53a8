------------------------------ MODULE MCReplies ------------------------------
(***************************************************************************)
(* Two questions and what is said to be done of them, alone.               *)
(***************************************************************************)
EXTENDS Replies

Spec == Init /\ [][Next]_vars
=============================================================================
