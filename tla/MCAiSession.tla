----------------------------- MODULE MCAiSession -----------------------------
(* A small instance of AiSession for TLC, and plausible bugs in its code. *)
EXTENDS AiSession
=============================================================================
