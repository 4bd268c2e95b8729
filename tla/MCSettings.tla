----------------------------- MODULE MCSettings -----------------------------
(* A list and a plain setting. *)
EXTENDS Settings
=============================================================================
