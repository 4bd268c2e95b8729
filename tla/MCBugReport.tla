---------------------------- MODULE MCBugReport ----------------------------
(* Two reports may be written, and two flows started. *)
EXTENDS BugReport

CONSTANTS crash, leak
=============================================================================
