--------------------------- MODULE MCNotifications ---------------------------
(* Notifications with an action of each outcome. *)
EXTENDS Notifications

MCActions ==
  {[ID |-> TRUE, Type |-> "open-page", known |-> TRUE],
   [ID |-> TRUE, Type |-> "open-profile", known |-> FALSE],
   [ID |-> TRUE, Type |-> "unknown", known |-> FALSE],
   [ID |-> FALSE, Type |-> "", known |-> FALSE]}
=============================================================================
