--------------------------- MODULE MCNotifications ---------------------------
(***************************************************************************)
(* Notifications with interchangeable incidents, devices and channels.     *)
(***************************************************************************)
EXTENDS Notifications, TLC

Symmetry == Permutations(Incidents) \cup Permutations(Tokens) \cup Permutations(Channels)
=============================================================================
