--------------------------- MODULE MCSwitchSocket ---------------------------
(* Instance of SwitchSocket for TLC. *)
EXTENDS SwitchSocket
=============================================================================
