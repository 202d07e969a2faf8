---------------------------- MODULE MCHostDeadMan ----------------------------
(* Two tabs of the host, two handlers at once. *)
EXTENDS HostDeadMan
=============================================================================
