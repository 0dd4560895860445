---------------------------- MODULE MCReconnect ----------------------------
(* A small instance of Reconnect for TLC: the constants are in the .cfg. *)
EXTENDS Reconnect

=============================================================================
