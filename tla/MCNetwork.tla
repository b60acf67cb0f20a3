----------------------------- MODULE MCNetwork ------------------------------
(***************************************************************************)
(* Small instance of the machine's TCP for TLC.                            *)
(***************************************************************************)
EXTENDS UrnaNetwork
=============================================================================
