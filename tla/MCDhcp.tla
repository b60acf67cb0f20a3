------------------------------- MODULE MCDhcp -------------------------------
(***************************************************************************)
(* Small instance of the DHCP server for TLC.                              *)
(***************************************************************************)
EXTENDS DhcpServer
=============================================================================
