----------------------------- MODULE MCMesario ------------------------------
(***************************************************************************)
(* Small instance of the phone and the machine for TLC.                    *)
(***************************************************************************)
EXTENDS Mesario
=============================================================================
