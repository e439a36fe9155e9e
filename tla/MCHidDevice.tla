---------------------------- MODULE MCHidDevice ----------------------------
(***************************************************************************)
(* The instances of HidDevice that TLC checks.                             *)
(***************************************************************************)
EXTENDS HidDevice, TLC
=============================================================================
