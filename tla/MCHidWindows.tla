---------------------------- MODULE MCHidWindows ----------------------------
(***************************************************************************)
(* The instance of HidWindows that TLC checks.                             *)
(***************************************************************************)
EXTENDS HidWindows, TLC
=============================================================================
