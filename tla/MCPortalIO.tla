----------------------------- MODULE MCPortalIO -----------------------------
(***************************************************************************)
(* The instances of PortalIO that TLC checks.                              *)
(***************************************************************************)
EXTENDS PortalIO, TLC

\* The blocks of the headers of the two data areas, alike at first.
MCOriginal == [p \in Places |-> "old"]
=============================================================================
