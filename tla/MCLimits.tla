------------------------------ MODULE MCLimits ------------------------------
(***************************************************************************)
(* Small instances of the limits.                                          *)
(***************************************************************************)
EXTENDS LimitsSafety, TLC

CONSTANTS auth

Bursts == auth :> 4
Rates  == auth :> 1
=============================================================================
