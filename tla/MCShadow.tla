------------------------------ MODULE MCShadow ------------------------------
(* Shadow for TLC.  The two requests are strings: liveness is checked too, so *)
(* there is no symmetry.                                                     *)
EXTENDS Shadow
=============================================================================
