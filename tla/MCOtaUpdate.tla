---------------------------- MODULE MCOtaUpdate ----------------------------
(* OtaUpdate for TLC: a firmware of two blocks and one of a single block.  *)
EXTENDS OtaUpdate, TLC

MCSize == ("f1" :> 2) @@ ("f2" :> 1) @@ ("f3" :> 1)
=============================================================================
