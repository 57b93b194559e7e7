---------------------------- MODULE MCHttpClient ----------------------------
(* HttpClient for TLC.  The header of TOKEN fills the send buffer exactly,   *)
(* the others straddle it; a range is 3 bytes of a file of 7.               *)
EXTENDS HttpClient

MCPieces == [FETCH |-> <<2, 3, 1>>, TOKEN |-> <<2, 1, 1>>, PUBLISH |-> <<1, 6, 2>>,
             AUTH |-> <<3, 2, 1>>, UPLOAD |-> <<2, 3, 2>>]
=============================================================================
