--------------------------- MODULE MCServerLoopLive ---------------------------
(* Instances of ServerLoopLive, which is checked against ClientTable, too. *)
EXTENDS ServerLoopLive, MCServerLoop
=============================================================================
