---------------------------- MODULE MCServerExpiry ----------------------------
(* Instances of ServerLoop with the clock of ServerExpiry. *)
EXTENDS ServerExpiry, MCServerLoop
=============================================================================
