--------------------------- MODULE ServerRefinement ---------------------------
(***************************************************************************)
(* The refinement mapping from the server's loop to its clients' table.  A *)
(* session is established when the loop notes that its handshake is over,  *)
(* and an address is served while the loop may use its client pointer.     *)
(***************************************************************************)
EXTENDS ServerLoop

Of(a) == CHOOSE p \in Found(a) : TRUE

Status == [a \in Addresses |-> IF Found(a) = {} THEN "absent"
                               ELSE IF session[Of(a)].handshake_complete THEN "established"
                               ELSE "opening"]
Quiet   == [a \in Addresses |-> IF Found(a) = {} THEN 0 ELSE session[Of(a)].idle]
Serving == IF UsesClient THEN {session[client].addr} ELSE {}
Mode    == IF pc \in {"shutdown", "stopped"} THEN "closing"
           ELSE IF g_running THEN "running" ELSE "told"

Table == INSTANCE ClientTable WITH
    status <- Status, quiet <- Quiet, serving <- Serving, mode <- Mode

\* KeepsTable: the server's loop implements the clients' table: whatever the
\* clients send and whichever calls fail, a session is opened, refreshed,
\* established and ended only while a datagram of its own address is handled,
\* or lost to its silence or to the shutdown.
KeepsTable == Table!Spec
=============================================================================
