------------------------------ MODULE MCPPoll ------------------------------
(* ppoll models: signals blocked or not, a signalfd and another descriptor. *)
EXTENDS PPoll
=============================================================================
