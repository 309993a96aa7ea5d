--------------------------- MODULE MCClientCalls ---------------------------
(* ClientCalls on small instances.                                            *)
EXTENDS ClientCalls
=============================================================================
