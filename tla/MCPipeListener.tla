----------------------------- MODULE MCPipeListener -----------------------------
(* A small instance of PipeListener: enough dialers to fill the buffer and *)
(* park one, two acceptors to race for what is in it, two calls of Close.  *)
EXTENDS PipeListener

CONSTANTS a1, a2, d1, d2, d3, k1, k2

MCAcceptors == {a1, a2}
MCDialers == {d1, d2, d3}
MCClosers == {k1, k2}
MCCap == 1
===============================================================================
