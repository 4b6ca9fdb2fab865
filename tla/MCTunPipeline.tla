------------------------------ MODULE MCTunPipeline ------------------------------
(* A small instance of TunPipeline: a header with and without a payload    *)
(* cell, and a slice that a frame can be cut off at the end of.            *)
EXTENDS TunPipeline

MCSizes == {2, 3, 4}
===============================================================================
