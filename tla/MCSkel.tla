-------------------------------- MODULE MCSkel --------------------------------
(* A small instance of Skel: versions 0.3.1, 0.4.0 and 1.0.0 are supported; a *)
(* configuration may also declare one between them and a later one.        *)
EXTENDS Skel
================================================================================
