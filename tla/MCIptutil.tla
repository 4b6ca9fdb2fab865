------------------------------- MODULE MCIptutil -------------------------------
(* Two starts of the adapter and a program that removes its rules.         *)
EXTENDS Iptutil, TLC

CONSTANTS s1, s2, o1

MCStarts == {s1, s2}
MCOthers == {o1}
StartSymmetry == Permutations(MCStarts)
================================================================================
