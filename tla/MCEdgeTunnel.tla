----------------------------- MODULE MCEdgeTunnel -----------------------------
(* Small instances of EdgeTunnel: this node, "edge", and one other.        *)
EXTENDS EdgeTunnel

ThreeConfigs == << {"relay"}, {"edge"}, {"relay"} >>
TwoConfigs == << {"edge"}, {"relay"} >>
================================================================================
