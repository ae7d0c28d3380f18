---------------------------- MODULE MCTunnelKeys ----------------------------
(* Instances of TunnelKeys for TLC; each configuration names its bounds.    *)
EXTENDS TunnelKeys
=============================================================================
