---------------------------- MODULE MCHandshake -----------------------------
EXTENDS Handshake, TLC

\* two hosts configured for each other, and a third that believes "a" is its peer
TrioPeers == ("a" :> "b") @@ ("b" :> "a") @@ ("c" :> "a")
=============================================================================
