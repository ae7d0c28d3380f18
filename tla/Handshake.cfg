CONSTANTS
  Auth = TRUE
  None = None
  Hosts = {"a", "b", "c"}
  PeerAddr <- TrioPeers
  MaxEph = 2
SPECIFICATION Spec
INVARIANTS SendKeysFresh KeysAgree
