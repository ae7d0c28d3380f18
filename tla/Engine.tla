------------------------------- MODULE Engine -------------------------------
(***************************************************************************)
(* The control plane of one tunnel engine (src/core/ipv8-tunnel/src/       *)
(* engine.rs), as operators on the engine's record: its handshake state    *)
(* machine and the handing over of its keys to the flow shards.            *)
(*                                                                         *)
(* An ephemeral key pair is a value of its own, an X25519 agreement the    *)
(* pair of ephemerals it was made from.  A certificate is valid or not; a  *)
(* handshake signature covers what transcript() covers, so a Resp carries  *)
(* the Init's ephemeral it was signed over ("bound", absent in plaintext). *)
(***************************************************************************)
CONSTANTS
  Auth,  \* TRUE: Engine::authenticated, FALSE: Engine::new
  None   \* Option::None

ASSUME ModeAssumption == Auth \in BOOLEAN

(* TunnelKeys::new(shared, is_initiator), with its counters at zero. *)
NewKeys(own, peer, initiator) == [dh |-> {own, peer}, initiator |-> initiator]

(* Engine::new, Engine::authenticated. *)
EngineNew ==
  [state |-> "Idle",        \* Responding is declared and never assigned
   pending |-> None,        \* our ephemeral: pending or auth_pending
   keys |-> None,
   bound_init |-> None,     \* the ephemeral of the Init last accepted
   cached_resp |-> None,    \* the Resp made for it
   sharded |-> FALSE,       \* the data plane is with the flow shards
   auth_failed |-> FALSE]   \* last_auth_error is set

InitFrame(self, eph) == [type |-> "init", from |-> self, eph |-> eph]
RespFrame(self, eph, init) ==
  [type |-> "resp", from |-> self, eph |-> eph, bound |-> IF Auth THEN init ELSE None]

-----------------------------------------------------------------------------
(* start_handshake and start_auth_handshake; they assert the state is Idle. *)
StartHandshake(g, eph) == [g EXCEPT !.pending = eph, !.state = "Initiating"]

(* abandon_handshake: an unanswered attempt is dropped with its ephemeral. *)
AbandonHandshake(g) ==
  IF g.state = "Initiating"
    THEN [g EXCEPT !.pending = None, !.bound_init = None, !.cached_resp = None,
                   !.state = "Idle"]
    ELSE g

(* reset tears down everything but the sharded flag. *)
Reset(g) ==
  [g EXCEPT !.state = "Idle", !.pending = None, !.keys = None,
            !.bound_init = None, !.cached_resp = None]

-----------------------------------------------------------------------------
(* handle_frame_at on HandshakeInit and AuthInit. *)

(* The same Init again: the cached Resp is sent again and nothing changes. *)
IsBoundInit(g, m) == g.state = "Established" /\ g.bound_init = m.eph

(* A new Init, or a renegotiation; while Initiating every Init is ignored. *)
ConsidersInit(g, m) == g.state \in {"Idle", "Established"} /\ ~IsBoundInit(g, m)

(* Mutant of AcceptInit: the sharded flag outlives the renegotiation. *)
AcceptInitSharded(g, self, m, eph) ==
  [g EXCEPT !.keys = NewKeys(eph, m.eph, FALSE), !.state = "Established",
            !.bound_init = m.eph, !.cached_resp = RespFrame(self, eph, m.eph)]

AcceptInit(g, self, m, eph) ==
  [g EXCEPT !.keys = NewKeys(eph, m.eph, FALSE),
            !.sharded = FALSE,
            !.state = "Established",
            !.bound_init = m.eph,
            !.cached_resp = RespFrame(self, eph, m.eph),
            !.auth_failed = IF Auth THEN FALSE ELSE @]

RefuseInit(g) == [g EXCEPT !.auth_failed = TRUE]

-----------------------------------------------------------------------------
(* handle_frame_at on HandshakeResp and AuthResp: pending is taken first. *)

AwaitsResp(g) == g.state = "Initiating" /\ g.pending # None

(* Mutant of BindsOurInit: the signature does not cover our ephemeral. *)
BindsAnyInit(g, m) == TRUE

(* auth_finish_init's signature check, over our ephemeral; none in plaintext. *)
BindsOurInit(g, m) == Auth => m.bound = g.pending

FinishInit(g, m) ==
  [g EXCEPT !.keys = NewKeys(g.pending, m.eph, TRUE),
            !.pending = None,
            !.sharded = FALSE,
            !.state = "Established",
            !.auth_failed = IF Auth THEN FALSE ELSE @]

RefuseResp(g) ==
  [g EXCEPT !.pending = None, !.state = "Idle",
            !.auth_failed = IF Auth THEN TRUE ELSE @]

-----------------------------------------------------------------------------
(* split_shards: the keys go to the shards, the engine keeps none. *)
CanSplit(g) == g.state = "Established" /\ g.keys # None /\ ~g.sharded

(* Mutant of SplitShards: the engine keeps a copy of the keys. *)
SplitKeepingKeys(g) == [g EXCEPT !.sharded = TRUE]

SplitShards(g) == [g EXCEPT !.keys = None, !.sharded = TRUE]
=============================================================================
