------------------------------ MODULE Fallback ------------------------------
(***************************************************************************)
(* FallbackManager as its hosts drive it (ipv8-node's main loop and the    *)
(* gRPC bridge): ask for a path, try it, report the outcome, while the     *)
(* resolver may answer again and time passes.                              *)
(***************************************************************************)
EXTENDS FallbackPeer

CONSTANTS
  Resolutions,  \* the Resolved values the resolver may return
  MaxResolves,  \* bound: resolver answers in a model run
  NoPath        \* no attempt is under way

ASSUME ResolutionsAssumption ==
  \A r \in Resolutions :
    /\ DOMAIN r = {"tunnel_entry", "alt_entries", "ipv8_capable", "last_good"}
    /\ r.alt_entries \in Seq(Range(r.alt_entries)) /\ r.ipv8_capable \in BOOLEAN

VARIABLES
  peer,      \* the peer's PeerState
  path,      \* the path of the attempt under way
  resolves,  \* how often the resolver has answered
  spent      \* spent[e]: failed attempts on e since the cascade last began

vars == <<peer, path, resolves, spent>>

Entries(r) == {r.tunnel_entry} \cup Range(r.alt_entries)
AllEntries == {NoEntry} \cup UNION {Entries(r) : r \in Resolutions}
NothingSpent == [e \in AllEntries |-> 0]

Init ==
  /\ peer = PeerNew
  /\ path = NoPath
  /\ resolves = 0
  /\ spent = NothingSpent

(* A resolver answer ends the attempt under way. *)
Resolve(r) ==
  /\ resolves < MaxResolves
  /\ peer' = NoteResolved(peer, r)
  /\ path' = NoPath
  /\ resolves' = resolves + 1
  /\ spent' = NothingSpent

AskPath ==
  /\ resolves > 0
  /\ peer' = NextPathState(peer)
  /\ path' = NextPath(peer)
  /\ spent' = IF DegradationOver(peer) THEN NothingSpent ELSE spent
  /\ UNCHANGED resolves

Fail(failure) ==
  /\ path # NoPath
  /\ peer' = RecordFailure(peer, failure)
  /\ path' = NoPath
  /\ spent' = [spent EXCEPT ![path.entry] =
       IF failure = "FirstPacketTimeout" THEN MaxRetries + 1
       ELSE IF @ > MaxRetries THEN @ ELSE @ + 1]
  /\ UNCHANGED resolves

(* The tunnel stays up: a FirstPacketTimeout may still follow. *)
Succeed ==
  /\ path # NoPath
  /\ peer' = RecordSuccess(peer, path)
  /\ spent' = IF path.kind = "Tunnel" THEN NothingSpent ELSE spent
  /\ UNCHANGED <<path, resolves>>

Tick ==
  /\ peer' = Age(peer)
  /\ UNCHANGED <<path, resolves, spent>>

Failures == {"HandshakeTimeout", "FirstPacketTimeout", "LevelFailed"}

Next ==
  \/ \E r \in Resolutions : Resolve(r)
  \/ AskPath
  \/ \E f \in Failures : Fail(f)
  \/ Succeed
  \/ Tick

(* The hosts poll on a ticker, and clocks advance. *)
Spec == Init /\ [][Next]_vars /\ WF_vars(AskPath) /\ WF_vars(Tick)

-----------------------------------------------------------------------------
(* Properties. *)

Levels == TunnelLevels \cup PlainLevels
Stamps == {NotDegraded} \cup (0 .. DegradationTtl)
LastGood == AllEntries \cup {r.last_good : r \in Resolutions}

PeerStates ==
  [tunnel_entry : AllEntries, alt_entries : Seq(AllEntries), ipv8_capable : BOOLEAN,
   last_good : LastGood, level : Levels, failures : 0 .. MaxRetries,
   alt_idx : Nat \ {0}, degraded : Stamps]

\* The shape of the peer's state: a degradation stamp exists only in plaintext,
\* and a backup entry is tried only while the list has it.
TypeOK ==
  /\ peer \in PeerStates
  /\ peer.level \in TunnelLevels => peer.degraded = NotDegraded
  /\ peer.level = "AltTunnel" => peer.alt_idx <= Len(peer.alt_entries)
  /\ spent \in [AllEntries -> 0 .. MaxRetries + 1]

\* "Each entry has its own retry budget; only when every entry is exhausted
\* does the peer degrade to plaintext": a capable peer is in plaintext only
\* once each entry the manager still holds has used its whole budget in this
\* cascade, and no entry is asked for once it has.
PlainOnlyWhenExhausted ==
  /\ peer.ipv8_capable /\ peer.level \in PlainLevels
       => \A e \in Entries(peer) : spent[e] = MaxRetries + 1
  /\ peer.level \in TunnelLevels /\ resolves > 0
       => spent[CurrentEntry(peer)] <= MaxRetries

\* The degradation cache expires: a peer in plaintext is offered the tunnel
\* again, whatever its plaintext attempts report.
TunnelRetried ==
  peer.level \in PlainLevels ~> (path # NoPath /\ path.kind = "Tunnel")

\* "ipv8_capable = false: straight to PlainTcp, no tunnel attempt".
IncapableNeverTunnelled ==
  path # NoPath /\ path.kind = "Tunnel" => peer.ipv8_capable
=============================================================================
