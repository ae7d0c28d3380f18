---------------------------- MODULE FallbackPeer ----------------------------
(***************************************************************************)
(* The degradation state FallbackManager keeps for one peer                *)
(* (src/core/ipv8-tunnel/src/fallback.rs), as operators on that record.    *)
(* Peers do not affect each other.  degraded_at is kept as the age of the  *)
(* degradation, which stops counting at the TTL: that is all the code      *)
(* compares it with.                                                       *)
(***************************************************************************)
EXTENDS Naturals, Sequences, SequencesExt

CONSTANTS
  MaxRetries,      \* max_retries, 2 in the code
  DegradationTtl,  \* degradation_cache_ttl
  NoEntry,         \* Option::None, and the empty entry of unwrap_or_default
  NotDegraded      \* degraded_at = None

ASSUME FallbackAssumption ==
  MaxRetries \in Nat /\ DegradationTtl \in Nat \ {0} /\ NotDegraded \notin Nat

TunnelLevels == {"MainTunnel", "AltTunnel"}
PlainLevels == {"PlainTcp", "PlainUdp"}

Tunnel(entry) == [kind |-> "Tunnel", entry |-> entry]
Plain(level) == [kind |-> level, entry |-> NoEntry]

(* peer_mut: a peer never heard of. *)
PeerNew ==
  [tunnel_entry |-> NoEntry, alt_entries |-> <<>>, ipv8_capable |-> FALSE,
   last_good |-> NoEntry, level |-> "MainTunnel", failures |-> 0, alt_idx |-> 1,
   degraded |-> NotDegraded]

(* Mutant of FromTheTop: the degradation stamp stays. *)
StampedTop(s) == [s EXCEPT !.level = "MainTunnel", !.failures = 0, !.alt_idx = 1]

(* Back to the first entry: after a resolution and when the TTL runs out. *)
FromTheTop(s) ==
  [s EXCEPT !.level = "MainTunnel", !.failures = 0, !.alt_idx = 1,
            !.degraded = NotDegraded]

NoteResolved(s, r) ==
  LET known == [s EXCEPT !.tunnel_entry = r.tunnel_entry,
                         !.alt_entries = r.alt_entries,
                         !.ipv8_capable = r.ipv8_capable,
                         !.last_good = r.last_good]
  IN IF r.ipv8_capable
       THEN FromTheTop(known)
       ELSE [known EXCEPT !.level = "PlainTcp", !.degraded = NotDegraded]

-----------------------------------------------------------------------------
(* next_path: the state it leaves, and the path it answers. *)

DegradationOver(s) == s.level \in PlainLevels /\ s.degraded = DegradationTtl

(* Mutant of NextPathState: the TTL is never looked at. *)
StaysDegraded(s) ==
  IF s.level \in PlainLevels /\ s.degraded = NotDegraded
    THEN [s EXCEPT !.degraded = 0] ELSE s

NextPathState(s) ==
  CASE DegradationOver(s) -> FromTheTop(s)
    [] s.level \in PlainLevels /\ s.degraded = NotDegraded ->
         [s EXCEPT !.degraded = 0]
    [] OTHER -> s

(* The entry the current level stands for; an index past the end is clamped. *)
CurrentEntry(s) ==
  IF s.level = "MainTunnel" THEN s.tunnel_entry
  ELSE IF s.alt_entries = <<>> THEN NoEntry
  ELSE s.alt_entries[IF s.alt_idx > Len(s.alt_entries)
                       THEN Len(s.alt_entries) ELSE s.alt_idx]

NextPath(s) ==
  LET t == NextPathState(s)
  IN IF t.level \in PlainLevels THEN Plain(t.level) ELSE Tunnel(CurrentEntry(t))

-----------------------------------------------------------------------------
(* record_failure: retry the entry, else the next one, else plaintext. *)

RetriesEntry(s, failure) ==
  failure # "FirstPacketTimeout" /\ s.failures + 1 <= MaxRetries

(* Mutant of NextAlt: the first backup is skipped. *)
SkippingNextAlt(s) == s.alt_idx + 1

NextAlt(s) == IF s.level = "MainTunnel" THEN 1 ELSE s.alt_idx + 1

RecordFailure(s, failure) ==
  CASE s.level = "PlainTcp" -> [s EXCEPT !.level = "PlainUdp"]
    [] s.level = "PlainUdp" -> s
    [] s.level \in TunnelLevels /\ RetriesEntry(s, failure) ->
         [s EXCEPT !.failures = @ + 1]
    [] s.level \in TunnelLevels /\ ~RetriesEntry(s, failure)
         /\ NextAlt(s) <= Len(s.alt_entries) ->
         [s EXCEPT !.failures = 0, !.alt_idx = NextAlt(s), !.level = "AltTunnel"]
    [] OTHER ->
         [s EXCEPT !.failures = 0, !.alt_idx = 1, !.level = "PlainTcp",
                   !.degraded = 0]

(* record_success: a backup entry that worked replaces the main one. *)
Promotes(s, entry) ==
  s.tunnel_entry # entry /\ entry \in Range(s.alt_entries)

RecordSuccess(s, path) ==
  IF path.kind # "Tunnel" THEN s
  ELSE [s EXCEPT
          !.level = "MainTunnel", !.failures = 0, !.degraded = NotDegraded,
          !.last_good = path.entry,
          !.tunnel_entry = IF Promotes(s, path.entry) THEN path.entry ELSE @,
          !.alt_entries = IF Promotes(s, path.entry)
                            THEN RemoveFirst(@, path.entry) ELSE @]

(* The clock that now - degraded_at reads. *)
Age(s) ==
  IF s.degraded \in 0 .. DegradationTtl - 1 THEN [s EXCEPT !.degraded = @ + 1] ELSE s
=============================================================================
