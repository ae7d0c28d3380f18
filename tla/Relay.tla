------------------------------- MODULE Relay --------------------------------
(***************************************************************************)
(* Relay failover, src/core/ipv8-tunnel/src/relay_failover.rs: health checks *)
(* of several relays, the choice of the active one, and the debounced return *)
(* to the primary.  Relays are numbered by priority, 1 is the primary.       *)
(***************************************************************************)
EXTENDS Integers, FiniteSets, FiniteSetsExt

CONSTANTS
  Relays,              \* number of relays
  FailThreshold, RecoverThreshold, RecoverDebounce, CheckInterval,   \* FailoverConfig
  Latencies,           \* measured latencies
  MaxRelayTime

ASSUME RelayAssumption ==
  /\ {Relays, FailThreshold, RecoverThreshold} \subseteq Nat \ {0}
  /\ {RecoverDebounce, CheckInterval} \subseteq Nat
  /\ Latencies \subseteq Nat /\ \E m \in Latencies : \A l \in Latencies : m >= l

VARIABLES
  relay,        \* relay[i]: the RelayNode
  active_idx, primary_recovered_at,
  relayNow,
  relayFell     \* history: were all relays unhealthy when the active one last fell

relayVars == <<relay, active_idx, primary_recovered_at, relayNow, relayFell>>

NoTime == -1
NoLatency == 1 + Max(Latencies)     \* sorts last, as u64::MAX does

RelayInit ==
  /\ relay = [i \in 1..Relays |-> [latency |-> NoLatency, last_check |-> NoTime,
                                   fail_count |-> 0, streak |-> 0, healthy |-> TRUE]]
  /\ active_idx = 1 /\ primary_recovered_at = NoTime
  /\ relayNow = 0 /\ relayFell = FALSE

NeedsCheck(i) == relay[i].last_check = NoTime \/ relayNow - relay[i].last_check >= CheckInterval

(* switch_to_best: the healthy relay of least latency, the first of equals *)
Best(rs) ==
  LET up == {i \in 1..Relays : rs[i].healthy}
      least == Min({rs[i].latency : i \in up})
  IN IF up = {} THEN active_idx ELSE Min({i \in up : rs[i].latency = least})

(* record_check with an answer *)
CheckSucceeds(i, lat) ==
  LET r == relay[i]
      streak == Min({r.streak + 1, RecoverThreshold})      \* saturates above the threshold
      up == ~r.healthy /\ streak >= RecoverThreshold
      back == /\ r.healthy /\ i = 1 /\ active_idx # 1 /\ primary_recovered_at # NoTime
              /\ relayNow - primary_recovered_at >= RecoverDebounce
  IN /\ NeedsCheck(i)
     /\ relay' = [relay EXCEPT ![i] = [latency |-> lat, last_check |-> relayNow, fail_count |-> 0,
                                       streak |-> streak, healthy |-> r.healthy \/ up]]
     /\ active_idx' = IF back THEN 1 ELSE active_idx
     /\ primary_recovered_at' = IF up /\ i = 1 THEN relayNow ELSE primary_recovered_at
     /\ relayFell' = (relayFell /\ ~back)
     /\ UNCHANGED relayNow

(* Mutant of CheckFails: only the primary's fall makes the manager switch. *)
CheckFailsPrimary(i) ==
  LET r == relay[i]
      fails == Min({r.fail_count + 1, FailThreshold})
      down == r.healthy /\ fails >= FailThreshold
      rs == [relay EXCEPT ![i] = [latency |-> r.latency, last_check |-> relayNow, fail_count |-> fails,
                                    streak |-> 0, healthy |-> r.healthy /\ ~down]]
  IN /\ NeedsCheck(i)
     /\ relay' = rs
     /\ active_idx' = IF down /\ i = 1 THEN Best(rs) ELSE active_idx
     /\ relayFell' = IF down /\ i = active_idx THEN \A j \in 1..Relays : ~rs[j].healthy ELSE relayFell
     /\ UNCHANGED <<primary_recovered_at, relayNow>>

(* record_check without one *)
CheckFails(i) ==
  LET r == relay[i]
      fails == Min({r.fail_count + 1, FailThreshold})
      down == r.healthy /\ fails >= FailThreshold
      rs == [relay EXCEPT ![i] = [latency |-> r.latency, last_check |-> relayNow, fail_count |-> fails,
                                    streak |-> 0, healthy |-> r.healthy /\ ~down]]
  IN /\ NeedsCheck(i)
     /\ relay' = rs
     /\ active_idx' = IF down /\ i = active_idx THEN Best(rs) ELSE active_idx
     /\ relayFell' = IF down /\ i = active_idx THEN \A j \in 1..Relays : ~rs[j].healthy ELSE relayFell
     /\ UNCHANGED <<primary_recovered_at, relayNow>>

RelayTick ==
  /\ relayNow < MaxRelayTime /\ relayNow' = relayNow + 1
  /\ UNCHANGED <<relay, active_idx, primary_recovered_at, relayFell>>

RelayNext ==
  \/ \E i \in 1..Relays : CheckFails(i) \/ \E l \in Latencies : CheckSucceeds(i, l)
  \/ RelayTick

RelaySpec == RelayInit /\ [][RelayNext]_relayVars

-----------------------------------------------------------------------------
RelayTypeOK == active_idx \in 1..Relays /\ primary_recovered_at <= relayNow

(* "主中继不健康时，切到延迟最低的备用中继": traffic stays on an unhealthy relay only   *)
(* when no relay at all was healthy at the moment the active one fell.  (Then it  *)
(* stays there, also after a backup is healthy again: nothing but the primary's   *)
(* return or another fall moves it.)                                              *)
StuckOnlyAfterBlackout == ~relay[active_idx].healthy => relayFell
=============================================================================
