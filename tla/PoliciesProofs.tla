--------------------------- MODULE PoliciesProofs ---------------------------
(***************************************************************************)
(* Theorems about the components that decide: the relay failover, the      *)
(* abuse guard, neighbour discovery, the verdict hook bus, observation.    *)
(***************************************************************************)
EXTENDS Relay, Abuse, Neighbours, Hook, Observe, NatLemmas,
        FiniteSetTheorems, SequenceTheorems

-----------------------------------------------------------------------------
(* Relay failover. *)

RelayNodes == [latency : Nat, last_check : Int, fail_count : Int, streak : Int, healthy : BOOLEAN]

RelayInv ==
  /\ relay \in [1..Relays -> RelayNodes] /\ active_idx \in 1..Relays
  /\ relayNow \in Int /\ relayFell \in BOOLEAN
  /\ StuckOnlyAfterBlackout

LEMMA RelayConstants ==
  /\ Relays \in Nat /\ Relays >= 1 /\ FailThreshold \in Nat /\ RecoverThreshold \in Nat
  /\ Latencies \subseteq Nat /\ NoLatency \in Nat
<1>1. PICK m \in Latencies : \A l \in Latencies : m >= l
  BY RelayAssumption
<1>2. Max(Latencies) \in Latencies
  BY <1>1 DEF Max
<1>3. /\ Relays \in Nat /\ Relays # 0 /\ FailThreshold \in Nat /\ RecoverThreshold \in Nat
      /\ Latencies \subseteq Nat
  BY RelayAssumption
<1>4. Max(Latencies) \in Nat
  BY <1>2, <1>3
<1>. QED BY <1>3, <1>4 DEF NoLatency

\* The lesser of two integers, as the saturating counters use it.
LEMMA MinOfTwo ==
  ASSUME NEW a \in Int, NEW b \in Int
  PROVE  Min({a, b}) = IF a <= b THEN a ELSE b
<1>1. \E x \in {a, b} : \A y \in {a, b} : x <= y
  OBVIOUS
<1>2. Min({a, b}) \in {a, b} /\ \A y \in {a, b} : Min({a, b}) <= y
  BY <1>1 DEF Min
<1>. QED BY <1>2

\* switch_to_best picks a healthy relay when there is one.
LEMMA BestIsHealthy ==
  ASSUME NEW rs \in [1..Relays -> RelayNodes], NEW h \in 1..Relays, rs[h].healthy
  PROVE  Best(rs) \in 1..Relays /\ rs[Best(rs)].healthy
<1>. DEFINE up == {i \in 1..Relays : rs[i].healthy}
            lat == {rs[i].latency : i \in up}
            quick == {i \in up : rs[i].latency = Min(lat)}
<1>1. h \in up
  OBVIOUS
<1>2. lat \in SUBSET Nat /\ lat # {}
  <2>1. \A i \in 1..Relays : rs[i].latency \in Nat
    BY DEF RelayNodes
  <2>. QED BY <1>1, <2>1
<1>3. Min(lat) \in lat
  BY <1>2, MinOfNats
<1>4. quick \in SUBSET Nat /\ quick # {}
  <2>1. PICK i \in up : Min(lat) = rs[i].latency
    BY <1>3
  <2>2. 1..Relays \subseteq Nat
    BY RelayConstants
  <2>. QED BY <2>1, <2>2
<1>5. Min(quick) \in quick
  BY <1>4, MinOfNats
<1>6. Best(rs) = Min(quick)
  BY <1>1 DEF Best
<1>. QED BY <1>5, <1>6

LEMMA RelayInitInv == RelayInit => RelayInv
<1>. SUFFICES ASSUME RelayInit PROVE RelayInv
  OBVIOUS
<1>. DEFINE new == [latency |-> NoLatency, last_check |-> NoTime, fail_count |-> 0, streak |-> 0,
                    healthy |-> TRUE]
<1>1. new \in RelayNodes /\ new.healthy
  BY RelayConstants DEF RelayNodes, NoTime
<1>2. relay = [i \in 1..Relays |-> new] /\ active_idx = 1 /\ relayNow = 0 /\ relayFell = FALSE
  BY DEF RelayInit
<1>. HIDE DEF new
<1>3. relay \in [1..Relays -> RelayNodes] /\ active_idx \in 1..Relays /\ relay[active_idx].healthy
  BY <1>1, <1>2, RelayConstants
<1>4. relayNow \in Int
  BY <1>2
<1>5. relayFell \in BOOLEAN
  BY <1>2, Zenon
<1>6. StuckOnlyAfterBlackout
  BY <1>3, Zenon DEF StuckOnlyAfterBlackout
<1>. QED BY <1>3, <1>4, <1>5, <1>6 DEF RelayInv

LEMMA CheckSucceedsPreserves ==
  ASSUME RelayInv, NEW i \in 1..Relays, NEW lat \in Latencies, CheckSucceeds(i, lat)
  PROVE  RelayInv'
<1>. DEFINE r == relay[i]
            streak == Min({r.streak + 1, RecoverThreshold})
            up == ~r.healthy /\ streak >= RecoverThreshold
            back == /\ r.healthy /\ i = 1 /\ active_idx # 1 /\ primary_recovered_at # NoTime
                    /\ relayNow - primary_recovered_at >= RecoverDebounce
            new == [latency |-> lat, last_check |-> relayNow, fail_count |-> 0,
                    streak |-> streak, healthy |-> r.healthy \/ up]
<1>1. r \in RelayNodes /\ streak \in Int
  <2>1. r \in RelayNodes
    BY DEF RelayInv
  <2>2. r.streak + 1 \in Int /\ RecoverThreshold \in Int
    BY <2>1, RelayConstants DEF RelayNodes
  <2>. QED BY <2>1, <2>2, MinOfTwo
<1>2. /\ relay' = [relay EXCEPT ![i] = new]
      /\ active_idx' = IF back THEN 1 ELSE active_idx
      /\ relayFell' = (relayFell /\ ~back) /\ relayNow' = relayNow
  BY DEF CheckSucceeds
<1>3. new \in RelayNodes /\ (r.healthy => new.healthy)
  BY <1>1, RelayConstants DEF RelayInv, RelayNodes
<1>4. back => i = 1 /\ r.healthy
  OBVIOUS
<1>. HIDE DEF new, back, r, streak
<1>5. relay' \in [1..Relays -> RelayNodes] /\ active_idx' \in 1..Relays /\ relayFell' \in BOOLEAN
  BY <1>2, <1>3, RelayConstants DEF RelayInv
<1>6. StuckOnlyAfterBlackout'
  <2>1. CASE back
    BY <1>2, <1>3, <1>4, <2>1, RelayConstants DEF RelayInv, StuckOnlyAfterBlackout
  <2>2. CASE ~back
    BY <1>2, <1>3, <2>2 DEF RelayInv, StuckOnlyAfterBlackout, r
  <2>. QED BY <2>1, <2>2
<1>. QED BY <1>2, <1>5, <1>6 DEF RelayInv

LEMMA CheckFailsPreserves ==
  ASSUME RelayInv, NEW i \in 1..Relays, CheckFails(i)
  PROVE  RelayInv'
<1>. DEFINE r == relay[i]
            fails == Min({r.fail_count + 1, FailThreshold})
            down == r.healthy /\ fails >= FailThreshold
            still == r.healthy /\ ~down
            new == [latency |-> r.latency, last_check |-> relayNow, fail_count |-> fails,
                    streak |-> 0, healthy |-> still]
            rs == [relay EXCEPT ![i] = new]
<1>1. r \in RelayNodes /\ fails \in Int
  <2>1. r \in RelayNodes
    BY DEF RelayInv
  <2>2. r.fail_count + 1 \in Int /\ FailThreshold \in Int
    BY <2>1, RelayConstants DEF RelayNodes
  <2>. QED BY <2>1, <2>2, MinOfTwo
<1>2. /\ relay' = rs
      /\ active_idx' = IF down /\ i = active_idx THEN Best(rs) ELSE active_idx
      /\ relayFell' = IF down /\ i = active_idx THEN \A j \in 1..Relays : ~rs[j].healthy
                      ELSE relayFell
      /\ relayNow' = relayNow
  BY DEF CheckFails
<1>. HIDE DEF r, fails
<1>3. new \in RelayNodes /\ (~down => new.healthy = r.healthy)
  <2>1. relayNow \in Int /\ r.healthy \in BOOLEAN /\ (r.healthy /\ ~down) \in BOOLEAN
    BY <1>1 DEF RelayInv, RelayNodes
  <2>2. ~down => still = r.healthy
    BY <2>1
  <2>3. still \in BOOLEAN
    BY <2>1
  <2>. HIDE DEF still, down
  <2>4. new \in RelayNodes /\ new.healthy = still
    BY <1>1, <2>1, <2>3 DEF RelayNodes
  <2>. QED BY <2>2, <2>4
<1>4. rs \in [1..Relays -> RelayNodes]
  BY <1>3 DEF RelayInv
<1>5. rs[i] = new /\ \A j \in 1..Relays \ {i} : rs[j] = relay[j]
  BY DEF RelayInv
<1>. HIDE DEF new, down, rs
<1>6. CASE down /\ i = active_idx /\ \E h \in 1..Relays : rs[h].healthy
  BY <1>2, <1>4, <1>6, BestIsHealthy DEF RelayInv, StuckOnlyAfterBlackout
<1>7. CASE down /\ i = active_idx /\ ~\E h \in 1..Relays : rs[h].healthy
  <2>1. Best(rs) = active_idx /\ relayFell' = TRUE
    BY <1>2, <1>7 DEF Best
  <2>. QED BY <1>2, <1>4, <1>7, <2>1 DEF RelayInv, StuckOnlyAfterBlackout
<1>8. CASE ~(down /\ i = active_idx)
  <2>1. active_idx' = active_idx /\ relayFell' = relayFell
    BY <1>2, <1>8
  <2>2. relay'[active_idx].healthy = relay[active_idx].healthy
    <3>1. CASE i = active_idx
      BY <1>2, <1>3, <1>5, <1>8, <3>1 DEF r
    <3>2. CASE i # active_idx
      BY <1>2, <1>5, <3>2 DEF RelayInv
    <3>. QED BY <3>1, <3>2
  <2>3. StuckOnlyAfterBlackout'
    BY <2>1, <2>2 DEF RelayInv, StuckOnlyAfterBlackout
  <2>. QED BY <1>2, <1>4, <2>1, <2>3 DEF RelayInv
<1>. QED BY <1>6, <1>7, <1>8

LEMMA RelayNextInv == RelayInv /\ [RelayNext]_relayVars => RelayInv'
<1>. SUFFICES ASSUME RelayInv, [RelayNext]_relayVars PROVE RelayInv'
  OBVIOUS
<1>1. CASE UNCHANGED relayVars
  BY <1>1 DEF relayVars, RelayInv, StuckOnlyAfterBlackout
<1>2. CASE RelayTick
  BY <1>2 DEF RelayTick, RelayInv, StuckOnlyAfterBlackout
<1>. QED BY <1>1, <1>2, CheckSucceedsPreserves, CheckFailsPreserves DEF RelayNext

\* Traffic stays on an unhealthy relay only when none was healthy at the moment
\* the active one fell: switch_to_best, the debounced return to the primary and
\* every order of checks included, for any number of relays and any thresholds.
THEOREM StuckByBlackoutOnly == RelaySpec => []StuckOnlyAfterBlackout
<1>1. RelayInv => StuckOnlyAfterBlackout
  BY DEF RelayInv
<1>. QED BY <1>1, RelayInitInv, RelayNextInv, PTL DEF RelaySpec

-----------------------------------------------------------------------------
(* The abuse guard. *)

AbuseRecord(r) == DOMAIN r = DOMAIN FreshStats /\ r.ban_count \in Nat

AbuseInv ==
  /\ blacklist \in [AbuseNodes -> Nat] /\ DOMAIN stats = AbuseNodes
  /\ \A n \in AbuseNodes : AbuseRecord(stats[n])
  /\ \A n \in AbuseNodes \ lenient : stats[n].ban_count >= TempToPerm => blacklist[n] > 0

\* A step that gives node n the record r and the place b on the list.
LEMMA NodeChanges ==
  ASSUME AbuseInv, NEW n \in AbuseNodes, NEW r, AbuseRecord(r), NEW b \in Nat,
         stats' = [stats EXCEPT ![n] = r],
         blacklist' = [blacklist EXCEPT ![n] = b], lenient \subseteq lenient',
         n \in lenient' \/ (r.ban_count >= TempToPerm => b > 0)
  PROVE  AbuseInv'
<1>1. /\ DOMAIN stats' = AbuseNodes /\ stats'[n] = r
      /\ \A m \in AbuseNodes \ {n} : stats'[m] = stats[m] /\ blacklist'[m] = blacklist[m]
      /\ blacklist'[n] = b /\ blacklist' \in [AbuseNodes -> Nat]
  BY DEF AbuseInv
<1>2. ASSUME NEW m \in AbuseNodes
      PROVE  AbuseRecord(stats'[m])
  BY <1>1 DEF AbuseInv
<1>3. ASSUME NEW m \in AbuseNodes \ lenient'
      PROVE  stats'[m].ban_count >= TempToPerm => blacklist'[m] > 0
  BY <1>1 DEF AbuseInv
<1>. QED BY <1>1, <1>2, <1>3 DEF AbuseInv, AbuseRecord

\* Escalate: the count grows only with a ban, and the ban that reaches the limit
\* is for good.
LEMMA Escalation ==
  ASSUME NEW r, AbuseRecord(r)
  PROVE  /\ AbuseRecord(Escalate(r))
         /\ Escalate(r).ban_count >= TempToPerm =>
              Escalate(r).level = "PermBan" /\ Escalate(r).ban_count = r.ban_count + 1
<1>. DEFINE struck == [r EXCEPT !.strikes = @ + 1]
            banned == [struck EXCEPT !.ban_count = @ + 1, !.banned_at = abuseNow]
<1>1. TempToPerm \in Nat
  BY AbuseAssumption
<1>2. AbuseRecord(struck) /\ struck.ban_count = r.ban_count
  BY DEF AbuseRecord, FreshStats
<1>. HIDE DEF struck
<1>3. /\ AbuseRecord(banned) /\ banned.ban_count = r.ban_count + 1
      /\ DOMAIN banned = DOMAIN FreshStats
  BY <1>2 DEF AbuseRecord, FreshStats
<1>. HIDE DEF banned
<1>4. Escalate(r) = IF r.ban_count + 1 >= TempToPerm THEN [banned EXCEPT !.level = "PermBan"]
                    ELSE IF struck.strikes >= WarnToBan THEN [banned EXCEPT !.level = "TempBan"]
                    ELSE struck
  BY DEF Escalate, banned, struck
<1>5. ASSUME NEW l
      PROVE  /\ AbuseRecord([banned EXCEPT !.level = l])
             /\ [banned EXCEPT !.level = l].ban_count = r.ban_count + 1
             /\ [banned EXCEPT !.level = l].level = l
  BY <1>3 DEF AbuseRecord, FreshStats
<1>6. CASE r.ban_count + 1 >= TempToPerm
  BY <1>4, <1>5, <1>6
<1>7. CASE ~(r.ban_count + 1 >= TempToPerm) /\ struck.strikes >= WarnToBan
  BY <1>1, <1>4, <1>5, <1>7 DEF AbuseRecord
<1>8. CASE ~(r.ban_count + 1 >= TempToPerm) /\ ~(struck.strikes >= WarnToBan)
  <2>1. Escalate(r) = struck
    BY <1>4, <1>8
  <2>. QED BY <1>1, <1>2, <1>8, <2>1 DEF AbuseRecord
<1>. QED BY <1>6, <1>7, <1>8

LEMMA RecordPacketPreserves ==
  ASSUME AbuseInv, NEW n \in AbuseNodes, NEW size \in PktSizes, RecordPacket(n, size)
  PROVE  AbuseInv'
<1>. DEFINE s0 == [stats[n] EXCEPT !.active = abuseNow, !.known = TRUE]
            s1 == IF Lapsed(s0) THEN [s0 EXCEPT !.level = "None", !.strikes = 0] ELSE s0
            s2 == [s1 EXCEPT !.buckets = PushBucket(@, size)]
            s3 == Escalate(s2)
<1>1. /\ lenient' = lenient
      /\ \/ stats' = [stats EXCEPT ![n] = s1] /\ blacklist' = blacklist
         \/ stats' = [stats EXCEPT ![n] = s2] /\ blacklist' = blacklist
         \/ /\ stats' = [stats EXCEPT ![n] = s3]
            /\ blacklist' = IF s3.level = "PermBan" THEN Pushed(n) ELSE blacklist
  BY Zenon DEF RecordPacket
<1>2. AbuseRecord(s0) /\ s0.ban_count = stats[n].ban_count
  BY DEF AbuseInv, AbuseRecord, FreshStats
<1>. HIDE DEF s0
<1>3. AbuseRecord(s1) /\ s1.ban_count = stats[n].ban_count
  BY <1>2 DEF AbuseRecord, FreshStats
<1>. HIDE DEF s1
<1>4. AbuseRecord(s2) /\ s2.ban_count = stats[n].ban_count
  BY <1>3 DEF AbuseRecord, FreshStats
<1>. HIDE DEF s2
<1>5. AbuseRecord(s3) /\ (s3.ban_count >= TempToPerm => s3.level = "PermBan")
  BY <1>4, Escalation
<1>. HIDE DEF s3
<1>6. /\ blacklist[n] \in Nat /\ blacklist = [blacklist EXCEPT ![n] = blacklist[n]]
      /\ Pushed(n) = [blacklist EXCEPT ![n] = blacklist[n] + 1]
      /\ blacklist[n] + 1 \in Nat /\ blacklist[n] + 1 > 0
  BY DEF AbuseInv, Pushed
<1>7. n \in lenient \/ (stats[n].ban_count >= TempToPerm => blacklist[n] > 0)
  BY DEF AbuseInv
<1>8. CASE stats' = [stats EXCEPT ![n] = s1] /\ blacklist' = blacklist
  BY <1>1, <1>3, <1>6, <1>7, <1>8, NodeChanges
<1>9. CASE stats' = [stats EXCEPT ![n] = s2] /\ blacklist' = blacklist
  BY <1>1, <1>4, <1>6, <1>7, <1>9, NodeChanges
<1>10. CASE /\ stats' = [stats EXCEPT ![n] = s3]
            /\ blacklist' = IF s3.level = "PermBan" THEN Pushed(n) ELSE blacklist
  <2>1. CASE s3.level = "PermBan"
    BY <1>1, <1>5, <1>6, <1>10, <2>1, NodeChanges
  <2>2. CASE s3.level # "PermBan"
    BY <1>1, <1>5, <1>6, <1>10, <2>2, NodeChanges
  <2>. QED BY <2>1, <2>2
<1>. QED BY <1>1, <1>8, <1>9, <1>10

LEMMA RecordConnResultPreserves ==
  ASSUME AbuseInv, NEW n \in AbuseNodes, NEW ok \in BOOLEAN, RecordConnResult(n, ok)
  PROVE  AbuseInv'
<1>. DEFINE s0 == [stats[n] EXCEPT !.active = abuseNow, !.known = TRUE]
            s1 == IF ok THEN [s0 EXCEPT !.successes = @ + 1] ELSE [s0 EXCEPT !.fails = @ + 1]
            total == s1.fails + s1.successes
            bad == total >= MinAttempts /\ s1.fails * 100 > FailureRate * total
            s2 == Escalate(s1)
            perm == s2.level = "PermBan" /\ s2.ban_count > s1.ban_count
<1>1. /\ lenient' = lenient
      /\ stats' = [stats EXCEPT ![n] = IF bad THEN s2 ELSE s1]
      /\ blacklist' = IF bad /\ perm THEN Pushed(n) ELSE blacklist
  BY Zenon DEF RecordConnResult
<1>2. AbuseRecord(s0) /\ s0.ban_count = stats[n].ban_count
  BY DEF AbuseInv, AbuseRecord, FreshStats
<1>. HIDE DEF s0
<1>3. AbuseRecord(s1) /\ s1.ban_count = stats[n].ban_count
  BY <1>2 DEF AbuseRecord, FreshStats
<1>. HIDE DEF s1, bad
<1>4. AbuseRecord(s2) /\ (s2.ban_count >= TempToPerm => perm)
  BY <1>3, Escalation DEF AbuseRecord
<1>. HIDE DEF s2, perm
<1>5. /\ blacklist[n] \in Nat /\ blacklist = [blacklist EXCEPT ![n] = blacklist[n]]
      /\ Pushed(n) = [blacklist EXCEPT ![n] = blacklist[n] + 1]
      /\ blacklist[n] + 1 \in Nat /\ blacklist[n] + 1 > 0
  BY DEF AbuseInv, Pushed
<1>6. n \in lenient \/ (stats[n].ban_count >= TempToPerm => blacklist[n] > 0)
  BY DEF AbuseInv
<1>7. CASE bad /\ perm
  BY <1>1, <1>4, <1>5, <1>7, NodeChanges
<1>8. CASE bad /\ ~perm
  BY <1>1, <1>4, <1>5, <1>8, NodeChanges
<1>9. CASE ~bad
  BY <1>1, <1>3, <1>5, <1>6, <1>9, NodeChanges
<1>. QED BY <1>7, <1>8, <1>9

LEMMA BanPreserves ==
  ASSUME AbuseInv, NEW n \in AbuseNodes, NEW level, Ban(n, level)
  PROVE  AbuseInv'
<1>. DEFINE r == [stats[n] EXCEPT !.level = level, !.banned_at = abuseNow, !.known = TRUE,
                                  !.active = IF stats[n].known THEN @ ELSE abuseNow]
<1>1. /\ lenient' = lenient /\ stats' = [stats EXCEPT ![n] = r]
      /\ blacklist' = Pushed(n) \/ blacklist' = blacklist
  BY DEF Ban
<1>2. AbuseRecord(r) /\ r.ban_count = stats[n].ban_count
  BY DEF AbuseInv, AbuseRecord, FreshStats
<1>. HIDE DEF r
<1>3. /\ blacklist[n] \in Nat /\ blacklist = [blacklist EXCEPT ![n] = blacklist[n]]
      /\ Pushed(n) = [blacklist EXCEPT ![n] = blacklist[n] + 1]
      /\ blacklist[n] + 1 \in Nat /\ blacklist[n] + 1 > 0
  BY DEF AbuseInv, Pushed
<1>4. n \in lenient \/ (stats[n].ban_count >= TempToPerm => blacklist[n] > 0)
  BY DEF AbuseInv
<1>5. CASE blacklist' = Pushed(n)
  BY <1>1, <1>2, <1>3, <1>5, NodeChanges
<1>6. CASE blacklist' = blacklist
  BY <1>1, <1>2, <1>3, <1>4, <1>6, NodeChanges
<1>. QED BY <1>1, <1>5, <1>6

LEMMA UnbanPreserves ==
  ASSUME AbuseInv, NEW n \in AbuseNodes, Unban(n)
  PROVE  AbuseInv'
<1>. DEFINE r == [stats[n] EXCEPT !.level = "None", !.strikes = 0]
<1>1. /\ lenient' = lenient \cup {n} /\ blacklist' = [blacklist EXCEPT ![n] = 0]
      /\ stats' = [stats EXCEPT ![n] = r] \/ stats' = stats
  BY DEF Unban
<1>2. AbuseRecord(stats[n])
  BY DEF AbuseInv
<1>3. AbuseRecord(r)
  BY <1>2 DEF AbuseRecord, FreshStats
<1>. HIDE DEF r
<1>4. lenient \subseteq lenient' /\ n \in lenient'
  BY <1>1
<1>5. CASE stats' = [stats EXCEPT ![n] = r]
  BY <1>1, <1>3, <1>4, <1>5, NodeChanges
<1>6. CASE stats' = stats
  BY <1>1, <1>4, <1>6 DEF AbuseInv, AbuseRecord
<1>. QED BY <1>1, <1>5, <1>6

LEMMA GcPreserves == AbuseInv /\ Gc => AbuseInv'
<1>. SUFFICES ASSUME AbuseInv, Gc PROVE AbuseInv'
  OBVIOUS
<1>1. AbuseRecord(Unseen) /\ ~(Unseen.ban_count >= TempToPerm)
  <2>1. Unseen.ban_count = 0 /\ DOMAIN Unseen = DOMAIN FreshStats
    BY DEF Unseen, FreshStats
  <2>2. TempToPerm \in Nat /\ TempToPerm # 0
    BY AbuseAssumption
  <2>. QED BY <2>1, <2>2 DEF AbuseRecord
<1>2. /\ DOMAIN stats' = AbuseNodes /\ UNCHANGED <<blacklist, lenient>>
      /\ \A n \in AbuseNodes : stats'[n] \in {stats[n], Unseen}
  BY DEF Gc
<1>. QED BY <1>1, <1>2 DEF AbuseInv, AbuseRecord

LEMMA AbuseInitInv == AbuseInit => AbuseInv
<1>. SUFFICES ASSUME AbuseInit PROVE AbuseInv
  OBVIOUS
<1>1. Unseen.ban_count = 0 /\ DOMAIN Unseen = DOMAIN FreshStats
  BY DEF Unseen, FreshStats
<1>2. TempToPerm \in Nat /\ TempToPerm # 0
  BY AbuseAssumption
<1>. QED BY <1>1, <1>2 DEF AbuseInit, AbuseInv, AbuseRecord

LEMMA AbuseNextInv == AbuseInv /\ [AbuseNext]_abuseVars => AbuseInv'
<1>. SUFFICES ASSUME AbuseInv, [AbuseNext]_abuseVars PROVE AbuseInv'
  OBVIOUS
<1>1. CASE UNCHANGED abuseVars
  BY <1>1 DEF abuseVars, AbuseInv, AbuseRecord
<1>2. CASE AbuseTick
  BY <1>2 DEF AbuseTick, AbuseInv, AbuseRecord
<1>. QED BY <1>1, <1>2, RecordPacketPreserves, RecordConnResultPreserves, BanPreserves,
            UnbanPreserves, GcPreserves DEF AbuseNext

\* A node that earned its last ban stays banned: traffic, failing connections,
\* lapsing bans, bans given by hand and the collection of idle nodes never clear
\* it, for any thresholds; only unban does.
THEOREM BannedForGood == AbuseSpec => []LastBanIsForGood
<1>1. AbuseInv => LastBanIsForGood
  BY DEF AbuseInv, LastBanIsForGood, IsBanned, Listed
<1>. QED BY <1>1, AbuseInitInv, AbuseNextInv, PTL DEF AbuseSpec

-----------------------------------------------------------------------------
(* Neighbour discovery. *)

Owed(cs, an, h, k) == <<h, k>> \in cs \/ \E n \in 0..MaxHellos : <<k, h, n>> \in an

TableOwed(cs, an, h, s) == \A k \in DOMAIN s : Owed(cs, an, h, k)

DiskOk(cs, an, h, d) == d = Torn \/ TableOwed(cs, an, h, d)

ProcFields == {"store", "seen", "pending", "prompt", "start"}

(* A command of h: its table is owed, and the HELLO it asks about has a nonce. *)
CommandOk(cs, an, h, p) ==
  /\ DOMAIN p = ProcFields /\ TableOwed(cs, an, h, p.store)
  /\ \/ p.prompt = <<>>
     \/ p.prompt[1].key \in NeighHosts /\ p.prompt[1].nonce \in 0..MaxHellos

ProcOk(cs, an, h, p) == p = Off \/ CommandOk(cs, an, h, p)

(* Only the named host signs an ACK, and it sent one to the addressee. *)
MessageOk(an, m) ==
  /\ DOMAIN m = {"via", "to", "msg_type", "key", "ts_secs", "nonce", "sig"}
  /\ m.key \in NeighHosts /\ m.nonce \in 0..MaxHellos
  /\ \A k, ts, n : m.sig = <<k, "ACK", ts, n>> => m.to # Everyone /\ <<k, m.to, n>> \in an

AnswersOwed(cs, an) ==
  \A a \in an : <<a[1], a[2]>> \in cs \/ <<a[2], a[1]>> \in cs

(* The process that is saving runs. *)
SavingOk(sv, hp, wp) ==
  /\ sv \in {"no", "hello", "watch"}
  /\ sv = "hello" => hp # Off
  /\ sv = "watch" => wp # Off

HostOk(cs, an, h, d, hp, wp, sv) ==
  /\ DiskOk(cs, an, h, d) /\ ProcOk(cs, an, h, hp) /\ ProcOk(cs, an, h, wp)
  /\ SavingOk(sv, hp, wp)

NeighInv ==
  /\ DOMAIN disk = NeighHosts /\ DOMAIN helloProc = NeighHosts /\ DOMAIN watchProc = NeighHosts
  /\ DOMAIN saving = NeighHosts
  /\ \A h \in NeighHosts :
       HostOk(consents, answered, h, disk[h], helloProc[h], watchProc[h], saving[h])
  /\ \A m \in neighNet : MessageOk(answered, m)
  /\ AnswersOwed(consents, answered)
  /\ hellos \in 0..MaxHellos

LEMMA NeighInvSuffices == NeighInv => TrustIsEarned
<1>. SUFFICES ASSUME NeighInv PROVE TrustIsEarned
  OBVIOUS
<1>1. ASSUME NEW h \in NeighHosts, NEW s \in StoresOf(h)
      PROVE  TableOwed(consents, answered, h, s)
  <2>1. \/ s = disk[h] /\ s # Torn
        \/ \E p \in {helloProc[h], watchProc[h]} \ {Off} : s = p.store
    BY DEF StoresOf
  <2>. QED BY <2>1 DEF NeighInv, HostOk, DiskOk, ProcOk, CommandOk
<1>. QED BY <1>1 DEF TrustIsEarned, NeighInv, AnswersOwed, TableOwed, Owed

\* Consents and answers are never taken back.
LEMMA OwedStays ==
  ASSUME NEW cs, NEW an, NEW cs2, NEW an2, cs \subseteq cs2, an \subseteq an2, NEW h
  PROVE  /\ \A s : TableOwed(cs, an, h, s) => TableOwed(cs2, an2, h, s)
         /\ \A d : DiskOk(cs, an, h, d) => DiskOk(cs2, an2, h, d)
         /\ \A p : ProcOk(cs, an, h, p) => ProcOk(cs2, an2, h, p)
         /\ \A m : MessageOk(an, m) => MessageOk(an2, m)
<1>1. \A k : Owed(cs, an, h, k) => Owed(cs2, an2, h, k)
  BY DEF Owed
<1>2. \A s : TableOwed(cs, an, h, s) => TableOwed(cs2, an2, h, s)
  BY <1>1 DEF TableOwed
<1>3. \A m : MessageOk(an, m) => MessageOk(an2, m)
  BY DEF MessageOk
<1>. QED BY <1>2, <1>3 DEF DiskOk, ProcOk, CommandOk

(* g is f but for the value v at h. *)
ChangedAt(f, g, h, v) ==
  DOMAIN g = NeighHosts /\ g[h] = v /\ \A x \in NeighHosts \ {h} : g[x] = f[x]

LEMMA Changed ==
  ASSUME NEW f, DOMAIN f = NeighHosts, NEW h \in NeighHosts
  PROVE  /\ ChangedAt(f, f, h, f[h])
         /\ \A v : ChangedAt(f, [f EXCEPT ![h] = v], h, v)
  BY DEF ChangedAt

\* A step of one host, with the messages it sends.
LEMMA HostStep ==
  ASSUME NeighInv, NEW h \in NeighHosts, NEW d, NEW hp, NEW wp, NEW sv,
         ChangedAt(disk, disk', h, d), ChangedAt(helloProc, helloProc', h, hp),
         ChangedAt(watchProc, watchProc', h, wp), ChangedAt(saving, saving', h, sv),
         consents \subseteq consents', answered \subseteq answered',
         HostOk(consents', answered', h, d, hp, wp, sv),
         \A m \in neighNet' : m \in neighNet \/ MessageOk(answered', m),
         AnswersOwed(consents', answered'), hellos' \in 0..MaxHellos
  PROVE  NeighInv'
<1>1. /\ DOMAIN disk' = NeighHosts /\ DOMAIN helloProc' = NeighHosts
      /\ DOMAIN watchProc' = NeighHosts /\ DOMAIN saving' = NeighHosts
  BY DEF ChangedAt
<1>2. ASSUME NEW g \in NeighHosts
      PROVE  HostOk(consents', answered', g, disk'[g], helloProc'[g], watchProc'[g], saving'[g])
  <2>1. CASE g = h
    BY <2>1 DEF ChangedAt
  <2>2. CASE g # h
    <3>1. HostOk(consents, answered, g, disk[g], helloProc[g], watchProc[g], saving[g])
      BY DEF NeighInv
    <3>2. /\ disk'[g] = disk[g] /\ helloProc'[g] = helloProc[g] /\ watchProc'[g] = watchProc[g]
          /\ saving'[g] = saving[g]
      BY <2>2 DEF ChangedAt
    <3>. QED BY <3>1, <3>2, OwedStays DEF HostOk
  <2>. QED BY <2>1, <2>2
<1>3. \A m \in neighNet' : MessageOk(answered', m)
  BY OwedStays DEF NeighInv
<1>. QED BY <1>1, <1>2, <1>3 DEF NeighInv

LEMMA QuietStep ==
  ASSUME NeighInv, NEW h \in NeighHosts, NEW d, NEW hp, NEW wp, NEW sv,
         ChangedAt(disk, disk', h, d), ChangedAt(helloProc, helloProc', h, hp),
         ChangedAt(watchProc, watchProc', h, wp), ChangedAt(saving, saving', h, sv),
         HostOk(consents, answered, h, d, hp, wp, sv), UNCHANGED <<consents, answered, neighNet, hellos>>
  PROVE  NeighInv'
<1>1. /\ consents \subseteq consents' /\ answered \subseteq answered'
      /\ HostOk(consents', answered', h, d, hp, wp, sv)
      /\ \A m \in neighNet' : m \in neighNet \/ MessageOk(answered', m)
      /\ AnswersOwed(consents', answered') /\ hellos' \in 0..MaxHellos
  BY DEF NeighInv
<1>. QED BY <1>1, HostStep

LEMMA Here ==
  ASSUME NeighInv, NEW h \in NeighHosts
  PROVE  /\ HostOk(consents, answered, h, disk[h], helloProc[h], watchProc[h], saving[h])
         /\ ChangedAt(disk, disk, h, disk[h]) /\ ChangedAt(helloProc, helloProc, h, helloProc[h])
         /\ ChangedAt(watchProc, watchProc, h, watchProc[h]) /\ ChangedAt(saving, saving, h, saving[h])
         /\ \A v : /\ ChangedAt(disk, [disk EXCEPT ![h] = v], h, v)
                   /\ ChangedAt(helloProc, [helloProc EXCEPT ![h] = v], h, v)
                   /\ ChangedAt(watchProc, [watchProc EXCEPT ![h] = v], h, v)
                   /\ ChangedAt(saving, [saving EXCEPT ![h] = v], h, v)
  BY Changed DEF NeighInv

LEMMA Running ==
  ASSUME NEW cs, NEW an, NEW h, NEW p, CommandOk(cs, an, h, p)
  PROVE  p # Off
  BY DEF CommandOk, ProcFields, Off

(* q has the table and the question of p. *)
Same(p, q) == DOMAIN q = ProcFields /\ q.store = p.store /\ q.prompt = p.prompt

LEMMA Prepared ==
  ASSUME NEW p, DOMAIN p = ProcFields
  PROVE  /\ Same(p, PrunePending(p))
         /\ \A n : Same(p, RecordHelloSent(p, n))
         /\ \A m : Same(p, Remembered(p, m))
<1>1. Same(p, PrunePending(p))
  BY DEF Same, PrunePending, ProcFields
<1>2. ASSUME NEW n PROVE Same(p, RecordHelloSent(p, n))
  BY <1>1 DEF Same, RecordHelloSent, ProcFields
<1>3. ASSUME NEW m PROVE Same(p, Remembered(p, m))
  BY DEF Same, Remembered, ProcFields
<1>. QED BY <1>1, <1>2, <1>3

LEMMA NewProcFields ==
  ASSUME NEW store
  PROVE  DOMAIN NewProc(store) = ProcFields /\ NewProc(store).store = store
         /\ NewProc(store).prompt = <<>>
  BY DEF NewProc, ProcFields

\* The table after an insertion is owed if the new key is.
LEMMA InsertedOwed ==
  ASSUME NEW cs, NEW an, NEW h, NEW s, TableOwed(cs, an, h, s), NEW k, Owed(cs, an, h, k),
         NEW mac, NEW ts
  PROVE  TableOwed(cs, an, h, Upsert(s, k, mac, ts))
  BY DEF TableOwed, Upsert, Inserted

\* process_ack: the key it adds is that of a host that answered h.
LEMMA AfterAckOwed ==
  ASSUME NeighInv, NEW h \in NeighHosts, NEW p, CommandOk(consents, answered, h, p),
         NEW m \in Heard(h)
  PROVE  CommandOk(consents, answered, h, AfterAck(p, m))
<1>. DEFINE q == IF FrameOk(p, m, "ACK") THEN PrunePending(Remembered(p, m)) ELSE p
            r == [q EXCEPT !.store = Upsert(@, m.key, m.key, neighTime),
                           !.pending = SelectSeq(@, LAMBDA e : e[1] # m.nonce)]
<1>1. m \in neighNet /\ m.to \in {h, Everyone} /\ MessageOk(answered, m)
  BY DEF Heard, NeighInv
<1>2. Same(p, q)
  BY Prepared DEF Same, CommandOk
<1>3. AfterAck(p, m) = IF AckAccepted(p, m) THEN r ELSE q
  BY DEF AfterAck
<1>. HIDE DEF q
<1>4. CASE AckAccepted(p, m)
  <2>1. m.sig = <<m.key, "ACK", m.ts_secs, m.nonce>>
    BY <1>4 DEF AckAccepted, FrameOk, SigOk
  <2>2. <<m.key, h, m.nonce>> \in answered
    BY <1>1, <2>1 DEF MessageOk
  <2>3. Owed(consents, answered, h, m.key)
    BY <1>1, <2>2 DEF Owed, MessageOk
  <2>4. TableOwed(consents, answered, h, Upsert(q.store, m.key, m.key, neighTime))
    BY <1>2, <2>3, InsertedOwed DEF Same, CommandOk
  <2>5. DOMAIN r = ProcFields /\ r.prompt = p.prompt /\ r.store = Upsert(q.store, m.key, m.key, neighTime)
    BY <1>2 DEF Same, ProcFields
  <2>. QED BY <1>3, <1>4, <2>4, <2>5 DEF CommandOk
<1>5. CASE ~AckAccepted(p, m)
  BY <1>2, <1>3, <1>5 DEF Same, CommandOk
<1>. QED BY <1>4, <1>5

LEMMA Unprompted ==
  ASSUME NEW cs, NEW an, NEW h, NEW p, DOMAIN p = ProcFields, TableOwed(cs, an, h, p.store),
         p.prompt = <<>>
  PROVE  CommandOk(cs, an, h, p)
  BY Zenon DEF CommandOk

LEMMA LoadedOwed ==
  ASSUME NeighInv, NEW h \in NeighHosts, disk[h] # Torn
  PROVE  CommandOk(consents, answered, h, NewProc(disk[h]))
<1>1. TableOwed(consents, answered, h, disk[h])
  BY Here DEF HostOk, DiskOk
<1>2. DOMAIN NewProc(disk[h]) = ProcFields /\ NewProc(disk[h]).store = disk[h]
      /\ NewProc(disk[h]).prompt = <<>>
  BY NewProcFields
<1>. QED BY <1>1, <1>2, Unprompted

LEMMA StartHelloPreserves ==
  ASSUME NeighInv, NEW h \in NeighHosts, StartHello(h)
  PROVE  NeighInv'
<1>. DEFINE m == SignedNeigh([via |-> Transport(h), to |-> Everyone, msg_type |-> "HELLO",
                              key |-> h, ts_secs |-> neighTime, nonce |-> hellos])
            hp == IF SendAccepted(h) THEN RecordHelloSent(NewProc(disk[h]), hellos) ELSE Off
<1>1. /\ disk[h] # Torn /\ helloProc[h] = Off /\ hellos < MaxHellos /\ hellos' = hellos + 1
      /\ neighNet' = NeighSend(h, m) /\ helloProc' = [helloProc EXCEPT ![h] = hp]
      /\ UNCHANGED <<disk, watchProc, saving, consents, answered>>
  BY DEF StartHello, CanStart
<1>2. m = [via |-> Transport(h), to |-> Everyone, msg_type |-> "HELLO", key |-> h,
           ts_secs |-> neighTime, nonce |-> hellos, sig |-> <<h, "HELLO", neighTime, hellos>>]
  BY DEF SignedNeigh
<1>. HIDE DEF m
<1>3. MessageOk(answered, m)
  <2>1. \A k, ts, n : m.sig # <<k, "ACK", ts, n>>
    BY <1>2
  <2>. QED BY <1>2, <2>1 DEF MessageOk, NeighInv
<1>4. MaxHellos \in Nat
  BY NeighAssumption
<1>5. ProcOk(consents, answered, h, hp)
  <2>1. CommandOk(consents, answered, h, NewProc(disk[h]))
    BY <1>1, LoadedOwed
  <2>2. Same(NewProc(disk[h]), RecordHelloSent(NewProc(disk[h]), hellos))
    BY <2>1, Prepared DEF CommandOk
  <2>3. CommandOk(consents, answered, h, RecordHelloSent(NewProc(disk[h]), hellos))
    BY <2>1, <2>2 DEF Same, CommandOk
  <2>. QED BY <2>3 DEF ProcOk
<1>. HIDE DEF hp
<1>6. HostOk(consents, answered, h, disk[h], hp, watchProc[h], saving[h])
  BY <1>1, <1>5, Here DEF HostOk, SavingOk
<1>7. \A x \in neighNet' : x \in neighNet \/ MessageOk(answered, x)
  BY <1>1, <1>3 DEF NeighSend
<1>8. hellos' \in 0..MaxHellos
  BY <1>1, <1>4 DEF NeighInv
<1>9. /\ ChangedAt(disk, disk', h, disk[h]) /\ ChangedAt(helloProc, helloProc', h, hp)
      /\ ChangedAt(watchProc, watchProc', h, watchProc[h])
      /\ ChangedAt(saving, saving', h, saving[h])
      /\ consents \subseteq consents' /\ answered \subseteq answered'
      /\ HostOk(consents', answered', h, disk[h], hp, watchProc[h], saving[h])
      /\ \A x \in neighNet' : x \in neighNet \/ MessageOk(answered', x)
      /\ AnswersOwed(consents', answered')
  BY <1>1, <1>6, <1>7, Here DEF NeighInv
<1>. QED BY <1>8, <1>9, HostStep

LEMMA HelloGetsAckPreserves ==
  ASSUME NeighInv, NEW h \in NeighHosts, NEW m \in neighNet, HelloGetsAck(h, m)
  PROVE  NeighInv'
<1>. DEFINE hp == AfterAck(helloProc[h], m)
<1>1. /\ helloProc[h] # Off /\ saving[h] # "hello" /\ m \in Heard(h)
      /\ helloProc' = [helloProc EXCEPT ![h] = hp]
      /\ UNCHANGED <<watchProc, neighNet, hellos, consents, answered>>
      /\ \/ /\ saving[h] = "no" /\ saving' = [saving EXCEPT ![h] = "hello"]
            /\ disk' = [disk EXCEPT ![h] = Torn]
         \/ UNCHANGED <<saving, disk>>
  BY DEF HelloGetsAck
<1>2. CommandOk(consents, answered, h, hp)
  BY <1>1, Here, AfterAckOwed DEF HostOk, ProcOk
<1>3. hp # Off
  BY <1>2, Running
<1>. HIDE DEF hp
<1>4. /\ HostOk(consents, answered, h, Torn, hp, watchProc[h], "hello")
      /\ HostOk(consents, answered, h, disk[h], hp, watchProc[h], saving[h])
  BY <1>1, <1>2, <1>3, Here DEF HostOk, SavingOk, DiskOk, ProcOk
<1>5. /\ ChangedAt(helloProc, helloProc', h, hp)
      /\ ChangedAt(watchProc, watchProc', h, watchProc[h])
  BY <1>1, Here
<1>6. CASE saving' = [saving EXCEPT ![h] = "hello"] /\ disk' = [disk EXCEPT ![h] = Torn]
  <2>1. ChangedAt(saving, saving', h, "hello") /\ ChangedAt(disk, disk', h, Torn)
    BY <1>6, Here
  <2>. QED BY <1>1, <1>4, <1>5, <2>1, QuietStep
<1>7. CASE UNCHANGED <<saving, disk>>
  <2>1. ChangedAt(saving, saving', h, saving[h]) /\ ChangedAt(disk, disk', h, disk[h])
    BY <1>7, Here
  <2>. QED BY <1>1, <1>4, <1>5, <2>1, QuietStep
<1>. QED BY <1>1, <1>6, <1>7

\* The steps that end or start a command, or change only what it remembers.
LEMMA CommandStepPreserves ==
  ASSUME NeighInv, NEW h \in NeighHosts,
         \/ HelloGivesUp(h) \/ StartWatch(h) \/ Decline(h) \/ NeighKill(h)
         \/ \E m \in neighNet : WatchGetsAck(h, m)
  PROVE  NeighInv'
<1>1. CASE HelloGivesUp(h)
  <2>1. /\ saving[h] # "hello" /\ helloProc' = [helloProc EXCEPT ![h] = Off]
        /\ UNCHANGED <<disk, watchProc, saving, neighNet, hellos, consents, answered>>
    BY <1>1 DEF HelloGivesUp
  <2>2. HostOk(consents, answered, h, disk[h], Off, watchProc[h], saving[h])
    BY <2>1, Here DEF HostOk, SavingOk, ProcOk
  <2>3. /\ ChangedAt(disk, disk', h, disk[h]) /\ ChangedAt(helloProc, helloProc', h, Off)
        /\ ChangedAt(watchProc, watchProc', h, watchProc[h])
        /\ ChangedAt(saving, saving', h, saving[h])
    BY <2>1, Here
  <2>. QED BY <2>1, <2>2, <2>3, QuietStep
<1>2. ASSUME NEW wp, CommandOk(consents, answered, h, wp),
             watchProc' = [watchProc EXCEPT ![h] = wp],
             UNCHANGED <<disk, helloProc, saving, neighNet, hellos, consents, answered>>
      PROVE  NeighInv'
  <2>1. HostOk(consents, answered, h, disk[h], helloProc[h], wp, saving[h])
    BY <1>2, Here, Running DEF HostOk, SavingOk, ProcOk
  <2>2. /\ ChangedAt(disk, disk', h, disk[h]) /\ ChangedAt(helloProc, helloProc', h, helloProc[h])
        /\ ChangedAt(watchProc, watchProc', h, wp) /\ ChangedAt(saving, saving', h, saving[h])
    BY <1>2, Here
  <2>. QED BY <1>2, <2>1, <2>2, QuietStep
<1>3. CASE StartWatch(h)
  <2>1. CommandOk(consents, answered, h, NewProc(disk[h]))
    BY <1>3, LoadedOwed DEF StartWatch, CanStart
  <2>. QED BY <1>2, <1>3, <2>1 DEF StartWatch
<1>4. CASE Decline(h)
  <2>. DEFINE wp == [watchProc[h] EXCEPT !.prompt = <<>>]
  <2>1. /\ watchProc' = [watchProc EXCEPT ![h] = wp] /\ watchProc[h] # Off
        /\ UNCHANGED <<disk, helloProc, saving, neighNet, hellos, consents, answered>>
    BY <1>4 DEF Decline
  <2>2. CommandOk(consents, answered, h, watchProc[h])
    BY <2>1, Here DEF HostOk, ProcOk
  <2>3. CommandOk(consents, answered, h, wp)
    <3>1. DOMAIN wp = ProcFields /\ wp.prompt = <<>> /\ wp.store = watchProc[h].store
      BY <2>2 DEF CommandOk, ProcFields
    <3>2. TableOwed(consents, answered, h, wp.store)
      BY <2>2, <3>1 DEF CommandOk
    <3>. HIDE DEF wp
    <3>. QED BY <3>1, <3>2, Unprompted
  <2>. QED BY <1>2, <2>1, <2>3
<1>5. ASSUME NEW m \in neighNet, WatchGetsAck(h, m) PROVE NeighInv'
  <2>1. /\ watchProc' = [watchProc EXCEPT ![h] = AfterAck(watchProc[h], m)]
        /\ watchProc[h] # Off /\ m \in Heard(h)
        /\ UNCHANGED <<disk, helloProc, saving, neighNet, hellos, consents, answered>>
    BY <1>5 DEF WatchGetsAck, WatchFree
  <2>2. CommandOk(consents, answered, h, AfterAck(watchProc[h], m))
    BY <2>1, Here, AfterAckOwed DEF HostOk, ProcOk
  <2>. QED BY <1>2, <2>1, <2>2
<1>6. CASE NeighKill(h)
  <2>1. /\ helloProc' = [helloProc EXCEPT ![h] = Off] /\ watchProc' = [watchProc EXCEPT ![h] = Off]
        /\ saving' = [saving EXCEPT ![h] = "no"]
        /\ UNCHANGED <<disk, neighNet, hellos, consents, answered>>
    BY <1>6 DEF NeighKill
  <2>2. HostOk(consents, answered, h, disk[h], Off, Off, "no")
    BY Here DEF HostOk, SavingOk, ProcOk
  <2>3. /\ ChangedAt(disk, disk', h, disk[h]) /\ ChangedAt(helloProc, helloProc', h, Off)
        /\ ChangedAt(watchProc, watchProc', h, Off) /\ ChangedAt(saving, saving', h, "no")
    BY <2>1, Here
  <2>. QED BY <2>1, <2>2, <2>3, QuietStep
<1>. QED BY <1>1, <1>3, <1>4, <1>5, <1>6

\* The steps that change the table on disk.
LEMMA DiskStepPreserves ==
  ASSUME NeighInv, NEW h \in NeighHosts,
         WriteAll(h) \/ DeleteTable(h) \/ \E k \in NeighHosts : RemoveNeighbour(h, k)
  PROVE  NeighInv'
<1>1. CASE WriteAll(h)
  <2>. DEFINE d == IF saving[h] = "hello" THEN helloProc[h].store ELSE watchProc[h].store
              hp == IF saving[h] = "hello" THEN Off ELSE helloProc[h]
  <2>1. /\ saving[h] # "no" /\ disk' = [disk EXCEPT ![h] = d]
        /\ helloProc' = [helloProc EXCEPT ![h] = hp] \/ (hp = helloProc[h] /\ helloProc' = helloProc)
        /\ saving' = [saving EXCEPT ![h] = "no"]
        /\ UNCHANGED <<watchProc, neighNet, hellos, consents, answered>>
    BY <1>1 DEF WriteAll
  <2>2. HostOk(consents, answered, h, d, hp, watchProc[h], "no")
    BY <2>1, Here DEF HostOk, SavingOk, ProcOk, CommandOk, DiskOk
  <2>3. /\ ChangedAt(disk, disk', h, d) /\ ChangedAt(helloProc, helloProc', h, hp)
        /\ ChangedAt(watchProc, watchProc', h, watchProc[h]) /\ ChangedAt(saving, saving', h, "no")
    BY <2>1, Here
  <2>. QED BY <2>1, <2>2, <2>3, QuietStep
<1>2. ASSUME NEW d, disk' = [disk EXCEPT ![h] = d], DiskOk(consents, answered, h, d),
             UNCHANGED <<helloProc, watchProc, saving, neighNet, hellos, consents, answered>>
      PROVE  NeighInv'
  <2>1. HostOk(consents, answered, h, d, helloProc[h], watchProc[h], saving[h])
    BY <1>2, Here DEF HostOk
  <2>2. /\ ChangedAt(disk, disk', h, d) /\ ChangedAt(helloProc, helloProc', h, helloProc[h])
        /\ ChangedAt(watchProc, watchProc', h, watchProc[h])
        /\ ChangedAt(saving, saving', h, saving[h])
    BY <1>2, Here
  <2>. QED BY <1>2, <2>1, <2>2, QuietStep
<1>3. CASE DeleteTable(h)
  <2>1. DiskOk(consents, answered, h, NoRecords)
    BY DEF DiskOk, TableOwed, NoRecords
  <2>. QED BY <1>2, <1>3, <2>1 DEF DeleteTable
<1>4. ASSUME NEW k \in NeighHosts, RemoveNeighbour(h, k) PROVE NeighInv'
  <2>1. /\ disk[h] # Torn /\ disk' = [disk EXCEPT ![h] = Without(disk[h], k)]
        /\ UNCHANGED <<helloProc, watchProc, saving, neighNet, hellos, consents, answered>>
    BY <1>4 DEF RemoveNeighbour
  <2>2. DiskOk(consents, answered, h, Without(disk[h], k))
    BY <2>1, Here DEF HostOk, DiskOk, TableOwed, Without, Dropped
  <2>. QED BY <1>2, <2>1, <2>2
<1>. QED BY <1>1, <1>3, <1>4

\* The watcher of h answers m and keeps its key, which is owed now.
LEMMA WatchAnswersPreserves ==
  ASSUME NeighInv, NEW h \in NeighHosts, NEW m, m.key \in NeighHosts, m.nonce \in 0..MaxHellos,
         NEW p, NEW wp, CommandOk(consents', answered', h, wp), WatchAnswers(h, m, p),
         watchProc' = [watchProc EXCEPT ![h] = wp], watchProc[h] # Off,
         consents \subseteq consents', Owed(consents', answered, h, m.key),
         AnswersOwed(consents', answered), UNCHANGED <<helloProc, hellos>>
  PROVE  NeighInv'
<1>. DEFINE ack == BuildAck(h, m, p.start)
            a == <<h, m.key, m.nonce>>
<1>1. /\ neighNet' = NeighSend(h, ack) /\ saving[h] = "no"
      /\ answered' = IF SendAccepted(h) THEN answered \cup {a} ELSE answered
      /\ saving' = [saving EXCEPT ![h] = "watch"] /\ disk' = [disk EXCEPT ![h] = Torn]
  BY DEF WatchAnswers
<1>2. ack = [via |-> Transport(h), to |-> m.key, msg_type |-> "ACK", key |-> h,
             ts_secs |-> p.start, nonce |-> m.nonce,
             sig |-> <<h, "ACK", p.start, m.nonce>>]
  BY DEF BuildAck, SignedNeigh
<1>. HIDE DEF ack
<1>3. ASSUME NEW x \in neighNet'
      PROVE  x \in neighNet \/ MessageOk(answered', x)
  <2>1. CASE SendAccepted(h) /\ x = ack
    <3>1. a \in answered'
      BY <1>1, <2>1
    <3>2. ASSUME NEW k, NEW ts, NEW n, ack.sig = <<k, "ACK", ts, n>>
          PROVE  ack.to # Everyone /\ <<k, ack.to, n>> \in answered'
      <4>1. k = h /\ n = m.nonce /\ ack.to = m.key
        BY <1>2, <3>2
      <4>. QED BY <3>1, <4>1, EveryoneAssumption
    <3>3. /\ DOMAIN ack = {"via", "to", "msg_type", "key", "ts_secs", "nonce", "sig"}
          /\ ack.key = h /\ ack.nonce = m.nonce
      BY <1>2
    <3>. QED BY <2>1, <3>2, <3>3 DEF MessageOk
  <2>2. CASE ~(SendAccepted(h) /\ x = ack)
    BY <1>1, <2>2 DEF NeighSend
  <2>. QED BY <2>1, <2>2
<1>4. answered \subseteq answered'
  BY <1>1
<1>5. AnswersOwed(consents', answered')
  <2>1. <<h, m.key>> \in consents' \/ <<m.key, h>> \in consents'
    <3>1. CASE <<h, m.key>> \in consents'
      BY <3>1
    <3>2. CASE \E n \in 0..MaxHellos : <<m.key, h, n>> \in answered
      <4>1. PICK n \in 0..MaxHellos : <<m.key, h, n>> \in answered
        BY <3>2
      <4>. QED BY <4>1 DEF AnswersOwed
    <3>. QED BY <3>1, <3>2 DEF Owed
  <2>2. a[1] = h /\ a[2] = m.key
    OBVIOUS
  <2>. HIDE DEF a
  <2>. QED BY <1>1, <2>1, <2>2 DEF AnswersOwed
<1>6. wp # Off
  BY Running
<1>7. HostOk(consents', answered', h, Torn, helloProc[h], wp, "watch")
  BY <1>4, <1>6, Here, OwedStays DEF HostOk, DiskOk, ProcOk, SavingOk
<1>8. /\ ChangedAt(disk, disk', h, Torn) /\ ChangedAt(helloProc, helloProc', h, helloProc[h])
      /\ ChangedAt(watchProc, watchProc', h, wp) /\ ChangedAt(saving, saving', h, "watch")
  BY <1>1, Here
<1>9. hellos' \in 0..MaxHellos
  BY DEF NeighInv
<1>. QED BY <1>3, <1>4, <1>5, <1>7, <1>8, <1>9, HostStep

LEMMA WatchGetsHelloPreserves ==
  ASSUME NeighInv, NEW h \in NeighHosts, NEW m \in neighNet, WatchGetsHello(h, m)
  PROVE  NeighInv'
<1>. DEFINE p == watchProc[h]
            q == [Remembered(p, m) EXCEPT !.start = neighTime]
            r == [q EXCEPT !.store = Upsert(@, m.key, m.key, neighTime)]
            asks == [q EXCEPT !.prompt = <<m>>]
<1>1. /\ p # Off /\ UNCHANGED <<helloProc, hellos, consents>>
      /\ \/ /\ AutoAck(p, m) /\ watchProc' = [watchProc EXCEPT ![h] = r]
            /\ WatchAnswers(h, m, q)
         \/ /\ watchProc' = [watchProc EXCEPT ![h] = asks]
            /\ UNCHANGED <<neighNet, answered, saving, disk>>
  BY Zenon DEF WatchGetsHello, WatchFree
<1>2. CommandOk(consents, answered, h, p) /\ MessageOk(answered, m)
  BY <1>1, Here DEF HostOk, ProcOk, NeighInv
<1>3. Same(p, Remembered(p, m))
  BY <1>2, Prepared DEF CommandOk
<1>4. Same(p, q)
  BY <1>3 DEF Same, ProcFields
<1>. HIDE DEF q
<1>5. CASE /\ AutoAck(p, m) /\ watchProc' = [watchProc EXCEPT ![h] = r]
           /\ WatchAnswers(h, m, q)
  <2>1. Owed(consents, answered, h, m.key)
    BY <1>2, <1>5 DEF AutoAck, CommandOk, TableOwed
  <2>2. DOMAIN r = ProcFields /\ r.prompt = p.prompt /\ r.store = Upsert(p.store, m.key, m.key, neighTime)
    BY <1>4 DEF Same, ProcFields
  <2>3. TableOwed(consents, answered, h, r.store)
    BY <1>2, <2>1, <2>2, InsertedOwed DEF CommandOk
  <2>. HIDE DEF r
  <2>4. CommandOk(consents, answered, h, r)
    BY <1>2, <2>2, <2>3 DEF CommandOk
  <2>5. answered \subseteq answered'
    BY <1>5 DEF WatchAnswers
  <2>6. CommandOk(consents', answered', h, r)
    <3>1. r # Off
      BY <2>4, Running
    <3>2. ProcOk(consents', answered', h, r)
      BY <1>1, <2>4, <2>5, OwedStays DEF ProcOk
    <3>. QED BY <3>1, <3>2 DEF ProcOk
  <2>7. m.key \in NeighHosts /\ m.nonce \in 0..MaxHellos
    BY <1>2 DEF MessageOk
  <2>8. Owed(consents', answered, h, m.key) /\ AnswersOwed(consents', answered)
    BY <1>1, <2>1 DEF NeighInv
  <2>. QED BY <1>1, <1>5, <2>6, <2>7, <2>8, WatchAnswersPreserves
<1>6. CASE /\ watchProc' = [watchProc EXCEPT ![h] = asks]
           /\ UNCHANGED <<neighNet, answered, saving, disk>>
  <2>1. DOMAIN asks = ProcFields /\ asks.prompt = <<m>> /\ asks.store = p.store
    BY <1>4 DEF Same, ProcFields
  <2>2. CommandOk(consents, answered, h, asks)
    BY <1>2, <2>1 DEF CommandOk, MessageOk
  <2>. HIDE DEF asks
  <2>3. HostOk(consents, answered, h, disk[h], helloProc[h], asks, saving[h])
    BY <2>2, Here, Running DEF HostOk, SavingOk, ProcOk
  <2>4. /\ ChangedAt(disk, disk', h, disk[h]) /\ ChangedAt(helloProc, helloProc', h, helloProc[h])
        /\ ChangedAt(watchProc, watchProc', h, asks) /\ ChangedAt(saving, saving', h, saving[h])
    BY <1>1, <1>6, Here
  <2>. QED BY <1>1, <1>6, <2>3, <2>4, QuietStep
<1>. QED BY <1>1, <1>5, <1>6

LEMMA ConsentPreserves ==
  ASSUME NeighInv, NEW h \in NeighHosts, Consent(h)
  PROVE  NeighInv'
<1>. DEFINE p == watchProc[h]
            m == p.prompt[1]
            r == [p EXCEPT !.prompt = <<>>, !.store = Upsert(@, m.key, m.key, p.start)]
<1>1. /\ p # Off /\ p.prompt # <<>> /\ watchProc' = [watchProc EXCEPT ![h] = r]
      /\ consents' = consents \cup {<<h, m.key>>} /\ WatchAnswers(h, m, p)
      /\ UNCHANGED <<helloProc, hellos>>
  BY DEF Consent
<1>2. CommandOk(consents, answered, h, p)
  BY <1>1, Here DEF HostOk, ProcOk
<1>3. m.key \in NeighHosts /\ m.nonce \in 0..MaxHellos
  BY <1>1, <1>2 DEF CommandOk
<1>4. DOMAIN r = ProcFields /\ r.prompt = <<>> /\ r.store = Upsert(p.store, m.key, m.key, p.start)
  BY <1>2 DEF CommandOk, ProcFields
<1>. HIDE DEF r, m
<1>5. consents \subseteq consents' /\ answered \subseteq answered'
  BY <1>1 DEF WatchAnswers
<1>6. Owed(consents', answered, h, m.key) /\ Owed(consents', answered', h, m.key)
  BY <1>1 DEF Owed
<1>7. TableOwed(consents', answered', h, p.store)
  <2>1. TableOwed(consents, answered, h, p.store)
    BY <1>2 DEF CommandOk
  <2>. HIDE DEF p
  <2>. QED BY <1>5, <2>1, OwedStays
<1>8. CommandOk(consents', answered', h, r)
  <2>1. TableOwed(consents', answered', h, r.store)
    BY <1>4, <1>6, <1>7, InsertedOwed
  <2>. QED BY <1>4, <2>1, Unprompted
<1>9. AnswersOwed(consents', answered)
  BY <1>5 DEF AnswersOwed, NeighInv
<1>. QED BY <1>1, <1>3, <1>5, <1>6, <1>8, <1>9, WatchAnswersPreserves

\* Damage changes no signature and no addressee.
LEMMA DamagePreserves ==
  ASSUME NeighInv, NEW m \in neighNet, Damage(m)
  PROVE  NeighInv'
<1>1. PICK t \in {"HELLO", "ACK"}, k \in NeighHosts, n \in 0..(MaxHellos - 1) :
        neighNet' = neighNet \cup {[m EXCEPT !.msg_type = t, !.key = k, !.nonce = n]}
  BY DEF Damage
<1>. DEFINE x == [m EXCEPT !.msg_type = t, !.key = k, !.nonce = n]
<1>2. MessageOk(answered, m) /\ MaxHellos \in Nat
  BY NeighAssumption DEF NeighInv
<1>3. /\ DOMAIN x = DOMAIN m /\ x.sig = m.sig /\ x.to = m.to /\ x.key = k /\ x.nonce = n
      /\ n \in 0..MaxHellos
  BY <1>2 DEF MessageOk
<1>4. neighNet' = neighNet \cup {x}
  BY <1>1
<1>. HIDE DEF x
<1>5. MessageOk(answered, x)
  BY <1>2, <1>3 DEF MessageOk
<1>. QED BY <1>4, <1>5 DEF Damage, NeighInv

LEMMA NeighInitInv == NeighInit => NeighInv
<1>. SUFFICES ASSUME NeighInit PROVE NeighInv
  OBVIOUS
<1>1. \A h \in NeighHosts : HostOk({}, {}, h, NoRecords, Off, Off, "no")
  BY DEF HostOk, DiskOk, TableOwed, NoRecords, ProcOk, SavingOk
<1>. QED BY <1>1, NeighAssumption DEF NeighInit, NeighInv, AnswersOwed

LEMMA NeighNextInv == NeighInv /\ [NeighNext]_neighVars => NeighInv'
<1>. SUFFICES ASSUME NeighInv, [NeighNext]_neighVars PROVE NeighInv'
  OBVIOUS
<1>1. CASE UNCHANGED neighVars
  BY <1>1 DEF neighVars, NeighInv
<1>2. CASE NeighTick
  BY <1>2 DEF NeighTick, NeighInv
<1>. QED BY <1>1, <1>2, StartHelloPreserves, HelloGetsAckPreserves, CommandStepPreserves,
            DiskStepPreserves, WatchGetsHelloPreserves, ConsentPreserves, DamagePreserves
         DEF NeighNext

\* Every neighbour in a table, on disk or in memory, was agreed to by its host's
\* operator or answered a HELLO of it; and nobody answers whom no operator of the
\* two agreed to: for any hosts, through losses, repetitions, damage, kills in the
\* middle of a save, and removals.
THEOREM NeighboursAreOwed == NeighSpec => []TrustIsEarned
BY NeighInitInv, NeighNextInv, NeighInvSuffices, PTL DEF NeighSpec

-----------------------------------------------------------------------------
(* The verdict hook bus. *)

(* Readable packets are whole TCP or UDP packets, their ports where ip.rs     *)
(* looks for them; a later fragment is not one.                               *)
WholePackets ==
  \A p \in HookPackets : p.readable =>
    /\ p.proto \in {"tcp", "udp"} /\ Len(p.words) >= 2
    /\ p.ports[1] = p.words[1] /\ p.ports[2] = p.words[2]

LEMMA OneConversation ==
  ASSUME WholePackets, NEW p \in HookPackets, NEW q \in HookPackets, p.readable,
         FlowKey(Inspect(q)) = FlowKey(Inspect(p))
  PROVE  Conversation(q) = Conversation(p)
<1>1. ASSUME NEW r \in HookPackets, r.readable
      PROVE  FlowKey(Inspect(r)) = Conversation(r) /\ FlowKey(Inspect(r))[1] # "other"
  <2>1. Inspect(r) = [proto |-> r.proto, src |-> r.src, dst |-> r.dst,
                      sport |-> r.words[1], dport |-> r.words[2]]
    BY <1>1 DEF Inspect, WholePackets
  <2>2. FlowKey(Inspect(r)) = <<r.proto, {<<r.src, r.words[1]>>, <<r.dst, r.words[2]>>}>>
    BY <2>1 DEF FlowKey
  <2>3. Conversation(r) = <<r.proto, {<<r.src, r.words[1]>>, <<r.dst, r.words[2]>>}>>
    BY <1>1 DEF Conversation, WholePackets
  <2>. QED BY <1>1, <2>2, <2>3 DEF WholePackets
<1>2. ~q.readable => FlowKey(Inspect(q))[1] = "other"
  BY DEF Inspect, NoInfo, FlowKey
<1>. QED BY <1>1, <1>2

(* What waits for an answer, or for the dispatcher, names its own flow. *)
FlowOk(r) == r.about \in HookPackets /\ r.flow = FlowKey(Inspect(r.about))

MsgOk(m) ==
  /\ m.type = "Dispatch" => FlowOk(m)
  /\ m.type # "Dispatch" => m.client \in HookClients
  /\ m.type = "ClientVerdict" => m.ttl \in Nat

QueueOk(q) == q \in Seq({q[i] : i \in DOMAIN q}) /\ \A i \in DOMAIN q : MsgOk(q[i])

(* A reply or a verdict other than the default is a decider's. *)
EvalOk(dd, v) ==
  /\ v.pc = "idle" /\ DOMAIN v # {"pc"} /\ v.action # DefaultAction =>
       /\ v.giver \in dd /\ v.source \in {"Decider", "Cached"}
       /\ v.source = "Cached" /\ v.packet.readable =>
            Conversation(v.about) = Conversation(v.packet)
  /\ v.pc = "waiting" =>
       /\ DOMAIN v = {"pc", "packet", "id", "deadline", "reply", "open"}
       /\ v.reply # <<>> => v.reply[1].action = DefaultAction \/ v.reply[1].giver \in dd

CacheOk(dd, now, fc) ==
  \A f \in DOMAIN fc :
    /\ fc[f].giver \in dd /\ fc[f].expires <= now + TtlCap /\ fc[f].expires \in Int
    /\ fc[f].about \in HookPackets /\ f = FlowKey(Inspect(fc[f].about))

HookInv ==
  /\ hookTime \in Nat
  /\ CacheOk(deciders, hookTime, flowCache)
  /\ \A id \in DOMAIN hookPending : FlowOk(hookPending[id])
  /\ QueueOk(hookQ)
  /\ DOMAIN evals = Evaluators /\ \A e \in Evaluators : EvalOk(deciders, evals[e])
  /\ deciderOf \in deciders \cup {NoClient}

LEMMA QueueGrows ==
  ASSUME NEW q, QueueOk(q), NEW m, MsgOk(m)
  PROVE  QueueOk(Append(q, m))
<1>. DEFINE S == {q[i] : i \in DOMAIN q}
            a == Append(q, m)
<1>1. q \in Seq(S \cup {m}) /\ m \in S \cup {m}
  BY DEF QueueOk
<1>2. /\ a \in Seq(S \cup {m}) /\ DOMAIN a = 1..Len(q) + 1 /\ DOMAIN q = 1..Len(q)
      /\ Len(q) \in Nat /\ Len(a) = Len(q) + 1
      /\ \A i \in 1..Len(q) : a[i] = q[i]
      /\ a[Len(q) + 1] = m
  BY <1>1
<1>. HIDE DEF a
<1>3. \A i \in DOMAIN a : MsgOk(a[i])
  BY <1>2 DEF QueueOk
<1>4. a \in Seq({a[i] : i \in DOMAIN a})
  BY <1>2
<1>. QED BY <1>3, <1>4 DEF QueueOk, a

LEMMA QueueShrinks ==
  ASSUME NEW q, QueueOk(q), q # <<>>
  PROVE  QueueOk(Tail(q)) /\ MsgOk(Head(q))
<1>. DEFINE S == {q[i] : i \in DOMAIN q}
            a == Tail(q)
<1>1. q \in Seq(S)
  BY DEF QueueOk
<1>2. /\ a \in Seq(S) /\ DOMAIN a = 1..Len(a) /\ Len(a) = Len(q) - 1 /\ Len(q) \in Nat
      /\ DOMAIN q = 1..Len(q) /\ Len(q) > 0 /\ Head(q) = q[1]
      /\ \A i \in 1..Len(a) : a[i] = q[i + 1]
  BY <1>1
<1>3. MsgOk(Head(q))
  BY <1>2 DEF QueueOk
<1>. HIDE DEF a
<1>4. \A i \in DOMAIN a : MsgOk(a[i])
  BY <1>2 DEF QueueOk
<1>5. a \in Seq({a[i] : i \in DOMAIN a})
  <2>. DEFINE T == {a[i] : i \in DOMAIN a}
  <2>1. Len(a) \in Nat
    BY <1>2
  <2>2. \A i \in 1..Len(a) : a[i] \in T
    BY <1>2, Zenon
  <2>3. a = [i \in 1..Len(a) |-> a[i]]
    BY <1>2
  <2>. HIDE DEF T
  <2>4. a \in [1..Len(a) -> T]
    BY <2>1, <2>2, <2>3
  <2>5. a \in Seq(T)
    BY <2>1, <2>4
  <2>. QED BY <2>5 DEF T
<1>. QED BY <1>3, <1>4, <1>5 DEF QueueOk, a

LEMMA HookInvSuffices == HookInv => OnlyTheDeciderRules
  BY DEF HookInv, OnlyTheDeciderRules, CacheOk, EvalOk

\* More clients have held the decision slot.
LEMMA DecidersGrow ==
  ASSUME NEW dd, NEW dd2, dd \subseteq dd2
  PROVE  /\ \A v : EvalOk(dd, v) => EvalOk(dd2, v)
         /\ \A now, fc : CacheOk(dd, now, fc) => CacheOk(dd2, now, fc)
  BY DEF EvalOk, CacheOk

\* A verdict of evaluation e that keeps to the rule.
LEMMA ConcludePreserves ==
  ASSUME HookInv, NEW e \in Evaluators, NEW p, NEW about, NEW source, NEW action, NEW giver,
         NEW field, NEW st, Conclude(e, p, about, source, action, giver, field, st),
         action # DefaultAction =>
           /\ giver \in deciders /\ source \in {"Decider", "Cached"}
           /\ source = "Cached" /\ p.readable => Conversation(about) = Conversation(p)
  PROVE  DOMAIN evals' = Evaluators /\ \A x \in Evaluators : EvalOk(deciders, evals'[x])
<1>. DEFINE v == [pc |-> "idle", packet |-> p, about |-> about, source |-> source,
                  action |-> action, giver |-> giver]
<1>1. evals' = [evals EXCEPT ![e] = v]
  BY DEF Conclude
<1>2. /\ v.pc = "idle" /\ v.packet = p /\ v.about = about /\ v.source = source
      /\ v.action = action /\ v.giver = giver
  OBVIOUS
<1>. HIDE DEF v
<1>3. EvalOk(deciders, v)
  BY <1>2 DEF EvalOk
<1>. QED BY <1>1, <1>3 DEF HookInv

LEMMA EvaluatePreserves ==
  ASSUME WholePackets, HookInv, NEW e \in Evaluators, NEW p \in HookPackets, Evaluate(e, p)
  PROVE  HookInv'
<1>. DEFINE flow == FlowKey(Inspect(p))
            seen == [hookStats EXCEPT !.seen = @ + 1]
            v == [pc |-> "waiting", packet |-> p, id |-> next_id,
                  deadline |-> hookTime + HookTimeout, reply |-> <<>>, open |-> TRUE]
            m == [type |-> "Dispatch", id |-> next_id, by |-> e, flow |-> flow,
                  about |-> p, deadline |-> hookTime + HookTimeout]
<1>1. UNCHANGED <<deciderOf, hookPending, flowCache, hookTime, deciders>>
  BY DEF Evaluate
<1>2. \/ /\ Fresh(flow) /\ hookQ' = hookQ
         /\ Conclude(e, p, flowCache[flow].about, "Cached", flowCache[flow].action,
                     flowCache[flow].giver, "cached", seen)
      \/ /\ Conclude(e, p, p, "NoClient", DefaultAction, NoClient, "no_client", seen)
         /\ hookQ' = hookQ
      \/ /\ Conclude(e, p, p, "Backpressure", DefaultAction, NoClient, "backpressure", seen)
         /\ hookQ' = hookQ
      \/ hookQ' = Append(hookQ, m) /\ evals' = [evals EXCEPT ![e] = v]
  BY Zenon DEF Evaluate
<1>3. CASE /\ Fresh(flow) /\ hookQ' = hookQ
           /\ Conclude(e, p, flowCache[flow].about, "Cached", flowCache[flow].action,
                       flowCache[flow].giver, "cached", seen)
  <2>1. /\ flow \in DOMAIN flowCache /\ flowCache[flow].giver \in deciders
        /\ flowCache[flow].about \in HookPackets /\ flow = FlowKey(Inspect(flowCache[flow].about))
    BY <1>3 DEF Fresh, HookInv, CacheOk
  <2>2. p.readable => Conversation(flowCache[flow].about) = Conversation(p)
    BY <2>1, OneConversation
  <2>3. DOMAIN evals' = Evaluators /\ \A x \in Evaluators : EvalOk(deciders, evals'[x])
    BY <1>3, <2>1, <2>2, ConcludePreserves
  <2>. QED BY <1>1, <1>3, <2>3 DEF HookInv
<1>4. CASE /\ hookQ' = hookQ
           /\ \/ Conclude(e, p, p, "NoClient", DefaultAction, NoClient, "no_client", seen)
              \/ Conclude(e, p, p, "Backpressure", DefaultAction, NoClient, "backpressure", seen)
  <2>1. DOMAIN evals' = Evaluators /\ \A x \in Evaluators : EvalOk(deciders, evals'[x])
    BY <1>4, ConcludePreserves
  <2>. QED BY <1>1, <1>4, <2>1 DEF HookInv
<1>5. CASE hookQ' = Append(hookQ, m) /\ evals' = [evals EXCEPT ![e] = v]
  <2>1. MsgOk(m)
    BY DEF MsgOk, FlowOk
  <2>2. EvalOk(deciders, v)
    BY DEF EvalOk
  <2>. HIDE DEF v, m
  <2>3. DOMAIN evals' = Evaluators /\ \A x \in Evaluators : EvalOk(deciders, evals'[x])
    BY <1>5, <2>2 DEF HookInv
  <2>4. QueueOk(hookQ')
    BY <1>5, <2>1, QueueGrows DEF HookInv
  <2>. QED BY <1>1, <2>3, <2>4 DEF HookInv
<1>. QED BY <1>2, <1>3, <1>4, <1>5

LEMMA AnsweredPreserves ==
  ASSUME HookInv, NEW e \in Evaluators, Answered(e)
  PROVE  HookInv'
<1>1. /\ evals[e].pc = "waiting"
      /\ UNCHANGED <<hookQ, deciderOf, hookPending, flowCache, hookTime, deciders>>
  BY DEF Answered
<1>2. EvalOk(deciders, evals[e])
  BY DEF HookInv
<1>3. DOMAIN evals' = Evaluators /\ \A x \in Evaluators : EvalOk(deciders, evals'[x])
  <2>1. CASE /\ evals[e].reply # <<>>
             /\ Conclude(e, evals[e].packet, evals[e].packet, "Decider",
                         evals[e].reply[1].action, evals[e].reply[1].giver, "decided", hookStats)
    <3>1. evals[e].reply[1].action # DefaultAction => evals[e].reply[1].giver \in deciders
      BY <1>1, <1>2, <2>1 DEF EvalOk
    <3>. QED BY <2>1, <3>1, ConcludePreserves
  <2>2. CASE \/ Conclude(e, evals[e].packet, evals[e].packet, "Timeout", DefaultAction,
                         NoClient, "timeout", hookStats)
             \/ Conclude(e, evals[e].packet, evals[e].packet, "DeciderGone", DefaultAction,
                         NoClient, "decider_gone", hookStats)
    BY <2>2, ConcludePreserves
  <2>. QED BY <2>1, <2>2 DEF Answered
<1>. QED BY <1>1, <1>3 DEF HookInv

\* The client threads: what they send is well-formed.
LEMMA ClientPreserves ==
  ASSUME HookInv, NEW c \in HookClients,
         \/ ClientReads(c) \/ Disconnect(c) \/ \E mode \in {"Decision", "Observer"} : Hello(c, mode)
         \/ \E id \in received[c], a \in VerdictActions, ttl \in Ttls : SendVerdict(c, id, a, ttl)
  PROVE  HookInv'
<1>1. ASSUME NEW m, MsgOk(m), Post(m) \/ hookQ' = hookQ,
             UNCHANGED <<deciderOf, hookPending, flowCache, evals, hookTime, deciders>>
      PROVE  HookInv'
  <2>1. QueueOk(hookQ')
    BY <1>1, QueueGrows DEF HookInv, Post
  <2>. QED BY <1>1, <2>1 DEF HookInv
<1>2. MsgOk([type |-> "Disconnect", client |-> c])
  BY DEF MsgOk
<1>3. CASE ClientReads(c)
  BY <1>1, <1>2, <1>3 DEF ClientReads
<1>4. CASE Disconnect(c)
  BY <1>1, <1>2, <1>4 DEF Disconnect
<1>5. ASSUME NEW mode, Hello(c, mode) PROVE HookInv'
  <2>1. MsgOk([type |-> "Hello", client |-> c, mode |-> mode])
    BY DEF MsgOk
  <2>. QED BY <1>1, <1>5, <2>1 DEF Hello
<1>6. ASSUME NEW id, NEW a, NEW ttl \in Ttls, SendVerdict(c, id, a, ttl) PROVE HookInv'
  <2>1. MsgOk([type |-> "ClientVerdict", client |-> c, id |-> id, action |-> a, ttl |-> ttl])
    BY HookAssumption DEF MsgOk
  <2>. QED BY <1>1, <1>6, <2>1 DEF SendVerdict
<1>. QED BY <1>3, <1>4, <1>5, <1>6

\* A reply that is the default's or a decider's.
LEMMA ReplyOk ==
  ASSUME NEW dd, NEW ev, DOMAIN ev = Evaluators, \A x \in Evaluators : EvalOk(dd, ev[x]),
         NEW e, NEW id, NEW r, r.action = DefaultAction \/ r.giver \in dd
  PROVE  /\ DOMAIN Reply(ev, e, id, r) = Evaluators
         /\ \A x \in Evaluators : EvalOk(dd, Reply(ev, e, id, r)[x])
<1>1. CASE e \in Evaluators /\ ev[e].pc = "waiting" /\ ev[e].id = id
  <2>. DEFINE v == [ev[e] EXCEPT !.reply = <<r>>]
  <2>1. DOMAIN ev[e] = {"pc", "packet", "id", "deadline", "reply", "open"}
    BY <1>1 DEF EvalOk
  <2>2. v.pc = "waiting" /\ DOMAIN v = DOMAIN ev[e] /\ v.reply = <<r>>
    BY <1>1, <2>1
  <2>3. Reply(ev, e, id, r) = [ev EXCEPT ![e] = v]
    BY <1>1 DEF Reply
  <2>. HIDE DEF v
  <2>4. EvalOk(dd, v)
    BY <2>1, <2>2 DEF EvalOk
  <2>. QED BY <2>3, <2>4
<1>2. CASE ~(e \in Evaluators /\ ev[e].pc = "waiting" /\ ev[e].id = id)
  <2>1. CASE e \notin Evaluators /\ ev[e].pc = "waiting" /\ ev[e].id = id
    BY <2>1 DEF Reply
  <2>2. CASE ~(ev[e].pc = "waiting" /\ ev[e].id = id)
    BY <2>2 DEF Reply
  <2>. QED BY <1>2, <2>1, <2>2
<1>. QED BY <1>1, <1>2

LEMMA HungUpOk ==
  ASSUME HookInv, NEW kept
  PROVE  /\ DOMAIN HungUp(evals, kept) = Evaluators
         /\ \A x \in Evaluators : EvalOk(deciders, HungUp(evals, kept)[x])
<1>1. ASSUME NEW x \in Evaluators
      PROVE  EvalOk(deciders, HungUp(evals, kept)[x])
  <2>1. EvalOk(deciders, evals[x])
    BY DEF HookInv
  <2>2. CASE evals[x].pc = "waiting" /\ evals[x].id \in DOMAIN hookPending \ DOMAIN kept
    <3>. DEFINE v == [evals[x] EXCEPT !.open = FALSE]
    <3>1. HungUp(evals, kept)[x] = v
      BY <2>2 DEF HungUp
    <3>2. DOMAIN evals[x] = {"pc", "packet", "id", "deadline", "reply", "open"}
      BY <2>1, <2>2 DEF EvalOk
    <3>3. v.pc = "waiting" /\ DOMAIN v = DOMAIN evals[x] /\ v.reply = evals[x].reply
      BY <2>2, <3>2
    <3>. HIDE DEF v
    <3>. QED BY <2>1, <2>2, <3>1, <3>2, <3>3 DEF EvalOk
  <2>3. CASE ~(evals[x].pc = "waiting" /\ evals[x].id \in DOMAIN hookPending \ DOMAIN kept)
    BY <2>1, <2>3 DEF HungUp
  <2>. QED BY <2>2, <2>3
<1>. QED BY <1>1 DEF HungUp

\* What a step of the dispatcher has to keep, besides its queue.
BusOk(dd, now, fc, hp, ev, d) ==
  /\ CacheOk(dd, now, fc) /\ \A id \in DOMAIN hp : FlowOk(hp[id])
  /\ DOMAIN ev = Evaluators /\ \A e \in Evaluators : EvalOk(dd, ev[e])
  /\ d \in dd \cup {NoClient}

Bus == BusOk(deciders, hookTime, flowCache, hookPending, evals, deciderOf)

LEMMA OnHelloOk ==
  ASSUME Bus, NEW m, OnHello(m)
  PROVE  BusOk(deciders', hookTime, flowCache', hookPending', evals', deciderOf')
<1>1. /\ deciders' = deciders \cup ({deciderOf'} \ {NoClient})
      /\ UNCHANGED <<hookPending, flowCache, evals>>
  BY DEF OnHello
<1>2. deciders \subseteq deciders' /\ deciderOf' \in deciders' \cup {NoClient}
  BY <1>1
<1>. QED BY <1>1, <1>2, DecidersGrow DEF Bus, BusOk

LEMMA OnDispatchOk ==
  ASSUME HookInv, NEW m, MsgOk(m), m.type = "Dispatch", OnDispatch(m)
  PROVE  BusOk(deciders', hookTime, flowCache', hookPending', evals', deciderOf')
<1>. DEFINE kept == Swept
            gone == HungUp(evals, kept)
            new == [by |-> m.by, flow |-> m.flow, about |-> m.about, deadline |-> m.deadline]
<1>1. /\ UNCHANGED <<deciders, flowCache, deciderOf>>
      /\ evals' = gone \/ evals' = Reply(gone, m.by, m.id, DefaultResult)
      /\ hookPending' = kept \/ hookPending' = Inserted(kept, m.id, new)
  BY Zenon DEF OnDispatch
<1>2. \A id \in DOMAIN kept : FlowOk(kept[id])
  BY DEF Swept, Dropped, HookInv
<1>3. FlowOk(new)
  BY DEF MsgOk, FlowOk
<1>4. DOMAIN gone = Evaluators /\ \A x \in Evaluators : EvalOk(deciders, gone[x])
  BY HungUpOk
<1>. HIDE DEF kept, gone, new
<1>5. \A id \in DOMAIN hookPending' : FlowOk(hookPending'[id])
  BY <1>1, <1>2, <1>3 DEF Inserted
<1>6. DefaultResult.action = DefaultAction
  BY DEF DefaultResult
<1>7. DOMAIN evals' = Evaluators /\ \A x \in Evaluators : EvalOk(deciders, evals'[x])
  BY <1>1, <1>4, <1>6, ReplyOk
<1>. QED BY <1>1, <1>5, <1>7 DEF HookInv, BusOk

LEMMA OnVerdictOk ==
  ASSUME HookInv, NEW m, MsgOk(m), m.type = "ClientVerdict", OnVerdict(m)
  PROVE  BusOk(deciders', hookTime, flowCache', hookPending', evals', deciderOf')
<1>. DEFINE p == hookPending[m.id]
            result == [action |-> m.action, giver |-> m.client]
            entry == [action |-> m.action, giver |-> m.client, about |-> p.about,
                      expires |-> hookTime + Min({m.ttl, TtlCap})]
<1>1. UNCHANGED <<deciders, deciderOf>>
  BY DEF OnVerdict, ApplyVerdict
<1>2. CASE UNCHANGED <<hookPending, evals, flowCache>>
  BY <1>1, <1>2 DEF HookInv, BusOk
<1>3. CASE /\ m.client = deciderOf /\ m.id \in DOMAIN hookPending
           /\ hookPending' = Dropped(hookPending, {m.id})
           /\ evals' = Reply(evals, p.by, m.id, result)
           /\ flowCache' = flowCache \/ flowCache' = Inserted(flowCache, p.flow, entry)
  <2>1. m.client \in deciders
    BY <1>3, NoClientAssumption DEF MsgOk, HookInv
  <2>2. result.giver \in deciders
    BY <2>1
  <2>3. DOMAIN evals' = Evaluators /\ \A x \in Evaluators : EvalOk(deciders, evals'[x])
    BY <1>3, <2>2, ReplyOk DEF HookInv
  <2>4. \A id \in DOMAIN hookPending' : FlowOk(hookPending'[id])
    BY <1>3 DEF Dropped, HookInv
  <2>5. Min({m.ttl, TtlCap}) \in Int /\ Min({m.ttl, TtlCap}) <= TtlCap
    <3>1. m.ttl \in Int /\ TtlCap \in Int
      BY HookAssumption DEF MsgOk
    <3>. QED BY <3>1, MinOfTwo
  <2>6. p.about \in HookPackets /\ p.flow = FlowKey(Inspect(p.about))
    BY <1>3 DEF HookInv, FlowOk
  <2>7. /\ entry.giver = m.client /\ entry.about = p.about
        /\ entry.expires = hookTime + Min({m.ttl, TtlCap})
    OBVIOUS
  <2>. HIDE DEF entry, p
  <2>8. hookTime \in Nat /\ TtlCap \in Nat
    BY HookAssumption DEF HookInv
  <2>9. entry.expires \in Int /\ entry.expires <= hookTime + TtlCap
    BY <2>5, <2>7, <2>8
  <2>10. CacheOk(deciders, hookTime, flowCache')
    BY <1>3, <2>1, <2>6, <2>7, <2>9 DEF CacheOk, Inserted, HookInv
  <2>. QED BY <1>1, <2>3, <2>4, <2>10 DEF BusOk, HookInv
<1>. QED BY <1>2, <1>3 DEF OnVerdict, ApplyVerdict

LEMMA OnDisconnectOk ==
  ASSUME HookInv, NEW m, OnDisconnect(m)
  PROVE  BusOk(deciders', hookTime, flowCache', hookPending', evals', deciderOf')
<1>1. UNCHANGED <<flowCache, deciders>>
  BY DEF OnDisconnect
<1>2. CASE UNCHANGED <<deciderOf, has_decider, hookPending, evals>>
  BY <1>1, <1>2 DEF HookInv, BusOk
<1>3. CASE /\ deciderOf' = NoClient /\ hookPending' = <<>>
           /\ evals' = [e \in Evaluators |->
                IF evals[e].pc = "waiting" /\ evals[e].id \in DOMAIN hookPending
                THEN [evals[e] EXCEPT !.reply = <<DefaultResult>>] ELSE evals[e]]
  <2>1. ASSUME NEW e \in Evaluators
        PROVE  EvalOk(deciders, evals'[e])
    <3>1. EvalOk(deciders, evals[e])
      BY DEF HookInv
    <3>2. CASE evals[e].pc = "waiting" /\ evals[e].id \in DOMAIN hookPending
      <4>. DEFINE v == [evals[e] EXCEPT !.reply = <<DefaultResult>>]
      <4>1. evals'[e] = v
        BY <1>3, <3>2
      <4>2. DOMAIN evals[e] = {"pc", "packet", "id", "deadline", "reply", "open"}
        BY <3>1, <3>2 DEF EvalOk
      <4>3. v.pc = "waiting" /\ DOMAIN v = DOMAIN evals[e] /\ v.reply = <<DefaultResult>>
        BY <3>2, <4>2
      <4>. HIDE DEF v
      <4>4. DefaultResult.action = DefaultAction
        BY DEF DefaultResult
      <4>. QED BY <4>1, <4>2, <4>3, <4>4 DEF EvalOk
    <3>3. CASE ~(evals[e].pc = "waiting" /\ evals[e].id \in DOMAIN hookPending)
      BY <1>3, <3>1, <3>3
    <3>. QED BY <3>2, <3>3
  <2>2. DOMAIN hookPending' = {} /\ DOMAIN evals' = Evaluators
    BY <1>3
  <2>. QED BY <1>1, <1>3, <2>1, <2>2 DEF HookInv, BusOk
<1>. QED BY <1>2, <1>3 DEF OnDisconnect

LEMMA DispatchLoopPreserves == HookInv /\ DispatchLoop => HookInv'
<1>. SUFFICES ASSUME HookInv, DispatchLoop PROVE HookInv'
  OBVIOUS
<1>. DEFINE m == Head(hookQ)
<1>1. hookQ # <<>> /\ hookQ' = Tail(hookQ) /\ hookTime' = hookTime
  BY DEF DispatchLoop
<1>2. QueueOk(hookQ') /\ MsgOk(m)
  BY <1>1, QueueShrinks DEF HookInv
<1>3. Bus
  BY DEF HookInv, Bus, BusOk
<1>4. BusOk(deciders', hookTime, flowCache', hookPending', evals', deciderOf')
  <2>1. \/ OnHello(m) \/ (m.type = "Dispatch" /\ OnDispatch(m))
        \/ (m.type = "ClientVerdict" /\ OnVerdict(m)) \/ OnDisconnect(m)
    BY DEF DispatchLoop
  <2>. HIDE DEF m
  <2>. QED BY <1>2, <1>3, <2>1, OnHelloOk, OnDispatchOk, OnVerdictOk, OnDisconnectOk
<1>. QED BY <1>1, <1>2, <1>4 DEF HookInv, BusOk

LEMMA HookInitInv == HookInit => HookInv
<1>. SUFFICES ASSUME HookInit PROVE HookInv
  OBVIOUS
<1>1. /\ hookTime = 0 \/ hookTime \in Nat
      /\ flowCache = <<>> /\ hookPending = <<>> /\ hookQ = <<>> /\ deciderOf = NoClient
      /\ evals = [e \in Evaluators |-> [pc |-> "idle"]]
  BY DEF HookInit
<1>2. EvalOk(deciders, [pc |-> "idle"])
  <2>1. DOMAIN [pc |-> "idle"] = {"pc"} /\ [pc |-> "idle"].pc = "idle"
    OBVIOUS
  <2>. QED BY <2>1 DEF EvalOk
<1>3. QueueOk(<<>>)
  BY DEF QueueOk
<1>4. DOMAIN flowCache = {} /\ DOMAIN hookPending = {}
  BY <1>1
<1>. QED BY <1>1, <1>2, <1>3, <1>4 DEF HookInv, CacheOk

LEMMA HookNextInv ==
  ASSUME WholePackets
  PROVE  HookInv /\ [HookNext]_hookVars => HookInv'
<1>. SUFFICES ASSUME HookInv, [HookNext]_hookVars PROVE HookInv'
  OBVIOUS
<1>1. CASE UNCHANGED hookVars
  BY <1>1 DEF hookVars, HookInv
<1>2. CASE HookTick
  <2>1. /\ hookTime' = hookTime + 1
        /\ UNCHANGED <<hookQ, deciderOf, hookPending, flowCache, evals, deciders>>
    BY <1>2 DEF HookTick
  <2>2. TtlCap \in Nat
    BY HookAssumption
  <2>3. CacheOk(deciders, hookTime', flowCache)
    BY <2>1, <2>2 DEF HookInv, CacheOk
  <2>. QED BY <2>1, <2>3 DEF HookInv
<1>. QED BY <1>1, <1>2, EvaluatePreserves, AnsweredPreserves, ClientPreserves,
            DispatchLoopPreserves DEF HookNext

\* A verdict other than the default was given by a client that held the decision
\* slot, about this conversation, within its time to live: for any clients,
\* evaluators, queue sizes and times, through slow and departing clients, late
\* verdicts and the sweep of the pending table.
THEOREM DeciderRules == ASSUME WholePackets PROVE HookSpec => []OnlyTheDeciderRules
BY HookInitInv, HookNextInv, HookInvSuffices, PTL DEF HookSpec

-----------------------------------------------------------------------------
(* Observation: the round trip. *)

\* The tracker t of node n, whose last receipt had been under way for leg: the
\* two stamps it keeps were taken by two clocks, leg apart in true time.
TrackerTrue(t, n, leg, now) ==
  \/ leg = NoRtt /\ t.peer_send = 0 /\ t.peer_recv = 0
  \/ /\ leg \in Nat /\ t.peer_recv \in Offset[n] .. (now + Offset[n])
     /\ t.peer_recv - Offset[n] >= leg
     /\ t.peer_send = t.peer_recv - Offset[n] - leg + Offset[ObsPeer(n)]

\* A receipt in flight: its echo tells, in the clock of the one it goes to, when
\* the receipt it echoes was sent, less the time it waited at the sender.
ReceiptTrue(r, now) ==
  /\ r.from \in ObsNodes /\ r.sentAt \in 0..now /\ r.send_ts = r.sentAt + Offset[r.from]
  /\ \/ r.leg = NoRtt /\ r.echo.lsr = 0 /\ r.echo.dlsr = EchoNone
     \/ /\ r.leg \in Nat /\ r.echo.dlsr \in Nat /\ r.sentAt >= r.leg + r.echo.dlsr
        /\ r.echo.lsr = r.sentAt - r.leg - r.echo.dlsr + Offset[ObsPeer(r.from)]

RttInv ==
  /\ obsNow \in Nat
  /\ obsTrue \in [ObsNodes -> [leg : Int, rtt : Int]]
  /\ DOMAIN obs = ObsNodes
  /\ \A n \in ObsNodes :
       /\ "rtt" \in DOMAIN obs[n]
       /\ obs[n].rtt \in [peer_send : Nat, peer_recv : Nat, rtt : Int]
       /\ TrackerTrue(obs[n].rtt, n, obsTrue[n].leg, obsNow)
  /\ \A r \in reports : ReceiptTrue(r, obsNow)
  /\ RttIsTrue

LEMMA ObserveConstants ==
  /\ WindowBits \in Nat /\ WindowBits > 0 /\ JumpGuard \in Nat /\ JumpGuard >= WindowBits
  /\ MaxSas \in Nat /\ MaxSas > 0 /\ ObsKeys \in Nat /\ MaxObsCtr \in Nat
  /\ \A n \in ObsNodes : Offset[n] \in Nat /\ Offset[n] > 0 /\ ObsPeer(n) \in ObsNodes
  BY ObserveAssumption DEF ObsNodes, ObsPeer

\* The greater of two integers: a missing waiting time counts as none.
LEMMA MaxOfTwo ==
  ASSUME NEW a \in Int, NEW b \in Int
  PROVE  Max({a, b}) = IF a >= b THEN a ELSE b
<1>1. \E x \in {a, b} : \A y \in {a, b} : x >= y
  OBVIOUS
<1>2. Max({a, b}) \in {a, b} /\ \A y \in {a, b} : Max({a, b}) >= y
  BY <1>1 DEF Max
<1>. QED BY <1>2

\* What the tracker computes from a receipt that was leg back and is taken in now.
LEMMA RttOfReceipt ==
  ASSUME NEW now \in Nat, NEW r, ReceiptTrue(r, now),
         NEW t \in [peer_send : Nat, peer_recv : Nat, rtt : Int]
  PROVE  LET n == ObsPeer(r.from)
             u == RttOnReport(t, now + Offset[n], r)
         IN /\ u \in [peer_send : Nat, peer_recv : Nat, rtt : Int]
            /\ u.rtt = IF r.leg = NoRtt THEN t.rtt ELSE r.leg + now - r.sentAt
            /\ TrackerTrue(u, n, now - r.sentAt, now)
<1>. DEFINE n == ObsPeer(r.from)
            total == r.echo.lsr + Max({0, r.echo.dlsr})
            u == RttOnReport(t, now + Offset[n], r)
<1>1. /\ r.from \in ObsNodes /\ n \in ObsNodes /\ ObsPeer(n) = r.from
      /\ Offset[n] \in Nat /\ Offset[n] > 0 /\ Offset[r.from] \in Nat
  BY ObserveConstants DEF ReceiptTrue, ObsNodes, ObsPeer
<1>2. r.sentAt \in Nat /\ r.sentAt <= now /\ r.send_ts = r.sentAt + Offset[r.from]
  BY DEF ReceiptTrue
<1>3. /\ u.peer_send = r.send_ts /\ u.peer_recv = now + Offset[n]
      /\ u.rtt = IF r.echo.lsr # 0 /\ now + Offset[n] >= total THEN (now + Offset[n]) - total ELSE t.rtt
      /\ u = [peer_send |-> u.peer_send, peer_recv |-> u.peer_recv, rtt |-> u.rtt]
  <2>. DEFINE v == IF r.echo.lsr # 0 /\ now + Offset[n] >= total THEN (now + Offset[n]) - total ELSE t.rtt
  <2>1. u = [peer_send |-> r.send_ts, peer_recv |-> now + Offset[n], rtt |-> v]
    BY Zenon DEF RttOnReport
  <2>. HIDE DEF u, v
  <2>2. /\ u.peer_send = r.send_ts /\ u.peer_recv = now + Offset[n] /\ u.rtt = v
        /\ u = [peer_send |-> u.peer_send, peer_recv |-> u.peer_recv, rtt |-> u.rtt]
    BY <2>1
  <2>. QED BY <2>2 DEF v
<1>. HIDE DEF u
<1>4. u.rtt \in Int /\ u.rtt = IF r.leg = NoRtt THEN t.rtt ELSE r.leg + now - r.sentAt
  <2>1. CASE r.leg = NoRtt
    <3>1. r.echo.lsr = 0
      BY <2>1 DEF ReceiptTrue, NoRtt
    <3>. QED BY <2>1, <3>1, <1>3
  <2>2. CASE r.leg # NoRtt
    <3>1. /\ r.leg \in Nat /\ r.echo.dlsr \in Nat /\ r.sentAt >= r.leg + r.echo.dlsr
          /\ r.echo.lsr = r.sentAt - r.leg - r.echo.dlsr + Offset[n]
      BY <2>2 DEF ReceiptTrue
    <3>2. Max({0, r.echo.dlsr}) = r.echo.dlsr
      BY <3>1, MaxOfTwo
    <3>. QED BY <3>1, <3>2, <2>2, <1>1, <1>2, <1>3
  <2>. QED BY <2>1, <2>2
<1>5. u.peer_send \in Nat /\ u.peer_recv \in Nat
  BY <1>1, <1>2, <1>3
<1>6. u \in [peer_send : Nat, peer_recv : Nat, rtt : Int]
  BY <1>3, <1>4, <1>5
<1>7. TrackerTrue(u, n, now - r.sentAt, now)
  BY <1>1, <1>2, <1>3 DEF TrackerTrue
<1>. QED BY <1>4, <1>6, <1>7 DEF u

LEMMA RttInvInit == ObsInit => RttInv
<1>. SUFFICES ASSUME ObsInit PROVE RttInv
  OBVIOUS
<1>1. \A n \in ObsNodes : "rtt" \in DOMAIN obs[n] /\ obs[n].rtt = RttNew
  BY DEF ObsInit, ObserveNew
<1>. QED BY <1>1 DEF ObsInit, RttInv, RttNew, RttIsTrue, TrackerTrue, NoRtt

LEMMA RttInvNext == RttInv /\ [ObsNext]_obsVars => RttInv'
<1>. SUFFICES ASSUME RttInv, [ObsNext]_obsVars PROVE RttInv'
  OBVIOUS
<1>1. CASE ObsTick
  <2>1. /\ obsNow' = obsNow + 1 /\ UNCHANGED <<obs, reports, obsTrue>>
    BY <1>1 DEF ObsTick
  <2>2. \A n \in ObsNodes : TrackerTrue(obs[n].rtt, n, obsTrue[n].leg, obsNow + 1)
    BY ObserveConstants DEF RttInv, TrackerTrue
  <2>3. \A r \in reports : ReceiptTrue(r, obsNow + 1)
    BY DEF RttInv, ReceiptTrue
  <2>. QED BY <2>1, <2>2, <2>3 DEF RttInv, RttIsTrue
<1>2. ASSUME NEW p \in ObsPaths, NEW k, NEW c, ObserveInbound(p, k, c) PROVE RttInv'
  <2>1. UNCHANGED <<reports, obsNow, obsTrue>>
    BY <1>2 DEF ObserveInbound
  <2>2. /\ DOMAIN obs' = DOMAIN obs
        /\ \A n \in ObsNodes : "rtt" \in DOMAIN obs'[n] /\ obs'[n].rtt = obs[n].rtt
    BY <1>2 DEF ObserveInbound, RttInv
  <2>. QED BY <2>1, <2>2 DEF RttInv, RttIsTrue
<1>3. ASSUME NEW n \in ObsNodes, BuildReport(n) PROVE RttInv'
  <2>1. UNCHANGED <<obsNow, obsTrue>>
    BY <1>3 DEF BuildReport
  <2>2. /\ DOMAIN obs' = DOMAIN obs
        /\ \A m \in ObsNodes : "rtt" \in DOMAIN obs'[m] /\ obs'[m].rtt = obs[m].rtt
    BY <1>3 DEF BuildReport, RttInv
  <2>3. PICK new : /\ reports' = reports \cup {new}
                   /\ new.from = n /\ new.send_ts = obsNow + Offset[n]
                   /\ new.echo = RttEcho(obs[n].rtt, obsNow + Offset[n])
                   /\ new.sentAt = obsNow /\ new.leg = obsTrue[n].leg
    <3>. DEFINE o == obs[n]
                ages == [p \in ObsPaths |-> PathAge(o.rx[p], obsNow + Offset[n])]
                new == [from |-> n, seq |-> o.seq, send_ts |-> obsNow + Offset[n],
                        echo |-> RttEcho(o.rtt, obsNow + Offset[n]),
                        main |-> Slot(o.rx["main"].sas, ages["main"]),
                        alt |-> Slot(o.rx["alt"].sas, ages["alt"]),
                        union |-> Slot(o.union, Min({ages[p] : p \in ObsPaths})),
                        sentAt |-> obsNow, leg |-> obsTrue[n].leg]
    <3>1. reports' = reports \cup {new}
      BY <1>3, Zenon DEF BuildReport, Clock
    <3>2. /\ new.from = n /\ new.send_ts = obsNow + Offset[n]
          /\ new.echo = RttEcho(obs[n].rtt, obsNow + Offset[n])
          /\ new.sentAt = obsNow /\ new.leg = obsTrue[n].leg
      OBVIOUS
    <3>. QED BY <3>1, <3>2
  <2>4. ReceiptTrue(new, obsNow)
    <3>. DEFINE t == obs[n].rtt  leg == obsTrue[n].leg  clock == obsNow + Offset[n]
    <3>1. /\ t \in [peer_send : Nat, peer_recv : Nat, rtt : Int] /\ obsNow \in Nat
          /\ TrackerTrue(t, n, leg, obsNow) /\ Offset[n] \in Nat /\ Offset[n] > 0
          /\ Offset[ObsPeer(n)] \in Nat
      BY ObserveConstants DEF RttInv
    <3>2. /\ new.echo.lsr = t.peer_send
          /\ new.echo.dlsr = IF t.peer_recv = 0 THEN EchoNone ELSE clock - t.peer_recv
      BY <2>3 DEF RttEcho
    <3>. HIDE DEF t, leg
    <3>3. CASE leg = NoRtt
      <4>1. t.peer_send = 0 /\ t.peer_recv = 0
        BY <3>1, <3>3 DEF TrackerTrue, NoRtt
      <4>. QED BY <4>1, <3>1, <3>2, <3>3, <2>3 DEF ReceiptTrue, leg
    <3>4. CASE leg # NoRtt
      <4>1. /\ leg \in Nat /\ t.peer_recv >= Offset[n] /\ t.peer_recv <= clock
            /\ t.peer_recv - Offset[n] >= leg
            /\ t.peer_send = t.peer_recv - Offset[n] - leg + Offset[ObsPeer(n)]
        BY <3>1, <3>4 DEF TrackerTrue
      <4>. QED BY <4>1, <3>1, <3>2, <2>3 DEF ReceiptTrue, leg
    <3>. QED BY <3>3, <3>4
  <2>. QED BY <2>1, <2>2, <2>3, <2>4 DEF RttInv, RttIsTrue
<1>4. ASSUME NEW r \in reports, IngestReport(r) PROVE RttInv'
  <2>. DEFINE n == ObsPeer(r.from)
              u == RttOnReport(obs[n].rtt, obsNow + Offset[n], r)
  <2>1. n \in ObsNodes /\ ReceiptTrue(r, obsNow) /\ obsNow \in Nat /\ obsNow' = obsNow
    BY <1>4, ObserveConstants DEF RttInv, ReceiptTrue, IngestReport
  <2>2. /\ DOMAIN obs' = DOMAIN obs
        /\ \A m \in ObsNodes : "rtt" \in DOMAIN obs'[m] /\ obs'[m].rtt = IF m = n THEN u ELSE obs[m].rtt
    <3>1. PICK base : /\ "rtt" \in DOMAIN base
                      /\ obs' = [obs EXCEPT ![n] = [base EXCEPT !.rtt = u, !.prev = <<[union |-> r.union]>>]]
      <4>. DEFINE o == obs[n]
                  d == Delta(r.union, o.prev[1].union)
                  judged == [o EXCEPT !.breaker = IF DualPath THEN BreakerUpdate(@, r.main.age, r.alt.age) ELSE @,
                                      !.gate = GateUpdate(@, d),
                                      !.cc = CcUpdate(@, d, u.rtt, Clock(n))]
                  base == IF o.prev = <<>> THEN o ELSE judged
      <4>1. "rtt" \in DOMAIN o
        BY <2>1 DEF RttInv
      <4>2. DOMAIN judged = DOMAIN o
        OBVIOUS
      <4>3. "rtt" \in DOMAIN base
        BY <4>1, <4>2
      <4>4. obs' = [obs EXCEPT ![n] = [base EXCEPT !.rtt = u, !.prev = <<[union |-> r.union]>>]]
        BY <1>4 DEF IngestReport, Clock
      <4>. QED BY <4>3, <4>4
    <3>2. DOMAIN obs = ObsNodes /\ \A m \in ObsNodes : "rtt" \in DOMAIN obs[m]
      BY DEF RttInv
    <3>. HIDE DEF n, u
    <3>. QED BY <3>1, <3>2, <2>1
  <2>3. reports' = reports \ {r}
    BY <1>4 DEF IngestReport
  <2>4. obsTrue' = [obsTrue EXCEPT ![n] =
          [leg |-> obsNow - r.sentAt, rtt |-> IF r.leg = NoRtt THEN obsTrue[n].rtt ELSE r.leg + obsNow - r.sentAt]]
    BY <1>4 DEF IngestReport
  <2>5. /\ u \in [peer_send : Nat, peer_recv : Nat, rtt : Int]
        /\ u.rtt = IF r.leg = NoRtt THEN obs[n].rtt.rtt ELSE r.leg + obsNow - r.sentAt
        /\ TrackerTrue(u, n, obsNow - r.sentAt, obsNow)
    BY <2>1, RttOfReceipt DEF RttInv
  <2>6. obsNow - r.sentAt \in Int /\ u.rtt \in Int /\ obs[n].rtt.rtt = obsTrue[n].rtt
    BY <2>1, <2>5 DEF RttInv, RttIsTrue, ReceiptTrue
  <2>. HIDE DEF n, u
  <2>7. /\ obsTrue' \in [ObsNodes -> [leg : Int, rtt : Int]]
        /\ \A m \in ObsNodes : obsTrue'[m] = IF m = n THEN [leg |-> obsNow - r.sentAt, rtt |-> u.rtt]
                                              ELSE obsTrue[m]
    BY <2>1, <2>4, <2>5, <2>6 DEF RttInv
  <2>8. \A m \in ObsNodes : TrackerTrue(obs'[m].rtt, m, obsTrue'[m].leg, obsNow)
    BY <2>2, <2>5, <2>7 DEF RttInv
  <2>. QED BY <2>1, <2>2, <2>3, <2>5, <2>7, <2>8 DEF RttInv, RttIsTrue
<1>5. ASSUME NEW r \in reports, ObsLose(r) PROVE RttInv'
  BY <1>5 DEF ObsLose, RttInv, RttIsTrue
<1>6. CASE UNCHANGED obsVars
  BY <1>6 DEF obsVars, RttInv, RttIsTrue
<1>. QED BY <1>1, <1>2, <1>3, <1>4, <1>5, <1>6 DEF ObsNext

-----------------------------------------------------------------------------
(* Observation: the counters. *)

Counters == 0..MaxObsCtr
Masks == SUBSET (0 .. (WindowBits - 1))
Windows == [top : Nat, mask : Masks, expected : Nat, seen : Nat, dup : Nat, resets : Nat]
SaEntries == [key : 1..ObsKeys, w : Windows]

\* The frames a window counted, each as seen or as dup.
Arrivals(w) == w.seen + w.dup

\* A window over the counters G that arrived in all T times: the frames it counts
\* as seen are as many different counters, each of which, while it lies in the
\* window, is marked there; the expected ones lie between two that arrived.
WindowSound(w, G, T) ==
  /\ w \in Windows /\ w.top \in G /\ w.seen > 0 /\ Arrivals(w) <= T
  /\ \E C \in SUBSET G :
       /\ Cardinality(C) = w.seen
       /\ \A x \in C : x <= w.top /\ (w.top - x < WindowBits => w.top - x \in w.mask)
  /\ \E first \in G : first <= w.top /\ w.expected <= w.top - first + 1

\* The windows of all generations, G[k] and T[k] being what arrived under k: as
\* long as no more generations came than there is room for, none was evicted.
SasSound(sas, G, T) ==
  /\ sas \in Seq(SaEntries) /\ Len(sas) <= MaxSas
  /\ \A i, j \in 1..Len(sas) : sas[i].key = sas[j].key => i = j
  /\ \A i \in 1..Len(sas) : WindowSound(sas[i].w, G[sas[i].key], T[sas[i].key])
  /\ Cardinality({k \in 1..ObsKeys : T[k] > 0}) <= MaxSas
     => /\ \A k \in 1..ObsKeys : T[k] > 0 => \E i \in 1..Len(sas) : sas[i].key = k
        /\ \A i \in 1..Len(sas) : Arrivals(sas[i].w) = T[sas[i].key]

\* A window with some of its fields replaced.
Marked(w, m, s) == [w EXCEPT !.mask = m, !.seen = s]
Moved(w, t, m, e, s) == [w EXCEPT !.top = t, !.mask = m, !.expected = e, !.seen = s]
WindowIs(v, t, m, e, s, d, r) ==
  /\ v \in Windows /\ v.top = t /\ v.mask = m /\ v.expected = e /\ v.seen = s
  /\ v.dup = d /\ v.resets = r

LEMMA WindowMarked ==
  ASSUME NEW w \in Windows, NEW m \in Masks, NEW s \in Nat,
         NEW v, v = Marked(w, m, s)
  PROVE  WindowIs(v, w.top, m, w.expected, s, w.dup, w.resets)
<1>. DEFINE a == [w EXCEPT !.mask = m]
<1>1. /\ a \in Windows /\ a.top = w.top /\ a.mask = m /\ a.expected = w.expected
      /\ a.seen = w.seen /\ a.dup = w.dup /\ a.resets = w.resets
  BY DEF Windows
<1>2. v = [a EXCEPT !.seen = s]
  BY DEF Marked
<1>. HIDE DEF a
<1>3. /\ v \in Windows /\ v.top = a.top /\ v.mask = a.mask /\ v.expected = a.expected
      /\ v.seen = s /\ v.dup = a.dup /\ v.resets = a.resets
  BY <1>1, <1>2 DEF Windows
<1>. QED BY <1>1, <1>3 DEF WindowIs

LEMMA WindowMoved ==
  ASSUME NEW w \in Windows, NEW t \in Nat, NEW m \in Masks, NEW e \in Nat, NEW s \in Nat,
         NEW v, v = Moved(w, t, m, e, s)
  PROVE  WindowIs(v, t, m, e, s, w.dup, w.resets)
<1>. DEFINE a == [w EXCEPT !.top = t]
            b == [a EXCEPT !.mask = m]
            d == [b EXCEPT !.expected = e]
<1>0. v = [d EXCEPT !.seen = s]
  BY Zenon DEF Moved
<1>1. a \in Windows /\ a.top = t /\ a.dup = w.dup /\ a.resets = w.resets
  BY DEF Windows
<1>2. ASSUME NEW x, x = a PROVE
        LET y == [x EXCEPT !.mask = m]
        IN y \in Windows /\ y.top = t /\ y.mask = m /\ y.dup = w.dup /\ y.resets = w.resets
  <2>. HIDE DEF a
  <2>. QED BY <1>1, <1>2 DEF Windows
<1>3. b \in Windows /\ b.top = t /\ b.mask = m /\ b.dup = w.dup /\ b.resets = w.resets
  <2>. HIDE DEF a
  <2>. QED BY <1>2
<1>. HIDE DEF b
<1>4. /\ d \in Windows /\ d.top = t /\ d.mask = m /\ d.expected = e /\ d.dup = w.dup
      /\ d.resets = w.resets
  BY <1>3 DEF Windows
<1>. HIDE DEF d
<1>5. /\ v \in Windows /\ v.top = t /\ v.mask = m /\ v.expected = e /\ v.seen = s
      /\ v.dup = w.dup /\ v.resets = w.resets
  BY <1>0, <1>4 DEF Windows
<1>. QED BY <1>5 DEF WindowIs

\* A window stays sound over the counter it takes in; seen or dup grows by one.
LEMMA WindowKeeps ==
  ASSUME NEW G \in SUBSET Counters, NEW T \in Nat, NEW c \in Counters, NEW w, WindowSound(w, G, T)
  PROVE  /\ WindowSound(WindowObserve(w, c), G \cup {c}, T + 1)
         /\ Arrivals(WindowObserve(w, c)) = Arrivals(w) + 1
<1>. DEFINE delta == c - w.top
            H == G \cup {c}
            v == WindowObserve(w, c)
<1>1. /\ w \in Windows /\ w.top \in G /\ w.top \in Nat /\ w.expected \in Nat /\ w.seen \in Nat
      /\ w.dup \in Nat /\ w.resets \in Nat /\ w.mask \in Masks
      /\ w.seen > 0 /\ w.seen + w.dup <= T
  BY DEF WindowSound, Windows, Arrivals
<1>2. PICK C \in SUBSET G :
        /\ Cardinality(C) = w.seen
        /\ \A x \in C : x <= w.top /\ (w.top - x < WindowBits => w.top - x \in w.mask)
  BY DEF WindowSound
<1>3. PICK first \in G : first <= w.top /\ w.expected <= w.top - first + 1
  BY DEF WindowSound
<1>4. /\ IsFiniteSet(C) /\ C \subseteq Nat /\ c \in Nat /\ G \subseteq Nat /\ first \in Nat
      /\ delta \in Int /\ WindowBits \in Nat /\ WindowBits > 0 /\ JumpGuard \in Nat
      /\ JumpGuard >= WindowBits
  <2>1. IsFiniteSet(Counters)
    BY FS_Interval, ObserveConstants DEF Counters
  <2>2. C \in SUBSET Counters
    BY <1>2
  <2>3. IsFiniteSet(C)
    BY <2>1, <2>2, FS_Subset
  <2>4. Counters \subseteq Nat
    BY ObserveConstants DEF Counters
  <2>. QED BY <1>1, <1>2, <1>3, <2>2, <2>3, <2>4, ObserveConstants
<1>5. c \notin C => Cardinality(C \cup {c}) = w.seen + 1
  BY <1>2, <1>4, FS_AddElement
<1>6. ASSUME delta > 0 PROVE c \notin C
  BY <1>1, <1>2, <1>4, <1>6
<1>7. CASE delta > JumpGuard
  <2>1. v = [w EXCEPT !.top = c, !.mask = {0}, !.expected = @ + 1, !.seen = @ + 1, !.resets = @ + 1]
    <3>1. ~(delta \in 1..JumpGuard) /\ ~(delta <= 0)
      BY <1>4, <1>7
    <3>. QED BY <3>1, <1>7 DEF WindowObserve
  <2>2. /\ v \in Windows /\ v.top = c /\ v.mask = {0} /\ v.expected = w.expected + 1
        /\ v.seen = w.seen + 1 /\ v.dup = w.dup
    <3>1. {0} \in Masks /\ c \in Nat
      BY <1>4 DEF Masks
    <3>. DEFINE u == Moved(w, c, {0}, w.expected + 1, w.seen + 1)
    <3>2. /\ u \in Windows /\ u.top = c /\ u.mask = {0} /\ u.expected = w.expected + 1
          /\ u.seen = w.seen + 1 /\ u.dup = w.dup /\ u.resets = w.resets
      <4>1. w.expected + 1 \in Nat /\ w.seen + 1 \in Nat
        BY <1>1
      <4>2. WindowIs(u, c, {0}, w.expected + 1, w.seen + 1, w.dup, w.resets)
        BY <1>1, <3>1, <4>1, WindowMoved
      <4>. QED BY <4>2 DEF WindowIs
    <3>3. v = [u EXCEPT !.resets = w.resets + 1]
      BY <2>1, Zenon DEF Moved
    <3>. HIDE DEF u, v
    <3>. QED BY <1>1, <3>2, <3>3 DEF Windows
  <2>. HIDE DEF v
  <2>3. c \notin C
    BY <1>4, <1>6, <1>7
  <2>4. \A x \in C \cup {c} : x <= v.top /\ (v.top - x < WindowBits => v.top - x \in v.mask)
    BY <1>1, <1>2, <1>4, <1>7, <2>2
  <2>5. first \in H /\ first <= v.top /\ v.expected <= v.top - first + 1
    BY <1>1, <1>3, <1>4, <1>7, <2>2
  <2>. QED BY <1>1, <1>5, <2>2, <2>3, <2>4, <2>5 DEF WindowSound, Arrivals, v
<1>8. CASE delta \in 1..JumpGuard
  <2>1. v = [w EXCEPT !.top = c, !.mask = {b + delta : b \in {x \in @ : x + delta < WindowBits}} \cup {0},
                      !.expected = @ + delta, !.seen = @ + 1]
    <3>1. ~(delta > JumpGuard) /\ ~(delta <= 0)
      BY <1>4, <1>8
    <3>. QED BY <3>1, <1>8 DEF WindowObserve
  <2>. DEFINE M == {b + delta : b \in {x \in w.mask : x + delta < WindowBits}} \cup {0}
  <2>2. M \in Masks
    BY <1>1, <1>4, <1>8 DEF Masks
  <2>3. /\ v \in Windows /\ v.top = c /\ v.mask = M /\ v.expected = w.expected + delta
        /\ v.seen = w.seen + 1 /\ v.dup = w.dup
    <3>. HIDE DEF M
    <3>1. v = Moved(w, c, M, w.expected + delta, w.seen + 1)
      BY <2>1, Zenon DEF M, Moved
    <3>2. w.expected + delta \in Nat /\ w.seen + 1 \in Nat /\ c \in Nat
      BY <1>1, <1>4, <1>8
    <3>. HIDE DEF v, delta
    <3>3. WindowIs(v, c, M, w.expected + delta, w.seen + 1, w.dup, w.resets)
      BY <1>1, <2>2, <3>1, <3>2, WindowMoved
    <3>. QED BY <3>3 DEF WindowIs
  <2>. HIDE DEF v
  <2>4. c \notin C
    BY <1>4, <1>6, <1>8
  <2>5. \A x \in C \cup {c} : x <= v.top /\ (v.top - x < WindowBits => v.top - x \in v.mask)
    <3>1. ASSUME NEW x \in C, c - x < WindowBits PROVE c - x \in M
      <4>1. w.top - x \in w.mask /\ (w.top - x) + delta < WindowBits /\ (w.top - x) + delta = c - x
        BY <1>1, <1>2, <1>4, <1>8, <3>1
      <4>. QED BY <4>1
    <3>2. \A x \in C : x <= c
      BY <1>1, <1>2, <1>4, <1>8
    <3>. QED BY <1>4, <2>3, <3>1, <3>2
  <2>6. first \in H /\ first <= v.top /\ v.expected <= v.top - first + 1
    BY <1>1, <1>3, <1>4, <1>8, <2>3
  <2>. QED BY <1>1, <1>5, <2>3, <2>4, <2>5, <2>6 DEF WindowSound, Arrivals, v
<1>9. CASE delta <= 0 /\ (-delta >= WindowBits \/ -delta \in w.mask)
  <2>1. v = [w EXCEPT !.dup = @ + 1]
    <3>1. ~(delta > JumpGuard) /\ ~(delta \in 1..JumpGuard)
      BY <1>4, <1>9
    <3>. QED BY <3>1, <1>4, <1>9 DEF WindowObserve
  <2>2. /\ v \in Windows /\ v.top = w.top /\ v.mask = w.mask /\ v.expected = w.expected
        /\ v.seen = w.seen /\ v.dup = w.dup + 1
    BY <1>1, <2>1 DEF Windows
  <2>. HIDE DEF v
  <2>. QED BY <1>1, <1>2, <1>3, <2>2 DEF WindowSound, Arrivals, v
<1>10. CASE delta <= 0 /\ -delta < WindowBits /\ -delta \notin w.mask
  <2>1. v = [w EXCEPT !.mask = @ \cup {-delta}, !.seen = @ + 1]
    <3>1. ~(delta > JumpGuard) /\ ~(delta \in 1..JumpGuard) /\ ~(-delta >= WindowBits)
      BY <1>4, <1>10
    <3>. QED BY <3>1, <1>10 DEF WindowObserve
  <2>2. -delta \in 0 .. (WindowBits - 1) /\ -delta = w.top - c
    BY <1>1, <1>4, <1>10
  <2>3. /\ v \in Windows /\ v.top = w.top /\ v.mask = w.mask \cup {w.top - c} /\ v.expected = w.expected
        /\ v.seen = w.seen + 1 /\ v.dup = w.dup
    <3>1. /\ v = Marked(w, w.mask \cup {w.top - c}, w.seen + 1)
          /\ w.mask \cup {w.top - c} \in Masks
      BY <1>1, <2>1, <2>2 DEF Masks, Marked
    <3>2. w.seen + 1 \in Nat
      BY <1>1
    <3>. HIDE DEF v, delta
    <3>3. WindowIs(v, w.top, w.mask \cup {w.top - c}, w.expected, w.seen + 1, w.dup, w.resets)
      BY <1>1, <3>1, <3>2, WindowMarked
    <3>. QED BY <3>3 DEF WindowIs
  <2>. HIDE DEF v
  <2>4. c \notin C
    BY <1>2, <1>10, <2>2, <1>1, <1>4
  <2>5. \A x \in C \cup {c} : x <= v.top /\ (v.top - x < WindowBits => v.top - x \in v.mask)
    BY <1>1, <1>2, <1>4, <1>10, <2>2, <2>3
  <2>. QED BY <1>1, <1>3, <1>5, <2>3, <2>4, <2>5 DEF WindowSound, Arrivals, v
<1>. QED BY <1>4, <1>7, <1>8, <1>9, <1>10

\* What arrived under other generations does not touch a window, and the first
\* frame of a generation starts a sound one.
LEMMA WindowStarts ==
  ASSUME NEW G, NEW T \in Nat, NEW c \in Counters
  PROVE  WindowSound(WindowFirst(c), G \cup {c}, T + 1) /\ Arrivals(WindowFirst(c)) = 1
<1>. DEFINE w == WindowFirst(c)
<1>1. /\ w \in Windows /\ w.top = c /\ w.seen = 1 /\ w.dup = 0 /\ w.expected = 1 /\ w.mask = {0}
  BY ObserveConstants DEF WindowFirst, Windows, Masks, Counters
<1>2. c \in Nat /\ {c} \subseteq G \cup {c}
  BY ObserveConstants DEF Counters
<1>3. Cardinality({c}) = 1
  BY FS_Singleton
<1>4. c - c = 0 /\ c <= c /\ 1 <= (c - c) + 1
  BY <1>2
<1>5. \A x \in {c} : x <= w.top /\ (w.top - x < WindowBits => w.top - x \in w.mask)
  BY <1>1, <1>4
<1>. HIDE DEF w
<1>6. \E C \in SUBSET (G \cup {c}) :
        /\ Cardinality(C) = w.seen
        /\ \A x \in C : x <= w.top /\ (w.top - x < WindowBits => w.top - x \in w.mask)
  BY <1>1, <1>2, <1>3, <1>5
<1>7. w.top \in G \cup {c} /\ w.seen > 0 /\ w.seen + w.dup <= T + 1
  BY <1>1
<1>8. \E first \in G \cup {c} : first <= w.top /\ w.expected <= w.top - first + 1
  BY <1>1, <1>2
<1>. QED BY <1>1, <1>6, <1>7, <1>8 DEF WindowSound, Arrivals, w

\* No more generations have a window than frames arrived under.
LEMMA KeysAreLive ==
  ASSUME NEW T \in [1..ObsKeys -> Nat], NEW n \in Nat, NEW f \in [1..n -> 1..ObsKeys],
         \A i, j \in 1..n : f[i] = f[j] => i = j, \A i \in 1..n : T[f[i]] > 0
  PROVE  n <= Cardinality({k \in 1..ObsKeys : T[k] > 0})
<1>. DEFINE live == {k \in 1..ObsKeys : T[k] > 0}
<1>1. IsFiniteSet(1..ObsKeys) /\ IsFiniteSet(1..n) /\ Cardinality(1..n) = n
  <2>1. 1 \in Int /\ n \in Int /\ ObsKeys \in Int
    BY ObserveConstants
  <2>2. /\ IsFiniteSet(1..n) /\ Cardinality(1..n) = IF 1 > n THEN 0 ELSE n - 1 + 1
        /\ IsFiniteSet(1..ObsKeys)
    BY <2>1, FS_Interval
  <2>. QED BY <2>2
<1>2. IsFiniteSet(live)
  <2>1. live \in SUBSET (1..ObsKeys)
    OBVIOUS
  <2>. QED BY <1>1, <2>1, FS_Subset
<1>3. f \in Injection(1..n, live)
  BY DEF Injection, IsInjective
<1>4. Cardinality(1..n) <= Cardinality(live)
  BY <1>2, <1>3, FS_Injection
<1>. QED BY <1>1, <1>4

LEMMA SasKeep ==
  ASSUME NEW G \in [1..ObsKeys -> SUBSET Counters], NEW T \in [1..ObsKeys -> Nat],
         NEW k \in 1..ObsKeys, NEW c \in Counters, NEW sas, SasSound(sas, G, T)
  PROVE  SasSound(SaObserve(sas, k, c), [G EXCEPT ![k] = @ \cup {c}], [T EXCEPT ![k] = @ + 1])
<1>. DEFINE at == {i \in DOMAIN sas : sas[i].key = k}
            more == Append(sas, [key |-> k, w |-> WindowFirst(c)])
            H == [G EXCEPT ![k] = @ \cup {c}]
            U == [T EXCEPT ![k] = @ + 1]
            liveT == {j \in 1..ObsKeys : T[j] > 0}
            liveU == {j \in 1..ObsKeys : U[j] > 0}
            res == SaObserve(sas, k, c)
<1>1. /\ sas \in Seq(SaEntries) /\ Len(sas) \in Nat /\ DOMAIN sas = 1..Len(sas) /\ Len(sas) <= MaxSas
      /\ MaxSas \in Nat /\ MaxSas > 0 /\ ObsKeys \in Nat
      /\ \A i \in 1..Len(sas) : /\ sas[i] \in SaEntries /\ sas[i].key \in 1..ObsKeys
                                /\ sas[i].w \in Windows
  <2>1. sas \in Seq(SaEntries) /\ Len(sas) <= MaxSas
    BY DEF SasSound
  <2>2. Len(sas) \in Nat /\ DOMAIN sas = 1..Len(sas) /\ \A i \in 1..Len(sas) : sas[i] \in SaEntries
    BY <2>1
  <2>3. \A e \in SaEntries : e.key \in 1..ObsKeys /\ e.w \in Windows
    BY DEF SaEntries
  <2>. QED BY <2>1, <2>2, <2>3, ObserveConstants
<1>2. /\ \A i, j \in 1..Len(sas) : sas[i].key = sas[j].key => i = j
      /\ \A i \in 1..Len(sas) : WindowSound(sas[i].w, G[sas[i].key], T[sas[i].key])
      /\ Cardinality(liveT) <= MaxSas
         => /\ \A j \in 1..ObsKeys : T[j] > 0 => \E i \in 1..Len(sas) : sas[i].key = j
            /\ \A i \in 1..Len(sas) : Arrivals(sas[i].w) = T[sas[i].key]
  BY DEF SasSound
<1>3. /\ H[k] = G[k] \cup {c} /\ U[k] = T[k] + 1 /\ G[k] \in SUBSET Counters /\ T[k] \in Nat
      /\ \A j \in 1..ObsKeys : j # k => H[j] = G[j] /\ U[j] = T[j]
      /\ U \in [1..ObsKeys -> Nat]
  OBVIOUS
<1>. HIDE DEF H, U
<1>4. liveU = liveT \cup {k} /\ (Cardinality(liveU) <= MaxSas => Cardinality(liveT) <= MaxSas)
  <2>1. liveU = liveT \cup {k}
    BY <1>3
  <2>2. IsFiniteSet(1..ObsKeys)
    BY <1>1, FS_Interval
  <2>3. IsFiniteSet(liveU) /\ IsFiniteSet(liveT) /\ liveT \in SUBSET liveU
    <3>1. liveU \in SUBSET (1..ObsKeys) /\ liveT \in SUBSET (1..ObsKeys)
      OBVIOUS
    <3>2. IsFiniteSet(liveU) /\ IsFiniteSet(liveT)
      BY <2>2, <3>1, FS_Subset
    <3>. QED BY <2>1, <3>2
  <2>4. Cardinality(liveT) <= Cardinality(liveU) /\ Cardinality(liveT) \in Nat /\ Cardinality(liveU) \in Nat
    <3>. HIDE DEF liveT, liveU
    <3>. QED BY <2>3, FS_Subset, FS_CardinalityType
  <2>5. ASSUME NEW x \in Nat, NEW y \in Nat, x <= y, y <= MaxSas PROVE x <= MaxSas
    BY <1>1, <2>5
  <2>. HIDE DEF liveT, liveU
  <2>. QED BY <2>1, <2>4, <2>5
<1>5. CASE at # {}
  <2>1. PICK a \in 1..Len(sas) : sas[a].key = k
    BY <1>1, <1>5
  <2>2. \A i \in 1..Len(sas) : i \in at <=> i = a
    BY <1>1, <1>2, <2>1
  <2>3. res = [i \in DOMAIN sas |->
                IF i \in at THEN [sas[i] EXCEPT !.w = WindowObserve(@, c)] ELSE sas[i]]
    BY <1>5 DEF SaObserve
  <2>. DEFINE v == WindowObserve(sas[a].w, c)
  <2>4. /\ WindowSound(v, H[k], U[k]) /\ Arrivals(v) = Arrivals(sas[a].w) + 1
        /\ v \in Windows
    <3>1. WindowSound(sas[a].w, G[k], T[k])
      BY <1>2, <2>1
    <3>2. /\ WindowSound(v, G[k] \cup {c}, T[k] + 1)
          /\ Arrivals(v) = Arrivals(sas[a].w) + 1
      BY <1>3, <3>1, WindowKeeps
    <3>. QED BY <1>3, <3>2 DEF WindowSound
  <2>. HIDE DEF res, at, v
  <2>5. \A i \in 1..Len(sas) :
          res[i] = IF i = a THEN [sas[i] EXCEPT !.w = v] ELSE sas[i]
    BY <1>1, <2>2, <2>3 DEF v
  <2>6. \A i \in 1..Len(sas) :
          /\ res[i] \in SaEntries /\ res[i].key = sas[i].key
          /\ res[i].w = IF i = a THEN v ELSE sas[i].w
    BY <1>1, <2>4, <2>5 DEF SaEntries
  <2>7. res \in Seq(SaEntries) /\ Len(res) = Len(sas)
    BY <1>1, <2>3, <2>6
  <2>8. \A i \in 1..Len(sas) : WindowSound(res[i].w, H[res[i].key], U[res[i].key])
    <3>1. TAKE i \in 1..Len(sas)
    <3>2. CASE i = a
      BY <3>2, <2>1, <2>4, <2>6
    <3>3. CASE i # a
      <4>1. /\ sas[i].key # k /\ sas[i].key \in 1..ObsKeys
            /\ res[i].key = sas[i].key /\ res[i].w = sas[i].w
        BY <1>1, <1>2, <2>1, <2>6, <3>3
      <4>2. H[sas[i].key] = G[sas[i].key] /\ U[sas[i].key] = T[sas[i].key]
        BY <1>3, <4>1
      <4>3. WindowSound(sas[i].w, G[sas[i].key], T[sas[i].key])
        BY <1>2
      <4>. QED BY <4>1, <4>2, <4>3
    <3>. QED BY <3>2, <3>3
  <2>9. ASSUME Cardinality(liveU) <= MaxSas
        PROVE  /\ \A j \in 1..ObsKeys : U[j] > 0 => \E i \in 1..Len(sas) : res[i].key = j
               /\ \A i \in 1..Len(sas) : Arrivals(res[i].w) = U[res[i].key]
    <3>. HIDE DEF liveT, liveU
    <3>1. /\ \A j \in 1..ObsKeys : T[j] > 0 => \E i \in 1..Len(sas) : sas[i].key = j
          /\ \A i \in 1..Len(sas) : Arrivals(sas[i].w) = T[sas[i].key]
      BY <1>2, <1>4, <2>9
    <3>2. ASSUME NEW j \in 1..ObsKeys, U[j] > 0 PROVE \E i \in 1..Len(sas) : res[i].key = j
      <4>1. \E i \in 1..Len(sas) : sas[i].key = j
        <5>1. CASE j = k
          BY <5>1, <2>1
        <5>2. CASE j # k
          <6>1. T[j] > 0
            BY <5>2, <1>3, <3>2
          <6>. QED BY <6>1, <3>1
        <5>. QED BY <5>1, <5>2
      <4>. QED BY <4>1, <2>6
    <3>3. ASSUME NEW i \in 1..Len(sas) PROVE Arrivals(res[i].w) = U[res[i].key]
      <4>1. CASE i = a
        BY <4>1, <1>3, <2>1, <2>4, <2>6, <3>1
      <4>2. CASE i # a
        <5>1. /\ sas[i].key # k /\ sas[i].key \in 1..ObsKeys
              /\ res[i].key = sas[i].key /\ res[i].w = sas[i].w
          BY <1>1, <1>2, <2>1, <2>6, <4>2
        <5>2. U[sas[i].key] = T[sas[i].key]
          BY <1>3, <5>1
        <5>. QED BY <3>1, <5>1, <5>2
      <4>. QED BY <4>1, <4>2
    <3>. QED BY <3>2, <3>3
  <2>10. \A i, j \in 1..Len(sas) : res[i].key = res[j].key => i = j
    BY <1>2, <2>6
  <2>. QED BY <1>1, <2>7, <2>8, <2>9, <2>10 DEF SasSound, res, H, U
<1>6. CASE at = {}
  <2>. DEFINE new == [key |-> k, w |-> WindowFirst(c)]
              n == Len(sas) + 1
  <2>1. WindowSound(WindowFirst(c), H[k], U[k]) /\ Arrivals(WindowFirst(c)) = 1
    <3>1. WindowSound(WindowFirst(c), G[k] \cup {c}, T[k] + 1) /\ Arrivals(WindowFirst(c)) = 1
      <4>1. T[k] \in Nat
        BY <1>3
      <4>. QED BY <4>1, WindowStarts
    <3>. QED BY <1>3, <3>1
  <2>2. new \in SaEntries /\ new.key = k /\ new.w = WindowFirst(c)
    BY <2>1 DEF SaEntries, WindowSound
  <2>. HIDE DEF new
  <2>3. /\ more \in Seq(SaEntries) /\ Len(more) = n /\ n \in Nat /\ more # <<>>
        /\ \A i \in 1..Len(sas) : more[i] = sas[i]
        /\ more[n] = new
    BY <1>1, <2>2, AppendProperties DEF new
  <2>10. \A i \in 1..n : i # n => i \in 1..Len(sas)
    BY <1>1
  <2>. HIDE DEF more
  <2>4. \A i \in 1..Len(sas) : sas[i].key # k
    BY <1>1, <1>6
  <2>5. /\ \A i, j \in 1..n : more[i].key = more[j].key => i = j
        /\ \A i \in 1..n : more[i] \in SaEntries /\ more[i].key \in 1..ObsKeys
    <3>. HIDE DEF n
    <3>1. \A i \in 1..n : /\ more[i] \in SaEntries
                          /\ more[i].key \in 1..ObsKeys
                          /\ (i # n => more[i].key = sas[i].key /\ more[i].key # k)
                          /\ (i = n => more[i].key = k)
      BY <1>1, <2>2, <2>3, <2>4, <2>10
    <3>2. ASSUME NEW i \in 1..n, NEW j \in 1..n, more[i].key = more[j].key PROVE i = j
      <4>1. CASE i = n \/ j = n
        BY <4>1, <3>1, <3>2
      <4>2. CASE i # n /\ j # n
        <5>1. /\ i \in 1..Len(sas) /\ j \in 1..Len(sas)
              /\ sas[i].key = sas[j].key
          BY <4>2, <3>1, <3>2, <2>10
        <5>. QED BY <5>1, <1>2
      <4>. QED BY <4>1, <4>2
    <3>3. \A i, j \in 1..n : more[i].key = more[j].key => i = j
      BY <3>2
    <3>. QED BY <3>1, <3>3
  <2>6. \A i \in 1..n : WindowSound(more[i].w, H[more[i].key], U[more[i].key])
    <3>1. TAKE i \in 1..n
    <3>2. CASE i = n
      BY <3>2, <2>1, <2>2, <2>3
    <3>3. CASE i # n
      <4>1. i \in 1..Len(sas) /\ more[i] = sas[i] /\ sas[i].key # k /\ sas[i].key \in 1..ObsKeys
        BY <1>1, <2>3, <2>4, <3>3
      <4>2. H[sas[i].key] = G[sas[i].key] /\ U[sas[i].key] = T[sas[i].key]
        BY <1>3, <4>1
      <4>. QED BY <4>1, <4>2, <1>2
    <3>. QED BY <3>2, <3>3
  <2>7. n <= Cardinality(liveU)
    <3>. DEFINE f == [i \in 1..n |-> more[i].key]
    <3>1. f \in [1..n -> 1..ObsKeys] /\ \A i, j \in 1..n : f[i] = f[j] => i = j
      BY <2>5
    <3>2. ASSUME NEW i \in 1..n PROVE U[f[i]] > 0
      <4>1. U[more[i].key] \in Nat /\ more[i].w.seen > 0 /\ more[i].w \in Windows
            /\ Arrivals(more[i].w) <= U[more[i].key]
        BY <1>3, <2>5, <2>6 DEF WindowSound
      <4>2. more[i].w.seen \in Nat /\ more[i].w.dup \in Nat
        BY <4>1 DEF Windows
      <4>. QED BY <4>1, <4>2 DEF Arrivals
    <3>. HIDE DEF f
    <3>. QED BY <1>3, <2>3, <3>1, <3>2, KeysAreLive
  <2>8. CASE Len(more) > MaxSas
    <3>1. res = Tail(more)
      BY <1>6, <2>8 DEF SaObserve, more, new
    <3>2. /\ res \in Seq(SaEntries) /\ Len(res) = Len(sas)
          /\ \A i \in 1..Len(sas) : res[i] = more[i + 1] /\ i + 1 \in 1..n
      BY <1>1, <2>3, <3>1, HeadTailProperties
    <3>3. ~(Cardinality(liveU) <= MaxSas)
      <4>1. Cardinality(liveU) \in Nat
        <5>1. liveU \in SUBSET (1..ObsKeys) /\ IsFiniteSet(1..ObsKeys)
          BY <1>1, FS_Interval
        <5>. QED BY <5>1, FS_Subset, FS_CardinalityType
      <4>. HIDE DEF liveU
      <4>. QED BY <4>1, <1>1, <2>3, <2>7, <2>8
    <3>. HIDE DEF res
    <3>4. \A i, j \in 1..Len(sas) : res[i].key = res[j].key => i = j
      <4>1. TAKE i, j \in 1..Len(sas)
      <4>2. HAVE res[i].key = res[j].key
      <4>3. more[i + 1].key = more[j + 1].key /\ i + 1 \in 1..n /\ j + 1 \in 1..n
        BY <3>2, <4>2
      <4>4. i + 1 = j + 1
        BY <2>5, <4>3
      <4>. QED BY <4>4
    <3>5. \A i \in 1..Len(sas) : WindowSound(res[i].w, H[res[i].key], U[res[i].key])
      BY <2>6, <3>2
    <3>. QED BY <1>1, <3>2, <3>3, <3>4, <3>5 DEF SasSound, res, H, U
  <2>9. CASE ~(Len(more) > MaxSas)
    <3>1. res = more
      BY <1>6, <2>9 DEF SaObserve, more, new
    <3>2. ASSUME Cardinality(liveU) <= MaxSas
          PROVE  /\ \A j \in 1..ObsKeys : U[j] > 0 => \E i \in 1..n : more[i].key = j
                 /\ \A i \in 1..n : Arrivals(more[i].w) = U[more[i].key]
      <4>. HIDE DEF liveT, liveU
      <4>1. /\ \A j \in 1..ObsKeys : T[j] > 0 => \E i \in 1..Len(sas) : sas[i].key = j
            /\ \A i \in 1..Len(sas) : Arrivals(sas[i].w) = T[sas[i].key]
        BY <1>2, <1>4, <3>2
      <4>2. T[k] = 0
        BY <1>3, <2>4, <4>1
      <4>3. ASSUME NEW j \in 1..ObsKeys, U[j] > 0 PROVE \E i \in 1..n : more[i].key = j
        <5>1. CASE j = k
          <6>1. n \in 1..n /\ more[n].key = k
            BY <1>1, <2>2, <2>3
          <6>. QED BY <5>1, <6>1
        <5>2. CASE j # k
          <6>1. PICK i \in 1..Len(sas) : sas[i].key = j
            BY <5>2, <4>1, <4>3, <1>3
          <6>. QED BY <6>1, <1>1, <2>3
        <5>. QED BY <5>1, <5>2
      <4>4. ASSUME NEW i \in 1..n PROVE Arrivals(more[i].w) = U[more[i].key]
        <5>1. CASE i = n
          BY <5>1, <1>3, <2>1, <2>2, <2>3, <4>2
        <5>2. CASE i # n
          <6>1. i \in 1..Len(sas)
            BY <1>1, <5>2
          <6>. QED BY <6>1, <1>1, <1>3, <2>3, <2>4, <4>1
        <5>. QED BY <5>1, <5>2
      <4>. QED BY <4>3, <4>4
    <3>3. Len(more) <= MaxSas
      BY <1>1, <2>3, <2>9
    <3>. QED BY <2>3, <2>5, <2>6, <3>1, <3>2, <3>3 DEF SasSound, H, U
  <2>. QED BY <2>8, <2>9
<1>. QED BY <1>5, <1>6

\* What arrived over the paths P, by generation.
GotOver(P) == [k \in 1..ObsKeys |-> Got(k, P)]
TimesOver(P) == [k \in 1..ObsKeys |-> Times(k, P)]
PathSets == {{"main"}, {"alt"}, ObsPaths}

CountInv ==
  /\ obsGot \in [ObsPaths -> [1..ObsKeys -> Seq(Counters)]]
  /\ DOMAIN obs = ObsNodes /\ "rx" \in DOMAIN obs["b"] /\ "union" \in DOMAIN obs["b"]
  /\ DOMAIN obs["b"].rx = ObsPaths
  /\ \A p \in ObsPaths : SasSound(obs["b"].rx[p].sas, GotOver({p}), TimesOver({p}))
  /\ SasSound(obs["b"].union, GotOver(ObsPaths), TimesOver(ObsPaths))

LEMMA MaxOfCounters ==
  ASSUME NEW S \in SUBSET Counters, S # {}
  PROVE  Max(S) \in S /\ \A n \in S : n <= Max(S)
<1>. DEFINE R == {MaxObsCtr - n : n \in S}
<1>1. MaxObsCtr \in Nat /\ \A n \in S : n \in Nat /\ n <= MaxObsCtr
  BY ObserveConstants DEF Counters
<1>2. R \in SUBSET Nat /\ R # {}
  BY <1>1
<1>3. PICK m \in R : \A n \in R : m <= n
  BY <1>2, NatLeast
<1>4. PICK x \in S : m = MaxObsCtr - x
  BY <1>3
<1>5. ASSUME NEW n \in S PROVE x >= n
  <2>1. m <= MaxObsCtr - n
    BY <1>3
  <2>. QED BY <2>1, <1>1, <1>4
<1>6. Max(S) \in S /\ \A n \in S : Max(S) >= n
  BY <1>5 DEF Max
<1>. QED BY <1>1, <1>6

LEMMA ArrivalsTyped ==
  ASSUME obsGot \in [ObsPaths -> [1..ObsKeys -> Seq(Counters)]], NEW P \in PathSets
  PROVE  /\ GotOver(P) \in [1..ObsKeys -> SUBSET Counters]
         /\ TimesOver(P) \in [1..ObsKeys -> Nat]
<1>1. P \subseteq ObsPaths
  BY DEF PathSets, ObsPaths
<1>2. ASSUME NEW k \in 1..ObsKeys PROVE Got(k, P) \in SUBSET Counters
  <2>1. ASSUME NEW p \in P PROVE ToSet(obsGot[p][k]) \subseteq Counters
    <3>1. obsGot[p][k] \in Seq(Counters)
      BY <1>1
    <3>. QED BY <3>1 DEF ToSet
  <2>. QED BY <2>1 DEF Got
<1>3. ASSUME NEW k \in 1..ObsKeys PROVE Times(k, P) \in Nat
  <2>1. obsGot["main"][k] \in Seq(Counters) /\ obsGot["alt"][k] \in Seq(Counters)
    BY DEF ObsPaths
  <2>2. Len(obsGot["main"][k]) \in Nat /\ Len(obsGot["alt"][k]) \in Nat
    BY <2>1
  <2>. DEFINE m == Len(obsGot["main"][k])
              a == Len(obsGot["alt"][k])
  <2>3. Times(k, P) = (IF "main" \in P THEN m ELSE 0) + (IF "alt" \in P THEN a ELSE 0)
    BY DEF Times
  <2>. HIDE DEF m, a
  <2>4. (IF "main" \in P THEN m ELSE 0) \in Nat /\ (IF "alt" \in P THEN a ELSE 0) \in Nat
    BY <2>2 DEF m, a
  <2>. QED BY <2>3, <2>4
<1>. QED BY <1>2, <1>3 DEF GotOver, TimesOver

\* A frame adds one counter and one arrival to the path sets its path is in.
LEMMA ArrivalsGrow ==
  ASSUME obsGot \in [ObsPaths -> [1..ObsKeys -> Seq(Counters)]], NEW P \in PathSets,
         NEW p \in ObsPaths, NEW k \in 1..ObsKeys, NEW c \in Counters,
         obsGot' = [obsGot EXCEPT ![p][k] = Append(@, c)]
  PROVE  /\ GotOver(P)' = IF p \in P THEN [GotOver(P) EXCEPT ![k] = @ \cup {c}] ELSE GotOver(P)
         /\ TimesOver(P)' = IF p \in P THEN [TimesOver(P) EXCEPT ![k] = @ + 1] ELSE TimesOver(P)
         /\ obsGot' \in [ObsPaths -> [1..ObsKeys -> Seq(Counters)]]
<1>1. P \subseteq ObsPaths
  BY DEF PathSets, ObsPaths
<1>2. /\ obsGot[p][k] \in Seq(Counters)
      /\ \A q \in ObsPaths : \A j \in 1..ObsKeys :
           obsGot'[q][j] = IF q = p /\ j = k THEN Append(obsGot[p][k], c) ELSE obsGot[q][j]
      /\ obsGot' \in [ObsPaths -> [1..ObsKeys -> Seq(Counters)]]
  <2>. DEFINE row == [obsGot[p] EXCEPT ![k] = Append(obsGot[p][k], c)]
  <2>1. obsGot[p] \in [1..ObsKeys -> Seq(Counters)] /\ obsGot[p][k] \in Seq(Counters)
    OBVIOUS
  <2>2. Append(obsGot[p][k], c) \in Seq(Counters)
    BY <2>1, AppendProperties
  <2>3. /\ row \in [1..ObsKeys -> Seq(Counters)]
        /\ \A j \in 1..ObsKeys : row[j] = IF j = k THEN Append(obsGot[p][k], c) ELSE obsGot[p][j]
    BY <2>1, <2>2
  <2>4. obsGot' = [obsGot EXCEPT ![p] = row]
    BY Zenon
  <2>. HIDE DEF row
  <2>5. \A q \in ObsPaths : obsGot'[q] = IF q = p THEN row ELSE obsGot[q]
    BY <2>4
  <2>6. obsGot' \in [ObsPaths -> [1..ObsKeys -> Seq(Counters)]]
    BY <2>3, <2>4
  <2>. QED BY <2>1, <2>3, <2>5, <2>6
<1>3. /\ ToSet(Append(obsGot[p][k], c)) = ToSet(obsGot[p][k]) \cup {c}
      /\ Len(Append(obsGot[p][k], c)) = Len(obsGot[p][k]) + 1
  BY <1>2 DEF ToSet
<1>4. ASSUME NEW j \in 1..ObsKeys
      PROVE  Got(j, P)' = IF p \in P /\ j = k THEN Got(j, P) \cup {c} ELSE Got(j, P)
  <2>1. Got(j, P)' = UNION {ToSet(obsGot'[q][j]) : q \in P}
    BY DEF Got
  <2>2. \A q \in P : ToSet(obsGot'[q][j]) =
          IF q = p /\ j = k THEN ToSet(obsGot[q][j]) \cup {c} ELSE ToSet(obsGot[q][j])
    BY <1>1, <1>2, <1>3
  <2>. DEFINE old(q) == ToSet(obsGot[q][j])
              new(q) == ToSet(obsGot'[q][j])
  <2>3. \A q \in P : new(q) = IF q = p /\ j = k THEN old(q) \cup {c} ELSE old(q)
    BY <2>2
  <2>. HIDE DEF old, new
  <2>4. UNION {new(q) : q \in P} =
          IF p \in P /\ j = k THEN (UNION {old(q) : q \in P}) \cup {c} ELSE UNION {old(q) : q \in P}
    BY <2>3
  <2>. QED BY <2>1, <2>4 DEF Got, old, new
<1>5. ASSUME NEW j \in 1..ObsKeys
      PROVE  Times(j, P)' = IF p \in P /\ j = k THEN Times(j, P) + 1 ELSE Times(j, P)
  <2>1. Times(j, P)' = (IF "main" \in P THEN Len(obsGot'["main"][j]) ELSE 0)
                       + (IF "alt" \in P THEN Len(obsGot'["alt"][j]) ELSE 0)
    BY DEF Times
  <2>2. Times(j, P) = (IF "main" \in P THEN Len(obsGot["main"][j]) ELSE 0)
                      + (IF "alt" \in P THEN Len(obsGot["alt"][j]) ELSE 0)
    BY DEF Times
  <2>3. \A q \in ObsPaths : /\ Len(obsGot[q][j]) \in Nat
                            /\ Len(obsGot'[q][j]) = IF q = p /\ j = k THEN Len(obsGot[q][j]) + 1
                                                    ELSE Len(obsGot[q][j])
    <3>1. \A q \in ObsPaths : obsGot[q][j] \in Seq(Counters)
      OBVIOUS
    <3>2. TAKE q \in ObsPaths
    <3>3. Len(obsGot[q][j]) \in Nat
      BY <3>1
    <3>4. CASE q = p /\ j = k
      BY <3>3, <3>4, <1>2, <1>3
    <3>5. CASE ~(q = p /\ j = k)
      <4>1. obsGot'[q][j] = obsGot[q][j]
        BY <1>2, <3>5
      <4>. QED BY <3>3, <3>5, <4>1
    <3>. QED BY <3>4, <3>5
  <2>4. p \in {"main", "alt"} /\ "main" \in ObsPaths /\ "alt" \in ObsPaths
    BY DEF ObsPaths
  <2>. DEFINE m == Len(obsGot["main"][j])    mm == Len(obsGot'["main"][j])
              a == Len(obsGot["alt"][j])     aa == Len(obsGot'["alt"][j])
  <2>5. /\ m \in Nat /\ mm = IF "main" = p /\ j = k THEN m + 1 ELSE m
        /\ a \in Nat /\ aa = IF "alt" = p /\ j = k THEN a + 1 ELSE a
    BY <2>3, <2>4
  <2>6. /\ Times(j, P)' = (IF "main" \in P THEN mm ELSE 0) + (IF "alt" \in P THEN aa ELSE 0)
        /\ Times(j, P) = (IF "main" \in P THEN m ELSE 0) + (IF "alt" \in P THEN a ELSE 0)
    BY <2>1, <2>2
  <2>. HIDE DEF m, mm, a, aa
  <2>7. CASE p = "main"
    BY <2>5, <2>6, <2>7
  <2>8. CASE p = "alt"
    BY <2>5, <2>6, <2>8
  <2>. QED BY <2>4, <2>7, <2>8
<1>6. /\ GotOver(P)' = [j \in 1..ObsKeys |-> Got(j, P)']
      /\ TimesOver(P)' = [j \in 1..ObsKeys |-> Times(j, P)']
  BY DEF GotOver, TimesOver
<1>7. GotOver(P)' = IF p \in P THEN [GotOver(P) EXCEPT ![k] = @ \cup {c}] ELSE GotOver(P)
  BY <1>4, <1>6 DEF GotOver
<1>8. TimesOver(P)' = IF p \in P THEN [TimesOver(P) EXCEPT ![k] = @ + 1] ELSE TimesOver(P)
  BY <1>5, <1>6 DEF TimesOver
<1>. QED BY <1>2, <1>7, <1>8

\* Sound windows claim no more than arrived.
LEMMA SoundIsHonest ==
  ASSUME obsGot \in [ObsPaths -> [1..ObsKeys -> Seq(Counters)]], NEW P \in PathSets,
         NEW sas, SasSound(sas, GotOver(P), TimesOver(P))
  PROVE  HonestWindows(sas, P)
<1>1. /\ sas \in Seq(SaEntries)
      /\ \A i \in 1..Len(sas) : WindowSound(sas[i].w, GotOver(P)[sas[i].key], TimesOver(P)[sas[i].key])
      /\ Cardinality({k \in 1..ObsKeys : TimesOver(P)[k] > 0}) <= MaxSas
         => \A i \in 1..Len(sas) : Arrivals(sas[i].w) = TimesOver(P)[sas[i].key]
  BY DEF SasSound
<1>2. \A k \in 1..ObsKeys : /\ TimesOver(P)[k] = Times(k, P) /\ GotOver(P)[k] = Got(k, P)
                            /\ Got(k, P) \in SUBSET Counters
  BY ArrivalsTyped DEF TimesOver, GotOver
<1>3. {k \in 1..ObsKeys : TimesOver(P)[k] > 0} = {k \in 1..ObsKeys : Times(k, P) > 0}
  BY <1>2
<1>4. ASSUME NEW i \in DOMAIN sas
      PROVE  /\ sas[i].w.seen <= Cardinality(Got(sas[i].key, P))
             /\ sas[i].w.seen + sas[i].w.dup <= Times(sas[i].key, P)
             /\ sas[i].w.expected <= Max(Got(sas[i].key, P)) - Min(Got(sas[i].key, P)) + 1
             /\ Cardinality({j \in 1..ObsKeys : Times(j, P) > 0}) <= MaxSas
                => sas[i].w.seen + sas[i].w.dup = Times(sas[i].key, P)
  <2>. DEFINE w == sas[i].w  k == sas[i].key  G == Got(k, P)
  <2>1. i \in 1..Len(sas) /\ k \in 1..ObsKeys
    <3>1. DOMAIN sas = 1..Len(sas) /\ sas[i] \in SaEntries
      BY <1>1
    <3>. QED BY <3>1 DEF SaEntries
  <2>2. WindowSound(w, G, Times(k, P)) /\ G \in SUBSET Counters
    BY <1>1, <1>2, <2>1
  <2>3. Cardinality({j \in 1..ObsKeys : Times(j, P) > 0}) <= MaxSas => Arrivals(w) = Times(k, P)
    BY <1>1, <1>2, <1>3, <2>1
  <2>. HIDE DEF w, k, G
  <2>4. w \in Windows /\ w.top \in G /\ Arrivals(w) <= Times(k, P)
    BY <2>2 DEF WindowSound
  <2>5. PICK C \in SUBSET G : Cardinality(C) = w.seen
    BY <2>2 DEF WindowSound
  <2>6. PICK first \in G : first <= w.top /\ w.expected <= w.top - first + 1
    BY <2>2 DEF WindowSound
  <2>7. w.seen <= Cardinality(G)
    <3>1. IsFiniteSet(Counters)
      BY FS_Interval, ObserveConstants DEF Counters
    <3>2. IsFiniteSet(G)
      BY <3>1, <2>2, FS_Subset
    <3>3. Cardinality(C) <= Cardinality(G)
      BY <3>2, FS_Subset
    <3>. QED BY <3>3, <2>5
  <2>8. w.expected <= Max(G) - Min(G) + 1
    <3>1. G \in SUBSET Nat
      BY <2>2, ObserveConstants DEF Counters
    <3>2. Max(G) \in G /\ w.top <= Max(G)
      BY <2>2, <2>4, MaxOfCounters
    <3>3. Min(G) \in G /\ Min(G) <= first
      BY <3>1, <2>6, MinOfNats
    <3>4. /\ Max(G) \in Nat /\ Min(G) \in Nat /\ first \in Nat /\ w.top \in Nat
          /\ w.expected \in Nat
      BY <3>1, <3>2, <3>3, <2>4, <2>6 DEF Windows
    <3>. QED BY <3>2, <3>3, <3>4, <2>6
  <2>. QED BY <2>3, <2>4, <2>7, <2>8 DEF Arrivals, w, k, G
<1>. QED BY <1>4, Zenon DEF HonestWindows

LEMMA CountsFollow == CountInv => CountsAreHonest
<1>. SUFFICES ASSUME CountInv PROVE CountsAreHonest
  OBVIOUS
<1>1. ObsPaths \in PathSets /\ \A p \in ObsPaths : {p} \in PathSets
  BY DEF PathSets, ObsPaths
<1>2. obsGot \in [ObsPaths -> [1..ObsKeys -> Seq(Counters)]]
  BY DEF CountInv
<1>3. ASSUME NEW p \in ObsPaths PROVE HonestWindows(obs["b"].rx[p].sas, {p})
  <2>1. SasSound(obs["b"].rx[p].sas, GotOver({p}), TimesOver({p}))
    BY DEF CountInv
  <2>. QED BY <2>1, <1>1, <1>2, SoundIsHonest
<1>4. HonestWindows(obs["b"].union, ObsPaths)
  <2>1. SasSound(obs["b"].union, GotOver(ObsPaths), TimesOver(ObsPaths))
    BY DEF CountInv
  <2>. QED BY <2>1, <1>1, <1>2, SoundIsHonest
<1>. QED BY <1>3, <1>4 DEF CountsAreHonest

LEMMA CountInvInit == ObsInit => CountInv
<1>. SUFFICES ASSUME ObsInit PROVE CountInv
  OBVIOUS
<1>1. obsGot \in [ObsPaths -> [1..ObsKeys -> Seq(Counters)]]
  <2>1. <<>> \in Seq(Counters) /\ obsGot = [p \in ObsPaths |-> [k \in 1..ObsKeys |-> <<>>]]
    BY DEF ObsInit
  <2>. QED BY <2>1
<1>2. /\ DOMAIN obs = ObsNodes /\ "rx" \in DOMAIN obs["b"] /\ "union" \in DOMAIN obs["b"]
      /\ DOMAIN obs["b"].rx = ObsPaths /\ obs["b"].union = <<>>
      /\ \A p \in ObsPaths : obs["b"].rx[p].sas = <<>>
  BY DEF ObsInit, ObserveNew, ObsNodes
<1>3. ASSUME NEW P \in PathSets PROVE SasSound(<<>>, GotOver(P), TimesOver(P))
  <2>1. \A k \in 1..ObsKeys : TimesOver(P)[k] = 0
    <3>1. TAKE k \in 1..ObsKeys
    <3>2. Len(obsGot["main"][k]) = 0 /\ Len(obsGot["alt"][k]) = 0
      BY DEF ObsInit, ObsPaths
    <3>3. Times(k, P) = (IF "main" \in P THEN Len(obsGot["main"][k]) ELSE 0)
                        + (IF "alt" \in P THEN Len(obsGot["alt"][k]) ELSE 0)
      BY DEF Times
    <3>. QED BY <3>2, <3>3 DEF TimesOver
  <2>2. <<>> \in Seq(SaEntries) /\ Len(<<>>) = 0 /\ MaxSas \in Nat
    BY ObserveConstants
  <2>. QED BY <2>1, <2>2 DEF SasSound
<1>4. ObsPaths \in PathSets /\ \A p \in ObsPaths : {p} \in PathSets
  BY DEF PathSets, ObsPaths
<1>. QED BY <1>1, <1>2, <1>3, <1>4 DEF CountInv

LEMMA CountInvNext == CountInv /\ [ObsNext]_obsVars => CountInv'
<1>. SUFFICES ASSUME CountInv, [ObsNext]_obsVars PROVE CountInv'
  OBVIOUS
\* What leaves the counters of b and what arrived alone keeps the invariant.
<1>0. ASSUME obsGot' = obsGot, DOMAIN obs' = ObsNodes, DOMAIN obs'["b"] = DOMAIN obs["b"],
             obs'["b"].rx = obs["b"].rx, obs'["b"].union = obs["b"].union
      PROVE  CountInv'
  <2>1. \A P : GotOver(P)' = GotOver(P) /\ TimesOver(P)' = TimesOver(P)
    BY <1>0 DEF GotOver, TimesOver, Got, Times
  <2>. QED BY <1>0, <2>1 DEF CountInv
<1>1. CASE ObsTick
  BY <1>0, <1>1 DEF ObsTick, CountInv
<1>2. ASSUME NEW p \in ObsPaths, NEW k \in 1..ObsKeys, NEW c \in Counters, ObserveInbound(p, k, c)
      PROVE  CountInv'
  <2>. DEFINE o == obs["b"]
              entry == [sas |-> SaObserve(o.rx[p].sas, k, c), last |-> Clock("b")]
              merged == SaObserve(o.union, k, c)
  <2>1. /\ DOMAIN obs = ObsNodes /\ "rx" \in DOMAIN o /\ "union" \in DOMAIN o /\ DOMAIN o.rx = ObsPaths
        /\ "b" \in ObsNodes
        /\ obsGot \in [ObsPaths -> [1..ObsKeys -> Seq(Counters)]]
    BY DEF CountInv, ObsNodes
  <2>2. obsGot' = [obsGot EXCEPT ![p][k] = Append(@, c)]
    BY <1>2 DEF ObserveInbound
  <2>3. obs' = [obs EXCEPT !["b"].rx[p] = entry, !["b"].union = merged]
    BY <1>2 DEF ObserveInbound
  <2>4. /\ DOMAIN obs' = ObsNodes /\ DOMAIN obs'["b"] = DOMAIN o
        /\ obs'["b"].rx = [o.rx EXCEPT ![p] = entry] /\ obs'["b"].union = merged
    <3>. HIDE DEF entry, merged
    <3>. QED BY <2>1, <2>3
  <2>5. \A q \in ObsPaths : obs'["b"].rx[q].sas = IF q = p THEN SaObserve(o.rx[p].sas, k, c) ELSE o.rx[q].sas
    BY <2>1, <2>4
  <2>6. ASSUME NEW P \in PathSets, NEW sas, SasSound(sas, GotOver(P), TimesOver(P)), p \in P
        PROVE  SasSound(SaObserve(sas, k, c), GotOver(P)', TimesOver(P)')
    <3>1. /\ GotOver(P)' = [GotOver(P) EXCEPT ![k] = @ \cup {c}]
          /\ TimesOver(P)' = [TimesOver(P) EXCEPT ![k] = @ + 1]
      <4>1. /\ GotOver(P)' = IF p \in P THEN [GotOver(P) EXCEPT ![k] = @ \cup {c}] ELSE GotOver(P)
            /\ TimesOver(P)' = IF p \in P THEN [TimesOver(P) EXCEPT ![k] = @ + 1] ELSE TimesOver(P)
        BY <2>1, <2>2, ArrivalsGrow
      <4>2. p \in P
        BY <2>6
      <4>. QED BY <4>1, <4>2
    <3>2. /\ GotOver(P) \in [1..ObsKeys -> SUBSET Counters]
          /\ TimesOver(P) \in [1..ObsKeys -> Nat]
      BY <2>1, ArrivalsTyped
    <3>3. SasSound(SaObserve(sas, k, c), [GotOver(P) EXCEPT ![k] = @ \cup {c}],
                   [TimesOver(P) EXCEPT ![k] = @ + 1])
      BY <2>6, <3>2, SasKeep
    <3>. QED BY <3>1, <3>3
  <2>7. ASSUME NEW P \in PathSets, p \notin P
        PROVE  GotOver(P)' = GotOver(P) /\ TimesOver(P)' = TimesOver(P)
    BY <2>1, <2>2, <2>7, ArrivalsGrow
  <2>8. /\ ObsPaths \in PathSets /\ p \in ObsPaths
        /\ \A q \in ObsPaths : {q} \in PathSets /\ (p \in {q} <=> q = p)
    BY DEF PathSets, ObsPaths
  <2>9. ASSUME NEW q \in ObsPaths
        PROVE  SasSound(obs'["b"].rx[q].sas, GotOver({q})', TimesOver({q})')
    <3>1. SasSound(o.rx[q].sas, GotOver({q}), TimesOver({q}))
      BY DEF CountInv
    <3>2. CASE q = p
      <4>1. SasSound(SaObserve(o.rx[q].sas, k, c), GotOver({q})', TimesOver({q})')
        BY <3>1, <3>2, <2>6, <2>8
      <4>. QED BY <4>1, <3>2, <2>5
    <3>3. CASE q # p
      <4>1. GotOver({q})' = GotOver({q}) /\ TimesOver({q})' = TimesOver({q})
        BY <3>3, <2>7, <2>8
      <4>. QED BY <4>1, <3>1, <3>3, <2>5
    <3>. QED BY <3>2, <3>3
  <2>10. SasSound(obs'["b"].union, GotOver(ObsPaths)', TimesOver(ObsPaths)')
    <3>1. SasSound(o.union, GotOver(ObsPaths), TimesOver(ObsPaths))
      BY DEF CountInv
    <3>2. SasSound(SaObserve(o.union, k, c), GotOver(ObsPaths)', TimesOver(ObsPaths)')
      BY <3>1, <2>6, <2>8
    <3>. QED BY <3>2, <2>4
  <2>11. obsGot' \in [ObsPaths -> [1..ObsKeys -> Seq(Counters)]]
    BY <2>1, <2>2, <2>8, ArrivalsGrow
  <2>12. DOMAIN obs'["b"].rx = ObsPaths
    BY <2>1, <2>4
  <2>. HIDE DEF entry, merged
  <2>. QED BY <2>1, <2>4, <2>9, <2>10, <2>11, <2>12 DEF CountInv
<1>3. ASSUME NEW n \in ObsNodes, BuildReport(n) PROVE CountInv'
  <2>1. obsGot' = obsGot /\ obs' = [obs EXCEPT ![n].seq = @ + 1, ![n].last_report = Clock(n)]
    BY <1>3 DEF BuildReport
  <2>2. DOMAIN obs = ObsNodes /\ "b" \in ObsNodes /\ "rx" \in DOMAIN obs["b"] /\ "union" \in DOMAIN obs["b"]
    BY DEF CountInv, ObsNodes
  <2>3. /\ DOMAIN obs' = ObsNodes /\ DOMAIN obs'["b"] = DOMAIN obs["b"]
        /\ obs'["b"].rx = obs["b"].rx /\ obs'["b"].union = obs["b"].union
    BY <2>1, <2>2
  <2>. QED BY <1>0, <2>1, <2>3
<1>4. ASSUME NEW r \in reports, IngestReport(r) PROVE CountInv'
  <2>. DEFINE n == ObsPeer(r.from)
              o == obs[n]
              u == RttOnReport(o.rtt, Clock(n), r)
              d == Delta(r.union, o.prev[1].union)
              judged == [o EXCEPT !.breaker = IF DualPath THEN BreakerUpdate(@, r.main.age, r.alt.age) ELSE @,
                                  !.gate = GateUpdate(@, d),
                                  !.cc = CcUpdate(@, d, u.rtt, Clock(n))]
              base == IF o.prev = <<>> THEN o ELSE judged
              last == <<[union |-> r.union]>>
  <2>1. obsGot' = obsGot /\ obs' = [obs EXCEPT ![n] = [base EXCEPT !.rtt = u, !.prev = last]]
    BY <1>4 DEF IngestReport
  <2>2. DOMAIN obs = ObsNodes /\ "b" \in ObsNodes /\ "rx" \in DOMAIN obs["b"] /\ "union" \in DOMAIN obs["b"]
    BY DEF CountInv, ObsNodes
  <2>3. /\ DOMAIN base = DOMAIN o
        /\ "rx" \in DOMAIN o => base.rx = o.rx
        /\ "union" \in DOMAIN o => base.union = o.union
    <3>1. /\ DOMAIN judged = DOMAIN o
          /\ "rx" \in DOMAIN o => judged.rx = o.rx
          /\ "union" \in DOMAIN o => judged.union = o.union
      OBVIOUS
    <3>. HIDE DEF judged, o
    <3>. QED BY <3>1
  <2>. HIDE DEF base, u, last, n
  <2>4. /\ DOMAIN obs' = ObsNodes /\ DOMAIN obs'["b"] = DOMAIN obs["b"]
        /\ obs'["b"].rx = obs["b"].rx /\ obs'["b"].union = obs["b"].union
    BY <2>1, <2>2, <2>3
  <2>. QED BY <1>0, <2>1, <2>4
<1>5. ASSUME NEW r \in reports, ObsLose(r) PROVE CountInv'
  BY <1>0, <1>5 DEF ObsLose, CountInv
<1>6. CASE UNCHANGED obsVars
  BY <1>0, <1>6 DEF obsVars, CountInv
<1>. QED BY <1>1, <1>2, <1>3, <1>4, <1>5, <1>6 DEF ObsNext, Counters

\* What the observation layer reports is what happened on the link: no counter is
\* counted as seen twice, the expected ones lie between counters that came, every
\* arrival is seen or dup, and the round trip holds neither the offset of the two
\* clocks nor the time a receipt waited at the peer, however frames and receipts
\* are lost, repeated and reordered (CounterWindow, SaWindows, RttTracker).
THEOREM ObservationsAreTrue == ObsSpec => []ObservedTruly
<1>1. ObsInit => RttInv /\ CountInv
  BY RttInvInit, CountInvInit
<1>2. (RttInv /\ CountInv) /\ [ObsNext]_obsVars => (RttInv /\ CountInv)'
  BY RttInvNext, CountInvNext
<1>3. RttInv /\ CountInv => ObservedTruly
  BY CountsFollow DEF RttInv, ObservedTruly
<1>. QED BY <1>1, <1>2, <1>3, PTL DEF ObsSpec

=============================================================================
