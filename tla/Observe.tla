------------------------------ MODULE Observe -------------------------------
(***************************************************************************)
(* The observation layer, src/core/ipv8-observe/src/{lib,window,rtt,report}: *)
(* each node counts the Data frames it receives per path and key generation, *)
(* reports the totals in receipts, measures the round trip with echoed time  *)
(* stamps and drives the link policies from the difference of two receipts.  *)
(* Node "a" has sealed Data frames for "b", any of which may arrive, late or   *)
(* twice; receipts go both ways and may be lost or late.  Clocks differ.      *)
(***************************************************************************)
EXTENDS LinkPolicy, Sequences, SequencesExt, FiniteSets

CONSTANTS
  WindowBits, JumpGuard, MaxSas,      \* of window.rs
  ReportInterval,                     \* report_interval_ms
  DualPath,                           \* ObserveConfig::dual_path
  Offset,                             \* Offset[n]: clock of n minus true time
  Wrap,                               \* stands for 2^64
  NeverSeen,                          \* stands for u32::MAX
  ObsKeys, MaxObsCtr,                 \* bounds: generations, last counter of one
  ObsBudgets                          \* bounds: data arrivals, receipts of each node, time

ASSUME ObserveAssumption ==
  /\ WindowBits \in Nat \ {0} /\ JumpGuard \in Nat /\ JumpGuard >= WindowBits
  /\ MaxSas \in Nat \ {0} /\ ObsKeys \in Nat /\ MaxObsCtr \in Nat
  /\ \A n \in {"a", "b"} : Offset[n] \in Nat \ {0}  \* a clock at 0 would read as "no report yet"

ObsNodes == {"a", "b"}
ObsPaths == {"main", "alt"}
ObsPeer(n) == IF n = "a" THEN "b" ELSE "a"

VARIABLES
  obs,         \* obs[n]: ObserveNode
  obsGot,      \* history: obsGot[p][k]: counters that arrived, with how often
  reports,     \* receipts in flight
  obsNow,
  obsLeft,     \* what is left of the budget
  obsTrue      \* history: the transit of the last receipt n took in, and the round trip
               \* n should have measured

obsVars == <<obs, obsGot, reports, obsNow, obsLeft, obsTrue>>

-----------------------------------------------------------------------------
(* CounterWindow *)
WindowFirst(c) == [top |-> c, mask |-> {0}, expected |-> 1, seen |-> 1, dup |-> 0, resets |-> 0]

(* Mutant of WindowObserve: a late frame is counted but not marked. *)
WindowForgets(w, c) ==
  LET delta == c - w.top
  IN CASE delta > JumpGuard -> [w EXCEPT !.top = c, !.mask = {0}, !.expected = @ + 1, !.seen = @ + 1,
                                          !.resets = @ + 1]
       [] delta \in 1..JumpGuard ->
            [w EXCEPT !.top = c, !.mask = {b + delta : b \in {x \in @ : x + delta < WindowBits}} \cup {0},
                      !.expected = @ + delta, !.seen = @ + 1]
       [] delta <= 0 /\ (-delta >= WindowBits \/ -delta \in w.mask) -> [w EXCEPT !.dup = @ + 1]
       [] delta <= 0 /\ -delta < WindowBits /\ -delta \notin w.mask -> [w EXCEPT !.seen = @ + 1]

WindowObserve(w, c) ==
  LET delta == c - w.top
  IN CASE delta > JumpGuard -> [w EXCEPT !.top = c, !.mask = {0}, !.expected = @ + 1, !.seen = @ + 1,
                                          !.resets = @ + 1]
       [] delta \in 1..JumpGuard ->
            [w EXCEPT !.top = c, !.mask = {b + delta : b \in {x \in @ : x + delta < WindowBits}} \cup {0},
                      !.expected = @ + delta, !.seen = @ + 1]
       [] delta <= 0 /\ (-delta >= WindowBits \/ -delta \in w.mask) -> [w EXCEPT !.dup = @ + 1]
       [] delta <= 0 /\ -delta < WindowBits /\ -delta \notin w.mask ->
            [w EXCEPT !.mask = @ \cup {-delta}, !.seen = @ + 1]

(* SaWindows::observe on its entries, oldest generation first *)
SaObserve(sas, k, c) ==
  LET at == {i \in DOMAIN sas : sas[i].key = k}
      more == Append(sas, [key |-> k, w |-> WindowFirst(c)])
  IN IF at # {} THEN [i \in DOMAIN sas |-> IF i \in at THEN [sas[i] EXCEPT !.w = WindowObserve(@, c)] ELSE sas[i]]
     ELSE IF Len(more) > MaxSas THEN Tail(more) ELSE more

SaTotals(sas) ==
  LET total(F(_)) == FoldLeft(LAMBDA n, e : n + F(e.w), 0, sas)
      expected(w) == w.expected  seen(w) == w.seen  dup(w) == w.dup  resets(w) == w.resets
  IN [expected |-> total(expected), seen |-> total(seen), dup |-> total(dup), resets |-> total(resets)]

(* PathState::counters and the union slot of a receipt *)
Slot(sas, age) == [count |-> SaTotals(sas), age |-> age]
PathAge(path, clock) == IF path.last = 0 THEN NeverSeen ELSE clock - path.last

-----------------------------------------------------------------------------
(* RttTracker, NoRtt for None *)
RttNew == [peer_send |-> 0, peer_recv |-> 0, rtt |-> NoRtt]
EchoNone == -1

RttEcho(t, clock) == [lsr |-> t.peer_send, dlsr |-> IF t.peer_recv = 0 THEN EchoNone ELSE clock - t.peer_recv]

RttOnReport(t, clock, r) ==
  LET total == r.echo.lsr + Max({0, r.echo.dlsr})
  IN [peer_send |-> r.send_ts, peer_recv |-> clock,
      rtt |-> IF r.echo.lsr # 0 /\ clock >= total THEN clock - total ELSE t.rtt]

-----------------------------------------------------------------------------
(* ObserveNode *)
Clock(n) == obsNow + Offset[n]

ObserveNew ==
  [rx |-> [p \in ObsPaths |-> [sas |-> <<>>, last |-> 0]], union |-> <<>>, rtt |-> RttNew, seq |-> 0,
   last_report |-> 0, prev |-> <<>>, breaker |-> NewBreaker, gate |-> NewGate, cc |-> NewCc]

ObsInit ==
  /\ obs = [n \in ObsNodes |-> ObserveNew] 
  /\ obsGot = [p \in ObsPaths |-> [k \in 1..ObsKeys |-> <<>>]]
  /\ reports = {} /\ obsNow = 0 /\ obsLeft \in ObsBudgets
  /\ obsTrue = [n \in ObsNodes |-> [leg |-> NoRtt, rtt |-> NoRtt]]

(* observe_inbound: frame_meta gives generation and counter; a frame of path p *)
(* counts there and in the union.                                              *)
ObserveInbound(p, k, c) ==
  /\ obsLeft.arrivals > 0 /\ obsLeft' = [obsLeft EXCEPT !.arrivals = @ - 1]
  /\ obs' = [obs EXCEPT !["b"].rx[p] = [sas |-> SaObserve(@.sas, k, c), last |-> Clock("b")],
                        !["b"].union = SaObserve(@, k, c)]
  /\ obsGot' = [obsGot EXCEPT ![p][k] = Append(@, c)]
  /\ UNCHANGED <<reports, obsNow, obsTrue>>

(* maybe_build_report *)
BuildReport(n) ==
  LET o == obs[n]
      ages == [p \in ObsPaths |-> PathAge(o.rx[p], Clock(n))]
  IN /\ o.seq = 0 \/ Clock(n) - o.last_report >= ReportInterval
     /\ o.seq < obsLeft.reports
     /\ reports' = reports \cup
          {[from |-> n, seq |-> o.seq, send_ts |-> Clock(n), echo |-> RttEcho(o.rtt, Clock(n)),
            main |-> Slot(o.rx["main"].sas, ages["main"]), alt |-> Slot(o.rx["alt"].sas, ages["alt"]),
            union |-> Slot(o.union, Min({ages[p] : p \in ObsPaths})),
            sentAt |-> obsNow, leg |-> obsTrue[n].leg]}       \* the last two are history
     /\ obs' = [obs EXCEPT ![n].seq = @ + 1, ![n].last_report = Clock(n)]
     /\ UNCHANGED <<obsGot, obsNow, obsLeft, obsTrue>>

Delta(cur, old) ==
  [expected |-> (cur.count.expected - old.count.expected) % Wrap,
   seen |-> (cur.count.seen - old.count.seen) % Wrap]

(* ingest_report: the first receipt is only the base line. *)
IngestReport(r) ==
  LET n == ObsPeer(r.from)
      o == obs[n]
      d == Delta(r.union, o.prev[1].union)
      rtt == RttOnReport(o.rtt, Clock(n), r)
      judged == [o EXCEPT !.breaker = IF DualPath THEN BreakerUpdate(@, r.main.age, r.alt.age) ELSE @,
                          !.gate = GateUpdate(@, d),
                          !.cc = CcUpdate(@, d, rtt.rtt, Clock(n))]
      base == IF o.prev = <<>> THEN o ELSE judged
  IN /\ obs' = [obs EXCEPT ![n] = [base EXCEPT !.rtt = rtt, !.prev = <<[union |-> r.union]>>]]
     /\ reports' = reports \ {r}
     /\ obsTrue' = [obsTrue EXCEPT ![n] =
          [leg |-> obsNow - r.sentAt, rtt |-> IF r.leg = NoRtt THEN @.rtt ELSE r.leg + obsNow - r.sentAt]]
     /\ UNCHANGED <<obsGot, obsNow, obsLeft>>

ObsTick ==
  /\ obsNow < obsLeft.time /\ obsNow' = obsNow + 1
  /\ UNCHANGED <<obs, obsGot, reports, obsLeft, obsTrue>>

ObsLose(r) ==
  /\ reports' = reports \ {r}
  /\ UNCHANGED <<obs, obsGot, obsNow, obsLeft, obsTrue>>

ObsNext ==
  \/ ObsTick
  \/ \E p \in ObsPaths, k \in 1..ObsKeys, c \in 0..MaxObsCtr : ObserveInbound(p, k, c)
  \/ \E n \in ObsNodes : BuildReport(n)
  \/ \E r \in reports : IngestReport(r) \/ ObsLose(r)

ObsSpec == ObsInit /\ [][ObsNext]_obsVars

-----------------------------------------------------------------------------
ObsTypeOK ==
  /\ \A n \in ObsNodes : /\ Len(obs[n].union) <= MaxSas /\ obs[n].cc.rate \in FloorBps..CeilBps
                         /\ obs[n].gate.high_run <= OnWindows /\ obs[n].gate.low_run <= OffWindows
  /\ \A p \in ObsPaths : Len(obs["b"].rx[p].sas) <= MaxSas

(* What arrived under generation k over the paths P: the counters, how often in all. *)
Got(k, P) == UNION {ToSet(obsGot[p][k]) : p \in P}
Times(k, P) ==
  LET over(p) == IF p \in P THEN Len(obsGot[p][k]) ELSE 0 IN over("main") + over("alt")

HonestWindows(sas, P) == \A i \in DOMAIN sas :
  LET w == sas[i].w
      k == sas[i].key
  IN /\ w.seen <= Cardinality(Got(k, P))
     /\ w.seen + w.dup <= Times(k, P)
     /\ w.expected <= Max(Got(k, P)) - Min(Got(k, P)) + 1
     /\ Cardinality({j \in 1..ObsKeys : Times(j, P) > 0}) <= MaxSas   \* none evicted
        => w.seen + w.dup = Times(k, P)

(* The totals a receipt is built from never claim more than happened, whatever *)
(* the order, repetition and loss of frames over both paths and across key      *)
(* changes: no frame is counted as seen twice, also when it came by both paths, *)
(* the expected ones lie between counters that came, every arrival is seen or dup.      *)
CountsAreHonest ==
  /\ \A p \in ObsPaths : HonestWindows(obs["b"].rx[p].sas, {p})
  /\ HonestWindows(obs["b"].union, ObsPaths)

(* The round trip a node measures is the time its receipt and the answer that  *)
(* echoes it were really under way: neither the clocks' offset nor the time a   *)
(* receipt waited at the peer is in it, whichever receipts are lost or late.    *)
RttIsTrue == \A n \in ObsNodes : obs[n].rtt.rtt = obsTrue[n].rtt

(* Both, what the observer reports is what happened on the link.              *)
ObservedTruly == CountsAreHonest /\ RttIsTrue

=============================================================================
