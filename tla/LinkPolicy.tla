----------------------------- MODULE LinkPolicy -----------------------------
(***************************************************************************)
(* The policies a receipt drives, src/core/ipv8-observe/src/{policy,cc}.rs:  *)
(* the breaker of the alternative path, the gate of FEC and the congestion   *)
(* controller, each as the function one report applies to its state.        *)
(***************************************************************************)
EXTENDS Integers, FiniteSetsExt

CONSTANTS
  DeadAge, AliveAge, TriggerWindows, RecoverWindows,             \* BreakerConfig
  OnLoss, OffLoss, OnWindows, OffWindows, MinExpected,           \* GateConfig, per mille
  CeilBps, FloorMin, RttInfl, LossOn, MinRttExpiry               \* CcConfig

ASSUME LinkPolicyAssumption ==
  /\ {DeadAge, AliveAge, OnLoss, OffLoss, RttInfl, LossOn, MinRttExpiry} \subseteq Nat
  /\ {TriggerWindows, RecoverWindows, OnWindows, OffWindows, MinExpected} \subseteq Nat \ {0}
  /\ CeilBps \in Nat /\ FloorMin \in 0..CeilBps

-----------------------------------------------------------------------------
(* Breaker *)
NewBreaker == [open |-> FALSE, bad_run |-> 0, good_run |-> 0]

AltVerdict(mainAge, altAge) ==
  IF mainAge <= AliveAge /\ altAge > DeadAge THEN "Dead"
  ELSE IF altAge <= AliveAge THEN "Good" ELSE "Neutral"

BreakerUpdate(b, mainAge, altAge) ==
  LET v == AltVerdict(mainAge, altAge)
      bad == b.bad_run + 1
      good == b.good_run + 1
  IN CASE v = "Dead" /\ ~b.open ->
            [open |-> bad >= TriggerWindows, bad_run |-> bad, good_run |-> 0]
       [] v = "Dead" /\ b.open -> [b EXCEPT !.good_run = 0]
       [] v = "Good" /\ b.open ->
            [open |-> good < RecoverWindows, bad_run |-> 0, good_run |-> good]
       [] v = "Good" /\ ~b.open -> [b EXCEPT !.bad_run = 0]
       [] v = "Neutral" -> [b EXCEPT !.good_run = 0, !.bad_run = IF b.open THEN @ ELSE 0]

-----------------------------------------------------------------------------
(* FecGate *)
NewGate == [on |-> FALSE, high_run |-> 0, low_run |-> 0]

LossPermille(expected, seen) ==
  (Max({0, expected - seen}) * 1000) \div expected

GateUpdate(g, d) ==
  LET loss == LossPermille(d.expected, d.seen)
      high == g.high_run + 1
      low == g.low_run + 1
  IN CASE d.expected < MinExpected -> g
       [] d.expected >= MinExpected /\ ~g.on /\ loss >= OnLoss ->
            [on |-> high >= OnWindows, high_run |-> high, low_run |-> 0]
       [] d.expected >= MinExpected /\ ~g.on /\ loss < OnLoss -> [g EXCEPT !.high_run = 0]
       [] d.expected >= MinExpected /\ g.on /\ loss <= OffLoss ->
            [on |-> low < OffWindows, high_run |-> 0, low_run |-> low]
       [] d.expected >= MinExpected /\ g.on /\ loss > OffLoss -> [g EXCEPT !.low_run = 0]

-----------------------------------------------------------------------------
(* CongestionController; times and rates are naturals, None is NoRtt *)
NoRtt == -1
FloorBps == Max({CeilBps \div 16, FloorMin})

NewCc == [rate |-> CeilBps \div 4, base |-> NoRtt, base_at |-> 0,
          expected |-> 0, seen |-> 0, acc_rtt |-> NoRtt]

LowerRtt(a, b) == IF a = NoRtt THEN b ELSE IF b = NoRtt THEN a ELSE Min({a, b})

CcUpdate(c, d, rtt, now) ==
  LET acc == [c EXCEPT !.expected = @ + d.expected, !.seen = @ + d.seen,
                       !.acc_rtt = LowerRtt(@, rtt)]
      r == acc.acc_rtt
      keeps == c.base # NoRtt /\ r >= c.base /\ now - c.base_at <= MinRttExpiry
      base == IF r # NoRtt /\ ~keeps THEN r ELSE c.base
      base_at == IF r # NoRtt /\ ~keeps THEN now ELSE c.base_at
      inflated == r # NoRtt /\ r * 1000 >= base * (1000 + RttInfl)
      lossy == LossPermille(acc.expected, acc.seen) >= LossOn
  IN IF acc.expected < MinExpected THEN acc
     ELSE [rate |-> IF inflated \/ lossy THEN Max({(c.rate * 7) \div 10, FloorBps})
                    ELSE Min({c.rate + CeilBps \div 8, CeilBps}),
           base |-> base, base_at |-> base_at, expected |-> 0, seen |-> 0, acc_rtt |-> NoRtt]
=============================================================================
