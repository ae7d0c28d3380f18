------------------------------ MODULE AltPath -------------------------------
(***************************************************************************)
(* Two-path sending with the breaker, as ipv8-node wires it (main.rs,        *)
(* dispatch_tun_batch and the observe thread): every frame goes to the main  *)
(* path, a copy to the alternative one unless the breaker is open, and then  *)
(* only each AltProbeInterval-th frame, so that the peer can see the path    *)
(* come back.  The peer reports how long ago it heard each path.  One Round  *)
(* is one report interval.                                                  *)
(***************************************************************************)
EXTENDS LinkPolicy

CONSTANTS
  AltProbeInterval,   \* ALT_PROBE_INTERVAL, 8
  FramesPerRound,     \* frames the sender has in one report interval
  NeverHeard          \* the age that stands for u32::MAX, above DeadAge

ASSUME AltPathAssumption ==
  AltProbeInterval \in Nat \ {0} /\ FramesPerRound \in Nat /\ NeverHeard > DeadAge

VARIABLES
  up,          \* up[p]: does path p deliver
  age,         \* age[p]: rounds since the peer heard path p
  alt_probe,   \* the probe counter, modulo AltProbeInterval
  breaker

altVars == <<up, age, alt_probe, breaker>>
Paths == {"main", "alt"}

AltInit ==
  /\ up = [p \in Paths |-> TRUE] /\ age = [p \in Paths |-> NeverHeard]
  /\ alt_probe = 0 /\ breaker = NewBreaker

(* Mutant of AltTried: an open breaker sends no probes. *)
AltTriedClosed(n) == n > 0 /\ ~breaker.open

(* Does one of the next n frames go to the alternative path? *)
AltTried(n) ==
  n > 0 /\ (~breaker.open \/ \E i \in 0..(n - 1) : (alt_probe + i) % AltProbeInterval = 0)

AltHeard(p) == up[p] /\ (IF p = "main" THEN FramesPerRound > 0 ELSE AltTried(FramesPerRound))

(* A batch of frames, the peer's ages, and its report, which may be lost. *)
Round(reported) ==
  LET ages == [p \in Paths |-> IF AltHeard(p) THEN 0 ELSE Min({NeverHeard, age[p] + 1})]
  IN /\ age' = ages
     /\ alt_probe' = (alt_probe + FramesPerRound) % AltProbeInterval
     /\ breaker' = IF reported THEN BreakerUpdate(breaker, ages["main"], ages["alt"]) ELSE breaker
     /\ UNCHANGED up

PathChanges(p) ==
  /\ up' = [up EXCEPT ![p] = ~@]
  /\ UNCHANGED <<age, alt_probe, breaker>>

AltNext == (\E r \in BOOLEAN : Round(r)) \/ (\E p \in Paths : PathChanges(p))

(* Frames and the reports on them keep coming. *)
AltFairness == WF_altVars(Round(TRUE))
AltSpec == AltInit /\ [][AltNext]_altVars /\ AltFairness

-----------------------------------------------------------------------------
AltTypeOK ==
  /\ breaker.bad_run \in 0..TriggerWindows /\ breaker.good_run \in 0..RecoverWindows
  /\ age \in [Paths -> 0..NeverHeard] /\ alt_probe \in 0..(AltProbeInterval - 1)

(* The open breaker does not starve itself of evidence ("self-excited deadlock", *)
(* main.rs): once the alternative path delivers again for good, while there is   *)
(* traffic and reports arrive, it is used again.                                 *)
AltComesBack == <>[](up["alt"]) => []<>(~breaker.open)
=============================================================================
