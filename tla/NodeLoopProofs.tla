--------------------------- MODULE NodeLoopProofs ---------------------------
(***************************************************************************)
(* Proofs about NodeLoop for every set of nodes, number of shards, timing  *)
(* and bound, with and without --fallback and authentication.              *)
(***************************************************************************)
EXTENDS NodeLoop, NatLemmas

-----------------------------------------------------------------------------
(* The inductive invariant. *)

HubKeys(h) == IF h = None THEN None ELSE h.keys

(* No secret is with two of the engine, the ticker and the shards. *)
Owned(g, t, h) ==
  /\ g.keys # None => g.keys \notin {t.keys, HubKeys(h)}
  /\ t.keys # None => t.keys # HubKeys(h)

(* The ephemeral of a handshake under way is in no keys yet, so the keys it  *)
(* will make are no one's.                                                  *)
PendingApart(g, t, h) ==
  g.state = "Initiating" => g.pending \notin KeyEphs(t.keys) \cup KeyEphs(HubKeys(h))

(* One node: its engine g, shards h, counters p, ticker t and schedule sc.  *)
NodeOK(n, g, h, p, t, sc) ==
  /\ g \in Engines /\ h \in Hubs \cup {None} /\ p \in Planes
  /\ EngineFits(g) /\ TickerFits(t) /\ SchedFits(n, sc)
  /\ Owned(g, t, h) /\ PendingApart(g, t, h)

Inv ==
  /\ TypeOK
  /\ \A n \in Nodes : NodeOK(n, eng[n], hub[n], plane[n], tick[n], sched[n])

(* With one initiator: only it dials, so no Init ever reaches it, and what   *)
(* its ticker saw Idle stays Idle until the ticker starts an attempt.        *)
LoneInitiator == \A i, j \in Initiators : i = j

OnlyInitiatorsDial ==
  /\ \A m \in net : m.type = "init" => m.from \in Initiators
  /\ \A n \in Nodes : sched[n].attempt # None => n \in Initiators

IdleStays(n, g, t) ==
  /\ n \in Initiators /\ t.pc \in {"shards", "install", "sched"} /\ t.st.state = "Idle"
       => g.state = "Idle"
  /\ t.pc = "start" => n \in Initiators /\ g.state = "Idle"

DialInv ==
  /\ OnlyInitiatorsDial /\ NoPanic
  /\ \A n \in Nodes : IdleStays(n, eng[n], tick[n])

-----------------------------------------------------------------------------
(* Lemmas. *)

\* Option::None is none of the values it stands beside.
LEMMA NoneApart ==
  /\ \A e \in EphPool : e # None
  /\ \A i \in Nat : i # None
  /\ \A k \in Keys : k # None
  /\ \A m \in InitFrames \cup RespFrames : m # None
  /\ \A h \in Hubs : h # None
BY NoneAssumption, NodeAssumption

\* A fresh ephemeral is in no keys that are still held.
LEMMA FreshEphApart ==
  ASSUME NEW n \in Nodes, FreshEphs # {}
  PROVE  /\ FreshEph \in EphPool
         /\ FreshEph \notin KeyEphs(eng[n].keys) \cup KeyEphs(tick[n].keys)
                              \cup KeyEphs(HubKeys(hub[n]))
<1>1. FreshEph \in FreshEphs
  <2>1. FreshEphs \subseteq Nat
    BY NodeAssumption DEF FreshEphs
  <2>. QED BY <2>1, MinOfNats DEF FreshEph
<1>2. FreshEph \in EphPool /\ FreshEph \notin EphsInUse
  BY <1>1 DEF FreshEphs
<1>3. KeyEphs(eng[n].keys) \subseteq EphsInUse
  <2>1. KeyEphs(eng[n].keys) \in {KeyEphs(eng[o].keys) : o \in Nodes}
    OBVIOUS
  <2>. QED BY <2>1 DEF EphsInUse
<1>4. KeyEphs(tick[n].keys) \subseteq EphsInUse
  <2>1. KeyEphs(tick[n].keys) \in {KeyEphs(tick[o].keys) : o \in Nodes}
    OBVIOUS
  <2>. QED BY <2>1 DEF EphsInUse
<1>5. KeyEphs(HubKeys(hub[n])) \subseteq EphsInUse
  <2>1. (IF hub[n] = None THEN {} ELSE hub[n].keys.dh)
          \in {IF hub[o] = None THEN {} ELSE hub[o].keys.dh : o \in Nodes}
    OBVIOUS
  <2>2. KeyEphs(HubKeys(hub[n])) \subseteq IF hub[n] = None THEN {} ELSE hub[n].keys.dh
    BY DEF KeyEphs, HubKeys
  <2>. QED BY <2>1, <2>2 DEF EphsInUse
<1>. QED BY <1>2, <1>3, <1>4, <1>5

\* What each operation makes of an engine that fits.
LEMMA EngineOps ==
  ASSUME NEW g \in Engines, EngineFits(g)
  PROVE  /\ LET a == AbandonHandshake(g)
            IN /\ a \in Engines /\ EngineFits(a) /\ a.keys = g.keys
               /\ a.state # "Initiating" /\ (a.state = "Established" <=> g.state = "Established")
         /\ LET r == Reset(g)
            IN r \in Engines /\ EngineFits(r) /\ r.state = "Idle" /\ r.keys = None
         /\ g.state = "Initiating" =>
              LET r == RefuseResp(g)
              IN r \in Engines /\ EngineFits(r) /\ r.state = "Idle" /\ r.keys = None
         /\ CanSplit(g) =>
              LET s == SplitShards(g)
              IN /\ s \in Engines /\ EngineFits(s) /\ s.state = "Established"
                 /\ s.keys = None
<1>1. /\ AbandonHandshake(g) \in Engines /\ EngineFits(AbandonHandshake(g))
      /\ AbandonHandshake(g).keys = g.keys
      /\ AbandonHandshake(g).state # "Initiating"
      /\ AbandonHandshake(g).state = "Established" <=> g.state = "Established"
  BY DEF AbandonHandshake, Engines, EngineFits
<1>2. /\ Reset(g) \in Engines /\ EngineFits(Reset(g)) /\ Reset(g).state = "Idle"
      /\ Reset(g).keys = None
  BY DEF Reset, Engines, EngineFits
<1>3. ASSUME g.state = "Initiating"
      PROVE  /\ RefuseResp(g) \in Engines /\ EngineFits(RefuseResp(g))
             /\ RefuseResp(g).state = "Idle" /\ RefuseResp(g).keys = None
  BY <1>3, ModeAssumption DEF RefuseResp, Engines, EngineFits
<1>4. ASSUME CanSplit(g)
      PROVE  /\ SplitShards(g) \in Engines /\ EngineFits(SplitShards(g))
             /\ SplitShards(g).state = "Established" /\ SplitShards(g).keys = None
  BY <1>4 DEF CanSplit, SplitShards, Engines, EngineFits
<1>. QED BY <1>1, <1>2, <1>3, <1>4

\* start_handshake, accepting an Init and finishing with a Resp.
LEMMA EngineHandshakes ==
  ASSUME NEW n \in Nodes, NEW g \in Engines, EngineFits(g), NEW e \in EphPool
  PROVE  /\ g.state = "Idle" =>
              LET s == StartHandshake(g, e)
              IN /\ s \in Engines /\ EngineFits(s) /\ s.state = "Initiating"
                 /\ s.pending = e /\ s.keys = None
         /\ \A m \in InitFrames : ConsidersInit(g, m) =>
              LET s == AcceptInit(g, n, m, e)
              IN /\ s \in Engines /\ EngineFits(s) /\ s.state = "Established"
                 /\ s.keys = NewKeys(e, m.eph, FALSE) /\ s.keys \in Keys
                 /\ s.cached_resp \in RespFrames
         /\ \A m \in RespFrames : AwaitsResp(g) =>
              LET s == FinishInit(g, m)
              IN /\ s \in Engines /\ EngineFits(s) /\ s.state = "Established"
                 /\ s.keys = NewKeys(g.pending, m.eph, TRUE) /\ s.keys \in Keys
<1>0. e # None
  BY NoneApart
<1>1. ASSUME g.state = "Idle"
      PROVE  /\ StartHandshake(g, e) \in Engines /\ EngineFits(StartHandshake(g, e))
             /\ StartHandshake(g, e).state = "Initiating"
             /\ StartHandshake(g, e).pending = e /\ StartHandshake(g, e).keys = None
  BY <1>0, <1>1 DEF StartHandshake, Engines, EngineFits
<1>2. ASSUME NEW m \in InitFrames, ConsidersInit(g, m)
      PROVE  LET s == AcceptInit(g, n, m, e)
             IN /\ s \in Engines /\ EngineFits(s) /\ s.state = "Established"
                /\ s.keys = NewKeys(e, m.eph, FALSE) /\ s.keys \in Keys
                /\ s.cached_resp \in RespFrames
  <2>. DEFINE k == NewKeys(e, m.eph, FALSE)
              r == RespFrame(n, e, m.eph)
              s == AcceptInit(g, n, m, e)
  <2>1. m.eph \in EphPool /\ m.eph # None
    BY NoneApart DEF InitFrames
  <2>2. k \in Keys /\ k # None /\ r \in RespFrames /\ r # None
    BY <2>1, NoneApart DEF NewKeys, Keys, RespFrame, RespFrames
  <2>3. g.pending = None
    BY <1>2 DEF ConsidersInit, EngineFits
  <2>4. s = [g EXCEPT !.keys = k, !.sharded = FALSE, !.state = "Established",
                      !.bound_init = m.eph, !.cached_resp = r,
                      !.auth_failed = IF Auth THEN FALSE ELSE @]
    BY DEF AcceptInit
  <2>. HIDE DEF k, r, s
  <2>5. s \in Engines
    BY <2>1, <2>2, <2>4, ModeAssumption DEF Engines
  <2>6. /\ s.keys = k /\ s.sharded = FALSE /\ s.state = "Established"
        /\ s.bound_init = m.eph /\ s.cached_resp = r /\ s.pending = None
    BY <2>3, <2>4 DEF Engines
  <2>7. EngineFits(s)
    BY <2>1, <2>2, <2>6 DEF EngineFits
  <2>. QED BY <2>2, <2>5, <2>6, <2>7 DEF k, s
<1>3. ASSUME NEW m \in RespFrames, AwaitsResp(g)
      PROVE  LET s == FinishInit(g, m)
             IN /\ s \in Engines /\ EngineFits(s) /\ s.state = "Established"
                /\ s.keys = NewKeys(g.pending, m.eph, TRUE) /\ s.keys \in Keys
  <2>. DEFINE k == NewKeys(g.pending, m.eph, TRUE)
              s == FinishInit(g, m)
  <2>1. m.eph \in EphPool /\ g.pending \in EphPool
    BY <1>3 DEF RespFrames, AwaitsResp, Engines
  <2>2. k \in Keys /\ k # None
    BY <2>1, NoneApart DEF NewKeys, Keys
  <2>3. s = [g EXCEPT !.keys = k, !.pending = None, !.sharded = FALSE,
                      !.state = "Established", !.auth_failed = IF Auth THEN FALSE ELSE @]
    BY DEF FinishInit
  <2>. HIDE DEF k, s
  <2>4. s \in Engines
    BY <2>2, <2>3, ModeAssumption DEF Engines
  <2>5. /\ s.keys = k /\ s.sharded = FALSE /\ s.state = "Established"
        /\ s.bound_init = g.bound_init /\ s.cached_resp = g.cached_resp
        /\ s.pending = None
    BY <2>3 DEF Engines
  <2>6. EngineFits(s)
    BY <2>2, <2>5 DEF EngineFits
  <2>. QED BY <2>2, <2>4, <2>5, <2>6 DEF k, s
<1>. QED BY <1>1, <1>2, <1>3

-----------------------------------------------------------------------------
(* A step of one node. *)

(* f becomes f2 at n, and stays what it was elsewhere. *)
Moves(f, f2, n, v) ==
  DOMAIN f2 = Nodes /\ f2[n] = v /\ \A o \in Nodes \ {n} : f2[o] = f[o]

\* A variable left alone, or assigned at n, moves there.
LEMMA MovesHow ==
  ASSUME NEW f, NEW f2, NEW n \in Nodes, DOMAIN f = Nodes
  PROVE  /\ f2 = f => Moves(f, f2, n, f[n])
         /\ \A v : f2 = [f EXCEPT ![n] = v] => Moves(f, f2, n, v)
  BY DEF Moves

(* A step of n to these values, which leaves the other nodes alone. *)
StepTo(n, g, h, p, t, sc) ==
  /\ Moves(eng, eng', n, g) /\ Moves(hub, hub', n, h) /\ Moves(plane, plane', n, p)
  /\ Moves(tick, tick', n, t) /\ Moves(sched, sched', n, sc)

Frames == InitFrames \cup RespFrames \cup DataFrames

\* A step that leaves its node a node and the frames frames preserves Inv.
LEMMA LocalStep ==
  ASSUME Inv, NEW n \in Nodes, NEW g, NEW h, NEW p, NEW t, NEW sc,
         StepTo(n, g, h, p, t, sc), NodeOK(n, g, h, p, t, sc), net' \subseteq Frames
  PROVE  Inv'
<1>1. \A o \in Nodes \ {n} :
        /\ eng'[o] = eng[o] /\ hub'[o] = hub[o] /\ plane'[o] = plane[o]
        /\ tick'[o] = tick[o] /\ sched'[o] = sched[o]
  BY DEF StepTo, Moves
<1>2. /\ eng'[n] = g /\ hub'[n] = h /\ plane'[n] = p /\ tick'[n] = t /\ sched'[n] = sc
  BY DEF StepTo, Moves
<1>3. ASSUME NEW o \in Nodes
      PROVE  NodeOK(o, eng'[o], hub'[o], plane'[o], tick'[o], sched'[o])
  <2>1. CASE o = n
    BY <1>2, <2>1
  <2>2. CASE o # n
    BY <1>1, <2>2 DEF Inv
  <2>. QED BY <2>1, <2>2
<1>4. TypeOK'
  BY <1>3 DEF TypeOK, NodeOK, StepTo, Moves, Frames
<1>. QED BY <1>3, <1>4 DEF Inv

\* The five variables of a node, and the frames, in a state of Inv.
LEMMA AtNode ==
  ASSUME Inv, NEW n \in Nodes
  PROVE  /\ DOMAIN eng = Nodes /\ DOMAIN hub = Nodes /\ DOMAIN plane = Nodes
         /\ DOMAIN tick = Nodes /\ DOMAIN sched = Nodes
         /\ NodeOK(n, eng[n], hub[n], plane[n], tick[n], sched[n])
         /\ net \subseteq Frames
  BY DEF Inv, TypeOK, Frames

\* The actions that change at n only what the ticker and the schedule hold.
LEMMA TickSchedStep ==
  ASSUME Inv, NEW n \in Nodes, NEW t, NEW sc, UNCHANGED <<eng, hub, plane>>,
         Moves(tick, tick', n, t), Moves(sched, sched', n, sc),
         TickerFits(t), t.keys = None \/ t.keys = tick[n].keys, SchedFits(n, sc),
         net' \subseteq Frames
  PROVE  Inv'
<1>1. StepTo(n, eng[n], hub[n], plane[n], t, sc)
  BY AtNode, MovesHow DEF StepTo
<1>2. NodeOK(n, eng[n], hub[n], plane[n], t, sc)
  BY AtNode DEF NodeOK, Owned, PendingApart, KeyEphs
<1>. QED BY <1>1, <1>2, LocalStep

\* The ticker's record, sent on or back to wait.
LEMMA TickerMoves ==
  ASSUME Inv, NEW n \in Nodes, tick[n].pc # "install"
  PROVE  /\ Done(n) => Moves(tick, tick', n, TickNew)
         /\ TickerFits(TickNew) /\ TickNew.keys = None
         /\ \A pc \in {"sched", "reset", "start", "abandon"} :
              /\ Goto(n, pc) => Moves(tick, tick', n, [tick[n] EXCEPT !.pc = pc])
              /\ TickerFits([tick[n] EXCEPT !.pc = pc])
              /\ [tick[n] EXCEPT !.pc = pc].pc = pc
              /\ [tick[n] EXCEPT !.pc = pc].st = tick[n].st
              /\ [tick[n] EXCEPT !.pc = pc].keys = None /\ tick[n].keys = None
<1>1. DOMAIN tick = Nodes /\ TickerFits(tick[n])
  BY DEF Inv, TypeOK
<1>2. Done(n) => Moves(tick, tick', n, TickNew)
  BY <1>1, MovesHow DEF Done
<1>3. TickerFits(TickNew) /\ TickNew.keys = None
  BY DEF TickerFits, TickNew
<1>4. ASSUME NEW pc \in {"sched", "reset", "start", "abandon"}
      PROVE  /\ Goto(n, pc) => Moves(tick, tick', n, [tick[n] EXCEPT !.pc = pc])
             /\ TickerFits([tick[n] EXCEPT !.pc = pc])
             /\ [tick[n] EXCEPT !.pc = pc].pc = pc
             /\ [tick[n] EXCEPT !.pc = pc].st = tick[n].st
             /\ [tick[n] EXCEPT !.pc = pc].keys = None /\ tick[n].keys = None
  BY <1>1, <1>4, MovesHow DEF Goto, TickerFits
<1>. QED BY <1>2, <1>3, <1>4

-----------------------------------------------------------------------------
(* The schedule. *)

\* Two seconds pass.
LEMMA LaterFits ==
  ASSUME NEW n \in Nodes, NEW sc, SchedFits(n, sc)
  PROVE  SchedFits(n, Later(sc)) /\ (Later(sc).attempt # None => sc.attempt # None)
<1>1. LET a == Older(sc.attempt)
      IN /\ sc.attempt # None =>
              DOMAIN a = {"frame", "age"} /\ a.frame \in InitFrames /\ a.frame.from = n
         /\ sc.attempt = None => a = None
  BY DEF SchedFits, Older
<1>2. SinceUp(sc.est) \in Nat \cup {None} /\ (SinceUp(sc.est) # None) = (sc.est # None)
  BY NoneApart DEF SchedFits, SinceUp
<1>3. {"fb", "attempt", "est", "transport", "recorded"} \subseteq DOMAIN sc
  BY DEF SchedFits, SchedNew
<1>4. LET l == Later(sc)
      IN /\ DOMAIN l = DOMAIN sc /\ l.attempt = Older(sc.attempt) /\ l.est = SinceUp(sc.est)
         /\ l.transport = sc.transport /\ l.recorded = sc.recorded
  BY <1>3 DEF Later
<1>. QED BY <1>1, <1>2, <1>4 DEF SchedFits

\* record_success, and starting or giving up an attempt.
LEMMA SchedOps ==
  ASSUME Inv, NEW n \in Nodes
  PROVE  /\ SchedFits(n, RecordedUp(n))
         /\ RecordedUp(n).attempt # None => sched[n].attempt # None
         /\ \A fb : /\ SchedFits(n, [sched[n] EXCEPT !.fb = fb])
                    /\ [sched[n] EXCEPT !.fb = fb].attempt = sched[n].attempt
         /\ \A fb : LET sc == [RecordedUp(n) EXCEPT !.fb = fb, !.recorded = FALSE,
                                                   !.est = None]
                    IN SchedFits(n, sc) /\ sc.attempt = RecordedUp(n).attempt
         /\ \A fb, path, tr : tr \in {"tunnel", "plain"} =>
              LET sc == [sched[n] EXCEPT !.fb = fb, !.current = path, !.recorded = FALSE,
                                         !.est = None, !.transport = tr]
              IN SchedFits(n, sc) /\ sc.attempt = sched[n].attempt
         /\ LET sc == [sched[n] EXCEPT !.attempt = None]
            IN SchedFits(n, sc) /\ sc.attempt = None
         /\ \A f \in InitFrames : f.from = n =>
              LET sc == [sched[n] EXCEPT !.attempt = [frame |-> f, age |-> 0]]
              IN SchedFits(n, sc)
<1>. DEFINE sc == sched[n]
            D == {"fb", "current", "transport", "attempt", "recorded", "est",
                  "est_delivered"}
<1>1. SchedFits(n, sc) /\ DOMAIN sc = D /\ DOMAIN SchedNew = D
  BY DEF Inv, TypeOK, SchedFits, SchedNew
<1>. HIDE DEF sc
<1>2. 0 # None
  BY NoneApart
<1>3. /\ DOMAIN RecordedUp(n) = D /\ SchedFits(n, RecordedUp(n))
      /\ RecordedUp(n).attempt # None => sc.attempt # None
  <2>1. CASE FallbackOn /\ ~sc.recorded
    <3>. DEFINE r == RecordedUp(n)
    <3>1. /\ DOMAIN r = D /\ r.attempt = None /\ r.recorded = TRUE /\ r.est = 0
          /\ r.transport = IF sc.attempt = None THEN sc.transport ELSE "tunnel"
      BY <1>1, <2>1 DEF RecordedUp, sc
    <3>. HIDE DEF r
    <3>2. r.transport \in {"tunnel", "plain"}
      BY <1>1, <3>1 DEF SchedFits
    <3>3. r.est \in Nat
      BY <3>1
    <3>4. r.recorded = (r.est # None)
      BY <1>2, <3>1, Zenon
    <3>5. SchedFits(n, r) /\ ~(r.attempt # None)
      BY <1>1, <3>1, <3>2, <3>3, <3>4 DEF SchedFits
    <3>. QED BY <3>1, <3>5 DEF r
  <2>2. CASE ~(FallbackOn /\ ~sc.recorded)
    BY <1>1, <2>2 DEF RecordedUp, sc
  <2>. QED BY <2>1, <2>2
<1>4. ASSUME NEW fb
      PROVE  /\ SchedFits(n, [sc EXCEPT !.fb = fb])
             /\ [sc EXCEPT !.fb = fb].attempt = sc.attempt
  BY <1>1 DEF SchedFits
<1>5. ASSUME NEW fb
      PROVE  LET u == [RecordedUp(n) EXCEPT !.fb = fb, !.recorded = FALSE, !.est = None]
             IN SchedFits(n, u) /\ u.attempt = RecordedUp(n).attempt
  <2>. DEFINE r == RecordedUp(n)
              u == [r EXCEPT !.fb = fb, !.recorded = FALSE, !.est = None]
  <2>. HIDE DEF r
  <2>1. SchedFits(n, r) /\ DOMAIN r = D
    BY <1>3 DEF r
  <2>2. SchedFits(n, u) /\ u.attempt = r.attempt
    BY <1>1, <2>1 DEF SchedFits
  <2>. QED BY <2>2 DEF r
<1>6. ASSUME NEW fb, NEW path, NEW tr \in {"tunnel", "plain"}
      PROVE  LET u == [sc EXCEPT !.fb = fb, !.current = path, !.recorded = FALSE,
                                 !.est = None, !.transport = tr]
             IN SchedFits(n, u) /\ u.attempt = sc.attempt
  BY <1>1 DEF SchedFits
<1>7. SchedFits(n, [sc EXCEPT !.attempt = None]) /\ [sc EXCEPT !.attempt = None].attempt = None
  BY <1>1 DEF SchedFits
<1>8. ASSUME NEW f \in InitFrames, f.from = n
      PROVE  SchedFits(n, [sc EXCEPT !.attempt = [frame |-> f, age |-> 0]])
  BY <1>1, <1>8 DEF SchedFits
<1>. QED BY <1>3, <1>4, <1>5, <1>6, <1>7, <1>8 DEF sc

-----------------------------------------------------------------------------
(* The actions preserve Inv. *)

\* The ticker's steps that only read the engine and the shards.
LEMMA TickerReads ==
  ASSUME Inv, NEW n \in Nodes, net' = net,
         Wake(n) \/ LeaveShards(n) \/ TickUp(n) \/ TickIdle(n) \/ GiveUp(n)
  PROVE  Inv'
<1>. DEFINE sc == sched[n]
<1>1. /\ DOMAIN tick = Nodes /\ DOMAIN sched = Nodes
      /\ TickerFits(tick[n]) /\ SchedFits(n, sc) /\ net' \subseteq Frames
  BY AtNode DEF NodeOK
<1>2. CASE Wake(n)
  <2>. DEFINE t == [pc |-> IF Shards > 1 THEN "shards" ELSE "sched",
                    st |-> [state |-> eng[n].state, sharded |-> eng[n].sharded,
                            sealed |-> plane[n].sealed, delivered |-> plane[n].delivered],
                    keys |-> None]
  <2>1. Moves(tick, tick', n, t) /\ Moves(sched, sched', n, Later(sc))
    BY <1>1, <1>2, MovesHow DEF Wake
  <2>2. TickerFits(t) /\ t.keys = None
    BY DEF TickerFits
  <2>3. UNCHANGED <<eng, hub, plane>>
    BY <1>2 DEF Wake
  <2>. HIDE DEF t
  <2>. QED BY <1>1, <2>1, <2>2, <2>3, LaterFits, TickSchedStep
<1>3. CASE LeaveShards(n)
  <2>1. tick[n].pc # "install" /\ Goto(n, "sched") /\ UNCHANGED <<eng, hub, plane, sched>>
    BY <1>3 DEF LeaveShards
  <2>2. Moves(sched, sched', n, sc)
    BY <1>1, <2>1, MovesHow
  <2>. QED BY <1>1, <2>1, <2>2, TickerMoves, TickSchedStep
<1>4. CASE TickUp(n)
  <2>1. tick[n].pc # "install" /\ UNCHANGED <<eng, hub, plane>>
    BY <1>4 DEF TickUp
  <2>2. CASE FirstPacketTimedOut(n)
    <3>. DEFINE fb == RecordFailure(RecordedUp(n).fb, "FirstPacketTimeout")
                u == [RecordedUp(n) EXCEPT !.fb = fb, !.recorded = FALSE, !.est = None]
    <3>1. Goto(n, "reset") /\ Moves(sched, sched', n, u)
      BY <1>1, <1>4, <2>2, MovesHow DEF TickUp
    <3>2. SchedFits(n, u)
      BY SchedOps
    <3>. HIDE DEF u
    <3>. QED BY <1>1, <2>1, <3>1, <3>2, TickerMoves, TickSchedStep
  <2>3. CASE ~FirstPacketTimedOut(n)
    <3>1. Done(n) /\ Moves(sched, sched', n, RecordedUp(n))
      BY <1>1, <1>4, <2>3, MovesHow DEF TickUp
    <3>. QED BY <1>1, <2>1, <3>1, SchedOps, TickerMoves, TickSchedStep
  <2>. QED BY <2>2, <2>3
<1>5. CASE TickIdle(n)
  <2>1. tick[n].pc # "install" /\ UNCHANGED <<eng, hub, plane>>
    BY <1>5 DEF TickIdle
  <2>2. CASE Dials(n)
    <3>. DEFINE path == NextPath(sc.fb)
                fb == NextPathState(sc.fb)
                tr == IF path.kind = "Tunnel" THEN "tunnel" ELSE "plain"
                u == [sc EXCEPT !.fb = fb, !.current = path, !.recorded = FALSE,
                                !.est = None, !.transport = tr]
    <3>1. Goto(n, "start") \/ Done(n)
      BY <1>5, <2>2 DEF TickIdle
    <3>2. Moves(sched, sched', n, u)
      <4>1. sched' = [sched EXCEPT ![n] = u]
        BY <1>5, <2>2 DEF TickIdle
      <4>. HIDE DEF u
      <4>. QED BY <1>1, <4>1, MovesHow
    <3>3. SchedFits(n, u)
      BY SchedOps
    <3>. HIDE DEF u
    <3>. QED BY <1>1, <2>1, <3>1, <3>2, <3>3, TickerMoves, TickSchedStep
  <2>3. CASE ~Dials(n)
    <3>1. Done(n) /\ Moves(sched, sched', n, sc)
      BY <1>1, <1>5, <2>3, MovesHow DEF TickIdle
    <3>. QED BY <1>1, <2>1, <3>1, TickerMoves, TickSchedStep
  <2>. QED BY <2>2, <2>3
<1>6. CASE GiveUp(n)
  <2>. DEFINE fb == RecordFailure(sc.fb, "HandshakeTimeout")
              u == [sc EXCEPT !.fb = fb]
  <2>1. tick[n].pc # "install" /\ Goto(n, "abandon") /\ UNCHANGED <<eng, hub, plane>>
    BY <1>6 DEF GiveUp
  <2>2. Moves(sched, sched', n, u)
    BY <1>1, <1>6 DEF GiveUp, Moves
  <2>3. SchedFits(n, u)
    BY SchedOps
  <2>. HIDE DEF u
  <2>. QED BY <1>1, <2>1, <2>2, <2>3, TickerMoves, TickSchedStep
<1>. QED BY <1>2, <1>3, <1>4, <1>5, <1>6

\* Retiring the shards and installing new ones.
LEMMA HubSwaps ==
  ASSUME Inv, NEW n \in Nodes, net' = net, RetireShards(n) \/ InstallShards(n)
  PROVE  Inv'
<1>1. /\ NodeOK(n, eng[n], hub[n], plane[n], tick[n], sched[n])
      /\ DOMAIN eng = Nodes /\ DOMAIN hub = Nodes /\ DOMAIN plane = Nodes
      /\ DOMAIN tick = Nodes /\ DOMAIN sched = Nodes /\ net' \subseteq Frames
  BY AtNode
<1>2. CASE RetireShards(n)
  <2>. DEFINE t == [tick[n] EXCEPT !.pc = "sched"]
  <2>1. /\ TickerFits(t) /\ t.keys = None /\ tick[n].keys = None
        /\ Moves(tick, tick', n, t)
    BY <1>2, TickerMoves DEF RetireShards
  <2>2. StepTo(n, eng[n], None, plane[n], t, sched[n])
    BY <1>1, <1>2, <2>1, MovesHow DEF RetireShards, StepTo
  <2>. HIDE DEF t
  <2>3. NodeOK(n, eng[n], None, plane[n], t, sched[n])
    BY <1>1, <2>1 DEF NodeOK, Owned, PendingApart, HubKeys, KeyEphs
  <2>. QED BY <1>1, <2>2, <2>3, LocalStep
<1>3. CASE InstallShards(n)
  <2>. DEFINE k == tick[n].keys
              h == [keys |-> k, tx |-> [i \in 0 .. Shards - 1 |-> 0], rx |-> {},
                    sealed |-> 0, delivered |-> 0]
              t == [tick[n] EXCEPT !.pc = "sched", !.keys = None]
  <2>1. k \in Keys /\ k # None
    BY <1>1, <1>3 DEF InstallShards, NodeOK, TickerFits
  <2>2. TickerFits(t) /\ t.keys = None
    BY <1>1 DEF NodeOK, TickerFits
  <2>3. h \in Hubs /\ h # None /\ HubKeys(h) = k
    BY <2>1, NoneApart DEF Hubs, HubKeys
  <2>4. StepTo(n, eng[n], h, plane[n], t, sched[n])
    BY <1>1, <1>3, MovesHow DEF InstallShards, StepTo
  <2>. HIDE DEF h, t
  <2>5. NodeOK(n, eng[n], h, plane[n], t, sched[n])
    BY <1>1, <2>2, <2>3 DEF NodeOK, Owned, PendingApart, KeyEphs
  <2>. QED BY <1>1, <2>4, <2>5, LocalStep
<1>. QED BY <1>2, <1>3

\* Splitting, resetting the tunnel and abandoning an attempt.
LEMMA EngineSteps ==
  ASSUME Inv, NEW n \in Nodes, net' = net,
         SplitTick(n) \/ ResetTunnel(n) \/ AbandonAttempt(n)
  PROVE  Inv'
<1>1. /\ NodeOK(n, eng[n], hub[n], plane[n], tick[n], sched[n])
      /\ DOMAIN eng = Nodes /\ DOMAIN hub = Nodes /\ DOMAIN plane = Nodes
      /\ DOMAIN tick = Nodes /\ DOMAIN sched = Nodes /\ net' \subseteq Frames
  BY AtNode
<1>2. eng[n] \in Engines /\ EngineFits(eng[n]) /\ TickerFits(tick[n])
  BY <1>1 DEF NodeOK
<1>3. CASE SplitTick(n)
  <2>1. CASE CanSplit(eng[n])
    <3>. DEFINE g == SplitShards(eng[n])
                k == eng[n].keys
                t == [tick[n] EXCEPT !.pc = "install", !.keys = k]
    <3>1. k \in Keys /\ k # None
      BY <1>2, <2>1 DEF CanSplit, Engines
    <3>2. TickerFits(t) /\ t.keys = k
      BY <1>2, <3>1 DEF TickerFits
    <3>3. g \in Engines /\ EngineFits(g) /\ g.state = "Established" /\ g.keys = None
      BY <1>2, <2>1, EngineOps
    <3>4. StepTo(n, g, None, plane[n], t, sched[n])
      BY <1>1, <1>3, <2>1, MovesHow DEF SplitTick, SplitsNow, StepTo
    <3>. HIDE DEF g, t
    <3>5. NodeOK(n, g, None, plane[n], t, sched[n])
      BY <1>1, <3>1, <3>2, <3>3 DEF NodeOK, Owned, PendingApart, HubKeys
    <3>. QED BY <1>1, <3>4, <3>5, LocalStep
  <2>2. CASE ~CanSplit(eng[n])
    <3>1. tick[n].pc # "install" /\ Goto(n, "sched") /\ UNCHANGED <<eng, hub, plane, sched>>
      BY <1>3, <2>2 DEF SplitTick
    <3>2. Moves(sched, sched', n, sched[n]) /\ SchedFits(n, sched[n])
      BY <1>1, <3>1, MovesHow DEF NodeOK
    <3>. QED BY <1>1, <3>1, <3>2, TickerMoves, TickSchedStep
  <2>. QED BY <2>1, <2>2
<1>4. CASE ResetTunnel(n)
  <2>. DEFINE g == Reset(eng[n])
              p == [plane[n] EXCEPT !.tx = 0, !.rx = {}]
  <2>1. g \in Engines /\ EngineFits(g) /\ g.state = "Idle" /\ g.keys = None
    BY <1>2, EngineOps
  <2>2. p \in Planes
    BY <1>1 DEF NodeOK, Planes
  <2>3. Moves(plane, plane', n, p)
    BY <1>1, <1>4 DEF ResetTunnel, FreshPlane, Moves
  <2>4. Moves(tick, tick', n, TickNew) /\ TickerFits(TickNew) /\ TickNew.keys = None
    BY <1>4, TickerMoves DEF ResetTunnel
  <2>5. StepTo(n, g, hub[n], p, TickNew, sched[n])
    BY <1>1, <1>4, <2>3, <2>4, MovesHow DEF ResetTunnel, StepTo
  <2>. HIDE DEF g, p
  <2>6. NodeOK(n, g, hub[n], p, TickNew, sched[n])
    BY <1>1, <2>1, <2>2, <2>4 DEF NodeOK, Owned, PendingApart
  <2>. QED BY <1>1, <2>5, <2>6, LocalStep
<1>5. CASE AbandonAttempt(n)
  <2>. DEFINE g == AbandonHandshake(eng[n])
              sc == [sched[n] EXCEPT !.attempt = None]
  <2>1. g \in Engines /\ EngineFits(g) /\ g.state # "Initiating" /\ g.keys = eng[n].keys
    BY <1>2, EngineOps
  <2>2. SchedFits(n, sc)
    BY SchedOps
  <2>3. Moves(sched, sched', n, sc)
    BY <1>1, <1>5 DEF AbandonAttempt, Moves
  <2>4. /\ Moves(tick, tick', n, TickNew) /\ TickerFits(TickNew) /\ TickNew.keys = None
        /\ tick[n].keys = None
    BY <1>5, TickerMoves DEF AbandonAttempt
  <2>5. StepTo(n, g, hub[n], plane[n], TickNew, sc)
    BY <1>1, <1>5, <2>3, <2>4, MovesHow DEF AbandonAttempt, StepTo
  <2>. HIDE DEF g, sc
  <2>6. NodeOK(n, g, hub[n], plane[n], TickNew, sc)
    BY <1>1, <2>1, <2>2, <2>4 DEF NodeOK, Owned, PendingApart
  <2>. QED BY <1>1, <2>5, <2>6, LocalStep
<1>. QED BY <1>3, <1>4, <1>5

\* One frame more in flight.
LEMMA SendingFrames ==
  ASSUME Inv, NEW f \in Frames
  PROVE  Sending(f) \subseteq Frames
BY AtNode DEF Sending, Inv, TypeOK, Frames

\* A frame in flight, by its type.
LEMMA FrameOfType ==
  ASSUME Inv, NEW m \in net
  PROVE  /\ m.type = "init" => m \in InitFrames
         /\ m.type = "resp" => m \in RespFrames
         /\ m.type = "data" => m \in DataFrames
BY DEF Inv, TypeOK, InitFrames, RespFrames, DataFrames

\* The Init sent once more, or a handshake started.
LEMMA Attempts ==
  ASSUME Inv, NEW n \in Nodes, ResendInit(n) \/ StartAttempt(n)
  PROVE  Inv'
<1>1. /\ NodeOK(n, eng[n], hub[n], plane[n], tick[n], sched[n])
      /\ DOMAIN eng = Nodes /\ DOMAIN hub = Nodes /\ DOMAIN plane = Nodes
      /\ DOMAIN tick = Nodes /\ DOMAIN sched = Nodes /\ net \subseteq Frames
  BY AtNode
<1>2. /\ eng[n] \in Engines /\ EngineFits(eng[n]) /\ TickerFits(tick[n])
      /\ SchedFits(n, sched[n])
  BY <1>1 DEF NodeOK
<1>3. CASE ResendInit(n)
  <2>1. tick[n].pc # "install" /\ Done(n) /\ UNCHANGED <<eng, hub, plane, sched>>
    BY <1>3 DEF ResendInit
  <2>2. net' \subseteq Frames
    BY <1>1, <1>2, <1>3, SendingFrames DEF ResendInit, SchedFits, Frames
  <2>3. Moves(sched, sched', n, sched[n])
    BY <1>1, <2>1, MovesHow
  <2>. QED BY <1>2, <2>1, <2>2, <2>3, TickerMoves, TickSchedStep
<1>4. CASE StartAttempt(n)
  <2>1. CASE AbandonHandshake(eng[n]).state = "Idle"
    <3>. DEFINE a == AbandonHandshake(eng[n])
                g == StartHandshake(a, FreshEph)
                f == InitFrame(n, FreshEph)
                sc == [sched[n] EXCEPT !.attempt = [frame |-> f, age |-> 0]]
    <3>1. FreshEphs # {}
      BY <1>4, <2>1 DEF StartAttempt
    <3>2. /\ FreshEph \in EphPool
          /\ FreshEph \notin KeyEphs(tick[n].keys) \cup KeyEphs(HubKeys(hub[n]))
      BY <3>1, FreshEphApart
    <3>3. a \in Engines /\ EngineFits(a) /\ a.state = "Idle"
      BY <1>2, <2>1, EngineOps
    <3>4. g \in Engines /\ EngineFits(g) /\ g.pending = FreshEph /\ g.keys = None
      BY <3>2, <3>3, EngineHandshakes
    <3>5. f \in InitFrames /\ f.from = n
      BY <3>2 DEF InitFrame, InitFrames
    <3>6. SchedFits(n, sc)
      BY <3>5, SchedOps
    <3>7. net' \subseteq Frames
      BY <1>4, <2>1, <3>5, SendingFrames DEF StartAttempt, Frames
    <3>8. /\ Moves(tick, tick', n, TickNew) /\ TickerFits(TickNew) /\ TickNew.keys = None
          /\ tick[n].keys = None
      BY <1>4, <2>1, TickerMoves DEF StartAttempt
    <3>9. Moves(eng, eng', n, g) /\ Moves(sched, sched', n, sc)
      BY <1>1, <1>4, <2>1 DEF StartAttempt, Moves
    <3>10. StepTo(n, g, hub[n], plane[n], TickNew, sc)
      BY <1>1, <1>4, <3>8, <3>9, MovesHow DEF StartAttempt, StepTo
    <3>. HIDE DEF g, sc
    <3>11. NodeOK(n, g, hub[n], plane[n], TickNew, sc)
      BY <1>1, <3>2, <3>4, <3>6, <3>8 DEF NodeOK, Owned, PendingApart
    <3>. QED BY <3>7, <3>10, <3>11, LocalStep
  <2>2. CASE AbandonHandshake(eng[n]).state # "Idle"
    <3>1. UNCHANGED <<eng, hub, plane, sched, tick, net>>
      BY <1>4, <2>2 DEF StartAttempt
    <3>2. Moves(sched, sched', n, sched[n]) /\ Moves(tick, tick', n, tick[n])
      BY <1>1, <3>1, MovesHow
    <3>. QED BY <1>1, <1>2, <3>1, <3>2, TickSchedStep
  <2>. QED BY <2>1, <2>2
<1>. QED BY <1>3, <1>4

\* A packet sealed by the engine or by a shard.
LEMMA Sends ==
  ASSUME Inv, NEW n \in Nodes, SendPacket(n)
  PROVE  Inv'
<1>1. /\ NodeOK(n, eng[n], hub[n], plane[n], tick[n], sched[n])
      /\ DOMAIN eng = Nodes /\ DOMAIN hub = Nodes /\ DOMAIN plane = Nodes
      /\ DOMAIN tick = Nodes /\ DOMAIN sched = Nodes
      /\ UNCHANGED <<eng, sched, tick>>
  BY AtNode DEF SendPacket
<1>2. /\ eng[n] \in Engines /\ hub[n] \in Hubs \cup {None} /\ plane[n] \in Planes
      /\ Shards \in Nat
  BY <1>1, NodeAssumption DEF NodeOK
<1>3. CASE SendByEngine(n)
  <2>1. Moves(plane, plane', n, plane'[n])
    BY <1>1, <1>3 DEF SendByEngine, Moves
  <2>2. plane'[n] \in Planes /\ plane[n].tx + 1 \in Nat
    BY <1>1, <1>2, <1>3 DEF SendByEngine, Planes
  <2>. DEFINE f == [type |-> "data", from |-> n, keys |-> eng[n].keys,
                    epoch |-> 0, ctr |-> plane[n].tx + 1]
  <2>3. f \in Frames
    BY <1>2, <1>3, <2>2 DEF SendByEngine, Engines, DataFrames, Frames
  <2>4. net' = Sending(f)
    BY <1>3 DEF SendByEngine, Seal
  <2>5. StepTo(n, eng[n], hub[n], plane'[n], tick[n], sched[n])
    BY <1>1, <1>3, <2>1, MovesHow DEF SendByEngine, StepTo
  <2>6. NodeOK(n, eng[n], hub[n], plane'[n], tick[n], sched[n])
    BY <1>1, <2>2 DEF NodeOK
  <2>. QED BY <2>3, <2>4, <2>5, <2>6, SendingFrames, LocalStep
<1>4. ASSUME NEW k \in 0 .. Shards - 1, SendByShard(n, k)
      PROVE  Inv'
  <2>1. hub[n] \in Hubs /\ hub[n] # None /\ k \in Nat
    BY <1>2, <1>4 DEF SendByShard
  <2>2. hub' = [hub EXCEPT ![n].tx[k] = @ + 1, ![n].sealed = @ + 1]
    BY <1>4 DEF SendByShard
  <2>3. Moves(hub, hub', n, hub'[n])
    BY <1>1, <2>2 DEF Moves
  <2>4. /\ hub'[n] \in Hubs /\ hub'[n].keys = hub[n].keys
        /\ hub[n].keys \in Keys /\ hub[n].tx[k] + 1 \in Nat
    BY <1>1, <1>2, <1>4, <2>1, <2>2 DEF Hubs
  <2>5. hub'[n] # None
    BY <2>4, NoneApart
  <2>. DEFINE f == [type |-> "data", from |-> n, keys |-> hub[n].keys,
                    epoch |-> k, ctr |-> hub[n].tx[k] + 1]
  <2>6. f \in Frames
    BY <2>1, <2>4 DEF DataFrames, Frames
  <2>7. net' = Sending(f)
    BY <1>4 DEF SendByShard, Seal
  <2>8. StepTo(n, eng[n], hub'[n], plane[n], tick[n], sched[n])
    BY <1>1, <1>4, <2>3, MovesHow DEF SendByShard, StepTo
  <2>9. NodeOK(n, eng[n], hub'[n], plane[n], tick[n], sched[n])
    BY <1>1, <2>1, <2>4, <2>5 DEF NodeOK, Owned, PendingApart, HubKeys
  <2>. QED BY <2>6, <2>7, <2>8, <2>9, SendingFrames, LocalStep
<1>. QED BY <1>3, <1>4 DEF SendPacket

\* A packet opened by the engine or by the shards.
LEMMA Receives ==
  ASSUME Inv, NEW n \in Nodes, NEW m \in net, RecvData(n, m)
  PROVE  Inv'
<1>1. /\ NodeOK(n, eng[n], hub[n], plane[n], tick[n], sched[n])
      /\ DOMAIN eng = Nodes /\ DOMAIN hub = Nodes /\ DOMAIN plane = Nodes
      /\ DOMAIN tick = Nodes /\ DOMAIN sched = Nodes
      /\ UNCHANGED <<eng, sched, tick>> /\ net' \subseteq Frames
  BY AtNode DEF RecvData
<1>2. /\ hub[n] \in Hubs \cup {None} /\ plane[n] \in Planes
      /\ m.epoch \in Nat /\ m.ctr \in Nat
  BY <1>1, FrameOfType DEF NodeOK, RecvData, DataFrames
<1>3. CASE DataToShard(n, m)
  <2>1. hub[n] \in Hubs /\ hub[n] # None
    BY <1>2, <1>3 DEF DataToShard
  <2>2. \/ hub' = hub
        \/ hub' = [hub EXCEPT ![n].delivered = @ + 1,
                              ![n].rx = @ \cup {<<m.epoch, m.ctr>>}]
    BY <1>3 DEF DataToShard
  <2>3. Moves(hub, hub', n, hub'[n])
    BY <1>1, <2>2 DEF Moves
  <2>4. hub'[n] \in Hubs /\ hub'[n].keys = hub[n].keys
    BY <1>1, <1>2, <2>1, <2>2 DEF Hubs
  <2>5. hub'[n] # None
    BY <2>4, NoneApart
  <2>6. StepTo(n, eng[n], hub'[n], plane[n], tick[n], sched[n])
    BY <1>1, <1>3, <2>3, MovesHow DEF DataToShard, StepTo
  <2>7. NodeOK(n, eng[n], hub'[n], plane[n], tick[n], sched[n])
    BY <1>1, <2>1, <2>4, <2>5 DEF NodeOK, Owned, PendingApart, HubKeys
  <2>. QED BY <1>1, <2>6, <2>7, LocalStep
<1>4. CASE DataToEngine(n, m)
  <2>1. \/ plane' = plane
        \/ plane' = [plane EXCEPT ![n].delivered = @ + 1,
                                  ![n].rx = @ \cup {<<m.epoch, m.ctr>>}]
    BY <1>4 DEF DataToEngine
  <2>2. Moves(plane, plane', n, plane'[n])
    BY <1>1, <2>1 DEF Moves
  <2>3. plane'[n] \in Planes
    BY <1>1, <1>2, <2>1 DEF Planes
  <2>4. StepTo(n, eng[n], hub[n], plane'[n], tick[n], sched[n])
    BY <1>1, <1>4, <2>2, MovesHow DEF DataToEngine, StepTo
  <2>5. NodeOK(n, eng[n], hub[n], plane'[n], tick[n], sched[n])
    BY <1>1, <2>3 DEF NodeOK
  <2>. QED BY <1>1, <2>4, <2>5, LocalStep
<1>. QED BY <1>3, <1>4 DEF RecvData

\* An Init answered, a Resp taken or refused.
LEMMA Handshakes ==
  ASSUME Inv, NEW n \in Nodes, NEW m \in net,
         AnswerInit(n, m) \/ TakeResp(n, m) \/ RejectResp(n, m)
  PROVE  Inv'
<1>. DEFINE p == [plane[n] EXCEPT !.tx = 0, !.rx = {}]
<1>1. /\ NodeOK(n, eng[n], hub[n], plane[n], tick[n], sched[n])
      /\ DOMAIN eng = Nodes /\ DOMAIN hub = Nodes /\ DOMAIN plane = Nodes
      /\ DOMAIN tick = Nodes /\ DOMAIN sched = Nodes /\ net \subseteq Frames
      /\ UNCHANGED <<hub, sched, tick>>
  BY AtNode DEF AnswerInit, TakeResp, RejectResp
<1>2. /\ eng[n] \in Engines /\ EngineFits(eng[n]) /\ TickerFits(tick[n])
      /\ p \in Planes
  BY <1>1 DEF NodeOK, Planes
<1>3. ASSUME NEW g, Moves(eng, eng', n, g), plane' = FreshPlane(n)
      PROVE  StepTo(n, g, hub[n], p, tick[n], sched[n])
  <2>1. Moves(plane, plane', n, p)
    BY <1>1, <1>3 DEF FreshPlane, Moves
  <2>2. Moves(hub, hub', n, hub[n]) /\ Moves(sched, sched', n, sched[n])
        /\ Moves(tick, tick', n, tick[n])
    BY <1>1, MovesHow
  <2>. QED BY <1>3, <2>1, <2>2 DEF StepTo
<1>. HIDE DEF p
<1>4. CASE AnswerInit(n, m)
  <2>1. m \in InitFrames /\ m.eph \in EphPool /\ m.eph # None
    BY <1>4, FrameOfType, NoneApart DEF AnswerInit, InitFrames
  <2>2. net' \subseteq Frames \cup {eng'[n].cached_resp}
    BY <1>1, <1>4 DEF AnswerInit
  <2>3. CASE IsBoundInit(eng[n], m) /\ UNCHANGED <<eng, plane>>
    <3>1. eng[n].cached_resp \in RespFrames
      BY <1>2, <2>1, <2>3 DEF IsBoundInit, EngineFits, Engines
    <3>2. net' \subseteq Frames
      BY <2>2, <2>3, <3>1 DEF Frames
    <3>3. Moves(sched, sched', n, sched[n]) /\ Moves(tick, tick', n, tick[n])
      BY <1>1, MovesHow
    <3>4. SchedFits(n, sched[n])
      BY <1>1 DEF NodeOK
    <3>. QED BY <1>1, <1>2, <2>3, <3>2, <3>3, <3>4, TickSchedStep
  <2>4. CASE /\ ConsidersInit(eng[n], m) /\ FreshEphs # {}
             /\ eng' = [eng EXCEPT ![n] = AcceptInit(@, n, m, FreshEph)]
             /\ plane' = FreshPlane(n)
    <3>. DEFINE g == AcceptInit(eng[n], n, m, FreshEph)
    <3>1. /\ FreshEph \in EphPool
          /\ FreshEph \notin KeyEphs(tick[n].keys) \cup KeyEphs(HubKeys(hub[n]))
      BY <2>4, FreshEphApart
    <3>2. /\ g \in Engines /\ EngineFits(g) /\ g.state = "Established"
          /\ g.keys = NewKeys(FreshEph, m.eph, FALSE) /\ g.keys \in Keys
          /\ g.cached_resp \in RespFrames
      BY <1>2, <2>1, <2>4, <3>1, EngineHandshakes
    <3>3. Moves(eng, eng', n, g) /\ eng'[n] = g
      BY <1>1, <2>4 DEF Moves
    <3>. HIDE DEF g
    <3>4. net' \subseteq Frames
      BY <2>2, <3>2, <3>3 DEF Frames
    <3>5. StepTo(n, g, hub[n], p, tick[n], sched[n])
      BY <1>3, <2>4, <3>3
    <3>6. FreshEph \in g.keys.dh /\ g.keys # None
      <4>1. NewKeys(FreshEph, m.eph, FALSE).dh = {FreshEph, m.eph}
        BY DEF NewKeys
      <4>. QED BY <3>2, <4>1, NoneApart
    <3>7. Owned(g, tick[n], hub[n])
      BY <1>1, <3>1, <3>6 DEF NodeOK, Owned, KeyEphs
    <3>8. NodeOK(n, g, hub[n], p, tick[n], sched[n])
      BY <1>1, <1>2, <3>2, <3>7 DEF NodeOK, PendingApart
    <3>. QED BY <3>4, <3>5, <3>8, LocalStep
  <2>. QED BY <1>4, <2>3, <2>4 DEF AnswerInit
<1>5. CASE TakeResp(n, m)
  <2>. DEFINE g == FinishInit(eng[n], m)
              e == eng[n].pending
  <2>1. m \in RespFrames /\ AwaitsResp(eng[n]) /\ net' \subseteq Frames
    BY <1>1, <1>5, FrameOfType DEF TakeResp
  <2>2. e \in EphPool /\ e \notin KeyEphs(tick[n].keys) \cup KeyEphs(HubKeys(hub[n]))
    BY <1>1, <1>2, <2>1 DEF AwaitsResp, NodeOK, PendingApart, Engines
  <2>3. /\ g \in Engines /\ EngineFits(g) /\ g.state = "Established"
        /\ g.keys = NewKeys(e, m.eph, TRUE) /\ g.keys \in Keys
    BY <1>2, <2>1, <2>2, EngineHandshakes
  <2>4. Moves(eng, eng', n, g) /\ plane' = FreshPlane(n)
    BY <1>1, <1>5 DEF TakeResp, Moves
  <2>. HIDE DEF g
  <2>5. StepTo(n, g, hub[n], p, tick[n], sched[n])
    BY <1>3, <2>4
  <2>6. e \in g.keys.dh /\ g.keys # None
    <3>1. NewKeys(e, m.eph, TRUE).dh = {e, m.eph}
      BY DEF NewKeys
    <3>. QED BY <2>3, <3>1, NoneApart
  <2>7. Owned(g, tick[n], hub[n])
    BY <1>1, <2>2, <2>6 DEF NodeOK, Owned, KeyEphs
  <2>8. NodeOK(n, g, hub[n], p, tick[n], sched[n])
    BY <1>1, <1>2, <2>3, <2>7 DEF NodeOK, PendingApart
  <2>. QED BY <2>1, <2>5, <2>8, LocalStep
<1>6. CASE RejectResp(n, m)
  <2>. DEFINE g == RefuseResp(eng[n])
  <2>1. g \in Engines /\ EngineFits(g) /\ g.state = "Idle" /\ g.keys = None
    BY <1>2, <1>6, EngineOps DEF RejectResp, AwaitsResp
  <2>2. StepTo(n, g, hub[n], plane[n], tick[n], sched[n])
    BY <1>1, <1>6, MovesHow DEF RejectResp, StepTo
  <2>. HIDE DEF g
  <2>3. NodeOK(n, g, hub[n], plane[n], tick[n], sched[n])
    BY <1>1, <2>1 DEF NodeOK, Owned, PendingApart
  <2>4. net' \subseteq Frames
    BY <1>1, <1>6 DEF RejectResp
  <2>. QED BY <2>2, <2>3, <2>4, LocalStep
<1>. QED BY <1>4, <1>5, <1>6

\* The process dies and starts again.
LEMMA Restarts ==
  ASSUME Inv, NEW n \in Nodes, Restart(n)
  PROVE  Inv'
<1>1. EngineNew \in Engines /\ EngineFits(EngineNew) /\ EngineNew.keys = None
      /\ EngineNew.state = "Idle"
  BY DEF EngineNew, Engines, EngineFits
<1>2. PlaneNew \in Planes
  BY DEF PlaneNew, Planes
<1>3. SchedFits(n, SchedNew)
  BY DEF SchedFits, SchedNew
<1>4. TickerFits(TickAtBoot(n)) /\ TickAtBoot(n).keys = None
  BY DEF TickerFits, TickAtBoot, TickNew
<1>5. NodeOK(n, EngineNew, None, PlaneNew, TickAtBoot(n), SchedNew)
  BY <1>1, <1>2, <1>3, <1>4 DEF NodeOK, Owned, PendingApart
<1>6. StepTo(n, EngineNew, None, PlaneNew, TickAtBoot(n), SchedNew)
  BY AtNode, MovesHow DEF Restart, StepTo
<1>7. net' \subseteq Frames
  BY AtNode DEF Restart
<1>. QED BY <1>5, <1>6, <1>7, LocalStep

LEMMA InitInv == Init => Inv
<1>. SUFFICES ASSUME Init PROVE Inv
  OBVIOUS
<1>1. ASSUME NEW n \in Nodes
      PROVE  NodeOK(n, eng[n], hub[n], plane[n], tick[n], sched[n])
  <2>1. EngineNew \in Engines /\ EngineFits(EngineNew) /\ EngineNew.keys = None
        /\ EngineNew.state = "Idle"
    BY DEF EngineNew, Engines, EngineFits
  <2>2. PlaneNew \in Planes
    BY DEF PlaneNew, Planes
  <2>3. SchedFits(n, SchedNew)
    BY DEF SchedFits, SchedNew
  <2>4. TickerFits(TickAtBoot(n)) /\ TickAtBoot(n).keys = None
    BY DEF TickerFits, TickAtBoot, TickNew
  <2>5. /\ eng[n] = EngineNew /\ hub[n] = None /\ plane[n] = PlaneNew
        /\ tick[n] = TickAtBoot(n) /\ sched[n] = SchedNew
    BY DEF Init
  <2>. QED BY <2>1, <2>2, <2>3, <2>4, <2>5 DEF NodeOK, Owned, PendingApart
<1>2. /\ DOMAIN eng = Nodes /\ DOMAIN hub = Nodes /\ DOMAIN plane = Nodes
      /\ DOMAIN tick = Nodes /\ DOMAIN sched = Nodes /\ net = {}
  BY DEF Init
<1>3. TypeOK
  BY <1>1, <1>2 DEF TypeOK, NodeOK
<1>. QED BY <1>1, <1>3 DEF Inv

LEMMA NextInv == Inv /\ [Next]_vars => Inv'
<1>. SUFFICES ASSUME Inv, [Next]_vars PROVE Inv'
  OBVIOUS
<1>1. ASSUME NEW n \in Nodes, Ticker(n)
      PROVE  Inv'
  <2>1. CASE TickSilent(n)
    <3>1. net' = net
      BY <2>1 DEF TickSilent
    <3>. QED BY <2>1, <3>1, TickerReads, HubSwaps, EngineSteps DEF TickSilent
  <2>2. CASE ResendInit(n) \/ StartAttempt(n)
    BY <2>2, Attempts
  <2>. QED BY <1>1, <2>1, <2>2 DEF Ticker
<1>2. ASSUME NEW n \in Nodes, SendPacket(n)
      PROVE  Inv'
  BY <1>2, Sends
<1>3. ASSUME NEW n \in Nodes, Restart(n)
      PROVE  Inv'
  BY <1>3, Restarts
<1>4. ASSUME NEW m \in net, NEW n \in Nodes,
             AnswerInit(n, m) \/ TakeResp(n, m) \/ RejectResp(n, m) \/ RecvData(n, m)
      PROVE  Inv'
  BY <1>4, Handshakes, Receives
<1>5. CASE UNCHANGED vars
  BY <1>5 DEF vars, node, Inv, TypeOK
<1>. QED BY <1>1, <1>2, <1>3, <1>4, <1>5 DEF Next

-----------------------------------------------------------------------------
(* With one initiator. *)

\* What a step of n leaves of DialInv to show.
LEMMA DialStep ==
  ASSUME DialInv, NEW n \in Nodes, panicked' = panicked,
         \A o \in Nodes \ {n} :
           eng'[o] = eng[o] /\ tick'[o] = tick[o] /\ sched'[o] = sched[o],
         IdleStays(n, eng'[n], tick'[n]),
         sched'[n].attempt # None => sched[n].attempt # None \/ n \in Initiators,
         \A m \in net' : m.type = "init" => m \in net \/ m.from \in Initiators
  PROVE  DialInv'
<1>1. OnlyInitiatorsDial'
  <2>1. ASSUME NEW o \in Nodes, sched'[o].attempt # None
        PROVE  o \in Initiators
    BY <2>1 DEF DialInv, OnlyInitiatorsDial
  <2>2. ASSUME NEW m \in net', m.type = "init"
        PROVE  m.from \in Initiators
    BY <2>2 DEF DialInv, OnlyInitiatorsDial
  <2>. QED BY <2>1, <2>2 DEF OnlyInitiatorsDial
<1>2. NoPanic'
  BY DEF DialInv, NoPanic
<1>3. ASSUME NEW o \in Nodes
      PROVE  IdleStays(o, eng'[o], tick'[o])
  BY DEF DialInv
<1>. QED BY <1>1, <1>2, <1>3 DEF DialInv

\* A ticker that dials has seen the engine Idle, and it still is.
LEMMA StartsIdle ==
  ASSUME Inv, DialInv, NEW n \in Nodes, tick[n].pc = "start"
  PROVE  n \in Initiators /\ eng[n].state = "Idle" /\ AbandonHandshake(eng[n]) = eng[n]
BY DEF DialInv, IdleStays, AbandonHandshake

LEMMA TickerDials ==
  ASSUME Inv, DialInv, NEW n \in Nodes, Ticker(n)
  PROVE  DialInv'
<1>1. /\ DOMAIN eng = Nodes /\ DOMAIN tick = Nodes /\ DOMAIN sched = Nodes
      /\ eng[n] \in Engines /\ TickerFits(tick[n]) /\ SchedFits(n, sched[n])
      /\ IdleStays(n, eng[n], tick[n])
  BY AtNode DEF NodeOK, DialInv
<1>2. IdleStays(n, eng'[n], TickNew)
  BY DEF IdleStays, TickNew
<1>3. ASSUME NEW pc \in {"reset", "abandon"}, tick'[n].pc = pc
      PROVE  IdleStays(n, eng'[n], tick'[n])
  BY <1>3 DEF IdleStays
<1>4. ASSUME tick'[n].pc = "sched", tick'[n].st = tick[n].st, eng'[n] = eng[n],
             tick[n].pc \in {"shards", "install"}
      PROVE  IdleStays(n, eng'[n], tick'[n])
  BY <1>1, <1>4 DEF IdleStays
<1>5. CASE TickSilent(n)
  <2>1. panicked' = panicked /\ net' = net
    BY <1>5 DEF TickSilent
  <2>. SUFFICES /\ \A o \in Nodes \ {n} :
                     eng'[o] = eng[o] /\ tick'[o] = tick[o] /\ sched'[o] = sched[o]
                /\ IdleStays(n, eng'[n], tick'[n])
                /\ sched'[n].attempt # None => sched[n].attempt # None \/ n \in Initiators
    BY <2>1, DialStep
  <2>2. CASE Wake(n)
    <3>1. /\ tick'[n].pc \in {"shards", "sched"} /\ tick'[n].st.state = eng[n].state
          /\ \A o \in Nodes \ {n} : tick'[o] = tick[o] /\ sched'[o] = sched[o]
          /\ eng' = eng /\ sched'[n] = Later(sched[n])
      BY <1>1, <2>2 DEF Wake
    <3>. QED BY <1>1, <3>1, LaterFits DEF IdleStays
  <2>3. CASE RetireShards(n) \/ LeaveShards(n) \/ InstallShards(n)
    <3>1. /\ tick'[n].pc = "sched" /\ tick'[n].st = tick[n].st
          /\ tick[n].pc \in {"shards", "install"}
          /\ \A o \in Nodes \ {n} : tick'[o] = tick[o]
          /\ eng' = eng /\ sched' = sched
      BY <1>1, <2>3 DEF RetireShards, LeaveShards, InstallShards, Goto, TickerFits
    <3>. QED BY <1>4, <3>1
  <2>4. CASE SplitTick(n)
    <3>1. /\ tick'[n].pc \in {"install", "sched"} /\ tick'[n].st = tick[n].st
          /\ tick[n].st.state = "Established"
          /\ \A o \in Nodes \ {n} : tick'[o] = tick[o] /\ eng'[o] = eng[o]
          /\ sched' = sched
      BY <1>1, <2>4 DEF SplitTick, SplitsNow, Goto, TickerFits
    <3>. QED BY <3>1 DEF IdleStays
  <2>5. CASE TickUp(n)
    <3>1. /\ eng' = eng /\ \A o \in Nodes \ {n} : tick'[o] = tick[o] /\ sched'[o] = sched[o]
      BY <1>1, <2>5 DEF TickUp, Goto, Done
    <3>2. IdleStays(n, eng'[n], tick'[n])
      <4>1. tick'[n].pc = "reset" \/ tick'[n] = TickNew
        BY <1>1, <2>5 DEF TickUp, Goto, Done, TickerFits
      <4>. QED BY <1>2, <1>3, <4>1
    <3>3. sched'[n].attempt # None => sched[n].attempt # None
      <4>. DEFINE fb == RecordFailure(RecordedUp(n).fb, "FirstPacketTimeout")
                  u == [RecordedUp(n) EXCEPT !.fb = fb, !.recorded = FALSE, !.est = None]
      <4>1. sched'[n] = u \/ sched'[n] = RecordedUp(n)
        BY <1>1, <2>5 DEF TickUp
      <4>2. u.attempt = RecordedUp(n).attempt
        BY SchedOps
      <4>. HIDE DEF u
      <4>. QED BY <4>1, <4>2, SchedOps
    <3>. QED BY <3>1, <3>2, <3>3
  <2>6. CASE ResetTunnel(n)
    <3>1. /\ \A o \in Nodes \ {n} : tick'[o] = tick[o] /\ eng'[o] = eng[o]
          /\ tick'[n] = TickNew /\ sched' = sched
      BY <1>1, <2>6 DEF ResetTunnel, Done
    <3>. QED BY <1>2, <3>1
  <2>7. CASE TickIdle(n)
    <3>1. /\ eng' = eng /\ \A o \in Nodes \ {n} : tick'[o] = tick[o] /\ sched'[o] = sched[o]
      BY <1>1, <2>7 DEF TickIdle, Goto, Done
    <3>2. CASE Dials(n)
      <4>1. n \in Initiators /\ eng[n].state = "Idle"
        BY <1>1, <2>7, <3>2 DEF TickIdle, Dials, IdleStays
      <4>2. tick'[n].pc = "start" \/ tick'[n] = TickNew
        BY <1>1, <2>7, <3>2 DEF TickIdle, Goto, Done, TickerFits
      <4>3. IdleStays(n, eng'[n], tick'[n])
        BY <1>2, <3>1, <4>1, <4>2 DEF IdleStays
      <4>. QED BY <3>1, <4>1, <4>3
    <3>3. CASE ~Dials(n)
      <4>1. tick'[n] = TickNew /\ sched' = sched
        BY <1>1, <2>7, <3>3 DEF TickIdle, Done
      <4>. QED BY <1>2, <3>1, <4>1
    <3>. QED BY <3>2, <3>3
  <2>8. CASE GiveUp(n)
    <3>1. /\ eng' = eng /\ \A o \in Nodes \ {n} : tick'[o] = tick[o] /\ sched'[o] = sched[o]
          /\ tick'[n].pc = "abandon" /\ sched'[n].attempt = sched[n].attempt
      BY <1>1, <2>8 DEF GiveUp, Goto, TickerFits
    <3>. QED BY <1>3, <3>1
  <2>9. CASE AbandonAttempt(n)
    <3>1. /\ \A o \in Nodes \ {n} :
                eng'[o] = eng[o] /\ tick'[o] = tick[o] /\ sched'[o] = sched[o]
          /\ tick'[n] = TickNew /\ sched'[n].attempt = None
      BY <1>1, <2>9 DEF AbandonAttempt, Done, SchedFits, SchedNew
    <3>. QED BY <1>2, <3>1
  <2>. QED BY <1>5, <2>2, <2>3, <2>4, <2>5, <2>6, <2>7, <2>8, <2>9 DEF TickSilent
<1>6. CASE ResendInit(n)
  <2>1. /\ \A o \in Nodes \ {n} : tick'[o] = tick[o]
        /\ tick'[n] = TickNew /\ UNCHANGED <<eng, sched, panicked>>
    BY <1>1, <1>6 DEF ResendInit, Done
  <2>2. ASSUME NEW m \in net', m \notin net
        PROVE  m.from \in Initiators
    <3>1. sched[n].attempt # None /\ m = sched[n].attempt.frame
      BY <1>6, <2>2 DEF ResendInit, Sending
    <3>. QED BY <1>1, <3>1 DEF DialInv, OnlyInitiatorsDial, SchedFits
  <2>. QED BY <1>2, <2>1, <2>2, DialStep
<1>7. CASE StartAttempt(n)
  <2>1. n \in Initiators /\ AbandonHandshake(eng[n]).state = "Idle"
    BY <1>7, StartsIdle DEF StartAttempt
  <2>2. /\ \A o \in Nodes \ {n} :
              eng'[o] = eng[o] /\ tick'[o] = tick[o] /\ sched'[o] = sched[o]
        /\ tick'[n] = TickNew /\ panicked' = panicked
    BY <1>1, <1>7, <2>1 DEF StartAttempt, Done
  <2>3. ASSUME NEW m \in net', m \notin net
        PROVE  m.from \in Initiators
    <3>1. m = InitFrame(n, FreshEph)
      BY <1>7, <2>1, <2>3 DEF StartAttempt, Sending
    <3>. QED BY <2>1, <3>1 DEF InitFrame
  <2>. QED BY <1>2, <2>1, <2>2, <2>3, DialStep
<1>. QED BY <1>5, <1>6, <1>7 DEF Ticker

\* The UDP thread: no Init reaches the initiator, and the others do not dial.
LEMMA InboundDials ==
  ASSUME LoneInitiator, Inv, DialInv, NEW m \in net, NEW n \in Nodes, m.from # n,
         AnswerInit(n, m) \/ TakeResp(n, m) \/ RejectResp(n, m) \/ RecvData(n, m)
  PROVE  DialInv'
<1>1. /\ DOMAIN eng = Nodes /\ UNCHANGED <<tick, sched, panicked>>
      /\ IdleStays(n, eng[n], tick[n])
  BY AtNode DEF AnswerInit, TakeResp, RejectResp, RecvData, DialInv
<1>2. \A o \in Nodes \ {n} : eng'[o] = eng[o]
  BY <1>1 DEF AnswerInit, TakeResp, RejectResp, RecvData
<1>3. IdleStays(n, eng'[n], tick'[n])
  <2>1. CASE AnswerInit(n, m)
    <3>1. n \notin Initiators
      BY <2>1 DEF AnswerInit, DialInv, OnlyInitiatorsDial, LoneInitiator
    <3>. QED BY <1>1, <3>1 DEF IdleStays
  <2>2. CASE TakeResp(n, m) \/ RejectResp(n, m)
    <3>1. eng[n].state # "Idle"
      BY <2>2 DEF TakeResp, RejectResp, AwaitsResp
    <3>. QED BY <1>1, <3>1 DEF IdleStays
  <2>3. CASE RecvData(n, m)
    BY <1>1, <2>3 DEF RecvData
  <2>. QED BY <2>1, <2>2, <2>3
<1>4. ASSUME NEW x \in net', x.type = "init"
      PROVE  x \in net
  <2>1. CASE AnswerInit(n, m)
    <3>1. Inv'
      BY <2>1, Handshakes
    <3>2. eng'[n].cached_resp \in RespFrames \cup {None} /\ net' \subseteq Frames
      BY <3>1 DEF Inv, TypeOK, Engines, Frames
    <3>3. x \in InitFrames /\ x # None
      BY <1>4, <3>2, NoneApart DEF Frames, InitFrames, RespFrames, DataFrames
    <3>4. x # eng'[n].cached_resp
      BY <1>4, <3>2, <3>3 DEF RespFrames
    <3>. QED BY <2>1, <3>4 DEF AnswerInit
  <2>2. CASE TakeResp(n, m) \/ RejectResp(n, m) \/ RecvData(n, m)
    BY <2>2 DEF TakeResp, RejectResp, RecvData
  <2>. QED BY <2>1, <2>2
<1>. QED BY <1>1, <1>2, <1>3, <1>4, DialStep

LEMMA InitDials == Init => DialInv
<1>. SUFFICES ASSUME Init PROVE DialInv
  OBVIOUS
<1>1. ASSUME NEW n \in Nodes
      PROVE  IdleStays(n, eng[n], tick[n]) /\ sched[n].attempt = None
  BY DEF Init, IdleStays, TickAtBoot, TickNew, EngineNew, SchedNew
<1>. QED BY <1>1 DEF Init, DialInv, OnlyInitiatorsDial, NoPanic

LEMMA NextDials ==
  ASSUME LoneInitiator
  PROVE  Inv /\ DialInv /\ [Next]_vars => DialInv'
<1>. SUFFICES ASSUME Inv, DialInv, [Next]_vars PROVE DialInv'
  OBVIOUS
<1>1. ASSUME NEW n \in Nodes, SendPacket(n)
      PROVE  DialInv'
  <2>1. UNCHANGED <<eng, tick, sched, panicked>>
    BY <1>1 DEF SendPacket
  <2>2. ASSUME NEW m \in net', m.type = "init"
        PROVE  m \in net
    <3>1. ASSUME NEW k, NEW e, NEW c, Seal(n, k, e, c)
          PROVE  m \in net
      BY <2>2, <3>1 DEF Seal, Sending
    <3>. QED BY <1>1, <3>1 DEF SendPacket, SendByEngine, SendByShard
  <2>. QED BY <2>1, <2>2, DialStep DEF DialInv
<1>2. ASSUME NEW n \in Nodes, Restart(n)
      PROVE  DialInv'
  <2>1. /\ \A o \in Nodes \ {n} :
              eng'[o] = eng[o] /\ tick'[o] = tick[o] /\ sched'[o] = sched[o]
        /\ eng'[n] = EngineNew /\ tick'[n] = TickAtBoot(n) /\ sched'[n] = SchedNew
        /\ net' = net /\ panicked' = panicked
    BY <1>2, AtNode DEF Restart
  <2>2. IdleStays(n, EngineNew, TickAtBoot(n)) /\ SchedNew.attempt = None
    BY DEF IdleStays, TickAtBoot, TickNew, EngineNew, SchedNew
  <2>. QED BY <2>1, <2>2, DialStep
<1>3. CASE UNCHANGED vars
  BY <1>3 DEF vars, node, DialInv, OnlyInitiatorsDial, NoPanic
<1>. QED BY <1>1, <1>2, <1>3, TickerDials, InboundDials DEF Next

-----------------------------------------------------------------------------
(* Theorems. *)

\* The node keeps its shape: a pending ephemeral exactly while Initiating, keys
\* in the engine only while it is up and has not split, keys with the ticker
\* only between split_shards and the install, whatever the threads do.
THEOREM NodeTyped == Spec => []TypeOK
<1>1. Inv => TypeOK
  BY DEF Inv
<1>. QED BY <1>1, InitInv, NextInv, PTL DEF Spec

\* split_shards, "no double writing": the engine, the ticker between its two
\* lock regions and the shards never hold the same secret, for any number of
\* nodes and shards, across renegotiations, resets, abandoned attempts and
\* restarts.
THEOREM OneOwner == Spec => []SoleOwner
<1>1. Inv => SoleOwner
  BY DEF Inv, NodeOK, Owned, HubKeys, SoleOwner
<1>. QED BY <1>1, InitInv, NextInv, PTL DEF Spec

\* With one initiator, as the deployment has it, start_handshake's assertion
\* that the engine is Idle never fires, although the ticker decides from a
\* snapshot and the UDP thread moves the engine in between.
THEOREM InitiatorNeverPanics ==
  ASSUME LoneInitiator
  PROVE  Spec => []NoPanic
<1>1. Inv /\ DialInv => NoPanic
  BY DEF DialInv
<1>. QED BY <1>1, InitInv, NextInv, InitDials, NextDials, PTL DEF Spec
=============================================================================
