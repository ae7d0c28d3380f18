------------------------------ MODULE NodeLoop ------------------------------
(***************************************************************************)
(* Two ipv8-node processes (src/adapter/wintun-node/src/main.rs) talking   *)
(* over UDP: in each, the 2 s ticker of the main task, the UDP receive     *)
(* thread and the TUN thread share the engine, the shard hub and the       *)
(* scheduling state, each behind its own lock.  A step here is one lock    *)
(* region; the ticker works from the snapshot of its first one.            *)
(*                                                                         *)
(* A packet is one frame.  Entry addresses matter only to the cascade of   *)
(* FallbackPeer.  Keys do not rotate (see TunnelKeys for that): the engine *)
(* seals in epoch 0, the k-th shard in epoch k.  The replay window is the  *)
(* set of counters seen.  Time is counted in ticks.                        *)
(***************************************************************************)
EXTENDS Engine, FallbackPeer, FiniteSetsExt

CONSTANTS
  Nodes,
  Initiators,        \* the nodes started with --initiate
  FallbackOn,        \* --fallback
  Shards,            \* --shards N; 1 leaves the data plane with the engine
  AltEntries,        \* the backup entries, --alt-ip
  FirstTicks,        \* first_handshake_timeout, in ticks
  CachedTicks,       \* cached_handshake_timeout
  FirstPacketTicks,  \* first_packet_timeout
  EphPool,           \* bound: ephemerals a model run tells apart at a time
  MaxData,           \* bound: packets a model run sends
  Senders,           \* bound: the nodes whose TUN has packets to send
  MaxRestarts        \* bound: process restarts in a model run

ASSUME NodeAssumption ==
  /\ Initiators \subseteq Nodes /\ FallbackOn \in BOOLEAN /\ Shards \in Nat \ {0}
  /\ FirstTicks \in Nat \ {0} /\ CachedTicks \in Nat \ {0}
  /\ FirstPacketTicks \in Nat \ {0}
  /\ EphPool \subseteq Nat /\ MaxData \in Nat /\ Senders \subseteq Nodes
  /\ MaxRestarts \in Nat

VARIABLES
  eng,       \* eng[n]: the engine (Engine)
  plane,     \* plane[n]: the counters its keys and its statistics hold
  hub,       \* hub[n]: the installed flow shards, or None
  off,       \* off[n]: the counts of retired shards
  sched,     \* sched[n]: Sched
  tick,      \* tick[n]: where the main task is, and its snapshot
  net,       \* frames in flight
  panicked,  \* nodes whose main task has panicked
  nonces,    \* history: every (key, nonce) a frame was sealed with
  reused,    \* history: some (key, nonce) was used twice
  sent, restarts

node == <<eng, plane, hub, off, sched, tick>>
history == <<nonces, reused, sent>>
vars == <<node, net, panicked, history, restarts>>

-----------------------------------------------------------------------------
(* Process start. *)

NoCounts == [sealed |-> 0, delivered |-> 0]

(* tx, rx: of the keys the engine holds; sealed, delivered: its statistics. *)
PlaneNew == [tx |-> 0, rx |-> {}, sealed |-> 0, delivered |-> 0]

(* Sched at start, fed the static entries with note_resolved. *)
SchedNew ==
  [fb |-> NoteResolved(PeerNew,
            [tunnel_entry |-> "main", alt_entries |-> AltEntries,
             ipv8_capable |-> TRUE, last_good |-> NoEntry]),
   current |-> Tunnel(NoEntry), transport |-> "tunnel", attempt |-> None,
   recorded |-> FALSE, est |-> None, est_delivered |-> 0]

TickNew == [pc |-> "wait", st |-> None, keys |-> None]

(* Without --fallback the initiator's only attempt is made before the loop. *)
TickAtBoot(n) ==
  IF n \in Initiators /\ ~FallbackOn THEN [TickNew EXCEPT !.pc = "start"] ELSE TickNew

Init ==
  /\ eng = [n \in Nodes |-> EngineNew]
  /\ plane = [n \in Nodes |-> PlaneNew]
  /\ hub = [n \in Nodes |-> None]
  /\ off = [n \in Nodes |-> NoCounts]
  /\ sched = [n \in Nodes |-> SchedNew]
  /\ tick = [n \in Nodes |-> TickAtBoot(n)]
  /\ net = {}
  /\ panicked = {}
  /\ nonces = {} /\ reused = FALSE
  /\ sent = 0 /\ restarts = 0

(* The process dies and is started again; its peer learns nothing of it. *)
Restart(n) ==
  /\ restarts < MaxRestarts
  /\ restarts' = restarts + 1
  /\ eng' = [eng EXCEPT ![n] = EngineNew]
  /\ plane' = [plane EXCEPT ![n] = PlaneNew]
  /\ hub' = [hub EXCEPT ![n] = None]
  /\ off' = [off EXCEPT ![n] = NoCounts]
  /\ sched' = [sched EXCEPT ![n] = SchedNew]
  /\ tick' = [tick EXCEPT ![n] = TickAtBoot(n)]
  /\ UNCHANGED <<net, panicked, nonces, reused, sent>>

-----------------------------------------------------------------------------
(* The underlay: at most one frame of a type in flight from a node; a later *)
(* one takes the place of the earlier, which is lost.  A frame that is      *)
(* never delivered is lost too.                                             *)
Sending(frame) ==
  {m \in net : ~(m.type = frame.type /\ m.from = frame.from)} \cup {frame}

(* Ephemerals still known to someone; a fresh one is told apart from them. *)
KeyEphs(k) == IF k = None THEN {} ELSE k.dh
FrameEphs(f) ==
  CASE f = None -> {}
    [] f # None /\ f.type = "init" -> {f.eph}
    [] f # None /\ f.type = "resp" -> {f.eph, f.bound}
    [] OTHER -> f.keys.dh
EphsInUse ==
  UNION ({{eng[n].pending, eng[n].bound_init} : n \in Nodes}
    \cup {KeyEphs(eng[n].keys) : n \in Nodes}
    \cup {KeyEphs(tick[n].keys) : n \in Nodes}
    \cup {IF hub[n] = None THEN {} ELSE hub[n].keys.dh : n \in Nodes}
    \cup {FrameEphs(eng[n].cached_resp) : n \in Nodes}
    \cup {IF sched[n].attempt = None THEN {} ELSE FrameEphs(sched[n].attempt.frame)
            : n \in Nodes}
    \cup {FrameEphs(m) : m \in net}
    \cup {x.keys.dh : x \in nonces})
FreshEphs == EphPool \ EphsInUse
FreshEph == Min(FreshEphs)

-----------------------------------------------------------------------------
(* The TUN thread: dispatch_tun_batch, one packet. *)

Seal(n, keys, epoch, ctr) ==
  LET use == [keys |-> keys, epoch |-> epoch, ctr |-> ctr]
  IN /\ nonces' = nonces \cup {use}
     /\ reused' = (reused \/ use \in nonces)
     /\ net' = Sending([type |-> "data", from |-> n, keys |-> keys,
                        epoch |-> epoch, ctr |-> ctr])
     /\ sent' = sent + 1

(* hub.seal: the flow's shard seals. *)
SendByShard(n, k) ==
  /\ hub[n] # None
  /\ Seal(n, hub[n].keys, k, hub[n].tx[k] + 1)
  /\ hub' = [hub EXCEPT ![n].tx[k] = @ + 1, ![n].sealed = @ + 1]
  /\ UNCHANGED plane

(* seal_frames: NotEstablished without keys. *)
SendByEngine(n) ==
  /\ hub[n] = None /\ eng[n].keys # None
  /\ Seal(n, eng[n].keys, 0, plane[n].tx + 1)
  /\ plane' = [plane EXCEPT ![n].tx = @ + 1, ![n].sealed = @ + 1]
  /\ UNCHANGED hub

SendPacket(n) ==
  /\ n \in Senders /\ sent < MaxData
  /\ sched[n].transport = "tunnel"
  /\ SendByEngine(n) \/ \E k \in 0 .. Shards - 1 : SendByShard(n, k)
  /\ UNCHANGED <<eng, off, sched, tick, panicked, restarts>>

-----------------------------------------------------------------------------
(* The UDP thread: handle_inbound. *)

(* The frame opens under these keys: same secret, sealed by the other role. *)
Opens(keys, m) == keys # None /\ m.keys.dh = keys.dh /\ m.keys.initiator # keys.initiator

(* hub.feed: active shards take every Data frame, and drop what fails. *)
DataToShard(n, m) ==
  /\ hub[n] # None
  /\ LET ok == Opens(hub[n].keys, m) /\ <<m.epoch, m.ctr>> \notin hub[n].rx
     IN hub' = IF ok THEN [hub EXCEPT ![n].delivered = @ + 1,
                                      ![n].rx = @ \cup {<<m.epoch, m.ctr>>}]
                     ELSE hub
  /\ UNCHANGED plane

DataToEngine(n, m) ==
  /\ hub[n] = None
  /\ LET ok == Opens(eng[n].keys, m) /\ <<m.epoch, m.ctr>> \notin plane[n].rx
     IN plane' = IF ok THEN [plane EXCEPT ![n].delivered = @ + 1,
                                          ![n].rx = @ \cup {<<m.epoch, m.ctr>>}]
                       ELSE plane
  /\ UNCHANGED hub

RecvData(n, m) ==
  /\ m.type = "data"
  /\ DataToShard(n, m) \/ DataToEngine(n, m)
  /\ net' = net \ {m}
  /\ UNCHANGED <<eng, off, sched, tick, panicked, nonces, reused, sent, restarts>>

(* New keys come with counters and windows at zero. *)
FreshPlane(n) == [plane EXCEPT ![n].tx = 0, ![n].rx = {}]

AnswerInit(n, m) ==
  /\ m.type = "init"
  /\ \/ /\ IsBoundInit(eng[n], m)
        /\ UNCHANGED <<eng, plane>>
     \/ /\ ConsidersInit(eng[n], m)
        /\ FreshEphs # {}
        /\ eng' = [eng EXCEPT ![n] = AcceptInit(@, n, m, FreshEph)]
        /\ plane' = FreshPlane(n)
  /\ net' = {x \in net \ {m} : ~(x.type = "resp" /\ x.from = n)}
              \cup {eng'[n].cached_resp}
  /\ UNCHANGED <<hub, off, sched, tick, panicked, history, restarts>>

TakeResp(n, m) ==
  /\ m.type = "resp" /\ AwaitsResp(eng[n]) /\ BindsOurInit(eng[n], m)
  /\ eng' = [eng EXCEPT ![n] = FinishInit(@, m)]
  /\ plane' = FreshPlane(n)
  /\ net' = net \ {m}
  /\ UNCHANGED <<hub, off, sched, tick, panicked, history, restarts>>

RejectResp(n, m) ==
  /\ m.type = "resp" /\ AwaitsResp(eng[n]) /\ ~BindsOurInit(eng[n], m)
  /\ eng' = [eng EXCEPT ![n] = RefuseResp(@)]
  /\ net' = net \ {m}
  /\ UNCHANGED <<plane, hub, off, sched, tick, panicked, history, restarts>>

(* Handshake frames the engine's state makes it ignore are as good as lost. *)

-----------------------------------------------------------------------------
(* The ticker. *)

Goto(n, pc) == tick' = [tick EXCEPT ![n].pc = pc]
Done(n) == tick' = [tick EXCEPT ![n] = TickNew]

(* Two seconds pass; engine.lock() for the statistics and is_sharded(). *)
Older(a) ==
  IF a = None \/ a.age >= FirstTicks + CachedTicks THEN a ELSE [a EXCEPT !.age = @ + 1]
SinceUp(e) == IF e = None \/ e >= FirstPacketTicks THEN e ELSE e + 1
Later(sc) == [sc EXCEPT !.fb = Age(@), !.attempt = Older(@), !.est = SinceUp(@)]

Wake(n) ==
  /\ tick[n].pc = "wait"
  /\ sched' = [sched EXCEPT ![n] = Later(@)]
  /\ tick' = [tick EXCEPT ![n] =
       [pc |-> IF Shards > 1 THEN "shards" ELSE "sched",
        st |-> [state |-> eng[n].state, sharded |-> eng[n].sharded,
                sealed |-> plane[n].sealed, delivered |-> plane[n].delivered],
        keys |-> None]]
  /\ UNCHANGED <<eng, plane, hub, off>>

(* Mutant of ShardsStale: shards go only when the tunnel is down. *)
ShardsStaleWhenDown(n) ==
  hub[n] # None /\ ~tick[n].st.sharded /\ tick[n].st.state # "Established"

(* Renegotiated since: the shards hold the keys of the tunnel before. *)
ShardsStale(n) == hub[n] # None /\ ~tick[n].st.sharded

RetireShards(n) ==
  /\ tick[n].pc = "shards" /\ ShardsStale(n)
  /\ off' = [off EXCEPT ![n] = [sealed |-> @.sealed + hub[n].sealed,
                                delivered |-> @.delivered + hub[n].delivered]]
  /\ hub' = [hub EXCEPT ![n] = None]
  /\ Goto(n, "sched")
  /\ UNCHANGED <<eng, plane, sched>>

SplitsNow(n) ==
  hub[n] = None /\ ~tick[n].st.sharded /\ tick[n].st.state = "Established"

(* split_shards under the engine's lock, which may refuse by now. *)
SplitTick(n) ==
  /\ tick[n].pc = "shards" /\ SplitsNow(n)
  /\ IF CanSplit(eng[n])
       THEN /\ eng' = [eng EXCEPT ![n] = SplitShards(@)]
            /\ tick' = [tick EXCEPT ![n].pc = "install", ![n].keys = eng[n].keys]
       ELSE Goto(n, "sched") /\ UNCHANGED eng
  /\ UNCHANGED <<plane, hub, off, sched>>

(* derive_shard starts every shard's counters and windows at zero. *)
InstallShards(n) ==
  /\ tick[n].pc = "install"
  /\ hub' = [hub EXCEPT ![n] =
       [keys |-> tick[n].keys, tx |-> [k \in 0 .. Shards - 1 |-> 0], rx |-> {},
        sealed |-> 0, delivered |-> 0]]
  /\ tick' = [tick EXCEPT ![n].pc = "sched", ![n].keys = None]
  /\ UNCHANGED <<eng, plane, off, sched>>

LeaveShards(n) ==
  /\ tick[n].pc = "shards"
  /\ ~ShardsStale(n) /\ ~SplitsNow(n)
  /\ Goto(n, "sched")
  /\ UNCHANGED <<eng, plane, hub, off, sched>>

(* What the [stats] line and the first-packet check read. *)
Stats(n) ==
  IF hub[n] = None
    THEN [sealed |-> tick[n].st.sealed, delivered |-> tick[n].st.delivered]
    ELSE [sealed |-> off[n].sealed + hub[n].sealed,
          delivered |-> off[n].delivered + hub[n].delivered]

(* record_success, once per tunnel; the path locks to the attempt's entry. *)
RecordedUp(n) ==
  IF FallbackOn /\ ~sched[n].recorded
    THEN [sched[n] EXCEPT
            !.fb = RecordSuccess(@, sched[n].current),
            !.transport = IF sched[n].attempt = None THEN @ ELSE "tunnel",
            !.attempt = None, !.recorded = TRUE, !.est = 0,
            !.est_delivered = Stats(n).delivered]
    ELSE sched[n]

(* Sent something, and the count of packets in stands where it was. *)
FirstPacketTimedOut(n) ==
  LET sc == RecordedUp(n) IN
  /\ FallbackOn
  /\ Stats(n).sealed > 0
  /\ Stats(n).delivered = sc.est_delivered
  /\ sc.est # None /\ sc.est >= FirstPacketTicks

TickUp(n) ==
  /\ tick[n].pc = "sched" /\ tick[n].st.state = "Established"
  /\ IF FirstPacketTimedOut(n)
       THEN /\ sched' = [sched EXCEPT ![n] =
                  [RecordedUp(n) EXCEPT !.fb = RecordFailure(@, "FirstPacketTimeout"),
                                        !.recorded = FALSE, !.est = None]]
            /\ Goto(n, "reset")
       ELSE /\ sched' = [sched EXCEPT ![n] = RecordedUp(n)]
            /\ Done(n)
  /\ UNCHANGED <<eng, plane, hub, off>>

ResetTunnel(n) ==
  /\ tick[n].pc = "reset"
  /\ eng' = [eng EXCEPT ![n] = Reset(@)]
  /\ plane' = FreshPlane(n)
  /\ Done(n)
  /\ UNCHANGED <<hub, off, sched>>

(* Mutant of Dials: the passive end dials as well. *)
EveryoneDials(n) == FallbackOn

Dials(n) == FallbackOn /\ n \in Initiators

TickIdle(n) ==
  /\ tick[n].pc = "sched" /\ tick[n].st.state = "Idle"
  /\ IF Dials(n)
       THEN LET path == NextPath(sched[n].fb) IN
            /\ sched' = [sched EXCEPT ![n] =
                 [sched[n] EXCEPT !.fb = NextPathState(@), !.current = path,
                           !.recorded = FALSE, !.est = None,
                           !.transport = IF path.kind = "Tunnel" THEN "tunnel" ELSE "plain"]]
            /\ IF path.kind = "Tunnel" THEN Goto(n, "start") ELSE Done(n)
       ELSE Done(n) /\ UNCHANGED sched
  /\ UNCHANGED <<eng, plane, hub, off>>

HandshakeTimedOut(n) ==
  LET sc == sched[n] IN
  /\ FallbackOn /\ sc.attempt # None
  /\ sc.attempt.age >= (IF sc.fb.last_good # NoEntry THEN CachedTicks ELSE FirstTicks)

GiveUp(n) ==
  /\ tick[n].pc = "sched" /\ tick[n].st.state = "Initiating"
  /\ HandshakeTimedOut(n)
  /\ sched' = [sched EXCEPT ![n].fb = RecordFailure(@, "HandshakeTimeout")]
  /\ Goto(n, "abandon")
  /\ UNCHANGED <<eng, plane, hub, off>>

AbandonAttempt(n) ==
  /\ tick[n].pc = "abandon"
  /\ eng' = [eng EXCEPT ![n] = AbandonHandshake(@)]
  /\ sched' = [sched EXCEPT ![n].attempt = None]
  /\ Done(n)
  /\ UNCHANGED <<plane, hub, off>>

(* The steps above send nothing. *)
TickSilent(n) ==
  /\ \/ Wake(n) \/ RetireShards(n) \/ SplitTick(n) \/ InstallShards(n)
     \/ LeaveShards(n) \/ TickUp(n) \/ ResetTunnel(n) \/ TickIdle(n)
     \/ GiveUp(n) \/ AbandonAttempt(n)
  /\ UNCHANGED <<net, panicked, nonces, reused, sent, restarts>>

(* The same Init again, within the attempt's budget. *)
ResendInit(n) ==
  /\ tick[n].pc = "sched" /\ tick[n].st.state = "Initiating"
  /\ ~HandshakeTimedOut(n)
  /\ net' = IF sched[n].attempt = None THEN net ELSE Sending(sched[n].attempt.frame)
  /\ Done(n)
  /\ UNCHANGED <<eng, plane, hub, off, sched, panicked, history, restarts>>

(* abandon_handshake, then start_handshake, which asserts the state is Idle. *)
StartAttempt(n) ==
  /\ tick[n].pc = "start"
  /\ IF AbandonHandshake(eng[n]).state = "Idle"
       THEN /\ FreshEphs # {}
            /\ eng' = [eng EXCEPT ![n] = StartHandshake(AbandonHandshake(@), FreshEph)]
            /\ net' = Sending(InitFrame(n, FreshEph))
            /\ sched' = [sched EXCEPT
                 ![n].attempt = [frame |-> InitFrame(n, FreshEph), age |-> 0]]
            /\ Done(n)
            /\ UNCHANGED panicked
       ELSE panicked' = panicked \cup {n} /\ UNCHANGED <<eng, net, sched, tick>>
  /\ UNCHANGED <<plane, hub, off, history, restarts>>

Ticker(n) == n \notin panicked /\ (TickSilent(n) \/ ResendInit(n) \/ StartAttempt(n))

Next ==
  \/ \E n \in Nodes : Ticker(n) \/ SendPacket(n) \/ Restart(n)
  \/ \E m \in net, n \in Nodes :
       /\ m.from # n
       /\ AnswerInit(n, m) \/ TakeResp(n, m) \/ RejectResp(n, m) \/ RecvData(n, m)

(* An Init of the attempt under way reaches the peer, its Resp comes back. *)
TimelyInit(n) ==
  \E m \in net : /\ m.from # n /\ m.type = "init"
                /\ m.eph = eng[m.from].pending /\ AnswerInit(n, m)
TimelyResp(n) == \E m \in net : m.from # n /\ TakeResp(n, m)

(* The ticker runs, and the underlay does not lose or outlast every attempt. *)
Spec ==
  /\ Init /\ [][Next]_vars
  /\ \A n \in Nodes : /\ WF_vars(Ticker(n))
                      /\ SF_vars(TimelyInit(n)) /\ SF_vars(TimelyResp(n))

-----------------------------------------------------------------------------
(* Properties. *)

Keys == [dh : SUBSET EphPool, initiator : BOOLEAN]
InitFrames == [type : {"init"}, from : Nodes, eph : EphPool]
RespFrames == [type : {"resp"}, from : Nodes, eph : EphPool, bound : EphPool \cup {None}]
DataFrames == [type : {"data"}, from : Nodes, keys : Keys, epoch : Nat, ctr : Nat]

Engines ==
  [state : {"Idle", "Initiating", "Established"}, pending : EphPool \cup {None},
   keys : Keys \cup {None}, bound_init : EphPool \cup {None},
   cached_resp : RespFrames \cup {None}, sharded : BOOLEAN, auth_failed : BOOLEAN]

Hubs == [keys : Keys, tx : [0 .. Shards - 1 -> Nat], rx : SUBSET (Nat \X Nat),
         sealed : Nat, delivered : Nat]

ASSUME NoneAssumption ==
  None \notin Nat \cup Keys \cup InitFrames \cup RespFrames \cup Hubs

Planes == [tx : Nat, rx : SUBSET (Nat \X Nat), sealed : Nat, delivered : Nat]

EngineFits(g) ==
  /\ (g.pending # None) = (g.state = "Initiating")
  /\ g.keys # None => g.state = "Established" /\ ~g.sharded
  /\ (g.bound_init # None) = (g.cached_resp # None)

TickerFits(t) ==
  /\ DOMAIN t = {"pc", "st", "keys"}
  /\ t.pc \in {"wait", "shards", "install", "sched", "reset", "start", "abandon"}
  /\ t.keys \in Keys \cup {None} /\ (t.keys # None) = (t.pc = "install")

SchedFits(n, sc) ==
  /\ DOMAIN sc = DOMAIN SchedNew
  /\ sc.transport \in {"tunnel", "plain"}
  /\ sc.est \in Nat \cup {None} /\ sc.recorded = (sc.est # None)
  /\ sc.attempt # None => /\ DOMAIN sc.attempt = {"frame", "age"}
                          /\ sc.attempt.frame \in InitFrames /\ sc.attempt.frame.from = n

\* The shape of a node: a pending ephemeral exactly while Initiating, engine keys
\* only while up and not sharded, the ticker holding keys only between the split
\* and the install, and the recorded flag in step with the first-packet clock.
TypeOK ==
  /\ DOMAIN eng = Nodes /\ DOMAIN hub = Nodes /\ DOMAIN plane = Nodes
  /\ DOMAIN tick = Nodes /\ DOMAIN sched = Nodes
  /\ \A n \in Nodes :
       /\ eng[n] \in Engines /\ EngineFits(eng[n])
       /\ hub[n] \in Hubs \cup {None} /\ plane[n] \in Planes
       /\ TickerFits(tick[n]) /\ SchedFits(n, sched[n])
  /\ net \subseteq InitFrames \cup RespFrames \cup DataFrames

\* start_handshake asserts that the engine is Idle.  The ticker decides to call
\* it from an older snapshot while the UDP thread may answer an Init: with
\* one initiator, as the deployment requires, the assertion cannot fire.
NoPanic == panicked = {}

\* split_shards: "counters and nonces pass to the shards, no double writing".
\* No secret is ever held by two of the engine, the ticker and the shards,
\* across splits, renegotiations, resets and restarts.
SoleOwner ==
  \A n \in Nodes :
    LET hubKeys == IF hub[n] = None THEN None ELSE hub[n].keys IN
    /\ eng[n].keys # None => eng[n].keys \notin {tick[n].keys, hubKeys}
    /\ tick[n].keys # None => tick[n].keys # hubKeys

\* Retry, cascade and degradation never leave the initiator without a tunnel
\* for good: while the underlay answers attempts now and then, it reconnects.
InitiatorReconnects ==
  \A n \in Initiators : eng[n].state # "Established" ~> eng[n].state = "Established"

\* Shards left behind by a renegotiation are always replaced.
StaleShardsRetire ==
  \A n \in Nodes : hub[n] # None /\ ~eng[n].sharded ~> (hub[n] = None \/ eng[n].sharded)

\* Both ends are up on the same secret.
InTouch ==
  \A n, o \in Nodes :
    /\ eng[n].state = "Established"
    /\ eng[n].keys # None /\ eng[o].keys # None => eng[n].keys.dh = eng[o].keys.dh

\* engine.rs on reset: "each side times out and resets on its own, and they
\* converge".  A node that has torn its tunnel down gets back in touch.
ResetConverges == \A n \in Nodes : eng[n].state = "Idle" ~> InTouch

\* reset must "keep packets from being sealed with a dead tunnel's keys".
SealsOnlyWhileUp ==
  [][\A n \in Nodes : SendPacket(n) => eng[n].state = "Established"]_vars

\* "Counter and nonce sovereignty passes to the shards": after the handover no
\* nonce of a key is used a second time.
NoncesSurviveSplit == ~reused
=============================================================================
