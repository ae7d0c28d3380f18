----------------------------- MODULE FlowShards -----------------------------
(***************************************************************************)
(* The sharded data plane, src/core/ipv8-tunnel/src/flow.rs, as the node's     *)
(* ShardHub and main tick drive it (src/adapter/wintun-node/src/main.rs): one  *)
(* worker and one queue per shard, dispatch by flow on the way out and by key  *)
(* epoch on the way in, retirement when the tunnel is renegotiated.            *)
(* Encoding and encryption belong to Codec and TunnelKeys: of a packet only    *)
(* its flow and its number remain, of an inbound frame its epoch and outcome.  *)
(***************************************************************************)
EXTENDS Integers, Sequences, SequencesExt, FiniteSets

CONSTANTS
  FsShards,           \* --shards
  Flows, FlowHash,    \* FlowHash[f]: what hash_flow answers for the packets of f
  BatchMax,           \* tasks a worker drains at once (64)
  InFrames,           \* inbound frames: [type, epoch, outcome]
  MaxFsSends, MaxFsFeeds, MaxRetires   \* bounds

ASSUME FlowShardsAssumption ==
  /\ {FsShards, BatchMax} \subseteq Nat \ {0} /\ FlowHash \in [Flows -> Nat]
  /\ \A m \in InFrames : m.epoch \in Nat

Workers == 0..FsShards - 1
Totals == {"sealed", "delivered", "dropped"}

VARIABLES
  fs,        \* the FlowShards in the hub, or the one being shut down
  hubOn,     \* ShardHub.shards is Some
  fsOff,     \* ShardHub.off
  mainPc,    \* where the main tick is
  schedBy,   \* holder of the sched lock: "free" or "main"; a sink takes it for one send
  fsSent,    \* packets dispatched so far, per flow
  fsOut,     \* history: numbers of the packets that left, per flow, in order
  fsBudget

fsVars == <<fs, hubOn, fsOff, mainPc, schedBy, fsSent, fsOut, fsBudget>>

NoTotals == [c \in Totals |-> 0]
(* FlowShards::new: workers with an empty queue each *)
FsNew == [ok |-> TRUE, q |-> [k \in Workers |-> <<>>], batch |-> [k \in Workers |-> <<>>],
          live |-> [k \in Workers |-> TRUE], counters |-> NoTotals]

FsInit ==
  /\ fs = FsNew /\ hubOn = TRUE /\ fsOff = NoTotals /\ mainPc = "wait" /\ schedBy = "free"
  /\ fsSent = [f \in Flows |-> 0] /\ fsOut = [f \in Flows |-> <<>>]
  /\ fsBudget = [sends |-> MaxFsSends, feeds |-> MaxFsFeeds, retires |-> MaxRetires]

(* ShardHub::stats *)
HubTotals == [c \in Totals |-> fsOff[c] + IF hubOn THEN fs.counters[c] ELSE 0]

Bump(c) == [fs EXCEPT !.counters[c] = @ + 1]

-----------------------------------------------------------------------------
(* The TUN and UDP threads, under the hub lock.  Senders refuse once ok is down.  *)

ShardOf(f) == FlowHash[f] % FsShards

SealDispatch(f) ==
  /\ hubOn /\ fs.ok /\ fsBudget.sends > 0
  /\ fs.live[ShardOf(f)]
  /\ fs' = [fs EXCEPT !.q[ShardOf(f)] = Append(@, [task |-> "Seal", flow |-> f, no |-> fsSent[f] + 1])]
  /\ fsSent' = [fsSent EXCEPT ![f] = @ + 1]
  /\ fsBudget' = [fsBudget EXCEPT !.sends = @ - 1]
  /\ UNCHANGED <<hubOn, fsOff, mainPc, schedBy, fsOut>>

(* handle_inbound: a frame that is not Data goes back to the engine *)
Feed(m) ==
  LET k == m.epoch % FsShards
  IN /\ hubOn /\ fs.ok /\ m.type = "Data" /\ fsBudget.feeds > 0
     /\ fs' = IF fs.live[k] THEN [fs EXCEPT !.q[k] = Append(@, [task |-> "Data", outcome |-> m.outcome])]
              ELSE Bump("dropped")
     /\ fsBudget' = [fsBudget EXCEPT !.feeds = @ - 1]
     /\ UNCHANGED <<hubOn, fsOff, mainPc, schedBy, fsSent, fsOut>>

-----------------------------------------------------------------------------
(* worker_loop *)

TakeBatch(k) ==
  LET n == IF Len(fs.q[k]) < BatchMax THEN Len(fs.q[k]) ELSE BatchMax
  IN /\ fs.live[k] /\ fs.batch[k] = <<>> /\ n > 0
     /\ fs' = [fs EXCEPT !.batch[k] = SubSeq(fs.q[k], 1, n), !.q[k] = SubSeq(@, n + 1, Len(@))]
     /\ UNCHANGED <<hubOn, fsOff, mainPc, schedBy, fsSent, fsOut, fsBudget>>

Rest(k) == [fs EXCEPT !.batch[k] = Tail(@)]

(* A Seal task is skipped once ok is down, or refused by encode, fragment_packet   *)
(* or encapsulate; otherwise its frames go to the sink ...                         *)
DoSeal(k, refused) ==
  LET t == Head(fs.batch[k])
  IN /\ fs.batch[k] # <<>> /\ t.task = "Seal"
     /\ fs' = IF ~fs.ok THEN Rest(k)
              ELSE IF refused THEN [Rest(k) EXCEPT !.counters.dropped = @ + 1]
              ELSE [fs EXCEPT !.batch[k] = <<[t EXCEPT !.task = "Send"]>> \o Tail(@)]
     /\ UNCHANGED <<hubOn, fsOff, mainPc, schedBy, fsSent, fsOut, fsBudget>>

(* ... which needs the sched lock for the destination *)
DoSend(k) ==
  LET t == Head(fs.batch[k])
  IN /\ fs.batch[k] # <<>> /\ t.task = "Send" /\ schedBy = "free"
     /\ fs' = [Rest(k) EXCEPT !.counters.sealed = @ + 1]
     /\ fsOut' = [fsOut EXCEPT ![t.flow] = Append(@, t.no)]
     /\ UNCHANGED <<hubOn, fsOff, mainPc, schedBy, fsSent, fsBudget>>

(* Data: delivered, dropped, or a fragment that waits for the others *)
DoData(k) ==
  LET t == Head(fs.batch[k])
  IN /\ fs.batch[k] # <<>> /\ t.task = "Data"
     /\ fs' = IF t.outcome \in Totals THEN [Rest(k) EXCEPT !.counters[t.outcome] = @ + 1] ELSE Rest(k)
     /\ UNCHANGED <<hubOn, fsOff, mainPc, schedBy, fsSent, fsOut, fsBudget>>

(* Shutdown: the worker returns, what is left of its batch and queue is gone *)
DoShutdown(k) ==
  /\ fs.batch[k] # <<>> /\ Head(fs.batch[k]).task = "Shutdown"
  /\ fs' = [fs EXCEPT !.live[k] = FALSE, !.batch[k] = <<>>, !.q[k] = <<>>]
  /\ UNCHANGED <<hubOn, fsOff, mainPc, schedBy, fsSent, fsOut, fsBudget>>

Worker(k) == TakeBatch(k) \/ (\E r \in BOOLEAN : DoSeal(k, r)) \/ DoSend(k) \/ DoData(k) \/ DoShutdown(k)

-----------------------------------------------------------------------------
(* The main tick: shard lifecycle first, then everything that needs sched.        *)

(* Mutant of Retire: the retired workers' totals are not carried over. *)
RetireUncounted ==
  /\ mainPc = "wait" /\ hubOn /\ fsBudget.retires > 0
  /\ hubOn' = FALSE /\ mainPc' = "stop"
  /\ fsBudget' = [fsBudget EXCEPT !.retires = @ - 1]
  /\ UNCHANGED <<fs, fsOff, schedBy, fsSent, fsOut>>

(* ShardHub::retire, under the hub lock; the shutdown is outside it *)
Retire ==
  /\ mainPc = "wait" /\ hubOn /\ fsBudget.retires > 0
  /\ hubOn' = FALSE /\ fsOff' = HubTotals /\ mainPc' = "stop"
  /\ fsBudget' = [fsBudget EXCEPT !.retires = @ - 1]
  /\ UNCHANGED <<fs, schedBy, fsSent, fsOut>>

(* Mutant of Stop: the tick takes sched before it joins the workers. *)
StopHoldingSched ==
  /\ mainPc = "stop" /\ schedBy = "free" /\ schedBy' = "main"
  /\ fs' = [fs EXCEPT !.ok = FALSE, !.q = [k \in Workers |-> Append(@[k], [task |-> "Shutdown"])]]
  /\ mainPc' = "join"
  /\ UNCHANGED <<hubOn, fsOff, fsSent, fsOut, fsBudget>>

(* shutdown: ok goes down, every worker is told, and then joined *)
Stop ==
  /\ mainPc = "stop"
  /\ fs' = [fs EXCEPT !.ok = FALSE, !.q = [k \in Workers |-> Append(@[k], [task |-> "Shutdown"])]]
  /\ mainPc' = "join"
  /\ UNCHANGED <<hubOn, fsOff, schedBy, fsSent, fsOut, fsBudget>>

Join ==
  /\ mainPc = "join" /\ \A k \in Workers : ~fs.live[k]
  /\ mainPc' = "sched"
  /\ UNCHANGED <<fs, hubOn, fsOff, schedBy, fsSent, fsOut, fsBudget>>

(* The next tick splits the engine again and installs new shards *)
Install ==
  /\ mainPc = "wait" /\ ~hubOn
  /\ fs' = FsNew /\ hubOn' = TRUE /\ mainPc' = "sched"
  /\ UNCHANGED <<fsOff, schedBy, fsSent, fsOut, fsBudget>>

TakeSched ==
  /\ mainPc \in {"wait", "sched"} /\ schedBy = "free"
  /\ schedBy' = "main" /\ mainPc' = "tick"
  /\ UNCHANGED <<fs, hubOn, fsOff, fsSent, fsOut, fsBudget>>

FreeSched ==
  /\ mainPc = "tick" /\ schedBy' = "free" /\ mainPc' = "wait"
  /\ UNCHANGED <<fs, hubOn, fsOff, fsSent, fsOut, fsBudget>>

MainTick == Retire \/ Stop \/ Join \/ Install \/ TakeSched \/ FreeSched

FsNext ==
  \/ \E f \in Flows : SealDispatch(f)
  \/ \E m \in InFrames : Feed(m)
  \/ \E k \in Workers : Worker(k)
  \/ MainTick

(* Workers and the ticker are threads the system schedules; whether a tick        *)
(* renegotiates is up to the peer.                                                *)
WorkerStep(k) == TakeBatch(k) \/ DoSeal(k, FALSE) \/ DoSend(k) \/ DoData(k) \/ DoShutdown(k)

FsFairness ==
  /\ WF_fsVars(Stop) /\ WF_fsVars(Join)
  /\ \A k \in Workers : WF_fsVars(WorkerStep(k))

FsSpec == FsInit /\ [][FsNext]_fsVars /\ FsFairness

-----------------------------------------------------------------------------
FsTypeOK ==
  /\ \A k \in Workers : Len(fs.batch[k]) <= BatchMax /\ (~fs.live[k] => fs.batch[k] = <<>>)
  /\ schedBy \in {"free", "main"} /\ mainPc \in {"wait", "stop", "join", "sched", "tick"}
  /\ (hubOn \/ mainPc = "stop") => fs.ok

(* "同流同 worker → 计数器严格递增" and "组内仍同源同序": the packets of one flow leave in *)
(* the order they were dispatched, whatever the workers' speed, and also across a *)
(* renegotiation that retires the shards and installs new ones.                   *)
FlowOrder == \A f \in Flows : \A i \in 1..Len(fsOut[f]) - 1 : fsOut[f][i] < fsOut[f][i + 1]

(* "重协商换片后 [stats] 单调性不因换片倒退": the totals the hub reports never run        *)
(* backwards, not when shards retire with work queued nor when new ones start.    *)
StatsNeverRunBack == [][\A c \in Totals : HubTotals'[c] >= HubTotals[c]]_fsVars

(* Both, what changing the shards must not disturb.                               *)
ShardsFaithful == []FlowOrder /\ StatsNeverRunBack

(* Retiring shards always finishes: the tick that joins the workers holds nothing *)
(* a worker needs ("退役 join worker 时，分片出口线程可能正持 sched 发包").             *)
RetireFinishes == mainPc = "stop" ~> mainPc = "sched"
=============================================================================
