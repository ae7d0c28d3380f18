-------------------------------- MODULE Hook --------------------------------
(***************************************************************************)
(* The verdict hook bus, src/core/ipv8-hook/src/{lib,protocol,ip}.rs:        *)
(* threads of the data plane call HookBus::evaluate, client threads read     *)
(* the connections, and dispatch_loop owns the clients, the decider and the  *)
(* table of pending events.  They meet in one bounded channel (tx), a reply  *)
(* channel per evaluation and the flow cache.                               *)
(***************************************************************************)
EXTENDS Integers, Sequences, FiniteSetsExt, Tables

CONSTANTS
  Evaluators,        \* threads that call evaluate
  HookClients,       \* connections
  HookPackets,       \* inner packets
  DefaultAction,     \* cfg.default_action
  HookTimeout,       \* cfg.timeout, in ticks
  TtlCap,            \* cfg.flow_ttl_cap, in ticks
  DispatchCapacity,  \* cfg.dispatch_capacity
  ClientQueue,       \* cfg.client_queue
  PendingCap,        \* 1024: pending entries before expired ones are swept
  Ttls,              \* ttl_ms a client may ask for
  VerdictActions,    \* actions it may ask for
  MaxEvents,         \* bound: evaluations of a model run
  MaxHookTime        \* bound: ticks of a model run

ASSUME HookAssumption ==
  /\ {DefaultAction} \cup VerdictActions \subseteq {"Accept", "Drop"} /\ Ttls \subseteq Nat
  /\ {DispatchCapacity, ClientQueue} \subseteq Nat \ {0}
  /\ {HookTimeout, TtlCap, PendingCap, MaxEvents, MaxHookTime} \subseteq Nat

VARIABLES
  hookQ,        \* the channel tx
  conn,         \* conn[c]: "new", "greeted" or "gone"
  slots,        \* clients: c -> [mode, out]
  deciderOf,    \* decider: a client or NoClient
  has_decider,
  hookPending,  \* pending: event id -> [by, flow, deadline]
  flowCache,    \* flows: flow -> [action, expires, giver]
  evals,        \* evals[e]: the evaluation under way, or its last Verdict
  received,     \* received[c]: events the client has read
  next_id, hookTime,
  hookStats,    \* HookStats
  deciders      \* history: clients that have held the decision slot

hookVars == <<hookQ, conn, slots, deciderOf, has_decider, hookPending, flowCache, evals,
              received, next_id, hookTime, hookStats, deciders>>

NoClient == "noclient"
ASSUME NoClientAssumption == NoClient \notin HookClients
Sources == {"Decider", "Cached", "NoClient", "Timeout", "Backpressure", "DeciderGone"}

HookInit ==
  /\ hookQ = <<>> /\ conn = [c \in HookClients |-> "new"] /\ slots = <<>>
  /\ deciderOf = NoClient /\ has_decider = FALSE
  /\ hookPending = <<>> /\ flowCache = <<>>
  /\ evals = [e \in Evaluators |-> [pc |-> "idle"]]
  /\ received = [c \in HookClients |-> {}]
  /\ next_id = 1 /\ hookTime = 0 /\ deciders = {}
  /\ hookStats = [seen |-> 0, cached |-> 0, decided |-> 0, no_client |-> 0, timeout |-> 0,
              backpressure |-> 0, decider_gone |-> 0, Accept |-> 0, Drop |-> 0]

-----------------------------------------------------------------------------
(* ip.rs: inspect gives an unreadable packet the default PacketInfo; ports    *)
(* are the first two words behind the IP headers of TCP and UDP.              *)
NoInfo == [proto |-> "other", src |-> "", dst |-> "", sport |-> 0, dport |-> 0]

Inspect(p) ==
  LET ported == p.proto \in {"tcp", "udp"} /\ Len(p.words) >= 2
  IN IF ~p.readable THEN NoInfo
     ELSE [proto |-> p.proto, src |-> p.src, dst |-> p.dst,
           sport |-> IF ported THEN p.words[1] ELSE 0,
           dport |-> IF ported THEN p.words[2] ELSE 0]

(* flow_key: the two ends as a set, so that both directions agree. *)
FlowKey(i) == <<i.proto, {<<i.src, i.sport>>, <<i.dst, i.dport>>}>>

-----------------------------------------------------------------------------
(* evaluate *)

Counted(s, field, action) == [s EXCEPT ![field] = @ + 1, ![action] = @ + 1]

(* The verdict of evaluation e, with the counters it bumps. *)
Conclude(e, p, about, source, action, giver, field, s) ==
  /\ evals' = [evals EXCEPT ![e] = [pc |-> "idle", packet |-> p, about |-> about, source |-> source,
                                    action |-> action, giver |-> giver]]
  /\ hookStats' = Counted(s, field, action)

Fresh(flow) == flow \in DOMAIN flowCache /\ flowCache[flow].expires > hookTime

Evaluate(e, p) ==
  LET flow == FlowKey(Inspect(p))
      seen == [hookStats EXCEPT !.seen = @ + 1]
  IN /\ evals[e].pc = "idle" /\ hookStats.seen < MaxEvents
     /\ \/ /\ Fresh(flow)
           /\ Conclude(e, p, flowCache[flow].about, "Cached", flowCache[flow].action, flowCache[flow].giver, "cached", seen)
           /\ UNCHANGED <<hookQ, next_id>>
        \/ /\ ~Fresh(flow) /\ ~has_decider
           /\ Conclude(e, p, p, "NoClient", DefaultAction, NoClient, "no_client", seen)
           /\ UNCHANGED <<hookQ, next_id>>
        \/ /\ ~Fresh(flow) /\ has_decider /\ Len(hookQ) >= DispatchCapacity
           /\ Conclude(e, p, p, "Backpressure", DefaultAction, NoClient, "backpressure", seen)
           /\ next_id' = next_id + 1 /\ UNCHANGED hookQ
        \/ /\ ~Fresh(flow) /\ has_decider /\ Len(hookQ) < DispatchCapacity
           /\ hookQ' = Append(hookQ, [type |-> "Dispatch", id |-> next_id, by |-> e, flow |-> flow,
                                      about |-> p, deadline |-> hookTime + HookTimeout])
           /\ evals' = [evals EXCEPT ![e] = [pc |-> "waiting", packet |-> p, id |-> next_id,
                          deadline |-> hookTime + HookTimeout, reply |-> <<>>, open |-> TRUE]]
           /\ hookStats' = seen /\ next_id' = next_id + 1
     /\ UNCHANGED <<conn, slots, deciderOf, has_decider, hookPending, flowCache, received, hookTime, deciders>>

(* recv_timeout: a reply, the time out, or the sender dropped unused. *)
Answered(e) ==
  /\ evals[e].pc = "waiting"
  /\ \/ /\ evals[e].reply # <<>>
        /\ Conclude(e, evals[e].packet, evals[e].packet, "Decider", evals[e].reply[1].action,
                    evals[e].reply[1].giver, "decided", hookStats)
     \/ /\ evals[e].reply = <<>> /\ hookTime >= evals[e].deadline
        /\ Conclude(e, evals[e].packet, evals[e].packet, "Timeout", DefaultAction, NoClient, "timeout", hookStats)
     \/ /\ evals[e].reply = <<>> /\ ~evals[e].open
        /\ Conclude(e, evals[e].packet, evals[e].packet, "DeciderGone", DefaultAction, NoClient, "decider_gone", hookStats)
  /\ UNCHANGED <<hookQ, conn, slots, deciderOf, has_decider, hookPending, flowCache, received,
                 next_id, hookTime, deciders>>

-----------------------------------------------------------------------------
(* client_thread *)

CanSend == Len(hookQ) < DispatchCapacity
Post(m) == hookQ' = Append(hookQ, m)

Hello(c, mode) ==
  /\ conn[c] = "new" /\ CanSend
  /\ conn' = [conn EXCEPT ![c] = "greeted"]
  /\ Post([type |-> "Hello", client |-> c, mode |-> mode])
  /\ UNCHANGED <<slots, deciderOf, has_decider, hookPending, flowCache, evals, received,
                 next_id, hookTime, hookStats, deciders>>

(* The write thread and the connection deliver an event. *)
ClientReads(c) ==
  /\ c \in DOMAIN slots /\ slots[c].out # <<>>
  /\ received' = [received EXCEPT ![c] = @ \cup {Head(slots[c].out)}]
  /\ slots' = [slots EXCEPT ![c].out = Tail(@)]
  /\ UNCHANGED <<hookQ, conn, deciderOf, has_decider, hookPending, flowCache, evals, next_id,
                 hookTime, hookStats, deciders>>

SendVerdict(c, id, action, ttl) ==
  /\ conn[c] = "greeted" /\ id \in received[c] /\ CanSend
  /\ received' = [received EXCEPT ![c] = @ \ {id}]
  /\ Post([type |-> "ClientVerdict", client |-> c, id |-> id, action |-> action, ttl |-> ttl])
  /\ UNCHANGED <<conn, slots, deciderOf, has_decider, hookPending, flowCache, evals, next_id,
                 hookTime, hookStats, deciders>>

Disconnect(c) ==
  /\ conn[c] # "gone" /\ CanSend
  /\ conn' = [conn EXCEPT ![c] = "gone"]
  /\ Post([type |-> "Disconnect", client |-> c])
  /\ UNCHANGED <<slots, deciderOf, has_decider, hookPending, flowCache, evals, received,
                 next_id, hookTime, hookStats, deciders>>

-----------------------------------------------------------------------------
(* dispatch_loop *)

DefaultResult == [action |-> DefaultAction, giver |-> NoClient]

(* The reply channel of an evaluation that still waits for event id. *)
Reply(ev, e, id, result) ==
  IF ev[e].pc = "waiting" /\ ev[e].id = id THEN [ev EXCEPT ![e].reply = <<result>>] ELSE ev

OnHello(m) ==
  LET assigned == IF m.mode = "Decision" /\ deciderOf = NoClient THEN "Decision" ELSE "Observer"
  IN /\ deciderOf' = IF assigned = "Decision" THEN m.client ELSE deciderOf
     /\ has_decider' = (has_decider \/ assigned = "Decision")
     /\ slots' = Inserted(slots, m.client, [mode |-> assigned, out |-> <<>>])
     /\ deciders' = deciders \cup ({deciderOf'} \ {NoClient})
     /\ UNCHANGED <<hookPending, flowCache, evals, hookStats>>

(* A table above its cap loses the expired entries and their reply senders. *)
Swept ==
  IF Cardinality(DOMAIN hookPending) > PendingCap
  THEN Dropped(hookPending, {id \in DOMAIN hookPending : hookPending[id].deadline <= hookTime})
  ELSE hookPending

HungUp(ev, kept) ==
  [e \in Evaluators |->
     IF ev[e].pc = "waiting" /\ ev[e].id \in DOMAIN hookPending \ DOMAIN kept
     THEN [ev[e] EXCEPT !.open = FALSE] ELSE ev[e]]

(* Mutant of Offer: the queue of a client that does not read grows. *)
OfferUnbounded(c, id) == [slots[c] EXCEPT !.out = Append(@, id)]

(* try_send: an observer whose queue is full misses the event *)
Offer(c, id) ==
  IF Len(slots[c].out) < ClientQueue THEN [slots[c] EXCEPT !.out = Append(@, id)] ELSE slots[c]

OnDispatch(m) ==
  LET kept == Swept
      gone == HungUp(evals, kept)
      slow == Len(slots[deciderOf].out) >= ClientQueue
  IN /\ \/ /\ deciderOf = NoClient
           /\ evals' = Reply(gone, m.by, m.id, DefaultResult)
           /\ hookPending' = kept /\ UNCHANGED <<slots, hookStats>>
        \/ /\ deciderOf # NoClient /\ slow
           /\ evals' = Reply(gone, m.by, m.id, DefaultResult)
           /\ hookStats' = [hookStats EXCEPT !.backpressure = @ + 1]
           /\ hookPending' = kept /\ UNCHANGED slots
        \/ /\ deciderOf # NoClient /\ ~slow
           /\ hookPending' = Inserted(kept, m.id, [by |-> m.by, flow |-> m.flow, about |-> m.about,
                                                deadline |-> m.deadline])
           /\ slots' = [c \in DOMAIN slots |-> Offer(c, m.id)]
           /\ evals' = gone /\ UNCHANGED hookStats
     /\ UNCHANGED <<deciderOf, has_decider, flowCache, deciders>>

(* A verdict that is heeded answers its event and may fill the flow cache. *)
ApplyVerdict(m, heeded) ==
  LET p == hookPending[m.id]
  IN /\ \/ /\ heeded
           /\ hookPending' = Dropped(hookPending, {m.id})
           /\ evals' = Reply(evals, p.by, m.id, [action |-> m.action, giver |-> m.client])
           /\ flowCache' = IF m.ttl = 0 THEN flowCache
                ELSE Inserted(flowCache, p.flow, [action |-> m.action, giver |-> m.client,
                          about |-> p.about, expires |-> hookTime + Min({m.ttl, TtlCap})])
        \/ ~heeded /\ UNCHANGED <<hookPending, evals, flowCache>>
     /\ UNCHANGED <<slots, deciderOf, has_decider, hookStats, deciders>>

(* Mutant of OnVerdict: any client that has the event may rule. *)
OnVerdictOfAnyone(m) == ApplyVerdict(m, m.id \in DOMAIN hookPending)

(* Only the decider is heeded, and only while the event is pending. *)
OnVerdict(m) == ApplyVerdict(m, m.client = deciderOf /\ m.id \in DOMAIN hookPending)

OnDisconnect(m) ==
  /\ slots' = Dropped(slots, {m.client})
  /\ IF m.client # deciderOf THEN UNCHANGED <<deciderOf, has_decider, hookPending, evals>>
     ELSE /\ deciderOf' = NoClient /\ has_decider' = FALSE /\ hookPending' = <<>>
          /\ evals' = [e \in Evaluators |->
               IF evals[e].pc = "waiting" /\ evals[e].id \in DOMAIN hookPending
               THEN [evals[e] EXCEPT !.reply = <<DefaultResult>>] ELSE evals[e]]
  /\ UNCHANGED <<flowCache, hookStats, deciders>>

DispatchLoop ==
  /\ hookQ # <<>> /\ hookQ' = Tail(hookQ)
  /\ LET m == Head(hookQ)
     IN \/ m.type = "Hello" /\ OnHello(m)
        \/ m.type = "Dispatch" /\ OnDispatch(m)
        \/ m.type = "ClientVerdict" /\ OnVerdict(m)
        \/ m.type = "Disconnect" /\ OnDisconnect(m)
  /\ UNCHANGED <<conn, received, next_id, hookTime>>

HookTick ==
  /\ hookTime < MaxHookTime /\ hookTime' = hookTime + 1
  /\ UNCHANGED <<hookQ, conn, slots, deciderOf, has_decider, hookPending, flowCache, evals,
                 received, next_id, hookStats, deciders>>

HookNext ==
  \/ \E e \in Evaluators : Answered(e) \/ \E p \in HookPackets : Evaluate(e, p)
  \/ \E c \in HookClients :
       \/ ClientReads(c) \/ Disconnect(c) \/ \E mode \in {"Decision", "Observer"} : Hello(c, mode)
       \/ \E id \in received[c], a \in VerdictActions, ttl \in Ttls : SendVerdict(c, id, a, ttl)
  \/ DispatchLoop
  \/ HookTick

HookSpec == HookInit /\ [][HookNext]_hookVars

-----------------------------------------------------------------------------
HookTypeOK ==
  /\ Len(hookQ) <= DispatchCapacity
  /\ \A c \in DOMAIN slots : Len(slots[c].out) <= ClientQueue
  /\ deciderOf # NoClient => deciderOf \in DOMAIN slots /\ slots[deciderOf].mode = "Decision"
  /\ has_decider <=> deciderOf # NoClient
  /\ \A e \in Evaluators : evals[e].pc = "idle" /\ DOMAIN evals[e] # {"pc"} => evals[e].source \in Sources

(* The conversation a packet with a transport header belongs to. *)
Conversation(p) == <<p.proto, {<<p.src, p.ports[1]>>, <<p.dst, p.ports[2]>>}>>

(* What overrides the default came from a client that held the decision slot,  *)
(* was about this very conversation, and is applied only while its ttl lasts:   *)
(* late verdicts, observers' verdicts and cache entries of departed deciders    *)
(* included (evaluate, dispatch_loop).                                          *)
OnlyTheDeciderRules ==
  /\ \A f \in DOMAIN flowCache :
       /\ flowCache[f].giver \in deciders
       /\ flowCache[f].expires <= hookTime + TtlCap
  /\ \A e \in Evaluators :
       evals[e].pc = "idle" /\ DOMAIN evals[e] # {"pc"} /\ evals[e].action # DefaultAction
         => /\ evals[e].giver \in deciders /\ evals[e].source \in {"Decider", "Cached"}
            /\ evals[e].source = "Cached" /\ evals[e].packet.readable
                 => Conversation(evals[e].about) = Conversation(evals[e].packet)
=============================================================================
