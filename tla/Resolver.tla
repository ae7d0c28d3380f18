------------------------------ MODULE Resolver ------------------------------
(***************************************************************************)
(* The resolver service, src/cloud/resolver: registration, resolution and      *)
(* rendezvous (lib.rs) on the in-memory store or on the SQLite write-through   *)
(* store (sqlite_store.rs), behind one read-write lock (grpc.rs), so that each *)
(* request is one step.  Both clocks of TimeBase advance together: a time is   *)
(* wall time, and only the conversions at start-up can bend an Instant.        *)
(***************************************************************************)
EXTENDS Integers, FiniteSets, FiniteSetsExt

CONSTANTS
  ResAddrs, ResKeys, Endpoints,  \* addresses, public keys, "ip:port" strings
  ReqTtls, DefaultTtl, MaxTtl,   \* requested times to live, 0 is "default"
  ObservedMaxAge,                \* freshness of an observed address
  MaxBack,                       \* how far back to_instant goes (one hour)
  MaxResTime, MaxResOps, MaxDbFaults, MaxResRestarts     \* bounds

ASSUME ResolverAssumption ==
  /\ {DefaultTtl, MaxTtl} \subseteq Nat \ {0} /\ {ObservedMaxAge, MaxBack} \subseteq Nat
  /\ ReqTtls \subseteq Nat /\ "none" \notin ResKeys \cup Endpoints

VARIABLES
  resCache,    \* MemStore.by_addr, or SqliteStore.cache
  resDb,       \* the nodes table
  resBacked,   \* started with --db
  resNow, resBase, resBoot,    \* now, TimeBase, when the machine came up
  resLast,     \* history: the last registration accepted for an address
  resBudget

resVars == <<resCache, resDb, resBacked, resNow, resBase, resBoot, resLast, resBudget>>

(* obsBy is history: the key whose connection the observed address was seen on *)
NoEntry == [key |-> "none", entry |-> "none", reg |-> 0, ttl |-> 0, obs |-> "none", obsAt |-> 0, obsBy |-> "none", cands |-> {}]
NoTable == [a \in ResAddrs |-> NoEntry]

ResInit ==
  /\ resCache = NoTable /\ resDb = NoTable /\ resBacked \in BOOLEAN
  /\ resNow = 0 /\ resBase = 0 /\ resBoot = 0
  /\ resLast = [a \in ResAddrs |-> [key |-> "none", entry |-> "none", at |-> 0, ttl |-> 0, durable |-> FALSE]]
  /\ resBudget = [ops |-> MaxResOps, faults |-> MaxDbFaults, restarts |-> MaxResRestarts]

Known(e) == e.key # "none"
IsExpired(e) == e.reg + e.ttl <= resNow
Live(e) == Known(e) /\ ~IsExpired(e)
FreshObserved(e) == e.obs # "none" /\ resNow - e.obsAt <= ObservedMaxAge

EffectiveTtl(req) == IF req = 0 THEN DefaultTtl ELSE Min({req, MaxTtl})

(* Store::insert: the table first; when that fails the cache is updated all the same *)
ResInsert(a, e, fault) ==
  /\ fault => resBacked /\ resBudget.faults > 0
  /\ resDb' = IF resBacked /\ ~fault THEN [resDb EXCEPT ![a] = e] ELSE resDb
  /\ resCache' = [resCache EXCEPT ![a] = e]
  /\ resBudget' = [resBudget EXCEPT !.ops = @ - 1, !.faults = IF fault THEN @ - 1 ELSE @]

(* A new identity needs a proof of possession and may only take over an expired   *)
(* entry; the holder of a known key renews without one                            *)
MayRegister(a, k, proof) ==
  LET e == resCache[a] IN e.key = k \/ (proof /\ (Known(e) => IsExpired(e)))

(* Mutant of Inherit: the next holder keeps the last one's mapping. *)
InheritAny(a, k) == resCache[a]

Inherit(a, k) == IF resCache[a].key = k THEN resCache[a] ELSE NoEntry

Register(a, k, proof, req, ep, observed, fault) ==
  LET was == Inherit(a, k)
      e == [key |-> k, entry |-> ep, reg |-> resNow, ttl |-> EffectiveTtl(req),
            obs |-> IF observed THEN ep ELSE was.obs, obsAt |-> IF observed THEN resNow ELSE was.obsAt,
            obsBy |-> IF observed THEN k ELSE was.obsBy, cands |-> IF observed THEN {} ELSE was.cands]
  IN /\ resBudget.ops > 0 /\ MayRegister(a, k, proof)
     /\ ResInsert(a, e, fault)
     /\ resLast' = [resLast EXCEPT ![a] = [key |-> k, entry |-> ep, at |-> resNow, ttl |-> e.ttl,
                                           durable |-> resBacked /\ ~fault]]
     /\ UNCHANGED <<resBacked, resNow, resBase, resBoot>>

(* rendezvous: a registered node, proved by its stored key, refreshes what is      *)
(* observed of it and leaves its candidates; TTL and entry stay.  The answer is a  *)
(* function of the peer's entry (PeerCandidates); the refresh happens even when    *)
(* the peer turns out to be unknown.                                               *)
Rendezvous(a, cands, ep, observed, fault) ==
  LET me == resCache[a]
      e == [me EXCEPT !.obs = IF observed THEN ep ELSE @, !.obsAt = IF observed THEN resNow ELSE @,
                      !.obsBy = IF observed THEN me.key ELSE @, !.cands = cands]
  IN /\ resBudget.ops > 0 /\ Live(me)
     /\ ResInsert(a, e, fault)
     /\ resLast' = [resLast EXCEPT ![a].durable = @ /\ resBacked]
     /\ UNCHANGED <<resBacked, resNow, resBase, resBoot>>

(* What rendezvous hands out of a live peer: observed only while fresh *)
PeerCandidates(p) ==
  LET e == resCache[p] IN IF Live(e) THEN e.cands \cup (IF FreshObserved(e) THEN {e.obs} ELSE {}) ELSE {}

(* resolve: unknown and expired look the same *)
Resolve(a) == IF Live(resCache[a]) THEN resCache[a].entry ELSE "none"

SweepTable(t) == [a \in ResAddrs |-> IF IsExpired(t[a]) THEN NoEntry ELSE t[a]]

(* The reaper, once a minute: cache and table each by their own idea of the time *)
SweepExpired ==
  /\ resBudget.ops > 0
  /\ resCache' = SweepTable(resCache) /\ resDb' = SweepTable(resDb)
  /\ resBudget' = [resBudget EXCEPT !.ops = @ - 1]
  /\ UNCHANGED <<resBacked, resNow, resBase, resBoot, resLast>>

(* TimeBase::to_instant: at most MaxBack before the start, and the start itself    *)
(* when the machine was not up that long ago                                       *)
ToInstant(t, base, boot) ==
  LET clamped == Min({base - t, MaxBack})
  IN IF t >= base THEN t ELSE IF base - clamped >= boot THEN base - clamped ELSE base

(* SqliteStore::open: rows that are not expired by the wall clock *)
Loaded(e, base, boot) ==
  IF IsExpired(e) THEN NoEntry
  ELSE [e EXCEPT !.reg = ToInstant(@, base, boot), !.obsAt = ToInstant(@, base, boot)]

(* The process is started again, with the machine or without it *)
ResRestart(reboot) ==
  LET boot == IF reboot THEN resNow ELSE resBoot
  IN /\ resBudget.restarts > 0
     /\ resBudget' = [resBudget EXCEPT !.restarts = @ - 1]
     /\ resBase' = resNow /\ resBoot' = boot
     /\ resCache' = IF resBacked THEN [a \in ResAddrs |-> Loaded(resDb[a], resNow, boot)] ELSE NoTable
     /\ UNCHANGED <<resDb, resBacked, resNow, resLast>>

ResTick == resNow < MaxResTime /\ resNow' = resNow + 1
           /\ UNCHANGED <<resCache, resDb, resBacked, resBase, resBoot, resLast, resBudget>>

ResNext ==
  \/ \E a \in ResAddrs, ep \in Endpoints, observed, fault \in BOOLEAN :
        \/ \E k \in ResKeys, proof \in BOOLEAN, req \in ReqTtls : Register(a, k, proof, req, ep, observed, fault)
        \/ \E cands \in {{}, {ep}} : Rendezvous(a, cands, ep, observed, fault)
  \/ SweepExpired
  \/ \E reboot \in BOOLEAN : ResRestart(reboot)
  \/ ResTick

ResSpec == ResInit /\ [][ResNext]_resVars

-----------------------------------------------------------------------------
ResTypeOK == \A a \in ResAddrs : resCache[a].reg <= resNow /\ resCache[a].ttl <= Max({MaxTtl, DefaultTtl})

(* "新身份接管则清空（旧映射属于上一个持有者，不能继承）": what rendezvous hands out as the   *)
(* observed address of a node was seen on a connection of the key that holds the   *)
(* address now, through renewals, take-overs and restarts.                         *)
ObservedIsTheHolders ==
  \A a \in ResAddrs : (Live(resCache[a]) /\ FreshObserved(resCache[a])) => resCache[a].obsBy = resCache[a].key

(* "启动：从 SQLite 加载所有未过期条目到内存": a registration that reached the table is        *)
(* resolvable, with its endpoint, until its time to live is over, whatever          *)
(* restarts, sweeps and rendezvous calls come in between.                           *)
RegistrationsSurvive ==
  \A a \in ResAddrs : LET r == resLast[a] IN
    (r.durable /\ r.key # "none" /\ resNow < r.at + r.ttl) => Resolve(a) = r.entry

(* Both, what the registry promises of the entry it answers with.                   *)
RegistryFaithful == RegistrationsSurvive /\ ObservedIsTheHolders
=============================================================================
