----------------------------- MODULE Neighbours -----------------------------
(***************************************************************************)
(* IP8N neighbour discovery: NeighborProcessor and NeighborStore of         *)
(* src/core/ipv8-neigh/src/lib.rs, driven by the two commands of ping8      *)
(* (src/tools/ipv8-client/src/main.rs): `neigh hello` broadcasts one HELLO  *)
(* and waits for an ACK, `neigh watch` answers HELLOs and asks its operator  *)
(* about unknown keys.  Both load neighbors.bin when they start and write    *)
(* the whole of it when their own copy changes; `neigh remove` does both.    *)
(*                                                                          *)
(* A message carries its sender's key and what the signature covers; the    *)
(* network loses, delays, repeats and damages messages.                     *)
(***************************************************************************)
EXTENDS Integers, Sequences, SequencesExt, Functions, Tables

CONSTANTS
  NeighHosts,          \* hosts; a host stands for its key, address and MAC
  BoundHosts,     \* hosts with an adapter bound to ipv8proto: transport L2
  TsWindow,       \* TS_WINDOW_SECS, in ticks
  NonceRing,      \* NONCE_RING
  PendingTtl,     \* PENDING_TTL_SECS, in ticks
  PendingMax,     \* PENDING_MAX
  HelloWait,      \* --wait of `neigh hello`, in ticks
  MaxHellos,      \* bound: HELLOs of a model run, and so nonces
  MaxNeighTime,   \* bound: ticks of a model run
  MaxMishaps,     \* bound: kills and damaged messages of a model run
  MaxRemoves      \* bound: `neigh remove` commands of a model run

ASSUME NeighAssumption ==
  /\ BoundHosts \subseteq NeighHosts
  /\ {NonceRing, PendingMax} \subseteq Nat \ {0}
  /\ {TsWindow, PendingTtl, HelloWait, MaxHellos, MaxNeighTime, MaxMishaps, MaxRemoves} \subseteq Nat

VARIABLES
  disk,        \* disk[h]: neighbors.bin, the records by key, or Torn
  helloProc,   \* helloProc[h]: the `neigh hello` process, Off when there is none
  watchProc,   \* watchProc[h]: the `neigh watch` process
  saving,      \* saving[h]: the process between File::create and write_all, or "no"
  neighNet,    \* messages sent: [via, to, sig, msg_type, key, ts_secs, nonce]
  neighTime, hellos, mishaps, removes,
  consents,    \* history: <<h, k>> when h's operator agreed to k
  answered     \* history: <<k, h, n>> when k sent an ACK for nonce n of h

neighVars == <<disk, helloProc, watchProc, saving, neighNet, neighTime, hellos, mishaps,
               removes, consents, answered>>

Torn == [torn |-> TRUE]
Off == [off |-> TRUE]
Everyone == "broadcast"
ASSUME EveryoneAssumption == Everyone \notin NeighHosts
NeighRecords == [mac : NeighHosts, ts : 0..MaxNeighTime]
NoRecords == <<>>

NeighInit ==
  /\ disk = [h \in NeighHosts |-> NoRecords]
  /\ helloProc = [h \in NeighHosts |-> Off] /\ watchProc = [h \in NeighHosts |-> Off]
  /\ saving = [h \in NeighHosts |-> "no"]
  /\ neighNet = {} /\ neighTime = 0 /\ hellos = 0 /\ mishaps = 0 /\ removes = 0
  /\ consents = {} /\ answered = {}

-----------------------------------------------------------------------------
(* Messages *)

SignedNeigh(m) == [via |-> m.via, to |-> m.to, msg_type |-> m.msg_type, key |-> m.key,
              ts_secs |-> m.ts_secs, nonce |-> m.nonce,
              sig |-> <<m.key, m.msg_type, m.ts_secs, m.nonce>>]

(* Mutant of SigOk: any signature will do. *)
SigAny(m) == TRUE

SigOk(m) == m.sig = <<m.key, m.msg_type, m.ts_secs, m.nonce>>

(* select_transport, auto: L2 on a bound adapter, otherwise UDP. *)
Transport(h) == IF h \in BoundHosts THEN "l2" ELSE "udp"

(* L2Transport::send puts magic, interface and a zero word before the frame; *)
(* ipv8proto reads the third word as the length of the frame (14..1514) and  *)
(* refuses the request.  UdpTransport::send goes out.                        *)
L2FrameLenField == 0
SendAccepted(h) == Transport(h) = "udp" \/ L2FrameLenField \in 14..1514

NeighSend(h, m) == IF SendAccepted(h) THEN neighNet \cup {m} ELSE neighNet

Heard(h) == {m \in neighNet : m.via = Transport(h) /\ m.to \in {h, Everyone} /\ m.key # h}

-----------------------------------------------------------------------------
(* NeighborStore and NeighborProcessor *)

Upsert(store, k, mac, ts) == Inserted(store, k, [mac |-> mac, ts |-> ts])
NewProc(store) == [store |-> store, seen |-> <<>>, pending |-> <<>>, prompt |-> <<>>, start |-> neighTime]

PrunePending(p) == [p EXCEPT !.pending = SelectSeq(@, LAMBDA e : neighTime - e[2] <= PendingTtl)]

RecordHelloSent(p, nonce) ==
  LET q == PrunePending(p)
      room == IF Len(q.pending) >= PendingMax THEN Tail(q.pending) ELSE q.pending
  IN [q EXCEPT !.pending = Append(room, <<nonce, neighTime>>)]

Ring(p, k) == IF k \in DOMAIN p.seen THEN p.seen[k] ELSE <<>>

InWindow(m) == m.ts_secs - neighTime \in (-TsWindow)..TsWindow

(* verify_frame *)
FrameOk(p, m, expect) ==
  /\ m.msg_type = expect /\ SigOk(m) /\ InWindow(m)
  /\ m.nonce \notin Range(Ring(p, m.key))

Remembered(p, m) ==
  LET ring == Ring(p, m.key)
      room == IF Len(ring) >= NonceRing THEN Tail(ring) ELSE ring
  IN [p EXCEPT !.seen = Inserted(@, m.key, Append(room, m.nonce))]

PendingNonces(p) == {p.pending[i][1] : i \in DOMAIN p.pending}

(* process_ack; Err leaves what verify_frame remembered. *)
AckAccepted(p, m) == FrameOk(p, m, "ACK") /\ m.nonce \in PendingNonces(PrunePending(p))
AfterAck(p, m) ==
  LET q == IF FrameOk(p, m, "ACK") THEN PrunePending(Remembered(p, m)) ELSE p
  IN IF AckAccepted(p, m)
     THEN [q EXCEPT !.store = Upsert(@, m.key, m.key, neighTime),
                    !.pending = SelectSeq(@, LAMBDA e : e[1] # m.nonce)]
     ELSE q

(* process_hello: a key already in the table refreshes its record. *)
AutoAck(p, m) == FrameOk(p, m, "HELLO") /\ m.key \in DOMAIN p.store
NeedsConsent(p, m) == FrameOk(p, m, "HELLO") /\ m.key \notin DOMAIN p.store

BuildAck(h, m, now) ==
  SignedNeigh([via |-> Transport(h), to |-> m.key, msg_type |-> "ACK", key |-> h,
          ts_secs |-> now, nonce |-> m.nonce])

-----------------------------------------------------------------------------
(* neigh_load_store_or_die; UdpTransport::new needs the port for itself *)
CanStart(h) ==
  /\ disk[h] # Torn
  /\ Transport(h) = "udp" => helloProc[h] = Off /\ watchProc[h] = Off

(* cmd_neigh_hello up to the wait; a refused send ends the command. *)
StartHello(h) ==
  LET m == SignedNeigh([via |-> Transport(h), to |-> Everyone, msg_type |-> "HELLO", key |-> h,
                   ts_secs |-> neighTime, nonce |-> hellos])
  IN /\ hellos < MaxHellos /\ CanStart(h) /\ helloProc[h] = Off
     /\ hellos' = hellos + 1
     /\ neighNet' = NeighSend(h, m)
     /\ helloProc' = [helloProc EXCEPT ![h] =
          IF SendAccepted(h) THEN RecordHelloSent(NewProc(disk[h]), hellos) ELSE Off]
     /\ UNCHANGED <<disk, watchProc, saving, neighTime, mishaps, removes, consents, answered>>

(* cmd_neigh_hello: an ACK; HELLOs are not answered here. *)
HelloGetsAck(h, m) ==
  /\ helloProc[h] # Off /\ saving[h] # "hello" /\ m \in Heard(h) /\ m.msg_type = "ACK"
  /\ helloProc' = [helloProc EXCEPT ![h] = AfterAck(@, m)]
  /\ IF AckAccepted(helloProc[h], m)
     THEN saving[h] = "no" /\ saving' = [saving EXCEPT ![h] = "hello"]
                           /\ disk' = [disk EXCEPT ![h] = Torn]
     ELSE UNCHANGED <<saving, disk>>
  /\ UNCHANGED <<watchProc, neighNet, neighTime, hellos, mishaps, removes, consents, answered>>

(* --wait ran out without an ACK. *)
HelloGivesUp(h) ==
  /\ helloProc[h] # Off /\ saving[h] # "hello" /\ neighTime - helloProc[h].start >= HelloWait
  /\ helloProc' = [helloProc EXCEPT ![h] = Off]
  /\ UNCHANGED <<disk, watchProc, saving, neighNet, neighTime, hellos, mishaps, removes, consents, answered>>

StartWatch(h) ==
  /\ CanStart(h) /\ watchProc[h] = Off
  /\ watchProc' = [watchProc EXCEPT ![h] = NewProc(disk[h])]
  /\ UNCHANGED <<disk, helloProc, saving, neighNet, neighTime, hellos, mishaps, removes, consents, answered>>

WatchFree(h) == watchProc[h] # Off /\ saving[h] # "watch" /\ watchProc[h].prompt = <<>>

(* cmd_neigh_watch: the ACK goes out before the table is saved. *)
WatchAnswers(h, m, p) ==
  /\ neighNet' = NeighSend(h, BuildAck(h, m, p.start))
  /\ answered' = IF SendAccepted(h) THEN answered \cup {<<h, m.key, m.nonce>>} ELSE answered
  /\ saving[h] = "no" /\ saving' = [saving EXCEPT ![h] = "watch"]
  /\ disk' = [disk EXCEPT ![h] = Torn]

WatchGetsHello(h, m) ==
  LET p == watchProc[h]
      q == [Remembered(p, m) EXCEPT !.start = neighTime]
  IN /\ WatchFree(h) /\ m \in Heard(h) /\ m.msg_type = "HELLO"
     /\ \/ /\ AutoAck(p, m)
           /\ watchProc' = [watchProc EXCEPT ![h] =
                [q EXCEPT !.store = Upsert(@, m.key, m.key, neighTime)]]
           /\ WatchAnswers(h, m, q)
        \/ /\ NeedsConsent(p, m)
           /\ watchProc' = [watchProc EXCEPT ![h] = [q EXCEPT !.prompt = <<m>>]]
           /\ UNCHANGED <<neighNet, answered, saving, disk>>
     /\ UNCHANGED <<helloProc, neighTime, hellos, mishaps, removes, consents>>

(* The operator's answer: `now` (here start) is the time the HELLO came. *)
Consent(h) ==
  LET p == watchProc[h]
      m == p.prompt[1]
  IN /\ watchProc[h] # Off /\ p.prompt # <<>> /\ saving[h] # "watch"
     /\ watchProc' = [watchProc EXCEPT ![h] =
          [p EXCEPT !.prompt = <<>>, !.store = Upsert(@, m.key, m.key, p.start)]]
     /\ consents' = consents \cup {<<h, m.key>>}
     /\ WatchAnswers(h, m, p)
     /\ UNCHANGED <<helloProc, neighTime, hellos, mishaps, removes>>

Decline(h) ==
  /\ watchProc[h] # Off /\ watchProc[h].prompt # <<>>
  /\ watchProc' = [watchProc EXCEPT ![h].prompt = <<>>]
  /\ UNCHANGED <<disk, helloProc, saving, neighNet, neighTime, hellos, mishaps, removes, consents, answered>>

(* watch never sends a HELLO: no ACK is ever expected there. *)
WatchGetsAck(h, m) ==
  /\ WatchFree(h) /\ m \in Heard(h) /\ m.msg_type = "ACK"
  /\ FrameOk(watchProc[h], m, "ACK")
  /\ watchProc' = [watchProc EXCEPT ![h] = AfterAck(@, m)]
  /\ UNCHANGED <<disk, helloProc, saving, neighNet, neighTime, hellos, mishaps, removes, consents, answered>>

(* save_path: File::create has emptied the file, write_all fills it. *)
WriteAll(h) ==
  /\ saving[h] # "no"
  /\ disk' = [disk EXCEPT ![h] = IF saving[h] = "hello" THEN helloProc[h].store ELSE watchProc[h].store]
  /\ helloProc' = IF saving[h] = "hello" THEN [helloProc EXCEPT ![h] = Off] ELSE helloProc
  /\ saving' = [saving EXCEPT ![h] = "no"]
  /\ UNCHANGED <<watchProc, neighNet, neighTime, hellos, mishaps, removes, consents, answered>>

(* remove_pubkey and its kin. *)
Without(s, k) == Dropped(s, {k})

(* cmd_neigh_remove, in one step: load, remove, save. *)
RemoveNeighbour(h, k) ==
  /\ removes < MaxRemoves /\ disk[h] # Torn /\ k \in DOMAIN disk[h]
  /\ disk' = [disk EXCEPT ![h] = Without(@, k)]
  /\ removes' = removes + 1
  /\ UNCHANGED <<helloProc, watchProc, saving, neighNet, neighTime, hellos, mishaps, consents, answered>>

-----------------------------------------------------------------------------
(* Ctrl+C or a power failure ends both commands of a host, perhaps in a save. *)
NeighKill(h) ==
  /\ mishaps < MaxMishaps /\ {helloProc[h], watchProc[h]} # {Off}
  /\ helloProc' = [helloProc EXCEPT ![h] = Off]
  /\ watchProc' = [watchProc EXCEPT ![h] = Off]
  /\ saving' = [saving EXCEPT ![h] = "no"]
  /\ mishaps' = mishaps + 1
  /\ UNCHANGED <<disk, neighNet, neighTime, hellos, removes, consents, answered>>

(* A message arrives with another type, key or nonce than was signed. *)
Damage(m) ==
  /\ mishaps < MaxMishaps
  /\ \E t \in {"HELLO", "ACK"}, k \in NeighHosts, n \in 0..(MaxHellos - 1) :
       neighNet' = neighNet \cup {[m EXCEPT !.msg_type = t, !.key = k, !.nonce = n]}
  /\ mishaps' = mishaps + 1
  /\ UNCHANGED <<disk, helloProc, watchProc, saving, neighTime, hellos, removes, consents, answered>>

(* The operator deletes the unreadable file. *)
DeleteTable(h) ==
  /\ disk[h] = Torn /\ saving[h] = "no"
  /\ disk' = [disk EXCEPT ![h] = NoRecords]
  /\ UNCHANGED <<helloProc, watchProc, saving, neighNet, neighTime, hellos, mishaps, removes, consents, answered>>

NeighTick ==
  /\ neighTime < MaxNeighTime /\ neighTime' = neighTime + 1
  /\ UNCHANGED <<disk, helloProc, watchProc, saving, neighNet, hellos, mishaps, removes, consents, answered>>

NeighNext ==
  \/ \E h \in NeighHosts :
       \/ StartHello(h) \/ HelloGivesUp(h) \/ StartWatch(h) \/ Consent(h) \/ Decline(h)
       \/ WriteAll(h) \/ NeighKill(h) \/ DeleteTable(h)
       \/ \E m \in neighNet : HelloGetsAck(h, m) \/ WatchGetsHello(h, m) \/ WatchGetsAck(h, m)
       \/ \E k \in NeighHosts : RemoveNeighbour(h, k)
  \/ \E m \in neighNet : Damage(m)
  \/ NeighTick

NeighSpec == NeighInit /\ [][NeighNext]_neighVars

-----------------------------------------------------------------------------
StoresOf(h) ==
  ({disk[h]} \ {Torn}) \cup {p.store : p \in {helloProc[h], watchProc[h]} \ {Off}}

NeighTypeOK ==
  /\ \A h \in NeighHosts : \A s \in StoresOf(h) : DOMAIN s \subseteq NeighHosts \ {h} /\ Range(s) \subseteq NeighRecords
  /\ \A h \in NeighHosts : saving[h] = "hello" => helloProc[h] # Off
  /\ \A h \in NeighHosts : saving[h] = "watch" => watchProc[h] # Off
  /\ \A p \in (Range(helloProc) \cup Range(watchProc)) \ {Off} :
       /\ Len(p.pending) <= PendingMax
       /\ \A k \in DOMAIN p.seen : Len(p.seen[k]) <= NonceRing

(* Every neighbour is owed to a person: a key is in a table of h, on disk or   *)
(* in memory, only if h's operator agreed to it, or it answered a HELLO of h,  *)
(* and then its own operator had agreed to h, or had itself been answered.     *)
(* (Module comment of ipv8-neigh: starting is the initiator's consent, the     *)
(* passive side must agree.)                                                   *)
TrustIsEarned ==
  /\ \A h \in NeighHosts : \A s \in StoresOf(h) : \A k \in DOMAIN s :
       <<h, k>> \in consents \/ \E n \in 0..MaxHellos : <<k, h, n>> \in answered
  /\ \A a \in answered : <<a[1], a[2]>> \in consents \/ <<a[2], a[1]>> \in consents
=============================================================================
