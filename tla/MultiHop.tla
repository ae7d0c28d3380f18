------------------------------ MODULE MultiHop ------------------------------
(***************************************************************************)
(* Source-routed packets over several tunnels: the path of StaticRouter     *)
(* (ipv8-routing/static_route.rs), the signed RouteTrace (route_trace.rs,   *)
(* layouts.rs) and the relaying of engine.rs: seal_multihop,                *)
(* ingest_ipv8_packet, route_decision, seal_prebuilt.  Tunnels lose and     *)
(* reorder packets; the node that picks the tunnel of the next hop may pick *)
(* a wrong one (a detour), and a faulty relay may rewrite a field.          *)
(*                                                                          *)
(* A signature is the record of what it signs together with its key; it     *)
(* verifies when that is what the packet says.                              *)
(***************************************************************************)
EXTENDS Integers, Sequences, SequencesExt, FiniteSetsExt

CONSTANTS
  Routers,          \* nodes
  Forwarders,       \* the nodes whose engine called enable_forwarding
  MaxHops,          \* StaticRouter::max_hops
  InitHopLimits,    \* hop limits a source starts with
  MaxLinks,         \* bound: links registered in a model run
  MaxMhSends,       \* bound: packets a model run sends
  MaxFaults         \* bound: detours and rewrites of a model run

ASSUME MultiHopAssumption ==
  /\ IsFiniteSet(Routers) /\ Forwarders \subseteq Routers
  /\ MaxHops \in Nat \ {0} /\ InitHopLimits \subseteq Nat
  /\ MaxLinks \in Nat /\ MaxMhSends \in Nat /\ MaxFaults \in Nat

VARIABLES
  links,        \* StaticRouter.links, the same at every node
  mhNet,        \* packets in a tunnel: [to, pkt]
  forward_out,  \* forward_out[n]: rebuilt packets waiting for the next tunnel
  mhExpired,    \* sources whose certificate has run out
  mhDelivered,  \* history: [at, pkt]
  mhRejected,   \* history: [at, pkt, expired]
  mhSends, mhFaults

mhVars == <<links, mhNet, forward_out, mhExpired, mhDelivered, mhRejected, mhSends, mhFaults>>

MhInit ==
  /\ links = {} /\ mhNet = {} /\ mhExpired = {}
  /\ forward_out = [n \in Routers |-> <<>>]
  /\ mhDelivered = {} /\ mhRejected = {}
  /\ mhSends = 0 /\ mhFaults = 0

-----------------------------------------------------------------------------
(* StaticRouter *)

AddLink(a, b) ==
  /\ a # b /\ {a, b} \notin links /\ Cardinality(links) < MaxLinks
  /\ links' = links \cup {{a, b}}
  /\ UNCHANGED <<mhNet, forward_out, mhExpired, mhDelivered, mhRejected, mhSends, mhFaults>>

(* Hop lists from a node to dst along links, without the node itself. *)
WalksTo(n, dst) ==
  {p \in UNION {[1..k -> Routers] : k \in 1..(Cardinality(Routers) - 1)} :
     /\ Last(p) = dst
     /\ \A i \in DOMAIN p : {IF i = 1 THEN n ELSE p[i - 1], p[i]} \in links}

(* path_to: breadth first, hence a shortest walk; which of several depends on *)
(* the order of add_link.  None beyond max_hops.                              *)
PathsTo(n, dst) ==
  {p \in WalksTo(n, dst) :
     /\ dst # n /\ Len(p) <= MaxHops
     /\ \A q \in WalksTo(n, dst) : Len(p) <= Len(q)}

-----------------------------------------------------------------------------
(* build_route_trace and seal_multihop *)

PubKey(n) == <<"key", n>>
RouteTraceMessage(p) ==
  [src_addr |-> p.src, dst_addr |-> p.dst, payload_len |-> p.payload_len,
   init_hop_limit |-> p.trace.init_hop_limit, src_pubkey |-> p.trace.src_pubkey,
   hops |-> p.trace.hops]
Sign(key, msg) == [key |-> key, msg |-> msg]

MultihopPacket(n, dst, hops, init_hop_limit, id) ==
  LET route == [src_pubkey |-> PubKey(n), init_hop_limit |-> init_hop_limit, hops |-> hops]
      signed == RouteTraceMessage([src |-> n, dst |-> dst, payload_len |-> id, trace |-> route])
  IN [id |-> id, src |-> n, dst |-> dst, payload_len |-> id, hop_limit |-> init_hop_limit,
      cert |-> [addr |-> n, verify_key |-> PubKey(n)],
      trace |-> [src_pubkey |-> PubKey(n), init_hop_limit |-> init_hop_limit, hops |-> hops,
                 path_sig |-> Sign(PubKey(n), signed)],
      trail |-> <<>>, sound |-> TRUE]

SealMultihop(n, dst, init_hop_limit) ==
  /\ mhSends < MaxMhSends
  /\ \E hops \in PathsTo(n, dst) :
       mhNet' = mhNet \cup
         {[to |-> hops[1], pkt |-> MultihopPacket(n, dst, hops, init_hop_limit, mhSends)]}
  /\ mhSends' = mhSends + 1
  /\ UNCHANGED <<links, forward_out, mhExpired, mhDelivered, mhRejected, mhFaults>>

-----------------------------------------------------------------------------
(* verify_for_next_hop *)

PathSigOk(p) == p.trace.path_sig = Sign(p.trace.src_pubkey, RouteTraceMessage(p))

CertBindingOk(p) ==
  /\ p.cert.addr = p.src /\ p.cert.verify_key = p.trace.src_pubkey
  /\ p.src \notin mhExpired

(* 0-based position of n among the hops, as Iterator::position. *)
OnPath(p, n) == n \in Range(p.trace.hops)
HopIndex(p, n) == Min({i \in DOMAIN p.trace.hops : p.trace.hops[i] = n}) - 1

(* Mutant of HopLimitFits: only the underflow is refused. *)
HopLimitLoose(p, n) == HopIndex(p, n) <= p.trace.init_hop_limit

HopLimitFits(p, n) ==
  /\ HopIndex(p, n) <= p.trace.init_hop_limit
  /\ p.trace.init_hop_limit - HopIndex(p, n) = p.hop_limit

Verified(p, n) ==
  n \in Forwarders /\ PathSigOk(p) /\ CertBindingOk(p) /\ OnPath(p, n) /\ HopLimitFits(p, n)

IsLastHop(p, n) == HopIndex(p, n) + 1 = Len(p.trace.hops)

(* ingest_ipv8_packet *)
Delivers(p, n) == Verified(p, n) /\ IsLastHop(p, n) /\ p.dst = n
Forwards(p, n) == Verified(p, n) /\ ~IsLastHop(p, n) /\ p.hop_limit - 1 > 0

Ingest(m) ==
  LET p == m.pkt
      n == m.to
  IN /\ mhNet' = mhNet \ {m}
     /\ \/ /\ Delivers(p, n)
           /\ mhDelivered' = mhDelivered \cup {[at |-> n, pkt |-> p]}
           /\ UNCHANGED <<forward_out, mhRejected>>
        \/ /\ Forwards(p, n)
           /\ forward_out' = [forward_out EXCEPT ![n] =
                Append(@, [next |-> p.trace.hops[HopIndex(p, n) + 2],
                           pkt |-> [p EXCEPT !.hop_limit = @ - 1, !.trail = Append(@, n)]])]
           /\ UNCHANGED <<mhDelivered, mhRejected>>
        \/ /\ ~Delivers(p, n) /\ ~Forwards(p, n)
           /\ mhRejected' = mhRejected \cup {[at |-> n, pkt |-> p, expired |-> p.src \in mhExpired]}
           /\ UNCHANGED <<mhDelivered, forward_out>>
     /\ UNCHANGED <<links, mhExpired, mhSends, mhFaults>>

(* take_forward_packet and seal_prebuilt in the tunnel to the next hop, or by *)
(* mistake in another one.                                                    *)
SealPrebuilt(n, to) ==
  LET out == Head(forward_out[n])
      detour == to # out.next
  IN /\ forward_out[n] # <<>>
     /\ detour => mhFaults < MaxFaults
     /\ mhFaults' = IF detour THEN mhFaults + 1 ELSE mhFaults
     /\ forward_out' = [forward_out EXCEPT ![n] = Tail(@)]
     /\ mhNet' = mhNet \cup {[to |-> to, pkt |-> [out.pkt EXCEPT !.sound = @ /\ ~detour]]}
     /\ UNCHANGED <<links, mhExpired, mhDelivered, mhRejected, mhSends>>

(* Faults: a relay that rewrites the hop limit, the destination or the path. *)
Rewrites(p) ==
  {[p EXCEPT !.hop_limit = h, !.sound = FALSE] : h \in {p.hop_limit + 1, p.hop_limit - 1}}
    \cup {[p EXCEPT !.dst = n, !.sound = FALSE] : n \in Routers \ {p.dst}}
    \cup {[p EXCEPT !.trace.hops = Tail(@), !.sound = FALSE] : x \in {1} \cap {Len(p.trace.hops) - 1}}

Rewrite(m) ==
  /\ mhFaults < MaxFaults
  /\ mhFaults' = mhFaults + 1
  /\ \E q \in Rewrites(m.pkt) : mhNet' = (mhNet \ {m}) \cup {[m EXCEPT !.pkt = q]}
  /\ UNCHANGED <<links, forward_out, mhExpired, mhDelivered, mhRejected, mhSends>>

MhExpire(n) ==
  /\ n \notin mhExpired
  /\ mhExpired' = mhExpired \cup {n}
  /\ UNCHANGED <<links, mhNet, forward_out, mhDelivered, mhRejected, mhSends, mhFaults>>

MhNext ==
  \/ \E a, b \in Routers : AddLink(a, b)
  \/ \E n, dst \in Routers, h \in InitHopLimits : SealMultihop(n, dst, h)
  \/ \E m \in mhNet : Ingest(m)
  \/ \E n, to \in Routers : SealPrebuilt(n, to)
  \/ \E m \in mhNet : Rewrite(m)
  \/ \E p \in {m.pkt : m \in mhNet} : MhExpire(p.src)

MhSpec == MhInit /\ [][MhNext]_mhVars

-----------------------------------------------------------------------------
MhTypeOK ==
  /\ links \subseteq SUBSET Routers /\ mhExpired \subseteq Routers
  /\ \A m \in mhNet : m.to \in Routers /\ m.pkt.trace.hops \in Seq(Routers)
  /\ \A n \in Routers : \A i \in DOMAIN forward_out[n] : forward_out[n][i].next \in Routers

(* What a destination hands up travelled, relay by relay, the very path its   *)
(* source signed, though a packet took a wrong tunnel or was rewritten on the *)
(* way: no relay was skipped, repeated or added, and nobody but the           *)
(* destination takes it.  Two faults that fit together pass (MaxFaults = 2):  *)
(* a relay skipped by a detour, and a hop limit, which is not signed, lowered *)
(* by as much.                                                                *)
DeliveredAlongPath ==
  \A d \in mhDelivered :
    LET signed == d.pkt.trace.path_sig.msg
    IN /\ d.at = signed.dst_addr
       /\ d.pkt.trace.path_sig.key = PubKey(signed.src_addr)
       /\ d.pkt.trail = Front(signed.hops)

(* A packet that kept to its path is refused only for lack of hops, of a      *)
(* valid certificate or of a willing relay: the hop limits that relays count  *)
(* down are the ones verify_for_next_hop expects at every position.           *)
NoFalseReject ==
  \A r \in mhRejected :
    r.pkt.sound =>
      \/ r.expired
      \/ r.pkt.trace.init_hop_limit < Len(r.pkt.trace.hops)
      \/ r.at \notin Forwarders

(* Both, what the route trace promises of a path with one fault on it.        *)
PathHonoured == DeliveredAlongPath /\ NoFalseReject

=============================================================================
