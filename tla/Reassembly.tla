----------------------------- MODULE Reassembly -----------------------------
(***************************************************************************)
(* Fragmentation across a network: engines that cut packets with           *)
(* fragment_packet (seal_frames, which numbers them), and the Reassembler   *)
(* of src/core/ipv8-codec/src/fragment.rs at the receiving end.  Fragments  *)
(* are lost and reordered, live for Lifetime ticks at most, and are opened  *)
(* once at most (see TunnelKeys).                                           *)
(* The payload octets carry the packet they belong to, so that a mixture of *)
(* two packets is recognised.                                               *)
(***************************************************************************)
EXTENDS Codec

CONSTANTS
  FragSenders,        \* source addresses
  FragPackets,        \* packets to send: [len, exts]
  Mtu,                \* the engine's mtu
  MaxGroups,          \* MAX_GROUPS, 64
  MaxGroupBytes,      \* MAX_GROUP_BYTES
  ReassemblyTimeout,  \* REASSEMBLY_TIMEOUT, in ticks
  FragIds,            \* frag_id is counted modulo this (2^32)
  Lifetime,           \* how long the network keeps a datagram
  MaxFragSends,       \* bound: packets a model run sends
  MaxFragTime         \* bound: ticks of a model run

ASSUME ReassemblyAssumption ==
  /\ MaxGroups \in Nat \ {0} /\ FragIds \in Nat \ {0}
  /\ ReassemblyTimeout \in Nat \ {0} /\ Lifetime \in Nat
  /\ MaxFragSends \in Nat /\ MaxFragTime \in Nat

VARIABLES
  frag_id,     \* frag_id[s]: the counter of the sending engine
  groups,      \* groups: key -> Group
  fragNet,     \* datagrams in flight: [wire, born]
  fragTime,
  fragSent,    \* history: [key, wire, at] of every packet sent
  fragOut,     \* history: [key, wire] of every packet reassembled
  fragGot      \* history: fragments each group has taken

fragVars == <<frag_id, groups, fragNet, fragTime, fragSent, fragOut, fragGot>>

FragInit ==
  /\ frag_id = [s \in FragSenders |-> 0]
  /\ groups = <<>> /\ fragNet = {} /\ fragTime = 0
  /\ fragSent = {} /\ fragOut = {} /\ fragGot = <<>>

Receiver == "receiver"

(* build_ipv8_packet; octet i of the n-th packet is 100 n + i. *)
PacketHeader(s, p) == AttachExtHeaders(NewHeader(s, Receiver, p.len), p.exts)
Octets(p, n) == [i \in 1..p.len |-> 100 * n + i]
BuildPacket(s, p, n) == Encode(PacketHeader(s, p), Octets(p, n)).val

(* "the length is constrained by the caller": the packets the engine is given *)
(* are encodable; a length fits its 16 bits, and a group holds any of them.   *)
ASSUME PacketAssumption ==
  /\ Mtu \in Nat /\ MaxPayloadLen < 65536 /\ MaxGroupBytes \in Nat /\ MaxPayloadLen <= MaxGroupBytes
  /\ \A p \in FragPackets :
       /\ p.len \in Nat /\ p.exts \in Seq(Range(p.exts))
       /\ \A e \in Range(p.exts) : LegalExt(e) /\ e = ExtHeader(e.ext_type, e.units, e.body)
       /\ EncodeFault(PacketHeader(Receiver, p), Octets(p, 0)) = "none"

(* seal_frames: the identifier is spent whatever fragment_packet answers. *)
SendFragmented(s, p) ==
  LET n == Cardinality(fragSent)
      w == BuildPacket(s, p, n)
      pkts == FragmentPacket(w, Mtu, frag_id[s])
  IN /\ n < MaxFragSends
     /\ frag_id' = [frag_id EXCEPT ![s] = (@ + 1) % FragIds]
     /\ fragNet' = IF pkts.ok THEN fragNet \cup {[wire |-> f, born |-> fragTime] : f \in Range(pkts.val)}
                              ELSE fragNet
     /\ fragSent' = fragSent \cup {[key |-> <<s, Receiver, frag_id[s]>>, wire |-> w, at |-> fragTime]}
     /\ UNCHANGED <<groups, fragTime, fragOut, fragGot>>

FragTick ==
  /\ fragTime < MaxFragTime
  /\ fragTime' = fragTime + 1
  /\ fragNet' = {d \in fragNet : fragTime + 1 - d.born <= Lifetime}
  /\ UNCHANGED <<frag_id, groups, fragSent, fragOut, fragGot>>

-----------------------------------------------------------------------------
(* Reassembler::insert *)

NoTotal == -1

(* insert of a map: a value that was there is replaced. *)
Put(f, k, v) == [x \in DOMAIN f \cup {k} |-> IF x = k THEN v ELSE f[x]]

GroupNew(h) ==
  [has_ext |-> FALSE, orig_ext |-> <<>>, flags |-> h.flags \ {"FRAGMENT", "HAS_EXTENSION"},
   version |-> h.version, min_compat_ver |-> h.min_compat_ver, hop_limit |-> h.hop_limit,
   src |-> h.src_addr, dst |-> h.dst_addr, chunks |-> <<>>, pos |-> 0,
   total |-> NoTotal, payload |-> <<>>, created |-> fragTime]

(* Mutant of Reap: expired groups stay. *)
ReapNone(gs) == gs

(* reap: expired groups go. *)
Reap(gs) ==
  RestrictDomain(gs, LAMBDA k : fragTime - gs[k].created < ReassemblyTimeout)

(* Checks made before the table is touched. *)
NotAFragment(h, payload) ==
  \/ "FRAGMENT" \notin h.flags
  \/ h.ext_headers = <<>> \/ h.ext_headers[1].ext_type # FragmentType
  \/ h.ext_headers[1].body.more /\ Len(payload) % 8 # 0

GroupFull(gs, key) == key \notin DOMAIN gs /\ Cardinality(DOMAIN gs) >= MaxGroups

(* The total a last fragment announces. *)
TotalAfter(g, more, end) == IF more THEN g.total ELSE end

Refused(g, start, end, more) ==
  \/ start < g.pos
  \/ g.total # NoTotal /\ end > g.total
  \/ ~more /\ (end > MaxGroupBytes \/ (g.total # NoTotal /\ g.total # end))

(* Consecutive chunks move from the map to the payload. *)
Advance(d) ==
  IF d.pos \notin DOMAIN d.chunks THEN d
  ELSE [d EXCEPT !.payload = @ \o d.chunks[d.pos],
                 !.pos = @ + Len(d.chunks[d.pos]),
                 !.chunks = Restrict(@, DOMAIN d.chunks \ {d.pos})]

Drain(g) ==
  LET drained[n \in Nat] == IF n = 0 THEN g ELSE Advance(drained[n - 1])
  IN drained[Cardinality(DOMAIN g.chunks)]

(* The group once the fragment is stored; a repeated start replaces the   *)
(* chunk before the overlap is reported, and nothing is drained then.     *)
Kept(g, h, payload, start, more) ==
  [g EXCEPT
     !.total = TotalAfter(g, more, start + Len(payload)),
     !.has_ext = @ \/ start = 0,
     !.orig_ext = IF start = 0 /\ ~g.has_ext THEN Tail(h.ext_headers) ELSE @,
     !.chunks = Put(@, start, payload)]

Stored(g, h, payload, start, more) ==
  LET kept == Kept(g, h, payload, start, more)
  IN IF start \in DOMAIN g.chunks THEN kept ELSE Drain(kept)

GroupDone(g) == g.total # NoTotal /\ g.pos = g.total

Rebuilt(g) ==
  LET h == [version |-> g.version, min_compat_ver |-> g.min_compat_ver,
            flags |-> g.flags, payload_len |-> g.total, hop_limit |-> g.hop_limit,
            next_header |-> 0, src_addr |-> g.src, dst_addr |-> g.dst,
            ext_headers |-> <<>>]
  IN Encode(AttachExtHeaders(h, g.orig_ext), g.payload)

Insert(d) ==
  LET h == d.header
      frag == h.ext_headers[1].body
      start == frag.offset * 8
      key == <<h.src_addr, h.dst_addr, frag.id>>
      live == Reap(groups)
      g == IF key \in DOMAIN live THEN live[key] ELSE GroupNew(h)
      g2 == Stored(g, h, d.payload, start, frag.more)
      taken == IF key \in DOMAIN live THEN fragGot[key] ELSE {}
  IN IF NotAFragment(h, d.payload) THEN UNCHANGED <<groups, fragOut, fragGot>>
     ELSE IF GroupFull(live, key)
     THEN groups' = live /\ fragGot' = Restrict(fragGot, DOMAIN live) /\ UNCHANGED fragOut
     ELSE IF Refused(g, start, start + Len(d.payload), frag.more)
     THEN /\ groups' = Put(live, key, g)
          /\ fragGot' = Put(Restrict(fragGot, DOMAIN live), key, taken)
          /\ UNCHANGED fragOut
     ELSE IF GroupDone(g2)
     THEN /\ groups' = Restrict(live, DOMAIN live \ {key})
          /\ fragGot' = Restrict(fragGot, DOMAIN live \ {key})
          /\ fragOut' = fragOut \cup {[key |-> key, wire |-> Rebuilt(g2)]}
     ELSE /\ groups' = Put(live, key, g2)
          /\ fragGot' = Put(Restrict(fragGot, DOMAIN live), key, taken \cup {<<start, d.payload>>})
          /\ UNCHANGED fragOut

(* handle_frame_at, Data: whole packets go up, fragments to the table. *)
ReceiveFragment(dg) ==
  /\ "FRAGMENT" \in dg.wire.flags
  /\ DecodeFault(dg.wire) = "none"
  /\ Insert(Decode(dg.wire).val)
  /\ fragNet' = fragNet \ {dg}
  /\ UNCHANGED <<frag_id, fragTime, fragSent>>

FragNext ==
  \/ \E s \in FragSenders, p \in FragPackets : SendFragmented(s, p)
  \/ \E dg \in fragNet : ReceiveFragment(dg)
  \/ FragTick

FragSpec == FragInit /\ [][FragNext]_fragVars

-----------------------------------------------------------------------------
FragTypeOK ==
  /\ frag_id \in [FragSenders -> 0..(FragIds - 1)]
  /\ Cardinality(DOMAIN groups) <= MaxGroups
  /\ \A k \in DOMAIN groups :
       /\ groups[k].pos = Len(groups[k].payload)
       /\ groups[k].total \in {NoTotal} \cup 0..MaxGroupBytes
       /\ groups[k].pos \notin DOMAIN groups[k].chunks
  /\ DOMAIN fragGot = DOMAIN groups

(* Two packets of a source had the same identifier too close together. *)
IdReusedSoon(key) ==
  \E x, y \in fragSent :
    x # y /\ x.key = key /\ y.key = key /\ y.at - x.at \in 0..(ReassemblyTimeout + Lifetime)

(* Whatever insert hands up is, header, extension chain and payload, a packet *)
(* that was sent: fragments of different packets are never put together,      *)
(* unless the source reused the identifier within the life of a fragment and  *)
(* of a group (engine.rs: the counter wraps, "no conflict in a short window   *)
(* is enough").                                                               *)
ReassembledIntact ==
  \A o \in fragOut :
    \/ IdReusedSoon(o.key)
    \/ \E x \in fragSent : x.key = o.key /\ o.wire = Ok(x.wire)

(* A group never keeps a packet all of whose fragments it has taken: insert   *)
(* hands the packet up with the fragment that completes it, in any order.     *)
NothingWithheld ==
  \A key \in DOMAIN groups : \A x \in fragSent :
    x.key = key /\ ~IdReusedSoon(key) =>
      LET fs == FragmentPacket(x.wire, Mtu, key[3])
      IN ~(/\ fs.ok /\ Len(fs.val) > 1
           /\ \A f \in Range(fs.val) :
                <<f.exts[1].body.offset * 8, f.tail>> \in fragGot[key])

(* Both, what reassembly promises: no packet that was not sent, and none kept *)
(* back once its last fragment is here.                                       *)
FragmentsFaithful == ReassembledIntact /\ NothingWithheld

=============================================================================
