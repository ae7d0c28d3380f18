------------------------------- MODULE Codec -------------------------------
(***************************************************************************)
(* The IPv8+ packet codec (src/core/ipv8-codec): header, encode, decode and *)
(* fragment_packet, as operators.  A header is a record; a packet on the    *)
(* wire is the record of its fields in wire order, with the NextHeader      *)
(* pointers encode writes and the number of octets that arrived (size).     *)
(* Sizes are the code's, in octets; the limits are parameters.  An          *)
(* extension type is its number on the wire, a flag word the set of its     *)
(* bits, a result an error name or the value.                               *)
(***************************************************************************)
EXTENDS Integers, Sequences, SequencesExt, FiniteSetsExt

CONSTANTS
  MaxPayloadLen,   \* MAX_PAYLOAD_LEN, 65467
  MaxPacketLen,    \* MAX_PACKET_LEN, 65507
  MaxExtChain      \* MAX_EXT_CHAIN, 64

ASSUME CodecAssumption ==
  /\ MaxPayloadLen \in Nat /\ MaxPacketLen \in Nat /\ MaxExtChain \in Nat \ {0}

BaseHeaderSize == 40
FragExtWire == 10
Version == 8

(* Flags: QoS bits are left out; "R" stands for any reserved bit. *)
FlagBits == {"ENCRYPTED", "FRAGMENT", "HAS_EXTENSION", "R"}
RouteTraceType == 5
FragmentType == 6
IdentityTokenType == 1

DecodeErrors ==
  {"TooShort", "BadVersion", "PayloadTooLong", "PayloadBeyondBuffer",
   "PacketTooLong", "ExtHeaderTruncated", "TooManyExtHeaders", "ExtLenZero",
   "ExtChainCycle", "DecodeFlagMismatch"}
EncodeErrors ==
  {"BadVersion", "FieldOverflow", "ReservedBits", "PayloadTooLong",
   "PayloadLengthMismatch", "TooManyExtHeaders", "PacketTooLong",
   "NextHeaderMismatch", "EncodeFlagMismatch"}

Err(e) == [ok |-> FALSE, err |-> e]
Ok(v) == [ok |-> TRUE, val |-> v]

-----------------------------------------------------------------------------
(* header.rs *)

(* ExtensionHeader::new; a payload is its content and its length in units of *)
(* eight octets.                                                             *)
ExtHeader(type, units, body) == [ext_type |-> type, units |-> units, body |-> body]
LegalExt(e) == e.ext_type # 0 /\ e.units \in 1..255

WireSize(e) == 2 + 8 * e.units
ExtTotal(exts) ==
  LET sum[n \in 0..Len(exts)] == IF n = 0 THEN 0 ELSE sum[n - 1] + WireSize(exts[n])
  IN sum[Len(exts)]

FirstType(exts) == IF exts = <<>> THEN 0 ELSE exts[1].ext_type

NewHeader(src, dst, len) ==
  [version |-> Version, min_compat_ver |-> 0, flags |-> {}, payload_len |-> len,
   hop_limit |-> 64, next_header |-> 0, src_addr |-> src, dst_addr |-> dst,
   ext_headers |-> <<>>]

AttachExtHeaders(h, exts) ==
  [h EXCEPT !.next_header = FirstType(exts),
            !.flags = IF exts = <<>> THEN @ \ {"HAS_EXTENSION"}
                                     ELSE @ \cup {"HAS_EXTENSION"},
            !.ext_headers = exts]

-----------------------------------------------------------------------------
(* encode.rs *)

EncodeFault(h, payload) ==
  CASE Len(payload) # h.payload_len -> "PayloadLengthMismatch"
    [] h.version # Version -> "BadVersion"
    [] h.min_compat_ver > 15 -> "FieldOverflow"
    [] "R" \in h.flags -> "ReservedBits"
    [] h.payload_len > MaxPayloadLen -> "PayloadTooLong"
    [] Len(h.ext_headers) > MaxExtChain -> "TooManyExtHeaders"
    [] BaseHeaderSize + ExtTotal(h.ext_headers) + h.payload_len > MaxPacketLen -> "PacketTooLong"
    [] h.next_header # FirstType(h.ext_headers) -> "NextHeaderMismatch"
    [] ("HAS_EXTENSION" \in h.flags) # (h.ext_headers # <<>>) -> "EncodeFlagMismatch"
    [] OTHER -> "none"

(* Each extension header is written behind the type of its successor. *)
WireExts(exts) ==
  [i \in DOMAIN exts |->
     [next |-> IF i < Len(exts) THEN exts[i + 1].ext_type ELSE 0,
      units |-> exts[i].units, body |-> exts[i].body]]

Encode(h, payload) ==
  IF EncodeFault(h, payload) # "none" THEN Err(EncodeFault(h, payload))
  ELSE Ok([version |-> h.version, min_compat_ver |-> h.min_compat_ver,
           flags |-> h.flags, payload_len |-> h.payload_len,
           hop_limit |-> h.hop_limit, next_header |-> h.next_header,
           src_addr |-> h.src_addr, dst_addr |-> h.dst_addr,
           exts |-> WireExts(h.ext_headers), tail |-> payload,
           size |-> BaseHeaderSize + ExtTotal(h.ext_headers) + Len(payload)])

-----------------------------------------------------------------------------
(* decode.rs *)

(* The type of the i-th header of the chain, by the pointer before it. *)
TypeAt(w, i) == IF i = 1 THEN w.next_header ELSE w.exts[i - 1].next

(* The cursor once the first i headers are read. *)
CursorAfter(w, i) == BaseHeaderSize + ExtTotal(SubSeq(w.exts, 1, i))

(* The headers the loop visits: up to the first null pointer. *)
Chain(w) ==
  IF w.next_header = 0 THEN {}
  ELSE {i \in DOMAIN w.exts : \A j \in 1..(i - 1) : w.exts[j].next # 0}

ExtFault(w, i) ==
  CASE \E j \in 1..(i - 1) : TypeAt(w, j) = TypeAt(w, i) -> "ExtChainCycle"
    [] CursorAfter(w, i - 1) + 2 > w.size -> "ExtHeaderTruncated"
    [] w.exts[i].units = 0 -> "ExtLenZero"
    [] CursorAfter(w, i) > w.size -> "ExtHeaderTruncated"
    [] i > MaxExtChain -> "TooManyExtHeaders"
    [] OTHER -> "none"
ChainFaults(w) == {i \in Chain(w) : ExtFault(w, i) # "none"}
ChainFault(w) == IF ChainFaults(w) = {} THEN "none" ELSE ExtFault(w, Min(ChainFaults(w)))

PayloadEnd(w) == CursorAfter(w, Cardinality(Chain(w))) + w.payload_len

DecodeFault(w) ==
  CASE w.size < BaseHeaderSize -> "TooShort"
    [] w.version # Version -> "BadVersion"
    [] w.payload_len > MaxPayloadLen -> "PayloadTooLong"
    [] ChainFault(w) # "none" -> ChainFault(w)
    [] ("HAS_EXTENSION" \in w.flags) # (Chain(w) # {}) -> "DecodeFlagMismatch"
    [] PayloadEnd(w) > w.size -> "PayloadBeyondBuffer"
    [] PayloadEnd(w) > MaxPacketLen -> "PacketTooLong"
    [] OTHER -> "none"

Decode(w) ==
  IF DecodeFault(w) # "none" THEN Err(DecodeFault(w))
  ELSE Ok([header |->
             [version |-> w.version, min_compat_ver |-> w.min_compat_ver,
              flags |-> w.flags, payload_len |-> w.payload_len,
              hop_limit |-> w.hop_limit, next_header |-> w.next_header,
              src_addr |-> w.src_addr, dst_addr |-> w.dst_addr,
              ext_headers |->
                [i \in 1..Cardinality(Chain(w)) |->
                   ExtHeader(TypeAt(w, i), w.exts[i].units, w.exts[i].body)]],
           payload |-> SubSeq(w.tail, 1, w.payload_len)])

-----------------------------------------------------------------------------
(* fragment.rs, sending side *)

OffsetRange == 8192   \* the offset has 13 bits

FragmentExt(id, offset, more) ==
  ExtHeader(FragmentType, 1, [id |-> id, offset |-> offset % OffsetRange, more |-> more])

(* chunk: what a fragment may carry, a multiple of eight. *)
ChunkOf(max_len, exts) ==
  LET overhead == BaseHeaderSize + FragExtWire + ExtTotal(exts)
  IN IF max_len < overhead THEN 0 ELSE ((max_len - overhead) \div 8) * 8

FragmentFault(w, max_len) ==
  LET d == Decode(w).val
  IN CASE DecodeFault(w) # "none" -> "NotAValidPacket"
       [] \E i \in DOMAIN d.header.ext_headers :
            d.header.ext_headers[i].ext_type = FragmentType -> "AlreadyFragmented"
       [] w.size > max_len /\ ChunkOf(max_len, d.header.ext_headers) < 8 -> "MtuTooSmall"
       [] OTHER -> "none"

(* The fragment that starts at pos of the payload. *)
FragmentAt(d, chunk, id, pos) ==
  LET take == Min({chunk, Len(d.payload) - pos})
      frag == FragmentExt(id, pos \div 8, pos + take < Len(d.payload))
      h == [d.header EXCEPT !.flags = @ \ {"HAS_EXTENSION", "FRAGMENT"},
                            !.payload_len = take]
      whole == AttachExtHeaders(h, IF pos = 0 THEN <<frag>> \o d.header.ext_headers
                                              ELSE <<frag>>)
  IN Encode([whole EXCEPT !.flags = @ \cup {"FRAGMENT"}],
            SubSeq(d.payload, pos + 1, pos + take))

FragmentPacket(w, max_len, id) ==
  LET d == Decode(w).val
      chunk == ChunkOf(max_len, d.header.ext_headers)
      n == (Len(d.payload) + chunk - 1) \div chunk
      cut == [k \in 1..n |-> FragmentAt(d, chunk, id, (k - 1) * chunk)]
  IN CASE FragmentFault(w, max_len) # "none" -> Err(FragmentFault(w, max_len))
       [] FragmentFault(w, max_len) = "none" /\ w.size <= max_len -> Ok(<<w>>)
       [] OTHER -> IF \E k \in 1..n : ~cut[k].ok THEN Err("NotAValidPacket")
                                                ELSE Ok([k \in 1..n |-> cut[k].val])

=============================================================================
