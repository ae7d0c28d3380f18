------------------------------- MODULE MCSafe -------------------------------
(***************************************************************************)
(* The components checked for safety, each on its own small instance.  As  *)
(* in MCLive a behaviour runs one of them, chosen at the start, while the  *)
(* others stay in their initial states.                                    *)
(***************************************************************************)
EXTENDS Reassembly, MultiHop, Neighbours, Hook, Fec, Observe, Relay,
        Abuse, Resolver, StoreCache, Zone, Ans, L2Plane, Chord

VARIABLE active   \* the component that runs

-----------------------------------------------------------------------------
(* Constants that a cfg cannot write. *)

\* a packet of several fragments, and a shorter one with an extension header
TwoSizes == {[len |-> 30, exts |-> <<>>], [len |-> 20, exts |-> <<ExtHeader(5, 1, "trace")>>]}

\* the two directions of one conversation
BothWays ==
  {[readable |-> TRUE, proto |-> "udp", src |-> "x", dst |-> "y",
    words |-> <<5, 6>>, ports |-> <<5, 6>>],
   [readable |-> TRUE, proto |-> "udp", src |-> "y", dst |-> "x",
    words |-> <<6, 5>>, ports |-> <<6, 5>>]}

\* clocks ahead of true time by 1 and by 3
SomeOffsets == [a |-> 1, b |-> 3]

\* many arrivals, or an arrival between two receipts, or receipts alone over time
SomeBudgets ==
  {[arrivals |-> 3, reports |-> 0, time |-> 0],
   [arrivals |-> 1, reports |-> 2, time |-> 1],
   [arrivals |-> 0, reports |-> 2, time |-> 3]}

\* a party that rotates its key, and one that does not
SomeKeys == [p |-> {"k1", "k2"}, q |-> {"k3"}]

Req(a, k, n, sig) ==
  [readable |-> TRUE, version |-> 1, fits |-> TRUE, addr |-> a, cardAddr |-> a, name |-> n,
   caps |-> {"t"}, qos |-> a, cert |-> [addr |-> a, key |-> k, na |-> 9], sig |-> sig, pop |-> sig]

\* two agents after one name, a renaming, a change of key and a wrong signature
SomeRequests ==
  {Req(1, "k1", "m", "k1"), Req(1, "k1", "n", "k1"), Req(2, "k2", "m", "k2"),
   Req(1, "k3", "n", "k3"), Req(2, "k2", "n", "k1")}

\* one address whose region falls between the last node and the first
OneRegion == [p |-> 7]

OneTask == {[caps |-> {"t"}, count |-> 1, qos |-> 0, ms |-> 2000]}

-----------------------------------------------------------------------------
SafeInit ==
  /\ active \in {"reassembly", "multihop", "neighbours", "hook", "fec", "observe",
        "relays", "abuse", "resolver", "store", "zone", "ans", "l2", "chord"}
  /\ FragInit /\ MhInit /\ NeighInit /\ HookInit /\ FecInit /\ ObsInit /\ RelayInit /\ AbuseInit
  /\ ResInit /\ CacheInit /\ ZoneInit /\ AnsInit /\ L2Init /\ ChordInit
  \* one initial state for an idle component
  /\ active # "observe" => obsLeft.arrivals = 3
  /\ active # "resolver" => resBacked
  /\ active # "zone" => seeded

SafeNext ==
  \/ /\ active = "reassembly" /\ FragNext
     /\ UNCHANGED <<active, mhVars, neighVars, hookVars, fecVars, obsVars,
                    relayVars, abuseVars, resVars, cacheVars, zoneVars, ansVars,
                    l2Vars, chordVars>>
  \/ /\ active = "multihop" /\ MhNext
     /\ UNCHANGED <<active, fragVars, neighVars, hookVars, fecVars, obsVars,
                    relayVars, abuseVars, resVars, cacheVars, zoneVars, ansVars,
                    l2Vars, chordVars>>
  \/ /\ active = "neighbours" /\ NeighNext
     /\ UNCHANGED <<active, fragVars, mhVars, hookVars, fecVars, obsVars,
                    relayVars, abuseVars, resVars, cacheVars, zoneVars, ansVars,
                    l2Vars, chordVars>>
  \/ /\ active = "hook" /\ HookNext
     /\ UNCHANGED <<active, fragVars, mhVars, neighVars, fecVars, obsVars,
                    relayVars, abuseVars, resVars, cacheVars, zoneVars, ansVars,
                    l2Vars, chordVars>>
  \/ /\ active = "fec" /\ FecNext
     /\ UNCHANGED <<active, fragVars, mhVars, neighVars, hookVars, obsVars,
                    relayVars, abuseVars, resVars, cacheVars, zoneVars, ansVars,
                    l2Vars, chordVars>>
  \/ /\ active = "observe" /\ ObsNext
     /\ UNCHANGED <<active, fragVars, mhVars, neighVars, hookVars, fecVars,
                    relayVars, abuseVars, resVars, cacheVars, zoneVars, ansVars,
                    l2Vars, chordVars>>
  \/ /\ active = "relays" /\ RelayNext
     /\ UNCHANGED <<active, fragVars, mhVars, neighVars, hookVars, fecVars,
                    obsVars, abuseVars, resVars, cacheVars, zoneVars, ansVars,
                    l2Vars, chordVars>>
  \/ /\ active = "abuse" /\ AbuseNext
     /\ UNCHANGED <<active, fragVars, mhVars, neighVars, hookVars, fecVars,
                    obsVars, relayVars, resVars, cacheVars, zoneVars, ansVars,
                    l2Vars, chordVars>>
  \/ /\ active = "resolver" /\ ResNext
     /\ UNCHANGED <<active, fragVars, mhVars, neighVars, hookVars, fecVars,
                    obsVars, relayVars, abuseVars, cacheVars, zoneVars, ansVars,
                    l2Vars, chordVars>>
  \/ /\ active = "store" /\ CacheNext
     /\ UNCHANGED <<active, fragVars, mhVars, neighVars, hookVars, fecVars,
                    obsVars, relayVars, abuseVars, resVars, zoneVars, ansVars,
                    l2Vars, chordVars>>
  \/ /\ active = "zone" /\ ZoneNext
     /\ UNCHANGED <<active, fragVars, mhVars, neighVars, hookVars, fecVars,
                    obsVars, relayVars, abuseVars, resVars, cacheVars, ansVars,
                    l2Vars, chordVars>>
  \/ /\ active = "ans" /\ AnsNext
     /\ UNCHANGED <<active, fragVars, mhVars, neighVars, hookVars, fecVars,
                    obsVars, relayVars, abuseVars, resVars, cacheVars, zoneVars,
                    l2Vars, chordVars>>
  \/ /\ active = "l2" /\ L2Next
     /\ UNCHANGED <<active, fragVars, mhVars, neighVars, hookVars, fecVars,
                    obsVars, relayVars, abuseVars, resVars, cacheVars, zoneVars,
                    ansVars, chordVars>>
  \/ /\ active = "chord" /\ ChordNext
     /\ UNCHANGED <<active, fragVars, mhVars, neighVars, hookVars, fecVars,
                    obsVars, relayVars, abuseVars, resVars, cacheVars, zoneVars,
                    ansVars, l2Vars>>

safeVars == <<active, fragVars, mhVars, neighVars, hookVars, fecVars, obsVars,
             relayVars, abuseVars, resVars, cacheVars, zoneVars, ansVars, l2Vars,
             chordVars>>

SafeSpec == SafeInit /\ [][SafeNext]_safeVars

\* The state of every component keeps its shape.
SafeTypesOK ==
  /\ FragTypeOK /\ MhTypeOK /\ NeighTypeOK /\ HookTypeOK /\ FecTypeOK /\ ObsTypeOK
  /\ RelayTypeOK /\ AbuseTypeOK /\ ResTypeOK /\ CacheTypeOK /\ ZoneTypeOK /\ AnsTypeOK
  /\ L2TypeOK /\ ChordTypeOK
=============================================================================
