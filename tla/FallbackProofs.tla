--------------------------- MODULE FallbackProofs ---------------------------
(***************************************************************************)
(* Proofs about Fallback for every retry budget, degradation TTL and set   *)
(* of resolver answers.                                                    *)
(***************************************************************************)
EXTENDS Fallback, TLAPS

-----------------------------------------------------------------------------
(* The inductive invariant. *)

(* A list names no entry twice, and the main entry is not its own backup. *)
Distinct(main, alts) ==
  /\ \A i, j \in 1 .. Len(alts) : alts[i] = alts[j] => i = j
  /\ \A i \in 1 .. Len(alts) : alts[i] # main

(* What the budgets are counted for: an answer that lists an entry twice    *)
(* gives that entry two budgets.                                            *)
DistinctEntries == \A r \in Resolutions : Distinct(r.tunnel_entry, r.alt_entries)

(* The path of a state, once its degradation has been looked at. *)
PathOf(s) == IF s.level \in PlainLevels THEN Plain(s.level) ELSE Tunnel(CurrentEntry(s))

(* An attempt under way is an attempt on the current level and entry. *)
PathCurrent == path # NoPath => path = PathOf(peer)

(* The cascade so far: the entries before the current one have used their   *)
(* budgets, the current one what failures says, the later ones nothing.     *)
CascadeSpent ==
  LET alts == peer.alt_entries
      full == MaxRetries + 1
  IN /\ peer.level = "MainTunnel" =>
          /\ spent[peer.tunnel_entry] = peer.failures
          /\ \A i \in 1 .. Len(alts) : spent[alts[i]] = 0
     /\ peer.level = "AltTunnel" =>
          /\ spent[peer.tunnel_entry] = full
          /\ \A i \in 1 .. Len(alts) :
               spent[alts[i]] = IF i < peer.alt_idx THEN full
                                ELSE IF i = peer.alt_idx THEN peer.failures ELSE 0
     /\ peer.level \in PlainLevels /\ peer.ipv8_capable =>
          /\ spent[peer.tunnel_entry] = full
          /\ \A i \in 1 .. Len(alts) : spent[alts[i]] = full

Inv ==
  /\ TypeOK /\ Distinct(peer.tunnel_entry, peer.alt_entries)
  /\ PathCurrent /\ CascadeSpent

-----------------------------------------------------------------------------
(* Lemmas. *)

\* Vec::remove of an entry that is listed once: the others close up.
LEMMA RemoveFirstOnce ==
  ASSUME NEW S, NEW s \in Seq(S), NEW i \in 1 .. Len(s),
         \A j \in 1 .. Len(s) : s[j] = s[i] => j = i
  PROVE  /\ RemoveFirst(s, s[i]) \in Seq(S)
         /\ Len(RemoveFirst(s, s[i])) = Len(s) - 1
         /\ \A k \in 1 .. Len(s) - 1 :
              RemoveFirst(s, s[i])[k] = IF k < i THEN s[k] ELSE s[k + 1]
<1>. DEFINE I == {j \in 1 .. Len(s) : s[j] = s[i]}
<1>1. I = {i}
  OBVIOUS
<1>2. Min(I) = i
  BY <1>1 DEF Min
<1>3. RemoveFirst(s, s[i]) = RemoveAt(s, i)
  <2>1. SelectInSeq(s, LAMBDA v : v = s[i]) = IF I # {} THEN Min(I) ELSE 0
    BY DEF SelectInSeq
  <2>2. SelectInSeq(s, LAMBDA v : v = s[i]) = i
    BY <2>1, <1>1, <1>2
  <2>. QED BY <2>2 DEF RemoveFirst
<1>4. RemoveAt(s, i) = SubSeq(s, 1, i - 1) \o SubSeq(s, i + 1, Len(s))
  BY DEF RemoveAt
<1>. DEFINE a == SubSeq(s, 1, i - 1)
            b == SubSeq(s, i + 1, Len(s))
<1>5. a \in Seq(S) /\ Len(a) = i - 1 /\ \A k \in 1 .. i - 1 : a[k] = s[k]
  OBVIOUS
<1>6. b \in Seq(S) /\ Len(b) = Len(s) - i /\ \A k \in 1 .. Len(s) - i : b[k] = s[i + k]
  OBVIOUS
<1>. HIDE DEF a, b
<1>7. a \o b \in Seq(S) /\ Len(a \o b) = Len(s) - 1
  <2>1. a \in Seq(S) /\ b \in Seq(S)
    BY <1>5, <1>6
  <2>2. a \o b \in Seq(S) /\ Len(a \o b) = Len(a) + Len(b)
    BY <2>1
  <2>. QED BY <2>2, <1>5, <1>6
<1>8. ASSUME NEW k \in 1 .. Len(s) - 1
      PROVE  (a \o b)[k] = IF k < i THEN s[k] ELSE s[k + 1]
  <2>1. CASE k < i
    BY <1>5, <1>6, <2>1
  <2>2. CASE ~(k < i)
    <3>1. (a \o b)[k] = b[k - (i - 1)] /\ k - (i - 1) \in 1 .. Len(s) - i
      BY <1>5, <1>6, <2>2
    <3>2. i + (k - (i - 1)) = k + 1
      OBVIOUS
    <3>. QED BY <1>6, <2>2, <3>1, <3>2
  <2>. QED BY <2>1, <2>2
<1>. QED BY <1>3, <1>4, <1>7, <1>8 DEF a, b

\* What a resolver answers is typed.
LEMMA AnswerTyped ==
  ASSUME NEW r \in Resolutions
  PROVE  /\ r.tunnel_entry \in AllEntries /\ r.alt_entries \in Seq(AllEntries)
         /\ r.ipv8_capable \in BOOLEAN
<1>1. Entries(r) \subseteq AllEntries
  BY DEF AllEntries
<1>2. r.tunnel_entry \in Entries(r) /\ Range(r.alt_entries) \subseteq Entries(r)
  BY DEF Entries
<1>3. r.alt_entries \in Seq(Range(r.alt_entries)) /\ r.ipv8_capable \in BOOLEAN
  BY ResolutionsAssumption
<1>4. r.alt_entries \in Seq(AllEntries)
  <2>. DEFINE R == Range(r.alt_entries)
  <2>. HIDE DEF R
  <2>1. R \subseteq AllEntries /\ r.alt_entries \in Seq(R)
    BY <1>1, <1>2, <1>3 DEF R
  <2>. QED BY <2>1
<1>. QED BY <1>1, <1>2, <1>3, <1>4

\* The current entry is one of the entries of the state.
LEMMA CurrentEntryListed ==
  ASSUME TypeOK, peer.level \in TunnelLevels
  PROVE  /\ peer.level = "MainTunnel" => CurrentEntry(peer) = peer.tunnel_entry
         /\ peer.level = "AltTunnel" =>
              /\ peer.alt_idx \in 1 .. Len(peer.alt_entries)
              /\ CurrentEntry(peer) = peer.alt_entries[peer.alt_idx]
         /\ CurrentEntry(peer) \in AllEntries
  BY DEF TypeOK, PeerStates, TunnelLevels, CurrentEntry

\* The two families of levels do not meet.
LEMMA LevelsApart ==
  /\ \A l \in TunnelLevels : l \notin PlainLevels
  /\ "MainTunnel" \in TunnelLevels /\ "AltTunnel" \in TunnelLevels
  /\ \A l : l \in TunnelLevels <=> l = "MainTunnel" \/ l = "AltTunnel"
  BY DEF TunnelLevels, PlainLevels

\* Beginning at the top again, nothing spent, establishes the cascade.
LEMMA TopInv ==
  ASSUME TypeOK', Distinct(peer'.tunnel_entry, peer'.alt_entries), PathCurrent',
         peer'.level = "MainTunnel", peer'.failures = 0, spent' = NothingSpent
  PROVE  Inv'
<1>1. peer'.tunnel_entry \in AllEntries /\ peer'.alt_entries \in Seq(AllEntries)
  BY DEF TypeOK, PeerStates
<1>2. CascadeSpent'
  BY <1>1 DEF CascadeSpent, NothingSpent, PlainLevels
<1>. QED BY <1>2 DEF Inv

\* FromTheTop is a state at the main entry with nothing counted.
LEMMA TopTyped ==
  ASSUME NEW s \in PeerStates
  PROVE  /\ FromTheTop(s) \in PeerStates /\ FromTheTop(s).level = "MainTunnel"
         /\ FromTheTop(s).failures = 0 /\ FromTheTop(s).degraded = NotDegraded
         /\ FromTheTop(s).alt_entries = s.alt_entries
         /\ FromTheTop(s).tunnel_entry = s.tunnel_entry
<1>1. "MainTunnel" \in Levels /\ NotDegraded \in Stamps /\ 0 \in 0 .. MaxRetries
      /\ 1 \in Nat \ {0}
  BY FallbackAssumption DEF Levels, TunnelLevels, Stamps
<1>. QED BY <1>1 DEF FromTheTop, PeerStates

-----------------------------------------------------------------------------
(* The invariant is inductive: one lemma per action. *)

\* note_resolved begins a cascade, or puts a peer without IPv8+ in plaintext.
LEMMA ResolveInv ==
  ASSUME DistinctEntries, Inv, NEW r \in Resolutions, Resolve(r)
  PROVE  Inv'
<1>. DEFINE known == [peer EXCEPT !.tunnel_entry = r.tunnel_entry,
                                  !.alt_entries = r.alt_entries,
                                  !.ipv8_capable = r.ipv8_capable,
                                  !.last_good = r.last_good]
<1>1. peer \in PeerStates /\ peer' = NoteResolved(peer, r) /\ path' = NoPath
      /\ spent' = NothingSpent
  BY DEF Inv, TypeOK, Resolve
<1>2. /\ known \in PeerStates /\ known.tunnel_entry = r.tunnel_entry
      /\ known.alt_entries = r.alt_entries /\ known.ipv8_capable = r.ipv8_capable
  BY <1>1, AnswerTyped DEF PeerStates, LastGood
<1>3. peer' = IF r.ipv8_capable
                THEN FromTheTop(known)
                ELSE [known EXCEPT !.level = "PlainTcp", !.degraded = NotDegraded]
  BY <1>1 DEF NoteResolved
<1>. HIDE DEF known
<1>4. spent' \in [AllEntries -> 0 .. MaxRetries + 1]
  BY <1>1, FallbackAssumption DEF NothingSpent
<1>5. Distinct(r.tunnel_entry, r.alt_entries) /\ PathCurrent'
  BY <1>1 DEF DistinctEntries, PathCurrent
<1>6. CASE r.ipv8_capable
  <2>1. /\ peer' \in PeerStates /\ peer'.level = "MainTunnel" /\ peer'.failures = 0
        /\ peer'.degraded = NotDegraded
        /\ peer'.tunnel_entry = r.tunnel_entry /\ peer'.alt_entries = r.alt_entries
    BY <1>2, <1>3, <1>6, TopTyped
  <2>2. TypeOK'
    BY <2>1, <1>4 DEF TypeOK
  <2>. QED BY <2>1, <2>2, <1>1, <1>5, TopInv
<1>7. CASE ~r.ipv8_capable
  <2>1. /\ peer' \in PeerStates /\ peer'.level = "PlainTcp" /\ peer'.degraded = NotDegraded
        /\ peer'.ipv8_capable = FALSE
        /\ peer'.tunnel_entry = r.tunnel_entry /\ peer'.alt_entries = r.alt_entries
    <3>1. "PlainTcp" \in Levels /\ NotDegraded \in Stamps
      BY DEF Levels, PlainLevels, Stamps
    <3>. QED BY <1>2, <1>3, <1>7, <3>1, AnswerTyped DEF PeerStates
  <2>2. TypeOK' /\ CascadeSpent'
    BY <2>1, <1>4 DEF TypeOK, CascadeSpent, TunnelLevels
  <2>. QED BY <2>1, <2>2, <1>5 DEF Inv
<1>. QED BY <1>6, <1>7

\* next_path starts a cascade anew when the TTL has run out, else it only
\* stamps the degradation.
LEMMA AskPathInv ==
  ASSUME Inv, AskPath
  PROVE  Inv'
<1>1. /\ TypeOK /\ peer \in PeerStates /\ peer' = NextPathState(peer)
      /\ path' = NextPath(peer)
      /\ spent' = IF DegradationOver(peer) THEN NothingSpent ELSE spent
  BY DEF Inv, TypeOK, AskPath
<1>2. PathCurrent'
  BY <1>1 DEF PathCurrent, PathOf, NextPath
<1>3. CASE DegradationOver(peer)
  <2>1. peer' = FromTheTop(peer) /\ spent' = NothingSpent
    BY <1>1, <1>3, FallbackAssumption DEF NextPathState, DegradationOver
  <2>2. /\ peer' \in PeerStates /\ peer'.level = "MainTunnel" /\ peer'.failures = 0
        /\ peer'.degraded = NotDegraded /\ peer'.alt_entries = peer.alt_entries
        /\ peer'.tunnel_entry = peer.tunnel_entry
    BY <1>1, <2>1, TopTyped
  <2>3. TypeOK'
    BY <2>1, <2>2, FallbackAssumption DEF TypeOK, NothingSpent
  <2>. QED BY <2>1, <2>2, <2>3, <1>2, TopInv DEF Inv
<1>4. CASE ~DegradationOver(peer)
  <2>1. /\ peer' \in PeerStates /\ peer'.level = peer.level
        /\ peer'.failures = peer.failures /\ peer'.alt_idx = peer.alt_idx
        /\ peer'.alt_entries = peer.alt_entries
        /\ peer'.tunnel_entry = peer.tunnel_entry
        /\ peer'.ipv8_capable = peer.ipv8_capable
        /\ peer.level \in TunnelLevels => peer'.degraded = peer.degraded
    <3>1. \/ peer' = peer
          \/ peer.level \in PlainLevels /\ peer' = [peer EXCEPT !.degraded = 0]
      BY <1>1, <1>4 DEF NextPathState
    <3>2. 0 \in Stamps
      BY FallbackAssumption DEF Stamps
    <3>. QED BY <1>1, <3>1, <3>2, LevelsApart DEF PeerStates
  <2>2. spent' = spent
    BY <1>1, <1>4
  <2>3. TypeOK'
    BY <1>1, <2>1, <2>2 DEF TypeOK
  <2>4. CascadeSpent'
    BY <2>1, <2>2 DEF Inv, CascadeSpent
  <2>. QED BY <2>1, <2>3, <2>4, <1>2 DEF Inv
<1>. QED BY <1>3, <1>4

\* record_failure charges the entry tried, and moves on when its budget is used.
LEMMA FailInv ==
  ASSUME Inv, NEW f \in Failures, Fail(f)
  PROVE  Inv'
<1>. DEFINE full == MaxRetries + 1
            alts == peer.alt_entries
            Charged(n) == IF f = "FirstPacketTimeout" THEN full
                          ELSE IF n > MaxRetries THEN n ELSE n + 1
<1>1. /\ TypeOK /\ peer \in PeerStates /\ path = PathOf(peer)
      /\ peer' = RecordFailure(peer, f) /\ path' = NoPath
      /\ spent \in [AllEntries -> 0 .. full]
  BY DEF Inv, TypeOK, Fail, PathCurrent
<1>2. spent' = [spent EXCEPT ![path.entry] = Charged(@)]
  BY DEF Fail
<1>3. /\ spent' \in [AllEntries -> 0 .. full]
      /\ \A e \in AllEntries : e # path.entry => spent'[e] = spent[e]
      /\ path.entry \in AllEntries => spent'[path.entry] = Charged(spent[path.entry])
  <2>1. \A n \in 0 .. full : Charged(n) \in 0 .. full
    BY FallbackAssumption
  <2>. HIDE DEF Charged, full
  <2>. QED BY <1>1, <1>2, <2>1
<1>4. PathCurrent'
  BY <1>1 DEF PathCurrent
<1>5. MaxRetries \in Nat
  BY FallbackAssumption
<1>6. CASE peer.level \in PlainLevels
  <2>1. /\ peer' \in PeerStates /\ peer'.level \in PlainLevels
        /\ peer'.alt_entries = alts /\ peer'.tunnel_entry = peer.tunnel_entry
        /\ peer'.ipv8_capable = peer.ipv8_capable
    <3>1. "PlainUdp" \in Levels /\ "PlainUdp" \in PlainLevels
      BY DEF Levels, PlainLevels
    <3>2. peer' = peer \/ peer' = [peer EXCEPT !.level = "PlainUdp"]
      BY <1>1, <1>6 DEF RecordFailure, PlainLevels, TunnelLevels
    <3>. QED BY <1>1, <1>6, <3>1, <3>2 DEF PeerStates
  <2>2. TypeOK'
    BY <2>1, <1>3, LevelsApart DEF TypeOK
  <2>3. \A e \in AllEntries : spent[e] = full => spent'[e] = full
    BY <1>1, <1>3, <1>5
  <2>4. CascadeSpent'
    BY <2>1, <2>3, <1>1, <1>6, LevelsApart DEF Inv, CascadeSpent, PeerStates
  <2>. QED BY <2>1, <2>2, <2>4, <1>4 DEF Inv
<1>7. CASE peer.level \in TunnelLevels
  <2>. DEFINE cur == CurrentEntry(peer)
  <2>1. /\ cur \in AllEntries
        /\ peer.level = "MainTunnel" => cur = peer.tunnel_entry
        /\ peer.level = "AltTunnel" =>
             peer.alt_idx \in 1 .. Len(alts) /\ cur = alts[peer.alt_idx]
    BY <1>1, <1>7, CurrentEntryListed
  <2>2. path.entry = cur
    BY <1>1, <1>7, LevelsApart DEF PathOf, Tunnel
  <2>. HIDE DEF cur
  <2>3. /\ alts \in Seq(AllEntries) /\ peer.tunnel_entry \in AllEntries
        /\ Distinct(peer.tunnel_entry, alts) /\ peer.failures \in 0 .. MaxRetries
        /\ peer.degraded = NotDegraded
    BY <1>1, <1>7 DEF Inv, PeerStates, TypeOK
  <2>4. spent[cur] = peer.failures
    BY <1>7, <2>1, LevelsApart DEF Inv, CascadeSpent
  <2>5. /\ peer.tunnel_entry # cur => spent'[peer.tunnel_entry] = spent[peer.tunnel_entry]
        /\ \A i \in 1 .. Len(alts) :
             alts[i] # cur => spent'[alts[i]] = spent[alts[i]]
    BY <2>2, <2>3, <1>3
  <2>6. peer.level = "MainTunnel" => \A i \in 1 .. Len(alts) : alts[i] # cur
    BY <2>1, <2>3 DEF Distinct
  <2>7. peer.level = "AltTunnel" =>
           /\ cur # peer.tunnel_entry
           /\ \A i \in 1 .. Len(alts) : i # peer.alt_idx => alts[i] # cur
    BY <2>1, <2>3 DEF Distinct
  <2>8. /\ peer.level = "MainTunnel" => \A i \in 1 .. Len(alts) : spent[alts[i]] = 0
        /\ peer.level = "AltTunnel" =>
             /\ spent[peer.tunnel_entry] = full
             /\ \A i \in 1 .. Len(alts) :
                  spent[alts[i]] = IF i < peer.alt_idx THEN full
                                   ELSE IF i = peer.alt_idx THEN peer.failures ELSE 0
    BY DEF Inv, CascadeSpent
  <2>9. CASE RetriesEntry(peer, f)
    <3>1. peer' = [peer EXCEPT !.failures = @ + 1] /\ peer.failures + 1 <= MaxRetries
          /\ f # "FirstPacketTimeout"
      BY <1>1, <1>7, <2>9, LevelsApart DEF RecordFailure, RetriesEntry, PlainLevels
    <3>2. /\ peer' \in PeerStates /\ peer'.level = peer.level
          /\ peer'.failures = peer.failures + 1 /\ peer'.alt_idx = peer.alt_idx
          /\ peer'.alt_entries = alts /\ peer'.tunnel_entry = peer.tunnel_entry
          /\ peer'.degraded = peer.degraded
      <4>1. peer.failures + 1 \in 0 .. MaxRetries
        BY <3>1, <2>3, <1>5
      <4>. HIDE DEF alts
      <4>2. /\ peer' \in PeerStates /\ peer'.level = peer.level
            /\ peer'.failures = peer.failures + 1 /\ peer'.alt_idx = peer.alt_idx
            /\ peer'.alt_entries = peer.alt_entries
            /\ peer'.tunnel_entry = peer.tunnel_entry
            /\ peer'.degraded = peer.degraded
        BY <4>1, <3>1, <1>1 DEF PeerStates
      <4>. QED BY <4>2 DEF alts
    <3>3. spent'[cur] = peer.failures + 1
      <4>1. spent'[cur] = Charged(peer.failures)
        BY <2>1, <2>2, <2>4, <1>3
      <4>. QED BY <4>1, <3>1, <2>3, <1>5
    <3>4. TypeOK'
      BY <3>2, <1>1, <1>3 DEF TypeOK
    <3>5. CascadeSpent'
      <4>1. CASE peer.level = "MainTunnel"
        <5>1. \A i \in 1 .. Len(alts) : spent'[alts[i]] = 0
          BY <4>1, <2>5, <2>6, <2>8
        <5>2. spent'[peer.tunnel_entry] = peer.failures + 1
          BY <4>1, <3>3, <2>1
        <5>. QED BY <4>1, <5>1, <5>2, <3>2 DEF CascadeSpent, PlainLevels
      <4>2. CASE peer.level = "AltTunnel"
        <5>1. spent'[peer.tunnel_entry] = full
          BY <4>2, <2>5, <2>7, <2>8
        <5>2. ASSUME NEW i \in 1 .. Len(alts)
              PROVE  spent'[alts[i]] = IF i < peer.alt_idx THEN full
                                       ELSE IF i = peer.alt_idx THEN peer.failures + 1 ELSE 0
          <6>1. CASE i = peer.alt_idx
            BY <4>2, <6>1, <3>3, <2>1
          <6>2. CASE i # peer.alt_idx
            BY <4>2, <6>2, <2>5, <2>7, <2>8
          <6>. QED BY <6>1, <6>2
        <5>. QED BY <4>2, <5>1, <5>2, <3>2 DEF CascadeSpent, PlainLevels
      <4>. QED BY <4>1, <4>2, <1>7, LevelsApart
    <3>. QED BY <3>2, <3>4, <3>5, <2>3, <1>4 DEF Inv
  <2>10. ASSUME ~RetriesEntry(peer, f) PROVE spent'[cur] = full
    BY <2>10, <1>3, <1>5, <2>1, <2>2, <2>3, <2>4 DEF RetriesEntry
  <2>11. CASE ~RetriesEntry(peer, f) /\ NextAlt(peer) <= Len(alts)
    <3>1. peer' = [peer EXCEPT !.failures = 0, !.alt_idx = NextAlt(peer),
                               !.level = "AltTunnel"]
      BY <1>1, <1>7, <2>11, LevelsApart DEF RecordFailure, PlainLevels
    <3>2. NextAlt(peer) \in Nat \ {0}
      BY <1>1 DEF NextAlt, PeerStates
    <3>3. /\ peer' \in PeerStates /\ peer'.level = "AltTunnel"
          /\ peer'.failures = 0 /\ peer'.alt_idx = NextAlt(peer)
          /\ peer'.alt_entries = alts /\ peer'.tunnel_entry = peer.tunnel_entry
          /\ peer'.degraded = peer.degraded
      <4>1. "AltTunnel" \in Levels /\ 0 \in 0 .. MaxRetries
        BY <1>5 DEF Levels, TunnelLevels
      <4>. QED BY <4>1, <3>1, <3>2, <1>1 DEF PeerStates
    <3>4. TypeOK'
      BY <3>3, <2>3, <2>11, <1>3 DEF TypeOK
    <3>5. CascadeSpent'
      <4>1. CASE peer.level = "MainTunnel"
        <5>1. NextAlt(peer) = 1
          BY <4>1 DEF NextAlt
        <5>2. spent'[peer.tunnel_entry] = full
          BY <4>1, <2>1, <2>10, <2>11
        <5>3. \A i \in 1 .. Len(alts) : spent'[alts[i]] = 0
          BY <4>1, <2>5, <2>6, <2>8
        <5>. QED BY <5>1, <5>2, <5>3, <3>3 DEF CascadeSpent, PlainLevels
      <4>2. CASE peer.level = "AltTunnel"
        <5>1. NextAlt(peer) = peer.alt_idx + 1
          BY <4>2 DEF NextAlt
        <5>2. spent'[peer.tunnel_entry] = full
          BY <4>2, <2>5, <2>7, <2>8
        <5>3. ASSUME NEW i \in 1 .. Len(alts)
              PROVE  spent'[alts[i]] = IF i < peer.alt_idx + 1 THEN full ELSE 0
          <6>1. CASE i = peer.alt_idx
            BY <4>2, <6>1, <2>1, <2>10, <2>11
          <6>2. CASE i # peer.alt_idx
            BY <4>2, <6>2, <2>1, <2>5, <2>7, <2>8
          <6>. QED BY <6>1, <6>2
        <5>. QED BY <5>1, <5>2, <5>3, <3>3 DEF CascadeSpent, PlainLevels
      <4>. QED BY <4>1, <4>2, <1>7, LevelsApart
    <3>. QED BY <3>3, <3>4, <3>5, <2>3, <1>4 DEF Inv
  <2>12. CASE ~RetriesEntry(peer, f) /\ ~(NextAlt(peer) <= Len(alts))
    <3>1. peer' = [peer EXCEPT !.failures = 0, !.alt_idx = 1, !.level = "PlainTcp",
                               !.degraded = 0]
      BY <1>1, <1>7, <2>12, LevelsApart DEF RecordFailure, PlainLevels
    <3>2. /\ peer' \in PeerStates /\ peer'.level = "PlainTcp"
          /\ peer'.alt_entries = alts /\ peer'.tunnel_entry = peer.tunnel_entry
      <4>1. /\ "PlainTcp" \in Levels /\ 0 \in Stamps /\ 0 \in 0 .. MaxRetries
            /\ 1 \in Nat \ {0}
        BY FallbackAssumption DEF Levels, PlainLevels, Stamps
      <4>. QED BY <4>1, <3>1, <1>1 DEF PeerStates
    <3>3. TypeOK'
      BY <3>2, <1>3 DEF TypeOK, TunnelLevels
    <3>4. CascadeSpent'
      <4>1. CASE peer.level = "MainTunnel"
        <5>1. Len(alts) = 0
          BY <4>1, <2>3, <2>12 DEF NextAlt
        <5>. QED BY <4>1, <5>1, <3>2, <2>1, <2>10, <2>12 DEF CascadeSpent
      <4>2. CASE peer.level = "AltTunnel"
        <5>1. peer.alt_idx = Len(alts)
          BY <4>2, <2>1, <2>3, <2>12 DEF NextAlt
        <5>2. spent'[peer.tunnel_entry] = full
          BY <4>2, <2>5, <2>7, <2>8
        <5>3. ASSUME NEW i \in 1 .. Len(alts) PROVE spent'[alts[i]] = full
          <6>1. CASE i = peer.alt_idx
            BY <4>2, <6>1, <2>1, <2>10, <2>12
          <6>2. CASE i # peer.alt_idx
            BY <4>2, <5>1, <6>2, <2>5, <2>7, <2>8
          <6>. QED BY <6>1, <6>2
        <5>. QED BY <5>2, <5>3, <3>2 DEF CascadeSpent
      <4>. QED BY <4>1, <4>2, <1>7, LevelsApart
    <3>. QED BY <3>2, <3>3, <3>4, <2>3, <1>4 DEF Inv
  <2>. QED BY <2>9, <2>11, <2>12
<1>. QED BY <1>1, <1>6, <1>7 DEF PeerStates, Levels

\* record_success promotes the backup that worked; the rest stays distinct.
LEMMA SucceedInv ==
  ASSUME Inv, Succeed
  PROVE  Inv'
<1>. DEFINE alts == peer.alt_entries
            cur == CurrentEntry(peer)
<1>1. /\ TypeOK /\ peer \in PeerStates /\ path # NoPath /\ path = PathOf(peer)
      /\ peer' = RecordSuccess(peer, path) /\ path' = path
      /\ spent' = IF path.kind = "Tunnel" THEN NothingSpent ELSE spent
  BY DEF Inv, TypeOK, Succeed, PathCurrent
<1>2. CASE peer.level \in PlainLevels
  <2>1. path.kind # "Tunnel"
    BY <1>1, <1>2 DEF PathOf, Plain, PlainLevels
  <2>2. peer' = peer /\ spent' = spent
    BY <1>1, <2>1 DEF RecordSuccess
  <2>. QED BY <1>1, <2>2 DEF Inv, TypeOK, PathCurrent, CascadeSpent
<1>3. CASE peer.level \in TunnelLevels
  <2>1. path.kind = "Tunnel" /\ path.entry = cur /\ path = Tunnel(cur)
    BY <1>1, <1>3, LevelsApart DEF PathOf, Tunnel
  <2>2. /\ cur \in AllEntries
        /\ peer.level = "MainTunnel" => cur = peer.tunnel_entry
        /\ peer.level = "AltTunnel" =>
             peer.alt_idx \in 1 .. Len(alts) /\ cur = alts[peer.alt_idx]
    BY <1>1, <1>3, CurrentEntryListed
  <2>. HIDE DEF cur
  <2>3. alts \in Seq(AllEntries) /\ Distinct(peer.tunnel_entry, alts)
    BY <1>1 DEF Inv, PeerStates
  <2>. DEFINE tunnel == IF Promotes(peer, cur) THEN cur ELSE peer.tunnel_entry
              rest == IF Promotes(peer, cur) THEN RemoveFirst(alts, cur) ELSE alts
  <2>4. tunnel = cur /\ rest \in Seq(AllEntries) /\ Distinct(tunnel, rest)
    <3>1. CASE peer.level = "MainTunnel"
      BY <3>1, <2>2, <2>3 DEF Promotes
    <3>2. CASE peer.level = "AltTunnel"
      <4>. DEFINE i == peer.alt_idx
                  r == RemoveFirst(alts, alts[i])
      <4>1. i \in 1 .. Len(alts) /\ cur = alts[i] /\ alts[i] # peer.tunnel_entry
        BY <3>2, <2>2, <2>3 DEF Distinct
      <4>2. Promotes(peer, cur)
        BY <4>1, <2>3 DEF Promotes, Range
      <4>3. \A j \in 1 .. Len(alts) : alts[j] = alts[i] => j = i
        BY <4>1, <2>3 DEF Distinct
      <4>4. /\ r \in Seq(AllEntries) /\ Len(r) = Len(alts) - 1
            /\ \A k \in 1 .. Len(alts) - 1 : r[k] = IF k < i THEN alts[k] ELSE alts[k + 1]
        BY <4>1, <4>3, <2>3, RemoveFirstOnce
      <4>5. rest = r /\ tunnel = cur
        BY <4>1, <4>2
      <4>. HIDE DEF r, i, alts, tunnel, rest
      <4>6. Len(alts) \in Nat /\ Len(r) = Len(alts) - 1 /\ i \in 1 .. Len(alts)
        BY <4>1, <4>4, <2>3
      <4>7. \A k \in 1 .. Len(r) : \E j \in 1 .. Len(alts) :
              /\ r[k] = alts[j] /\ j # i /\ j = IF k < i THEN k ELSE k + 1
        BY <4>4, <4>6
      <4>8. Distinct(cur, r)
        <5>1. \A j, k \in 1 .. Len(alts) : alts[j] = alts[k] => j = k
          BY <2>3 DEF Distinct
        <5>2. \A k \in 1 .. Len(r) : r[k] # cur
          BY <4>1, <4>7, <5>1
        <5>3. ASSUME NEW k \in 1 .. Len(r), NEW l \in 1 .. Len(r), r[k] = r[l]
              PROVE  k = l
          <6>1. PICK j \in 1 .. Len(alts) :
                  r[k] = alts[j] /\ j # i /\ j = IF k < i THEN k ELSE k + 1
            BY <4>7
          <6>2. PICK n \in 1 .. Len(alts) :
                  r[l] = alts[n] /\ n # i /\ n = IF l < i THEN l ELSE l + 1
            BY <4>7
          <6>3. j = n
            BY <6>1, <6>2, <5>1, <5>3
          <6>. QED BY <6>1, <6>2, <6>3, <4>6
        <5>. QED BY <5>2, <5>3 DEF Distinct
      <4>. QED BY <4>4, <4>5, <4>8
    <3>. QED BY <3>1, <3>2, <1>3, LevelsApart
  <2>. HIDE DEF tunnel, rest
  <2>5. peer' = [peer EXCEPT !.level = "MainTunnel", !.failures = 0,
                             !.degraded = NotDegraded, !.last_good = cur,
                             !.tunnel_entry = tunnel, !.alt_entries = rest]
    BY <1>1, <2>1 DEF RecordSuccess, tunnel, rest
  <2>6. /\ "MainTunnel" \in Levels /\ NotDegraded \in Stamps /\ 0 \in 0 .. MaxRetries
        /\ cur \in LastGood /\ tunnel \in AllEntries
    BY <2>2, <2>4, FallbackAssumption DEF Levels, TunnelLevels, Stamps, LastGood
  <2>7. /\ peer' \in PeerStates /\ peer'.level = "MainTunnel" /\ peer'.failures = 0
        /\ peer'.degraded = NotDegraded
        /\ peer'.tunnel_entry = tunnel /\ peer'.alt_entries = rest
    BY <2>4, <2>5, <2>6, <1>1 DEF PeerStates
  <2>8. spent' = NothingSpent
    BY <1>1, <2>1
  <2>9. TypeOK'
    BY <2>7, <2>8, FallbackAssumption DEF TypeOK, NothingSpent
  <2>10. PathCurrent'
    BY <1>1, <2>1, <2>4, <2>7 DEF PathCurrent, PathOf, CurrentEntry, PlainLevels
  <2>. QED BY <2>4, <2>7, <2>8, <2>9, <2>10, TopInv
<1>. QED BY <1>1, <1>2, <1>3 DEF PeerStates, Levels

\* Time only ages a degradation.
LEMMA TickInv ==
  ASSUME Inv, Tick
  PROVE  Inv'
<1>1. TypeOK /\ peer \in PeerStates /\ UNCHANGED <<path, resolves, spent>>
  BY DEF Inv, TypeOK, Tick
<1>2. /\ peer' \in PeerStates
      /\ peer'.level = peer.level /\ peer'.failures = peer.failures
      /\ peer'.alt_idx = peer.alt_idx /\ peer'.alt_entries = peer.alt_entries
      /\ peer'.tunnel_entry = peer.tunnel_entry
      /\ peer'.ipv8_capable = peer.ipv8_capable
      /\ peer.degraded = NotDegraded => peer'.degraded = NotDegraded
  <2>1. CASE peer.degraded \in 0 .. DegradationTtl - 1
    <3>1. peer' = [peer EXCEPT !.degraded = @ + 1] /\ peer.degraded + 1 \in Stamps
      BY <2>1, FallbackAssumption DEF Tick, Age, Stamps
    <3>2. peer.degraded # NotDegraded
      BY <2>1, FallbackAssumption
    <3>. QED BY <1>1, <3>1, <3>2 DEF PeerStates
  <2>2. CASE peer.degraded \notin 0 .. DegradationTtl - 1
    BY <1>1, <2>2 DEF Tick, Age
  <2>. QED BY <2>1, <2>2
<1>3. CurrentEntry(peer') = CurrentEntry(peer)
  BY <1>2 DEF CurrentEntry
<1>4. TypeOK'
  BY <1>1, <1>2 DEF TypeOK
<1>5. PathCurrent'
  BY <1>1, <1>2, <1>3 DEF Inv, PathCurrent, PathOf
<1>6. CascadeSpent'
  BY <1>1, <1>2 DEF Inv, CascadeSpent
<1>. QED BY <1>2, <1>4, <1>5, <1>6 DEF Inv

\* The manager begins with nothing spent and no entry.
LEMMA InitInv == Init => Inv
<1>. SUFFICES ASSUME Init PROVE Inv
  OBVIOUS
<1>1. peer = PeerNew /\ path = NoPath /\ spent = NothingSpent
  BY DEF Init
<1>7. NoEntry \in AllEntries /\ <<>> \in Seq(AllEntries) /\ Len(<<>>) = 0
  <2>1. NoEntry \in AllEntries
    BY DEF AllEntries
  <2>. QED BY <2>1
<1>2. /\ "MainTunnel" \in Levels /\ NotDegraded \in Stamps /\ NoEntry \in LastGood
      /\ 0 \in 0 .. MaxRetries /\ 1 \in Nat \ {0}
  BY <1>7, FallbackAssumption DEF Levels, TunnelLevels, Stamps, LastGood
<1>3. peer \in PeerStates
  BY <1>1, <1>2, <1>7 DEF PeerNew, PeerStates
<1>4. TypeOK
  BY <1>1, <1>3, FallbackAssumption DEF TypeOK, PeerNew, NothingSpent
<1>5. Distinct(peer.tunnel_entry, peer.alt_entries) /\ PathCurrent
  BY <1>1, <1>7 DEF PeerNew, Distinct, PathCurrent
<1>6. CascadeSpent
  BY <1>1, <1>7 DEF PeerNew, CascadeSpent, NothingSpent, PlainLevels
<1>. QED BY <1>4, <1>5, <1>6 DEF Inv

-----------------------------------------------------------------------------
(* The theorems. *)

\* The invariant holds of every behaviour.
LEMMA Inductive == ASSUME DistinctEntries PROVE Spec => []Inv
<1>1. Inv /\ [Next]_vars => Inv'
  <2>. SUFFICES ASSUME Inv, [Next]_vars PROVE Inv'
    OBVIOUS
  <2>1. CASE UNCHANGED vars
    BY <2>1 DEF Inv, TypeOK, PathCurrent, CascadeSpent, vars
  <2>. QED BY <2>1, ResolveInv, AskPathInv, FailInv, SucceedInv, TickInv DEF Next
<1>. QED BY <1>1, InitInv, PTL DEF Spec

\* A capable peer is in plaintext only once every entry has used its whole
\* budget, and no entry is asked for after it has (PlainOnlyWhenExhausted).
THEOREM DegradesLast == ASSUME DistinctEntries PROVE Spec => []PlainOnlyWhenExhausted
<1>1. Inv => PlainOnlyWhenExhausted
  <2>. SUFFICES ASSUME Inv PROVE PlainOnlyWhenExhausted
    OBVIOUS
  <2>1. TypeOK /\ peer \in PeerStates /\ peer.failures \in 0 .. MaxRetries
    BY DEF Inv, TypeOK, PeerStates
  <2>2. ASSUME peer.ipv8_capable, peer.level \in PlainLevels, NEW e \in Entries(peer)
        PROVE  spent[e] = MaxRetries + 1
    <3>1. peer.alt_entries \in Seq(AllEntries)
      BY <2>1 DEF PeerStates
    <3>2. e = peer.tunnel_entry \/ \E i \in 1 .. Len(peer.alt_entries) : e = peer.alt_entries[i]
      BY <2>2, <3>1 DEF Entries, Range
    <3>. QED BY <2>2, <3>2 DEF Inv, CascadeSpent
  <2>3. ASSUME peer.level \in TunnelLevels PROVE spent[CurrentEntry(peer)] <= MaxRetries
    <3>1. spent[CurrentEntry(peer)] = peer.failures
      BY <2>1, <2>3, CurrentEntryListed, LevelsApart DEF Inv, CascadeSpent
    <3>. QED BY <2>1, <3>1, FallbackAssumption
  <2>. QED BY <2>2, <2>3 DEF PlainOnlyWhenExhausted
<1>. QED BY <1>1, Inductive, PTL
=============================================================================
