------------------------------- MODULE Abuse --------------------------------
(***************************************************************************)
(* The abuse guard, src/core/ipv8-tunnel/src/abuse_guard.rs: packet rates and *)
(* connection failures of every node, strikes, temporary bans that lapse, and *)
(* the blacklist.  Reasons and statistics are wording and are left out.       *)
(***************************************************************************)
EXTENDS Integers, Sequences, SequencesExt, FiniteSets

CONSTANTS
  AbuseNodes, PktSizes,
  RateWindow, PpsWarn, BpsBan, SmallPkt, SmallFlood,   \* AbuseConfig; SmallFlood is the literal 100
  FailureRate, MinAttempts,                            \* FailureRate in percent
  WarnToBan, TempToPerm, TempBanTime, MaxIdle,
  MaxAbuseTime, MaxAbuseEvents                         \* bounds

ASSUME AbuseAssumption ==
  /\ {RateWindow, PpsWarn, MinAttempts, WarnToBan, TempToPerm, TempBanTime} \subseteq Nat \ {0}
  /\ PktSizes \subseteq Nat

VARIABLES
  stats,        \* stats[n]: NodeStats, or Unseen
  blacklist,    \* blacklist[n]: how often n is on the list, which the code pushes to without looking
  abuseNow, abuseEvents,
  lenient       \* history: nodes a ban of which was lifted by hand

abuseVars == <<stats, blacklist, abuseNow, abuseEvents, lenient>>

FreshStats == [known |-> TRUE, buckets |-> <<>>, fails |-> 0, successes |-> 0, strikes |-> 0,
               ban_count |-> 0, level |-> "None", banned_at |-> 0, active |-> 0]
Unseen == [FreshStats EXCEPT !.known = FALSE]

AbuseInit ==
  /\ stats = [n \in AbuseNodes |-> Unseen] /\ blacklist = [n \in AbuseNodes |-> 0]
  /\ abuseNow = 0 /\ abuseEvents = 0 /\ lenient = {}

Listed(n) == blacklist[n] > 0
Pushed(n) == [blacklist EXCEPT ![n] = @ + 1]

IsBanned(n) == Listed(n) \/ stats[n].level \in {"TempBan", "PermBan"}

(* push_bucket: the new bucket, and only those still inside the window *)
PushBucket(buckets, size) ==
  SelectSeq(Append(buckets, [t |-> abuseNow, size |-> size]), LAMBDA b : b.t > abuseNow - RateWindow)

(* The detections of record_packet.  The "ratio" of small packets divides the    *)
(* number of buckets by itself: any small packet in a busy window is a flood.     *)
Anomalous(buckets, size) ==
  \/ Len(buckets) \div RateWindow >= PpsWarn
  \/ FoldSeq(LAMBDA b, acc : b.size + acc, 0, buckets) \div RateWindow >= BpsBan
  \/ size < SmallPkt /\ Len(buckets) > SmallFlood

(* Mutant of Escalate: the ban about to be given is not counted. *)
EscalateLate(s) ==
  LET struck == [s EXCEPT !.strikes = @ + 1]
      banned == [struck EXCEPT !.ban_count = @ + 1, !.banned_at = abuseNow]
  IN IF s.ban_count >= TempToPerm THEN [banned EXCEPT !.level = "PermBan"]
     ELSE IF struck.strikes >= WarnToBan THEN [banned EXCEPT !.level = "TempBan"]
     ELSE struck

(* One strike: a permanent ban when it would be the last of the temporary ones, a *)
(* temporary ban after enough strikes, a warning otherwise                        *)
Escalate(s) ==
  LET struck == [s EXCEPT !.strikes = @ + 1]
      banned == [struck EXCEPT !.ban_count = @ + 1, !.banned_at = abuseNow]
  IN IF s.ban_count + 1 >= TempToPerm THEN [banned EXCEPT !.level = "PermBan"]
     ELSE IF struck.strikes >= WarnToBan THEN [banned EXCEPT !.level = "TempBan"]
     ELSE struck

Count(e) == abuseEvents < MaxAbuseEvents /\ abuseEvents' = abuseEvents + e /\ UNCHANGED abuseNow

Lapsed(s) == s.level = "TempBan" /\ abuseNow - s.banned_at >= TempBanTime

RecordPacket(n, size) ==
  LET s0 == [stats[n] EXCEPT !.active = abuseNow, !.known = TRUE]
      s1 == IF Lapsed(s0) THEN [s0 EXCEPT !.level = "None", !.strikes = 0] ELSE s0
      s2 == [s1 EXCEPT !.buckets = PushBucket(@, size)]
      s3 == Escalate(s2)
  IN /\ Count(1)
     /\ UNCHANGED lenient
     /\ \/ /\ s1.level \in {"TempBan", "PermBan"}
           /\ stats' = [stats EXCEPT ![n] = s1] /\ UNCHANGED blacklist
        \/ /\ s1.level \notin {"TempBan", "PermBan"} /\ ~Anomalous(s2.buckets, size)
           /\ stats' = [stats EXCEPT ![n] = s2] /\ UNCHANGED blacklist
        \/ /\ s1.level \notin {"TempBan", "PermBan"} /\ Anomalous(s2.buckets, size)
           /\ stats' = [stats EXCEPT ![n] = s3]
           /\ blacklist' = IF s3.level = "PermBan" THEN Pushed(n) ELSE blacklist

(* record_conn_result looks at no ban: it can push a name twice, or make a        *)
(* permanent ban given by hand a temporary one                                    *)
RecordConnResult(n, success) ==
  LET s0 == [stats[n] EXCEPT !.active = abuseNow, !.known = TRUE]
      s1 == IF success THEN [s0 EXCEPT !.successes = @ + 1] ELSE [s0 EXCEPT !.fails = @ + 1]
      total == s1.fails + s1.successes
      bad == total >= MinAttempts /\ s1.fails * 100 > FailureRate * total
      s2 == Escalate(s1)
      perm == s2.level = "PermBan" /\ s2.ban_count > s1.ban_count
  IN /\ Count(1)
     /\ stats' = [stats EXCEPT ![n] = IF bad THEN s2 ELSE s1]
     /\ blacklist' = IF bad /\ perm THEN Pushed(n) ELSE blacklist
     /\ UNCHANGED lenient

(* ban: no strike and no ban_count *)
Ban(n, level) ==
  /\ Count(1)
  /\ stats' = [stats EXCEPT ![n] = [stats[n] EXCEPT !.level = level, !.banned_at = abuseNow, !.known = TRUE,
                                                   !.active = IF stats[n].known THEN @ ELSE abuseNow]]
  /\ blacklist' = IF level = "PermBan" /\ ~Listed(n) THEN Pushed(n) ELSE blacklist
  /\ UNCHANGED lenient

(* unban: the ban_count stays, so the next strike bans for good again *)
Unban(n) ==
  /\ Count(1)
  /\ blacklist' = [blacklist EXCEPT ![n] = 0]
  /\ stats' = IF stats[n].known THEN [stats EXCEPT ![n] = [stats[n] EXCEPT !.level = "None", !.strikes = 0]] ELSE stats
  /\ lenient' = lenient \cup {n}

(* gc forgets idle nodes unless they are banned for good; it also forgets a       *)
(* running temporary ban and every ban_count                                      *)
Gc ==
  /\ Count(1)
  /\ stats' = [n \in AbuseNodes |->
                 IF stats[n].level = "PermBan" \/ abuseNow - stats[n].active < MaxIdle THEN stats[n] ELSE Unseen]
  /\ UNCHANGED <<blacklist, lenient>>

AbuseTick ==
  /\ abuseNow < MaxAbuseTime /\ abuseNow' = abuseNow + 1
  /\ UNCHANGED <<stats, blacklist, abuseEvents, lenient>>

AbuseNext ==
  \/ \E n \in AbuseNodes : \/ \E z \in PktSizes : RecordPacket(n, z)
                           \/ \E ok \in BOOLEAN : RecordConnResult(n, ok)
                           \/ \E l \in {"TempBan", "PermBan"} : Ban(n, l)
                           \/ Unban(n)
  \/ Gc \/ AbuseTick

AbuseSpec == AbuseInit /\ [][AbuseNext]_abuseVars

-----------------------------------------------------------------------------
AbuseTypeOK ==
  /\ \A n \in AbuseNodes : stats[n].level \in {"None", "TempBan", "PermBan"} /\ stats[n].active <= abuseNow
  /\ blacklist \in [AbuseNodes -> 0..MaxAbuseEvents]

(* "临时封禁几次后升级为永久封禁": a node that has earned temp_to_perm_strikes bans,   *)
(* by traffic or by failing connections, is on the blacklist and stays banned      *)
(* whatever else is recorded of it, unless somebody lifted a ban of it by hand.     *)
LastBanIsForGood ==
  \A n \in AbuseNodes \ lenient : stats[n].ban_count >= TempToPerm => Listed(n) /\ IsBanned(n)
=============================================================================
