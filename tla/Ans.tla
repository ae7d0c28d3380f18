-------------------------------- MODULE Ans --------------------------------
(***************************************************************************)
(* The agent naming service (cloud/ans): cards registered under a name,    *)
(* found by name or by capability, and leased to the plans of tasks.       *)
(*                                                                         *)
(* One mutex serialises every gRPC handler and the reaper, so each call is *)
(* one action.  A signature is the key it was made with, a capability set  *)
(* a set of tags; the bytes a card is hashed to are left out, a card being *)
(* its own hash.                                                           *)
(***************************************************************************)
EXTENDS Naturals, FiniteSets

CONSTANTS
    AgentAddrs,     \* addresses agents may register
    AgentNames,     \* names under the namespace root
    BadNames,       \* names check_name refuses: empty, too long, rootless
    AgentTags,      \* well-formed capability tags
    AnsRequests,    \* RegisterAgent requests, their lifetime left open
    CardLives,      \* lifetimes a card may ask for
    AnsTasks,       \* PlanTask requests: caps, count, qos, ms
    MaxLeaseSecs,   \* MAX_LEASE_SECS
    MaxAnsTime, MaxAnsOps, MaxPlans, MaxAnsRestarts   \* bounds of the model

ASSUME AnsAssumption ==
    /\ MaxLeaseSecs \in Nat \ {0}
    /\ \A n \in {MaxAnsTime, MaxAnsOps, MaxPlans, MaxAnsRestarts} : n \in Nat
    /\ CardLives \subseteq Nat
    /\ AgentNames \cap BadNames = {}
    /\ \A r \in AnsRequests : r.addr \in AgentAddrs /\ r.name \in AgentNames \cup BadNames
    /\ \A t \in AnsTasks : t.ms \in Nat

VARIABLES
    agents,         \* MemStore.by_addr, a function on the stored addresses
    nameIndex,      \* MemStore.by_name
    nextPlan,       \* next_plan_id
    leases,         \* what planners were promised, with the life it was made in
    ansLife, ansNow, ansOps

ansVars == <<agents, nameIndex, nextPlan, leases, ansLife, ansNow, ansOps>>

CardVersion == 1

NoLease == [plan |-> 0, exp |-> 0]

StoredAgent(a) == a \in DOMAIN agents
CardExpired(a) == agents[a].na <= ansNow
Leased(a)      == agents[a].lease # NoLease /\ agents[a].lease.exp > ansNow

(***************************************************************************)
(* register: the checks in their order, then the conflicts.                *)
(***************************************************************************)
ValidTags(caps) == caps # {} /\ caps \subseteq AgentTags

RegisterFault(r, na) ==
    IF ~r.readable                                  THEN "BadAddress"
    ELSE IF r.name \in BadNames                     THEN "BadName"
    ELSE IF r.version # CardVersion \/ r.cardAddr # r.addr \/ na <= ansNow
                                                    THEN "BadCard"
    ELSE IF ~ValidTags(r.caps)                      THEN "BadTags"
    ELSE IF ~r.fits                                 THEN "BadCard"
    ELSE IF r.cert.addr # r.addr \/ r.cert.na < ansNow
                                                    THEN "BadCert"
    ELSE IF r.sig # r.cert.key                      THEN "BadCard"
    ELSE IF r.pop # r.cert.key                      THEN "BadProof"
    ELSE "none"

NameHolder(n) == IF n \in DOMAIN nameIndex THEN {nameIndex[n]} ELSE {}

NameTaken(r) ==
    \E h \in NameHolder(r.name) : h # r.addr /\ StoredAgent(h) /\ ~CardExpired(h)

\* the stale holder of the wanted name, which register removes
Reclaimed(r) == {h \in NameHolder(r.name) : h # r.addr /\ StoredAgent(h)}

\* Store::remove: the entries and the names they hold now
WithoutAgents(ag, gone) == [a \in DOMAIN ag \ gone |-> ag[a]]
Unindexed(gone) ==
    [n \in DOMAIN nameIndex \ {agents[a].name : a \in gone} |-> nameIndex[n]]

\* A promise stops being held when its agent's entry goes.
Orphan(gone) ==
    {IF p.addr \in gone THEN [p EXCEPT !.held = FALSE] ELSE p : p \in leases}

\* Mutant of KeptLease: a re-registration forgets the lease.
KeptLeaseNone(r) == NoLease

KeptLease(r) ==
    IF StoredAgent(r.addr) THEN agents[r.addr].lease ELSE NoLease

PutAgent(r, na, ag, ix) ==
    /\ agents' = [a \in DOMAIN ag \cup {r.addr} |->
                    IF a = r.addr
                    THEN [key |-> r.cert.key, name |-> r.name, caps |-> r.caps,
                          qos |-> r.qos, na |-> na, lease |-> KeptLease(r)]
                    ELSE ag[a]]
    /\ nameIndex' = [n \in DOMAIN ix \cup {r.name} |->
                        IF n = r.name THEN r.addr ELSE ix[n]]

RegisterAgent(r, life) ==
    LET na   == ansNow + life
        gone == Reclaimed(r)
        ag   == WithoutAgents(agents, gone)
        ix   == Unindexed(gone)
    IN  /\ ansOps < MaxAnsOps
        /\ ansOps' = ansOps + 1
        /\ IF RegisterFault(r, na) # "none" \/ NameTaken(r)
           THEN UNCHANGED <<agents, nameIndex, leases>>
           ELSE /\ leases' = Orphan(gone)
                /\ IF r.addr \in DOMAIN ag /\ ag[r.addr].key # r.cert.key
                   THEN agents' = ag /\ nameIndex' = ix     \* KeyConflict
                   ELSE PutAgent(r, na, ag, ix)
        /\ UNCHANGED <<nextPlan, ansLife, ansNow>>

(***************************************************************************)
(* resolve_name, search_capability.                                        *)
(***************************************************************************)
ResolveName(n) == {a \in NameHolder(n) : StoredAgent(a) /\ ~CardExpired(a)}

Covers(a, caps) == caps \subseteq agents[a].caps

SearchCapability(caps, qos, excludeLeased) ==
    {a \in DOMAIN agents :
        /\ ~CardExpired(a)
        /\ excludeLeased => ~Leased(a)
        /\ Covers(a, caps)
        /\ agents[a].qos >= qos}

\* the order of the answer: quality, then remaining life, then address
Before(a, b) ==
    \/ agents[a].qos > agents[b].qos
    \/ agents[a].qos = agents[b].qos /\ agents[a].na > agents[b].na
    \/ agents[a].qos = agents[b].qos /\ agents[a].na = agents[b].na /\ a < b

TopOf(S, k) == {a \in S : Cardinality({b \in S : Before(b, a)}) < k}

(***************************************************************************)
(* plan_task, report_done, reap.                                           *)
(***************************************************************************)
LeaseSecs(ms) ==
    LET s == (ms + 999) \div 1000
    IN  IF s < 1 THEN 1 ELSE IF s > MaxLeaseSecs THEN MaxLeaseSecs ELSE s

PlanTask(t) ==
    LET found  == SearchCapability(t.caps, t.qos, TRUE)
        chosen == TopOf(found, t.count)
        exp    == ansNow + LeaseSecs(t.ms)
    IN  /\ nextPlan <= MaxPlans
        /\ ValidTags(t.caps) /\ t.count > 0 /\ Cardinality(found) >= t.count
        /\ nextPlan' = nextPlan + 1
        /\ agents' = [a \in DOMAIN agents |->
                        IF a \in chosen
                        THEN [agents[a] EXCEPT !.lease = [plan |-> nextPlan, exp |-> exp]]
                        ELSE agents[a]]
        /\ leases' = leases \cup
                {[plan |-> nextPlan, addr |-> a, exp |-> exp, life |-> ansLife,
                  held |-> TRUE] : a \in chosen}
        /\ UNCHANGED <<nameIndex, ansLife, ansNow, ansOps>>

\* A planner reports the plan it holds, however late; the number is all
\* report_done compares.
ReportDone(p) ==
    /\ p \in leases
    /\ leases' = {IF q.plan = p.plan /\ q.addr = p.addr
                  THEN [q EXCEPT !.held = FALSE] ELSE q : q \in leases \ {p}}
    /\ agents' = IF StoredAgent(p.addr) /\ agents[p.addr].lease.plan = p.plan
                 THEN [agents EXCEPT ![p.addr].lease = NoLease]
                 ELSE agents
    /\ UNCHANGED <<nameIndex, nextPlan, ansLife, ansNow, ansOps>>

Reaped(ag) ==
    [a \in DOMAIN ag |-> IF ag[a].lease.exp <= ansNow
                         THEN [ag[a] EXCEPT !.lease = NoLease] ELSE ag[a]]

AnsReap ==
    LET gone == {a \in DOMAIN agents : CardExpired(a)}
    IN  /\ agents' = WithoutAgents(Reaped(agents), gone)
        /\ nameIndex' = Unindexed(gone)
        /\ leases' = Orphan(gone)
        /\ UNCHANGED <<nextPlan, ansLife, ansNow, ansOps>>

AnsTick ==
    /\ ansNow < MaxAnsTime
    /\ ansNow' = ansNow + 1
    /\ UNCHANGED <<agents, nameIndex, nextPlan, leases, ansLife, ansOps>>

\* The store is memory only: a restart forgets the cards, the leases and the
\* plan numbers already given out.
AnsRestart ==
    /\ ansLife < MaxAnsRestarts
    /\ ansLife' = ansLife + 1
    /\ agents' = << >> /\ nameIndex' = << >> /\ nextPlan' = 1
    /\ leases' = Orphan(AgentAddrs)
    /\ UNCHANGED <<ansNow, ansOps>>

AnsInit ==
    /\ agents = << >> /\ nameIndex = << >> /\ nextPlan = 1
    /\ leases = {} /\ ansLife = 0 /\ ansNow = 0 /\ ansOps = 0

AnsNext ==
    \/ \E r \in AnsRequests, life \in CardLives : RegisterAgent(r, life)
    \/ \E t \in AnsTasks : PlanTask(t)
    \/ \E p \in leases : ReportDone(p)
    \/ AnsReap
    \/ AnsTick
    \/ AnsRestart

AnsSpec == AnsInit /\ [][AnsNext]_ansVars

-----------------------------------------------------------------------------
\* The store holds well-formed cards and the name index known addresses.
AnsTypeOK ==
    /\ DOMAIN agents \subseteq AgentAddrs
    /\ \A a \in DOMAIN agents :
          agents[a].name \in AgentNames /\ agents[a].lease.plan \in 0 .. MaxPlans
    /\ DOMAIN nameIndex \subseteq AgentNames
    /\ \A n \in DOMAIN nameIndex : nameIndex[n] \in AgentAddrs
    /\ nextPlan \in 1 .. MaxPlans + 1
    /\ ansLife \in 0 .. MaxAnsRestarts /\ ansNow \in 0 .. MaxAnsTime

\* Whatever names were taken over, renamed or reaped, an agent whose card is
\* alive is found under its own name (register and reap both edit the two
\* indexes of MemStore, lib.rs put and remove).
FoundByName ==
    \A a \in DOMAIN agents : ~CardExpired(a) => ResolveName(agents[a].name) = {a}

\* An agent that stays in the store is never leased to a second plan before
\* the first one's lease ran out or was reported, re-registrations included
\* (plan_task "防并发双订").
OneLeaseAtATime ==
    \A p, q \in leases :
        (p.addr = q.addr /\ p.held /\ q.held /\ p.exp > ansNow /\ q.exp > ansNow)
            => p = q

\* Both, what MemStore's two indexes and the lease field promise a planner.
AgentsSound == FoundByName /\ OneLeaseAtATime
=============================================================================
