------------------------------ MODULE Firewall ------------------------------
(***************************************************************************)
(* The port rules: the rule file (ipv8-firewall), the programs that edit   *)
(* it (ping8 firewall ..., and the management page of ping8 serve), the    *)
(* Windows firewall they synchronise, and ipv8-forward, which loads the    *)
(* file, listens on the ports of the rules it found at start and reloads   *)
(* the rules when the file's time changes (--watch).                       *)
(*                                                                         *)
(* An edit is load, change, truncate, write, synchronise; every program    *)
(* can run between two of those and be killed between them.  The Windows   *)
(* firewall is external: a set of rules netsh adds to and deletes from.    *)
(***************************************************************************)
EXTENDS Naturals, Sequences, SequencesExt

CONSTANTS
    Editors,        \* programs editing the file at one time
    RuleForms,      \* what "firewall add" may be asked for
    SourcePorts,    \* source ports clients connect from
    MaxEdits, MaxConns, MaxFwKills   \* bounds of the model

ASSUME FirewallAssumption ==
    \A n \in {MaxEdits, MaxConns, MaxFwKills} : n \in Nat

VARIABLES
    ruleFile,       \* the rules in the file, and whether it is whole
    mtime,          \* its modification time, advanced by every write call
    editor,         \* per editor: where it is and the rules in its memory
    winRules,       \* rules of the Windows firewall
    fwd,            \* ipv8-forward: rules, listened ports, watcher
    conns,          \* what became of each connection or datagram
    routes,         \* listen_udp's sockets, by listening port and client source port
    fwEdits, fwKills

fwVars == <<ruleFile, mtime, editor, winRules, fwd, conns, routes, fwEdits, fwKills>>

(***************************************************************************)
(* RuleSet.                                                                *)
(***************************************************************************)
LoadRules == IF ruleFile.whole THEN ruleFile.rules ELSE << >>

AddRule(rs, r) ==
    IF \E i \in DOMAIN rs : rs[i].id = r.id
    THEN [i \in DOMAIN rs |-> IF rs[i].id = r.id THEN r ELSE rs[i]]
    ELSE Append(rs, r)

RemoveRule(rs, id) == SelectSeq(rs, LAMBDA r : r.id # id)

ToggleRule(rs, id) ==
    [i \in DOMAIN rs |-> IF rs[i].id = id THEN [rs[i] EXCEPT !.on = ~@] ELSE rs[i]]

DisableAll(rs) == [i \in DOMAIN rs |-> [rs[i] EXCEPT !.on = FALSE]]

ActiveRules(rs) == SelectSeq(rs, LAMBDA r : r.on)
ProtoMatches(proto, actual) == proto = "any" \/ proto = actual

\* match_rule: the first active rule that admits the protocol, the port and
\* the source; the forwarder's source is always the zero address.
RuleAdmits(r, proto, port) ==
    ProtoMatches(r.proto, proto) /\ port \in r.lo .. r.hi /\ r.anySource

NoMatch == [id |-> 0, target |-> "none", port |-> 0]

MatchRule(rs, proto, port) ==
    LET hits == SelectSeq(ActiveRules(rs), LAMBDA r : RuleAdmits(r, proto, port))
    IN  IF hits = << >> THEN NoMatch
        ELSE [id |-> hits[1].id, target |-> hits[1].target,
              port |-> IF hits[1].tport = 0 THEN port ELSE hits[1].tport]

(***************************************************************************)
(* The editors.  gen_rule_id is the millisecond of the call: rules added   *)
(* in one millisecond share it.                                            *)
(***************************************************************************)
IdleEditor == [pc |-> "idle", rs |-> << >>, sync |-> FALSE]

Edits(rs) ==
    {AddRule(rs, [id |-> k, on |-> TRUE, proto |-> f.proto, lo |-> f.lo, hi |-> f.hi,
                  anySource |-> f.anySource, target |-> f.target, tport |-> f.tport]) :
        f \in RuleForms, k \in {fwEdits, fwEdits + 1} \ {0}}
    \cup {RemoveRule(rs, id) : id \in {rs[i].id : i \in DOMAIN rs}}
    \cup {ToggleRule(rs, id) : id \in {rs[i].id : i \in DOMAIN rs}}

StartEdit(e) ==
    /\ editor[e].pc = "idle" /\ fwEdits < MaxEdits
    /\ fwEdits' = fwEdits + 1
    /\ \E rs \in Edits(LoadRules) :
          editor' = [editor EXCEPT ![e] = [pc |-> "loaded", rs |-> rs, sync |-> TRUE]]
    /\ UNCHANGED <<ruleFile, mtime, winRules, fwd, conns, routes, fwKills>>

\* firewall close: netsh deletes every rule before the file is loaded
CloseFirewall(e) ==
    /\ editor[e].pc = "idle" /\ fwEdits < MaxEdits
    /\ fwEdits' = fwEdits + 1
    /\ winRules' = {}
    /\ editor' = [editor EXCEPT ![e] =
                    [pc |-> "loaded", rs |-> DisableAll(LoadRules), sync |-> FALSE]]
    /\ UNCHANGED <<ruleFile, mtime, fwd, conns, routes, fwKills>>

\* firewall open: the standard ports, each added when it is missing
OpenFirewall ==
    /\ winRules' = winRules \cup {"standard"}
    /\ UNCHANGED <<ruleFile, mtime, editor, fwd, conns, routes, fwEdits, fwKills>>

\* fs::write truncates the file, then writes it.
SaveTruncates(e) ==
    /\ editor[e].pc = "loaded"
    /\ ruleFile' = [ruleFile EXCEPT !.whole = FALSE]
    /\ mtime' = mtime + 1
    /\ editor' = [editor EXCEPT ![e].pc = "truncated"]
    /\ UNCHANGED <<winRules, fwd, conns, routes, fwEdits, fwKills>>

SaveWrites(e) ==
    /\ editor[e].pc = "truncated"
    /\ ruleFile' = [rules |-> editor[e].rs, whole |-> TRUE]
    /\ mtime' = mtime + 1
    /\ editor' = [editor EXCEPT ![e] =
                    IF editor[e].sync THEN [@ EXCEPT !.pc = "sync"] ELSE IdleEditor]
    /\ UNCHANGED <<winRules, fwd, conns, routes, fwEdits, fwKills>>

\* sync_windows_firewall: delete rule name=all, then one add per active rule
SyncWindows(e) ==
    /\ editor[e].pc = "sync"
    /\ winRules' = {ToString(r.id) : r \in ToSet(ActiveRules(editor[e].rs))}
    /\ editor' = [editor EXCEPT ![e] = IdleEditor]
    /\ UNCHANGED <<ruleFile, mtime, fwd, conns, routes, fwEdits, fwKills>>

KillEditor(e) ==
    /\ editor[e].pc # "idle" /\ fwKills < MaxFwKills
    /\ fwKills' = fwKills + 1
    /\ editor' = [editor EXCEPT ![e] = IdleEditor]
    /\ UNCHANGED <<ruleFile, mtime, winRules, fwd, conns, routes, fwEdits>>

(***************************************************************************)
(* ipv8-forward.                                                           *)
(***************************************************************************)
FwdStart ==
    /\ fwd.pc = "off"
    /\ fwd' = [fwd EXCEPT !.pc = "on", !.rules = LoadRules]
    /\ UNCHANGED <<ruleFile, mtime, editor, winRules, conns, routes, fwEdits, fwKills>>

\* Forwarder::run: one listener per port and protocol of the active rules
\* at this moment, never revised
ListenPorts(rs) ==
    UNION {{<<p, port>> : p \in IF r.proto = "any" THEN {"tcp", "udp"} ELSE {r.proto},
                          port \in r.lo .. r.hi} : r \in ToSet(ActiveRules(rs))}

FwdListen ==
    /\ fwd.pc = "on" /\ ~fwd.bound
    /\ fwd' = [fwd EXCEPT !.bound = TRUE, !.ports = ListenPorts(fwd.rules)]
    /\ UNCHANGED <<ruleFile, mtime, editor, winRules, conns, routes, fwEdits, fwKills>>

\* The watcher remembers the file's time when its task first runs.
WatchStart ==
    /\ fwd.pc = "on" /\ fwd.watch = "off"
    /\ fwd' = [fwd EXCEPT !.watch = "idle", !.last = mtime, !.first = mtime]
    /\ UNCHANGED <<ruleFile, mtime, editor, winRules, conns, routes, fwEdits, fwKills>>

\* Mutant of Watch: the file is loaded first and its time taken afterwards.
WatchLoadsFirst ==
    /\ \/ /\ fwd.watch = "idle" /\ fwd.last # mtime
          /\ fwd' = [fwd EXCEPT !.watch = "reload", !.rules = LoadRules]
       \/ /\ fwd.watch = "reload"
          /\ fwd' = [fwd EXCEPT !.watch = "idle", !.last = mtime]
    /\ UNCHANGED <<ruleFile, mtime, editor, winRules, conns, routes, fwEdits, fwKills>>

\* ... then every two seconds: a changed time is remembered first, and the
\* file loaded after it.
Watch ==
    /\ \/ /\ fwd.watch = "idle" /\ fwd.last # mtime
          /\ fwd' = [fwd EXCEPT !.watch = "reload", !.last = mtime]
       \/ /\ fwd.watch = "reload"
          /\ fwd' = [fwd EXCEPT !.watch = "idle", !.rules = LoadRules]
    /\ UNCHANGED <<ruleFile, mtime, editor, winRules, conns, routes, fwEdits, fwKills>>

Rejected == <<"rejected", 0>>

\* Where match_rule's answer sends a TCP connection: without a target to the
\* local port of the same number.  The port that is matched is the client's
\* source port.
TcpTarget(m, src) == IF m.target = "none" THEN <<"local", src>> ELSE <<m.target, m.port>>

ConnectTcp(port, src) ==
    LET m == MatchRule(fwd.rules, "tcp", src)
    IN  /\ Len(conns) < MaxConns
        /\ fwd.bound /\ <<"tcp", port>> \in fwd.ports
        /\ conns' = Append(conns, IF m = NoMatch THEN Rejected ELSE TcpTarget(m, src))
        /\ UNCHANGED <<ruleFile, mtime, editor, winRules, fwd, routes, fwEdits, fwKills>>

\* A datagram: a client that has a route keeps it, whatever the rules say now
\* of where it leads.
DatagramIn(port, src) ==
    LET m == MatchRule(fwd.rules, "udp", src)
        to == IF <<port, src>> \in DOMAIN routes THEN routes[<<port, src>>]
              ELSE <<IF m.target = "none" THEN "local" ELSE m.target, m.port>>
    IN  /\ Len(conns) < MaxConns
        /\ fwd.bound /\ <<"udp", port>> \in fwd.ports
        /\ IF m = NoMatch
           THEN conns' = Append(conns, Rejected) /\ UNCHANGED routes
           ELSE conns' = Append(conns, to) /\ routes' = (<<port, src>> :> to) @@ routes
        /\ UNCHANGED <<ruleFile, mtime, editor, winRules, fwd, fwEdits, fwKills>>

FwInit ==
    /\ ruleFile = [rules |-> << >>, whole |-> TRUE]
    /\ mtime = 0
    /\ editor = [e \in Editors |-> IdleEditor]
    /\ winRules = {"foreign"}
    /\ fwd = [pc |-> "off", rules |-> << >>, bound |-> FALSE, ports |-> {},
              watch |-> "off", last |-> 0, first |-> 0]
    /\ conns = << >> /\ routes = << >>
    /\ fwEdits = 0 /\ fwKills = 0

FwNext ==
    \/ \E e \in Editors :
          \/ StartEdit(e) \/ CloseFirewall(e) \/ SaveTruncates(e)
          \/ SaveWrites(e) \/ SyncWindows(e) \/ KillEditor(e)
    \/ OpenFirewall
    \/ FwdStart \/ FwdListen \/ WatchStart \/ Watch
    \/ \E lp \in fwd.ports, src \in SourcePorts :
          ConnectTcp(lp[2], src) \/ DatagramIn(lp[2], src)

\* The watcher's task is scheduled for as long as the forwarder runs.
FwFairness == WF_fwVars(Watch)
FwSpec == FwInit /\ [][FwNext]_fwVars /\ FwFairness

-----------------------------------------------------------------------------
\* The file, the editors and the forwarder keep their shapes.
FwTypeOK ==
    /\ ruleFile.whole \in BOOLEAN /\ mtime \in Nat
    /\ \A e \in Editors : editor[e].pc \in {"idle", "loaded", "truncated", "sync"}
    /\ fwd.watch \in {"off", "idle", "reload"}
    /\ fwd.ports \subseteq {"tcp", "udp"} \X Nat

\* Once the watcher has looked at the file, every later write to it, torn or
\* overtaken ones included, ends up in the forwarder's rules (forward
\* main.rs, the --watch task).
WatchCatchesUp ==
    <>[](fwd.watch # "off" /\ fwd.first # mtime => fwd.rules = LoadRules)
=============================================================================
