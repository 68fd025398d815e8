---------------------------- MODULE ControlPlane ----------------------------
(***************************************************************************)
(* The agent control plane: agents/control_plane_groups/.  Every command   *)
(* loads state.json, changes the deployment in memory and writes the file  *)
(* back; nothing locks it.  One deployment is modelled, a process is one   *)
(* command (or one caller of the Python API) at a time.  A revision's      *)
(* traffic_role moves with its status and is not kept apart.               *)
(***************************************************************************)
EXTENDS Integers, Sequences, FiniteSets

CONSTANTS
    Procs,      \* callers
    Bundles,    \* bundle directories a revision can name
    None, Torn, \* null; a file truncated and not yet written
    Percents,   \* --canary-percent values tried
    Splits,     \* traffic splits tried: <<stable, canary>>
    Reports,    \* metric reports tried: [load, rps, replicas]
    Window,     \* window of the alert rule (metric cpu, >= threshold)
    Recent,     \* history entries an alert looks at: 10 in the code
    Kept,       \* history entries kept: 50 in the code
    MaxRevs,    \* bound: revisions
    MaxCalls,   \* bound: commands started
    MaxReplicas,\* bound: replicas the model lets a read of the signals reach
    MaxCrash    \* bound: crashes

Split    == [stable : 0 .. 100, canary : 0 .. 100]
Revision == [bundle : Bundles, status : {"registered", "synced", "active", "canary"},
             healthy : BOOLEAN]
Canary   == [rev : Nat, split : Split]
Report   == [load : {"idle", "mid", "busy"}, rps : Nat, replicas : {None} \cup Nat]

(* One deployment of state.json.                                           *)
Deployment ==
    [revs : Seq(Revision), current : Nat, canary : {None} \cup Canary, split : Split,
     status : {None, "registered", "synced", "rolled-out", "canary", "rolled-back"},
     metrics : {None} \cup Reports, replicas : {None} \cup Nat,
     history : Seq(BOOLEAN), rule : BOOLEAN, firing : BOOLEAN]

ASSUME ControlAssumption ==
    /\ Splits \subseteq Int \X Int /\ Percents \subseteq Int /\ Reports \subseteq Report
    /\ None \notin Canary /\ Torn \notin Deployment
    /\ Window \in Nat \ {0} /\ Recent \in Nat \ {0} /\ Kept \in Nat \ {0}
    /\ MaxRevs \in Nat /\ MaxCalls \in Nat /\ MaxReplicas \in Nat /\ MaxCrash \in Nat

VARIABLES
    file,     \* state.json: Torn or the deployment
    loc,      \* per caller: pc and the deployment it is about to save
    calls,    \* commands started
    acked,    \* <<revision, bundle>> of every sync answered ok
    raced,    \* two commands overlapped
    crashes, cut  \* crashes; one of them left a truncated file

vars == <<file, loc, calls, acked, raced, crashes, cut>>

AllToStable == [stable |-> 100, canary |-> 0]

(* No deployment yet: what an unreadable state.json reads as, too.         *)
Empty == [revs |-> <<>>, current |-> 0, canary |-> None, split |-> AllToStable,
          status |-> None, metrics |-> None, replicas |-> None,
          history |-> <<>>, rule |-> FALSE, firing |-> FALSE]

Load == IF file = Torn THEN Empty ELSE file

Larger(a, b)  == IF a >= b THEN a ELSE b
Smaller(a, b) == IF a <= b THEN a ELSE b
Last(s, n)    == SubSeq(s, Larger(1, Len(s) - n + 1), Len(s))

-----------------------------------------------------------------------------
(* What each command does to the deployment it loaded.                     *)

(* _upsert_local_deployment, _ensure_revision *)
Sync(d, bundle) ==
    LET n == Len(d.revs) + 1
        st == IF n = 1 THEN "registered" ELSE "synced"
    IN  [d EXCEPT !.revs    = Append(@, [bundle |-> bundle, status |-> st, healthy |-> FALSE]),
                  !.current = IF @ = 0 THEN n ELSE @,
                  !.status  = st]

(* The chosen revision becomes active, the other live ones step down.      *)
Promote(revs, r) ==
    [i \in DOMAIN revs |->
        IF i = r THEN [revs[i] EXCEPT !.status = "active"]
        ELSE IF revs[i].status \in {"active", "canary"} THEN [revs[i] EXCEPT !.status = "synced"]
        ELSE revs[i]]

(* rollout_revision without a canary, or of the revision that is current.  *)
RolloutFull(d, r) ==
    [d EXCEPT !.revs = Promote(@, r), !.current = r, !.status = "rolled-out",
              !.canary = None, !.split = AllToStable]

(* Mutant: an earlier canary is not taken down by the next one.            *)
RolloutCanary_Adds(d, r, percent) ==
    LET share == Larger(1, Smaller(99, percent))
        split == [stable |-> 100 - share, canary |-> share]
    IN  [d EXCEPT !.revs = [@ EXCEPT ![r].status = "canary", ![d.current].status = "active"],
                  !.status = "canary", !.canary = [rev |-> r, split |-> split], !.split = split]

(* rollout_revision with --canary-percent of another revision.             *)
RolloutCanary(d, r, percent) ==
    LET share == Larger(1, Smaller(99, percent))
        split == [stable |-> 100 - share, canary |-> share]
    IN  [d EXCEPT !.revs = [Promote(@, r) EXCEPT ![r].status = "canary",
                                                 ![d.current].status = "active"],
                  !.status = "canary", !.canary = [rev |-> r, split |-> split], !.split = split]

(* round() rounds half to even.                                            *)
RoundDiv(a, b) ==
    LET q == a \div b
        twice == 2 * (a % b)
    IN  IF twice > b \/ (twice = b /\ q % 2 = 1) THEN q + 1 ELSE q

(* Mutant: negative shares are not raised to zero.                         *)
NormalizeSplit_NoClamp(stable, canary) ==
    LET share == IF stable + canary = 100 THEN stable
                 ELSE RoundDiv(100 * stable, stable + canary)
    IN  IF stable + canary <= 0 THEN AllToStable
        ELSE [stable |-> share, canary |-> 100 - share]

NormalizeSplit(stable, canary) ==
    LET s == Larger(0, stable)
        c == Larger(0, canary)
        share == IF s + c = 100 THEN s ELSE RoundDiv(100 * s, s + c)
    IN  IF s + c = 0 THEN AllToStable ELSE [stable |-> share, canary |-> 100 - share]

(* update_traffic_split *)
Traffic(d, s) ==
    LET split == NormalizeSplit(s[1], s[2])
    IN  [d EXCEPT !.canary.split = split, !.split = split,
                  !.status = IF split.canary > 0 THEN "canary" ELSE "rolled-out"]

(* rollback_deployment to a revision *)
Rollback(d, r) ==
    [d EXCEPT !.revs = Promote(@, r), !.current = r, !.status = "rolled-back",
              !.canary = None, !.split = AllToStable]

(* ... and which one when none is named: the newest that is not current.   *)
RollbackDefault(d) ==
    CHOOSE r \in DOMAIN d.revs \ {d.current} : \A s \in DOMAIN d.revs \ {d.current} : s <= r

(* run_health_check: a current revision is healthy, without asking it.     *)
Health(d) == IF d.current = 0 THEN d ELSE [d EXCEPT !.revs[d.current].healthy = TRUE]

(* _compute_autoscaling_signals: one replica more or fewer than reported   *)
(* or, without a report, than the last answer asked for.                   *)
Scale(d) ==
    LET m == IF d.metrics = None THEN [load |-> "idle", rps |-> 0, replicas |-> None] ELSE d.metrics
        known   == IF m.replicas # None THEN m.replicas ELSE IF d.replicas # None THEN d.replicas ELSE 1
        current == Larger(1, known)
        out     == m.load = "busy" \/ m.rps >= 50 * current
    IN  [d EXCEPT !.replicas = IF out THEN current + 1
                               ELSE IF m.load = "idle" /\ current > 1 THEN current - 1
                               ELSE current]

(* _evaluate_alerts_local: every one of the last values is over the        *)
(* threshold; fewer values than the window asks for are enough.            *)
Alerts(d) ==
    LET series == Last(Last(d.history, Recent), Window)
    IN  [d EXCEPT !.firing = d.rule /\ series # <<>> /\ (\A i \in DOMAIN series : series[i])]

(* record_deployment_metrics up to the signals *)
Measure(d, m) ==
    Scale([d EXCEPT !.metrics = m, !.history = Last(Append(@, m.load = "busy"), Kept)])

(* Mutant: a report leaves the alerts to the next evaluation.              *)
Record_NoAlerts(d, m) == Measure(d, m)

Record(d, m) == Alerts(Measure(d, m))

(* set_alert_rules *)
SetRules(d) == Alerts([d EXCEPT !.rule = TRUE])

-----------------------------------------------------------------------------
Idle == [pc |-> "idle", doc |-> Empty, ack |-> <<>>]

Init ==
    /\ file = Empty
    /\ loc = [p \in Procs |-> Idle]
    /\ calls = 0 /\ acked = {} /\ crashes = 0
    /\ raced = FALSE /\ cut = FALSE

AllIdle == \A p \in Procs : loc[p].pc = "idle"

(* _load_state and the change in memory: nothing is written yet.           *)
Begin(p, doc, ack) ==
    /\ loc[p].pc = "idle"
    /\ calls < MaxCalls
    /\ calls' = calls + 1
    /\ loc' = [loc EXCEPT ![p] = [pc |-> "truncate", doc |-> doc, ack |-> ack]]
    /\ raced' = (raced \/ ~AllIdle)
    /\ UNCHANGED <<file, acked, crashes, cut>>

Deployed == Load.revs # <<>>

(* Mutant: the answer counts revisions from the current one.               *)
SyncCommand_FromCurrent(p) ==
    /\ Len(Load.revs) < MaxRevs
    /\ \E b \in Bundles : Begin(p, Sync(Load, b), <<Load.current + 1, b>>)

SyncCommand(p) ==
    /\ Len(Load.revs) < MaxRevs
    /\ \E b \in Bundles : Begin(p, Sync(Load, b), <<Len(Load.revs) + 1, b>>)

RolloutCommand(p) ==
    \E r \in DOMAIN Load.revs :
        \/ Begin(p, RolloutFull(Load, r), <<>>)
        \/ /\ Load.current # r
           /\ \E percent \in Percents : Begin(p, RolloutCanary(Load, r, percent), <<>>)

TrafficCommand(p) ==
    /\ Load.canary # None
    /\ \E s \in Splits : Begin(p, Traffic(Load, s), <<>>)

RollbackCommand(p) ==
    \/ \E r \in DOMAIN Load.revs : Begin(p, Rollback(Load, r), <<>>)
    \/ /\ DOMAIN Load.revs \ {Load.current} # {}
       /\ Begin(p, Rollback(Load, RollbackDefault(Load)), <<>>)

HealthCommand(p) == Deployed /\ Begin(p, Health(Load), <<>>)

MetricsCommand(p) == Deployed /\ \E m \in Reports : Begin(p, Record(Load, m), <<>>)

(* A read, and yet it scales and saves.                                    *)
SignalsCommand(p) ==
    /\ Deployed
    /\ Scale(Load).replicas <= MaxReplicas
    /\ Begin(p, Scale(Load), <<>>)

RulesCommand(p)  == Deployed /\ Begin(p, SetRules(Load), <<>>)
AlertsCommand(p) == Deployed /\ Begin(p, Alerts(Load), <<>>)

(* _save_state is write_text: truncate, then write.                        *)
Truncate(p) ==
    /\ loc[p].pc = "truncate"
    /\ file' = Torn
    /\ loc' = [loc EXCEPT ![p].pc = "write"]
    /\ UNCHANGED <<calls, acked, raced, crashes, cut>>

Write(p) ==
    /\ loc[p].pc = "write"
    /\ file' = loc[p].doc
    /\ loc' = [loc EXCEPT ![p] = Idle]
    /\ acked' = IF loc[p].ack = <<>> THEN acked ELSE acked \cup {loc[p].ack}
    /\ UNCHANGED <<calls, raced, crashes, cut>>

(* The process dies between two file operations.                           *)
Crash(p) ==
    /\ loc[p].pc # "idle" /\ crashes < MaxCrash
    /\ crashes' = crashes + 1
    /\ cut' = (cut \/ loc[p].pc = "write")
    /\ loc' = [loc EXCEPT ![p] = Idle]
    /\ UNCHANGED <<file, calls, acked, raced>>

(* _cmd_agent_control_plane *)
Next == \E p \in Procs :
    \/ SyncCommand(p)   \/ RolloutCommand(p) \/ TrafficCommand(p) \/ RollbackCommand(p)
    \/ HealthCommand(p) \/ MetricsCommand(p) \/ SignalsCommand(p)
    \/ RulesCommand(p)  \/ AlertsCommand(p)
    \/ Truncate(p) \/ Write(p) \/ Crash(p)

Spec == Init /\ [][Next]_vars

-----------------------------------------------------------------------------
DocOK(d) ==
    /\ d \in Deployment
    /\ Len(d.revs) <= MaxRevs /\ d.current <= Len(d.revs)
    /\ d.canary # None => d.canary.rev \in DOMAIN d.revs
    /\ d.replicas # None => d.replicas > 0
    /\ Len(d.history) <= Kept

(* The deployment has the shape every command relies on when it loads it.  *)
TypeOK ==
    /\ file = Torn \/ DocOK(file)
    /\ \A p \in Procs : loc[p].pc \in {"idle", "truncate", "write"} /\ DocOK(loc[p].doc)
    /\ acked \subseteq Nat \X Bundles
    /\ calls \in 0 .. MaxCalls /\ crashes \in 0 .. MaxCrash
    /\ raced \in BOOLEAN /\ cut \in BOOLEAN

(* However syncs, rollouts, splits and rollbacks follow or overlap, the    *)
(* saved record sends all traffic somewhere and says where: at most one    *)
(* revision is active and it is the current one, a canary share goes to    *)
(* exactly the one revision marked canary, and never to the current one.   *)
TrafficGoesToLive ==
    LET d == Load
        Marked(st) == {i \in DOMAIN d.revs : d.revs[i].status = st}
    IN  /\ d.split.stable + d.split.canary = 100
        /\ d.revs # <<>> => d.current # 0
        /\ Marked("active") \subseteq {d.current}
        /\ d.canary = None => d.split = AllToStable /\ Marked("canary") = {}
        /\ d.canary # None => /\ Marked("canary") = {d.canary.rev}
                              /\ d.canary.rev # d.current
                              /\ d.canary.split = d.split

(* Callers that take turns keep the revision numbers they were told: the   *)
(* number names the bundle it was answered for, through every later sync,  *)
(* rollout and crash that did not cut a write short.                       *)
AckedRevisionKept ==
    AllIdle /\ ~raced /\ ~cut =>
        \A a \in acked : a[1] \in DOMAIN Load.revs /\ Load.revs[a[1]].bundle = a[2]

(* What is derived from reports and saved beside them follows them: the    *)
(* alerts are those the saved history and rule give, however reports, new  *)
(* rules and crashes came between, and the replicas asked for stay within  *)
(* one of those last reported, however often the signals are read.         *)
DerivedFollowsReports ==
    LET d == Load IN
    /\ Alerts(d) = d
    /\ d.metrics # None /\ d.metrics.replicas # None =>
          d.replicas \in Larger(1, Larger(1, d.metrics.replicas) - 1) .. Larger(1, d.metrics.replicas) + 1
=============================================================================
