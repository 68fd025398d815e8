------------------------- MODULE AgentPlatformProofs -------------------------
(* Proofs about the command groups of `mellow agent`: the control plane    *)
(* for every set of callers, bundles, splits and reports, the packages for *)
(* every set of releases and every way of naming and ranking versions, the *)
(* runs for every set of callers, tools and policies, each for every bound *)
(* of its operations, and the platform that puts them side by side.        *)
EXTENDS AgentPlatform, FiniteSetTheorems, SequenceTheorems, WellFoundedInduction, TLAPS

-----------------------------------------------------------------------------
(***************************************************************************)
(* The control plane.                                                      *)
(***************************************************************************)

-----------------------------------------------------------------------------
(* Traffic shares.                                                         *)

(* A rounded share of a part in a positive whole is between 0 and 100.     *)
LEMMA RoundedShare ==
    ASSUME NEW s \in Nat, NEW t \in Nat \ {0}, s <= t
    PROVE  RoundDiv(100 * s, t) \in 0 .. 100
  <1> DEFINE q == (100 * s) \div t
             m == (100 * s) % t
  <1>1. q \in Int /\ m \in Int /\ 0 <= m /\ m < t /\ 100 * s = t * q + m
    OBVIOUS
  <1>2. q >= 0
    <2> SUFFICES ASSUME q <= -1 PROVE FALSE
      BY <1>1
    <2>1. t * q <= t * (-1)
      BY <1>1
    <2> QED BY <2>1, <1>1
  <1>3. q <= 100
    <2> SUFFICES ASSUME q >= 101 PROVE FALSE
      BY <1>1
    <2>1. t * q >= t * 101
      BY <1>1
    <2> QED BY <2>1, <1>1
  <1>4. q = 100 => m = 0
    BY <1>1
  <1>5. RoundDiv(100 * s, t) = IF 2 * m > t \/ (2 * m = t /\ q % 2 = 1) THEN q + 1 ELSE q
    BY DEF RoundDiv
  <1> HIDE DEF q, m
  <1> QED BY <1>1, <1>2, <1>3, <1>4, <1>5

(* The two shares of a split always make up the whole.                     *)
LEMMA NormalizedShares ==
    ASSUME NEW stable \in Int, NEW canary \in Int
    PROVE  /\ NormalizeSplit(stable, canary) \in Split
           /\ NormalizeSplit(stable, canary).stable + NormalizeSplit(stable, canary).canary = 100
  <1> DEFINE s == Larger(0, stable)
             c == Larger(0, canary)
             share == IF s + c = 100 THEN s ELSE RoundDiv(100 * s, s + c)
  <1>1. s \in Nat /\ c \in Nat
    BY DEF Larger
  <1>2. s + c # 0 => share \in 0 .. 100
    BY <1>1, RoundedShare
  <1>3. NormalizeSplit(stable, canary) =
            IF s + c = 0 THEN AllToStable ELSE [stable |-> share, canary |-> 100 - share]
    BY DEF NormalizeSplit
  <1> HIDE DEF s, c, share
  <1> QED BY <1>1, <1>2, <1>3 DEF AllToStable, Split

(* The end of a sequence is one of at most n elements.                     *)
LEMMA LastFacts ==
    ASSUME NEW S, NEW s \in Seq(S), NEW n \in Nat \ {0}
    PROVE  Last(s, n) \in Seq(S) /\ Len(Last(s, n)) <= n
  <1> DEFINE k == Larger(1, Len(s) - n + 1)
  <1>1. k \in 1 .. Len(s) + 1 /\ k > Len(s) - n
    BY DEF Larger
  <1>2. SubSeq(s, k, Len(s)) \in Seq(S) /\ Len(SubSeq(s, k, Len(s))) = Len(s) - k + 1
    <2>1. \A i \in k .. Len(s) : s[i] \in S
      BY <1>1
    <2> QED BY <1>1, <2>1, SubSeqProperties
  <1> QED BY <1>1, <1>2 DEF Last

(* A promotion leaves one active revision and no canary, and no revision's *)
(* bundle changes.                                                         *)
LEMMA PromoteFacts ==
    ASSUME NEW revs \in Seq(Revision), NEW r \in DOMAIN revs
    PROVE  /\ Promote(revs, r) \in Seq(Revision)
           /\ Len(Promote(revs, r)) = Len(revs)
           /\ \A i \in DOMAIN revs :
                 /\ Promote(revs, r)[i].bundle = revs[i].bundle
                 /\ Promote(revs, r)[i].status = "active" <=> i = r
                 /\ Promote(revs, r)[i].status # "canary"
  <1> DEFINE P == Promote(revs, r)
  <1>1. DOMAIN revs = 1 .. Len(revs) /\ \A i \in DOMAIN revs : revs[i] \in Revision
    OBVIOUS
  <1>2. /\ DOMAIN P = 1 .. Len(revs)
        /\ \A i \in DOMAIN revs : P[i] = IF i = r THEN [revs[i] EXCEPT !.status = "active"]
                        ELSE IF revs[i].status \in {"active", "canary"} THEN [revs[i] EXCEPT !.status = "synced"]
                        ELSE revs[i]
    BY <1>1 DEF Promote
  <1>3. P = [i \in 1 .. Len(revs) |-> P[i]]
    BY <1>1 DEF Promote
  <1> HIDE DEF P
  <1>4. \A i \in DOMAIN revs : /\ P[i] \in Revision
                               /\ P[i].bundle = revs[i].bundle
                               /\ P[i].status = "active" <=> i = r
                               /\ P[i].status # "canary"
    BY <1>1, <1>2 DEF Revision
  <1>5. P \in Seq(Revision) /\ Len(P) = Len(revs)
    <2>1. P \in [1 .. Len(revs) -> Revision]
      BY <1>1, <1>2, <1>3, <1>4
    <2> QED BY <2>1, <1>2
  <1> QED BY <1>4, <1>5 DEF P

-----------------------------------------------------------------------------
(* What every saved or loaded deployment satisfies.                        *)
Marked(d, st) == {i \in DOMAIN d.revs : d.revs[i].status = st}

Routed(d) ==
    /\ d.split.stable + d.split.canary = 100
    /\ d.revs # <<>> => d.current # 0
    /\ Marked(d, "active") \subseteq {d.current}
    /\ d.canary = None => d.split = AllToStable /\ Marked(d, "canary") = {}
    /\ d.canary # None => /\ Marked(d, "canary") = {d.canary.rev}
                          /\ d.canary.rev # d.current
                          /\ d.canary.split = d.split

Derived(d) ==
    /\ Alerts(d) = d
    /\ d.metrics # None /\ d.metrics.replicas # None =>
          d.replicas \in Larger(1, Larger(1, d.metrics.replicas) - 1) .. Larger(1, d.metrics.replicas) + 1

Fit(d) == DocOK(d) /\ Routed(d) /\ Derived(d)

(* Later deployments keep the revisions of earlier ones.                   *)
Grows(d, e) ==
    /\ Len(d.revs) <= Len(e.revs)
    /\ \A i \in 1 .. Len(d.revs) : e.revs[i].bundle = d.revs[i].bundle

(* A record has its fields' values when it is a deployment.                *)
LEMMA AlertsFacts ==
    ASSUME NEW d \in Deployment
    PROVE  /\ Alerts(d) = [d EXCEPT !.firing = Alerts(d).firing]
           /\ Alerts(d).firing \in BOOLEAN
           /\ Alerts(Alerts(d)) = Alerts(d)
  <1> DEFINE series(h) == Last(Last(h, Recent), Window)
             fires(h, rule) == rule /\ series(h) # <<>> /\ (\A i \in DOMAIN series(h) : series(h)[i])
  <1>1. \A e : Alerts(e) = [e EXCEPT !.firing = fires(e.history, e.rule)]
    BY DEF Alerts
  <1>2. d.rule \in BOOLEAN => fires(d.history, d.rule) \in BOOLEAN
    OBVIOUS
  <1> HIDE DEF fires
  <1>3. Alerts(d).firing = fires(d.history, d.rule) /\ Alerts(d).history = d.history /\ Alerts(d).rule = d.rule
    BY <1>1 DEF Deployment
  <1> QED BY <1>1, <1>2, <1>3 DEF Deployment

(* The alerts depend on the history and the rule alone.                    *)
LEMMA AlertsOf ==
    ASSUME NEW d \in Deployment, NEW e \in Deployment,
           e.history = d.history, e.rule = d.rule, e.firing = d.firing, Alerts(d) = d
    PROVE  Alerts(e) = e
  <1> DEFINE series(h) == Last(Last(h, Recent), Window)
             fires(h, rule) == rule /\ series(h) # <<>> /\ (\A i \in DOMAIN series(h) : series(h)[i])
  <1>1. \A x : Alerts(x) = [x EXCEPT !.firing = fires(x.history, x.rule)]
    BY DEF Alerts
  <1> HIDE DEF fires
  <1>2. d.firing = fires(d.history, d.rule)
    BY <1>1 DEF Deployment
  <1>3. e.firing = fires(e.history, e.rule)
    BY <1>2
  <1> QED BY <1>1, <1>3 DEF Deployment

(* Scaling asks for one replica more or fewer than reported.               *)
LEMMA ScaleFacts ==
    ASSUME NEW d \in Deployment
    PROVE  /\ Scale(d) = [d EXCEPT !.replicas = Scale(d).replicas]
           /\ Scale(d).replicas \in Nat \ {0}
           /\ d.metrics # None /\ d.metrics.replicas # None =>
                 Scale(d).replicas \in Larger(1, Larger(1, d.metrics.replicas) - 1)
                                         .. Larger(1, d.metrics.replicas) + 1
  <1> DEFINE m == IF d.metrics = None THEN [load |-> "idle", rps |-> 0, replicas |-> None] ELSE d.metrics
             known   == IF m.replicas # None THEN m.replicas ELSE IF d.replicas # None THEN d.replicas ELSE 1
             current == Larger(1, known)
             out     == m.load = "busy" \/ m.rps >= 50 * current
             asked   == IF out THEN current + 1 ELSE IF m.load = "idle" /\ current > 1 THEN current - 1
                        ELSE current
  <1>1. m \in Report
    BY ControlAssumption DEF Deployment, Report
  <1>2. known \in Nat
    BY <1>1 DEF Deployment, Report
  <1>3. current \in Nat /\ current >= 1 /\ current = Larger(1, known)
    BY <1>2 DEF Larger
  <1>4. Scale(d) = [d EXCEPT !.replicas = asked]
    BY DEF Scale
  <1>5. d.metrics # None /\ d.metrics.replicas # None => current = Larger(1, d.metrics.replicas)
    OBVIOUS
  <1> HIDE DEF m, known, current
  <1>6. asked \in Nat \ {0} /\ asked <= current + 1 /\ asked >= 1 /\ asked >= current - 1
    <2> HIDE DEF out
    <2> QED BY <1>3
  <1> HIDE DEF asked
  <1>7. Scale(d).replicas = asked
    BY <1>4 DEF Deployment
  <1>8. asked \in Larger(1, current - 1) .. current + 1
    BY <1>3, <1>6 DEF Larger
  <1> QED BY <1>4, <1>5, <1>6, <1>7, <1>8

LEMMA EmptyFits == Fit(Empty)
  <1>1. Empty \in Deployment
    <2>1. <<>> \in Seq(Revision) /\ <<>> \in Seq(BOOLEAN)
      OBVIOUS
    <2> QED BY <2>1 DEF Empty, Deployment, Split, AllToStable
  <1>2. DocOK(Empty)
    BY <1>1, ControlAssumption DEF DocOK, Empty
  <1>3. Routed(Empty)
    BY DEF Routed, Marked, Empty, AllToStable
  <1>4. Derived(Empty)
    <2>1. Empty.rule = FALSE /\ Empty.firing = FALSE /\ Empty.metrics = None
      BY DEF Empty
    <2> DEFINE series == Last(Last(Empty.history, Recent), Window)
               rings  == series # <<>> /\ (\A i \in DOMAIN series : series[i])
    <2>2. Alerts(Empty) = [Empty EXCEPT !.firing = (Empty.rule /\ rings)]
      BY DEF Alerts
    <2> HIDE DEF rings
    <2>3. (Empty.rule /\ rings) = FALSE
      BY <2>1
    <2>4. Alerts(Empty) = Empty
      BY <1>1, <2>1, <2>2, <2>3 DEF Deployment
    <2> QED BY <2>1, <2>4 DEF Derived
  <1> QED BY <1>2, <1>3, <1>4 DEF Fit

-----------------------------------------------------------------------------
(* Every command turns a fitting deployment into one that fits and keeps   *)
(* the revisions it had.                                                   *)

LEMMA SyncFits ==
    ASSUME NEW d, Fit(d), NEW b \in Bundles, Len(d.revs) < MaxRevs
    PROVE  /\ Fit(Sync(d, b)) /\ Grows(d, Sync(d, b))
           /\ Len(d.revs) + 1 \in DOMAIN Sync(d, b).revs
           /\ Sync(d, b).revs[Len(d.revs) + 1].bundle = b
  <1> DEFINE n   == Len(d.revs) + 1
             st  == IF n = 1 THEN "registered" ELSE "synced"
             rev == [bundle |-> b, status |-> st, healthy |-> FALSE]
             e   == Sync(d, b)
  <1>1. d \in Deployment /\ d.revs \in Seq(Revision) /\ rev \in Revision
    BY DEF Fit, DocOK, Deployment, Revision
  <1>2. e = [d EXCEPT !.revs = Append(d.revs, rev), !.current = IF d.current = 0 THEN n ELSE d.current, !.status = st]
    BY DEF Sync
  <1> HIDE DEF e
  <1>3. /\ Append(d.revs, rev) \in Seq(Revision) /\ Len(Append(d.revs, rev)) = n
        /\ \A i \in 1 .. Len(d.revs) : Append(d.revs, rev)[i] = d.revs[i]
        /\ Append(d.revs, rev)[n] = rev
    BY <1>1
  <1>4. /\ e \in Deployment /\ e.revs = Append(d.revs, rev) /\ e.canary = d.canary /\ e.split = d.split
        /\ e.current = IF d.current = 0 THEN n ELSE d.current
        /\ e.metrics = d.metrics /\ e.replicas = d.replicas /\ e.history = d.history
        /\ e.rule = d.rule /\ e.firing = d.firing
    <2>1. st \in {"registered", "synced"} /\ (IF d.current = 0 THEN n ELSE d.current) \in Nat
      BY <1>1 DEF Deployment
    <2> HIDE DEF st, n, rev
    <2> USE DEF Deployment
    <2>2. e \in Deployment
      BY <1>1, <1>2, <1>3, <2>1
    <2>3. /\ e.revs = Append(d.revs, rev) /\ e.canary = d.canary /\ e.split = d.split
          /\ e.current = IF d.current = 0 THEN n ELSE d.current
      BY <1>1, <1>2
    <2>4. /\ e.metrics = d.metrics /\ e.replicas = d.replicas /\ e.history = d.history
          /\ e.rule = d.rule /\ e.firing = d.firing
      BY <1>1, <1>2
    <2> QED BY <2>2, <2>3, <2>4
  <1>5. DOMAIN e.revs = 1 .. n /\ DOMAIN d.revs = 1 .. Len(d.revs) /\ Len(e.revs) = n /\ Len(d.revs) \in Nat
    BY <1>1, <1>3, <1>4
  <1>6. DocOK(e)
    BY <1>4, <1>5, ControlAssumption DEF Fit, DocOK, Deployment
  <1>7. rev.status # "active" /\ rev.status # "canary" /\ rev.bundle = b
    OBVIOUS
  <1> HIDE DEF rev
  <1>8. Marked(e, "active") = Marked(d, "active") /\ Marked(e, "canary") = Marked(d, "canary")
    <2>1. \A i \in 1 .. n : i = n \/ i \in 1 .. Len(d.revs)
      BY <1>5
    <2> QED BY <2>1, <1>3, <1>4, <1>5, <1>7 DEF Marked
  <1>9. Routed(e)
    <2>1. e.current # 0 /\ (Marked(d, "active") \subseteq {e.current})
      <3>1. d.current = 0 => Marked(d, "active") = {}
        BY <1>5 DEF Fit, Routed, Marked
      <3> QED BY <3>1, <1>4, <1>5 DEF Fit, Routed
    <2>2. d.canary # None => d.canary.rev # e.current
      <3>1. d.canary # None => d.revs # <<>>
        BY <1>5 DEF Fit, DocOK
      <3> QED BY <3>1, <1>4 DEF Fit, Routed
    <2> QED BY <2>1, <2>2, <1>4, <1>8 DEF Fit, Routed
  <1>10. Derived(e)
    BY <1>1, <1>4, AlertsOf DEF Fit, Derived
  <1>11. Grows(d, e) /\ n \in DOMAIN e.revs /\ e.revs[n].bundle = b
    BY <1>3, <1>4, <1>5, <1>7 DEF Grows
  <1> QED BY <1>6, <1>9, <1>10, <1>11 DEF Fit, e

(* What rollouts and rollbacks have in common.                             *)
LEMMA Settled ==
    ASSUME NEW d, Fit(d), NEW r \in DOMAIN d.revs, NEW e, NEW st \in {"rolled-out", "rolled-back"},
           e = [d EXCEPT !.revs = Promote(d.revs, r), !.current = r, !.status = st,
                         !.canary = None, !.split = AllToStable]
    PROVE  Fit(e) /\ Grows(d, e)
  <1>1. d \in Deployment /\ d.revs \in Seq(Revision) /\ DOMAIN d.revs = 1 .. Len(d.revs)
    BY DEF Fit, DocOK, Deployment
  <1>2. /\ Promote(d.revs, r) \in Seq(Revision) /\ Len(Promote(d.revs, r)) = Len(d.revs)
        /\ \A i \in DOMAIN d.revs :
                 /\ Promote(d.revs, r)[i].bundle = d.revs[i].bundle
                 /\ Promote(d.revs, r)[i].status = "active" <=> i = r
                 /\ Promote(d.revs, r)[i].status # "canary"
    BY <1>1, PromoteFacts
  <1>3. AllToStable \in Split /\ AllToStable.stable + AllToStable.canary = 100
    BY DEF AllToStable, Split
  <1>4. /\ e \in Deployment /\ e.revs = Promote(d.revs, r) /\ e.canary = None /\ e.split = AllToStable
        /\ e.current = r
        /\ e.metrics = d.metrics /\ e.replicas = d.replicas /\ e.history = d.history
        /\ e.rule = d.rule /\ e.firing = d.firing
    <2>1. e \in Deployment
      <3>1. r \in Nat /\ st \in {None, "registered", "synced", "rolled-out", "canary", "rolled-back"}
        BY <1>1
      <3>2. d \in Deployment /\ Promote(d.revs, r) \in Seq(Revision) /\ AllToStable \in Split
        BY <1>1, <1>2, <1>3
      <3> QED BY ONLY <3>1, <3>2, e = [d EXCEPT !.revs = Promote(d.revs, r), !.current = r, !.status = st,
                         !.canary = None, !.split = AllToStable] DEF Deployment
    <2>2. e.revs = Promote(d.revs, r) /\ e.canary = None /\ e.split = AllToStable /\ e.current = r
      BY <1>1 DEF Deployment
    <2>3. /\ e.metrics = d.metrics /\ e.replicas = d.replicas /\ e.history = d.history
          /\ e.rule = d.rule /\ e.firing = d.firing
      BY <1>1 DEF Deployment
    <2> QED BY <2>1, <2>2, <2>3
  <1>5. DOMAIN e.revs = 1 .. Len(d.revs) /\ Len(e.revs) = Len(d.revs) /\ Len(d.revs) \in Nat
    BY <1>1, <1>2, <1>4
  <1>6. DocOK(e)
    BY <1>1, <1>4, <1>5 DEF Fit, DocOK
  <1>7. Routed(e)
    <2>1. Marked(e, "active") \subseteq {r} /\ Marked(e, "canary") = {}
      BY <1>1, <1>2, <1>4, <1>5 DEF Marked
    <2> QED BY <2>1, <1>1, <1>3, <1>4 DEF Routed
  <1>8. Derived(e)
    BY <1>1, <1>4, AlertsOf DEF Fit, Derived
  <1> QED BY <1>1, <1>2, <1>4, <1>5, <1>6, <1>7, <1>8 DEF Fit, Grows

LEMMA RolloutFullFits ==
    ASSUME NEW d, Fit(d), NEW r \in DOMAIN d.revs
    PROVE  Fit(RolloutFull(d, r)) /\ Grows(d, RolloutFull(d, r))
  BY Settled DEF RolloutFull

LEMMA RollbackFits ==
    ASSUME NEW d, Fit(d), NEW r \in DOMAIN d.revs
    PROVE  Fit(Rollback(d, r)) /\ Grows(d, Rollback(d, r))
  BY Settled DEF Rollback

LEMMA RolloutCanaryFits ==
    ASSUME NEW d, Fit(d), NEW r \in DOMAIN d.revs, d.current # r, NEW percent \in Int
    PROVE  Fit(RolloutCanary(d, r, percent)) /\ Grows(d, RolloutCanary(d, r, percent))
  <1> DEFINE share == Larger(1, Smaller(99, percent))
             split == [stable |-> 100 - share, canary |-> share]
             mark  == [rev |-> r, split |-> split]
             P     == Promote(d.revs, r)
             revs  == [P EXCEPT ![r].status = "canary", ![d.current].status = "active"]
             e     == RolloutCanary(d, r, percent)
  <1>1. d \in Deployment /\ d.revs \in Seq(Revision) /\ DOMAIN d.revs = 1 .. Len(d.revs)
    BY DEF Fit, DocOK, Deployment
  <1>2. /\ P \in Seq(Revision) /\ Len(P) = Len(d.revs)
        /\ \A i \in DOMAIN d.revs :
                 /\ P[i].bundle = d.revs[i].bundle
                 /\ P[i].status = "active" <=> i = r
                 /\ P[i].status # "canary"
    BY <1>1, PromoteFacts
  <1>3. d.current \in 1 .. Len(d.revs) /\ d.current # r
    BY <1>1 DEF Fit, DocOK, Routed, Deployment
  <1>4. split \in Split /\ split.stable + split.canary = 100
    <2>1. share \in 1 .. 99
      BY DEF Larger, Smaller
    <2> HIDE DEF share
    <2> QED BY <2>1 DEF Split
  <1>5. mark \in Canary /\ mark.rev = r /\ mark.split = split /\ mark # None
    <2>1. mark \in Canary
      BY <1>1, <1>4 DEF Canary
    <2> QED BY <2>1, ControlAssumption
  <1>6. e = [d EXCEPT !.revs = revs, !.status = "canary", !.canary = mark, !.split = split]
    BY DEF RolloutCanary
  <1> HIDE DEF P
  <1>7. /\ revs \in Seq(Revision) /\ Len(revs) = Len(d.revs)
        /\ \A i \in DOMAIN d.revs :
              /\ revs[i].bundle = P[i].bundle
              /\ revs[i].status = IF i = d.current THEN "active" ELSE IF i = r THEN "canary" ELSE P[i].status
    <2>1. DOMAIN P = 1 .. Len(d.revs) /\ P \in [1 .. Len(d.revs) -> Revision]
      BY <1>2
    <2>2. \A i \in 1 .. Len(d.revs) :
             /\ revs[i] = IF i = d.current THEN [P[i] EXCEPT !.status = "active"]
                          ELSE IF i = r THEN [P[i] EXCEPT !.status = "canary"] ELSE P[i]
      BY <2>1, <1>1, <1>3
    <2>3. revs \in [1 .. Len(d.revs) -> Revision]
      <3>1. \A x \in Revision : [x EXCEPT !.status = "active"] \in Revision /\ [x EXCEPT !.status = "canary"] \in Revision
        BY DEF Revision
      <3> QED BY <3>1, <2>1, <1>1, <1>3
    <2>4. \A i \in 1 .. Len(d.revs) :
              /\ revs[i].bundle = P[i].bundle
              /\ revs[i].status = IF i = d.current THEN "active" ELSE IF i = r THEN "canary" ELSE P[i].status
      BY <2>1, <2>2 DEF Revision
    <2> HIDE DEF revs
    <2> QED BY <2>3, <2>4, <1>1
  <1> HIDE DEF e, revs, mark, split
  <1>8. /\ e \in Deployment /\ e.revs = revs /\ e.canary = mark /\ e.split = split
        /\ e.current = d.current
        /\ e.metrics = d.metrics /\ e.replicas = d.replicas /\ e.history = d.history
        /\ e.rule = d.rule /\ e.firing = d.firing
    BY <1>1, <1>4, <1>5, <1>6, <1>7 DEF Deployment
  <1>9. DOMAIN e.revs = 1 .. Len(d.revs) /\ Len(e.revs) = Len(d.revs) /\ Len(d.revs) \in Nat
    BY <1>1, <1>7, <1>8
  <1>10. DocOK(e)
    BY <1>1, <1>5, <1>8, <1>9 DEF Fit, DocOK
  <1>11. Routed(e)
    <2>1. Marked(e, "active") \subseteq {d.current}
      BY <1>1, <1>2, <1>7, <1>8, <1>9 DEF Marked
    <2>2. Marked(e, "canary") = {r}
      BY <1>1, <1>2, <1>3, <1>7, <1>8, <1>9 DEF Marked
    <2>3. e.current # 0 /\ e.canary # None
      BY <1>3, <1>5, <1>8
    <2> QED BY <2>1, <2>2, <2>3, <1>3, <1>4, <1>5, <1>8 DEF Routed
  <1>12. Derived(e)
    BY <1>1, <1>8, AlertsOf DEF Fit, Derived
  <1>13. Grows(d, e)
    BY <1>1, <1>2, <1>7, <1>8, <1>9 DEF Grows
  <1> QED BY <1>10, <1>11, <1>12, <1>13 DEF Fit, e

LEMMA TrafficFits ==
    ASSUME NEW d, Fit(d), d.canary # None, NEW s \in Splits
    PROVE  Fit(Traffic(d, s)) /\ Grows(d, Traffic(d, s))
  <1> DEFINE split == NormalizeSplit(s[1], s[2])
             mark  == [d.canary EXCEPT !.split = split]
             st    == IF split.canary > 0 THEN "canary" ELSE "rolled-out"
             e     == Traffic(d, s)
  <1>1. d \in Deployment /\ d.canary \in Canary
    BY DEF Fit, DocOK, Deployment
  <1>2. split \in Split /\ split.stable + split.canary = 100
    BY NormalizedShares, ControlAssumption
  <1>3. e = [d EXCEPT !.canary = mark, !.split = split, !.status = st]
    BY DEF Traffic
  <1> HIDE DEF e, split
  <1>4. mark \in Canary /\ mark.rev = d.canary.rev /\ mark.split = split /\ mark # None
    <2>1. mark \in Canary /\ mark.rev = d.canary.rev /\ mark.split = split
      BY <1>1, <1>2 DEF Canary
    <2> QED BY <2>1, ControlAssumption
  <1>5. st \in {"canary", "rolled-out"}
    OBVIOUS
  <1> HIDE DEF mark, st
  <1>6. e \in Deployment /\ e.revs = d.revs /\ e.canary = mark /\ e.split = split /\ e.current = d.current
    BY <1>1, <1>2, <1>3, <1>4, <1>5 DEF Deployment
  <1>7. /\ e.metrics = d.metrics /\ e.replicas = d.replicas /\ e.history = d.history
        /\ e.rule = d.rule /\ e.firing = d.firing
    BY <1>1, <1>3 DEF Deployment
  <1>8. DocOK(e)
    BY <1>4, <1>6, <1>7 DEF Fit, DocOK
  <1>9. Routed(e)
    BY <1>2, <1>4, <1>6 DEF Fit, Routed, Marked
  <1>10. Derived(e)
    BY <1>1, <1>6, <1>7, AlertsOf DEF Fit, Derived
  <1> QED BY <1>6, <1>8, <1>9, <1>10 DEF Fit, Grows, Deployment, e

(* Routing does not look at reports, alerts or health.                     *)
LEMMA SameRoute ==
    ASSUME NEW d, Fit(d), NEW e \in Deployment,
           Len(e.revs) = Len(d.revs),
           \A i \in 1 .. Len(d.revs) : e.revs[i].status = d.revs[i].status /\ e.revs[i].bundle = d.revs[i].bundle,
           e.current = d.current, e.canary = d.canary, e.split = d.split,
           e.replicas = None \/ e.replicas > 0, Len(e.history) <= Kept
    PROVE  DocOK(e) /\ Routed(e) /\ Grows(d, e)
  <1>1. d \in Deployment /\ d.revs \in Seq(Revision) /\ e.revs \in Seq(Revision)
    BY DEF Fit, DocOK, Deployment
  <1>2. DOMAIN d.revs = 1 .. Len(d.revs) /\ DOMAIN e.revs = 1 .. Len(d.revs) /\ Len(d.revs) \in Nat
    BY <1>1
  <1>3. DocOK(e) /\ Grows(d, e)
    BY <1>1, <1>2 DEF Fit, DocOK, Grows
  <1>4. Marked(e, "active") = Marked(d, "active") /\ Marked(e, "canary") = Marked(d, "canary")
    BY <1>2 DEF Marked
  <1>5. e.revs # <<>> => d.revs # <<>>
    BY <1>1, <1>2
  <1> QED BY <1>3, <1>4, <1>5 DEF Fit, Routed

LEMMA HealthFits ==
    ASSUME NEW d, Fit(d)
    PROVE  Fit(Health(d)) /\ Grows(d, Health(d))
  <1>1. CASE d.current = 0
    BY <1>1 DEF Health, Grows, Fit, DocOK, Deployment
  <1>2. CASE d.current # 0
    <2> DEFINE e    == Health(d)
               revs == [d.revs EXCEPT ![d.current].healthy = TRUE]
    <2>1. d \in Deployment /\ d.revs \in Seq(Revision) /\ DOMAIN d.revs = 1 .. Len(d.revs)
      BY DEF Fit, DocOK, Deployment
    <2>2. d.current \in 1 .. Len(d.revs)
      BY <1>2 DEF Fit, DocOK, Deployment
    <2>3. e = [d EXCEPT !.revs = revs]
      BY <1>2 DEF Health
    <2>4. /\ revs \in Seq(Revision) /\ Len(revs) = Len(d.revs)
          /\ \A i \in 1 .. Len(d.revs) : revs[i].status = d.revs[i].status /\ revs[i].bundle = d.revs[i].bundle
      <3>1. d.revs \in [1 .. Len(d.revs) -> Revision]
        BY <2>1
      <3>2. [d.revs[d.current] EXCEPT !.healthy = TRUE] \in Revision
        BY <3>1, <2>2 DEF Revision
      <3>3. revs \in [1 .. Len(d.revs) -> Revision]
        BY <3>1, <3>2, <2>2
      <3>4. \A i \in 1 .. Len(d.revs) : revs[i].status = d.revs[i].status /\ revs[i].bundle = d.revs[i].bundle
        BY <3>1, <2>2 DEF Revision
      <3> HIDE DEF revs
      <3> QED BY <3>3, <3>4, <2>1
    <2> HIDE DEF e, revs
    <2>5. /\ e \in Deployment /\ e.revs = revs /\ e.canary = d.canary /\ e.split = d.split /\ e.current = d.current
      BY <2>1, <2>3, <2>4 DEF Deployment
    <2>6. /\ e.metrics = d.metrics /\ e.replicas = d.replicas /\ e.history = d.history
          /\ e.rule = d.rule /\ e.firing = d.firing
      BY <2>1, <2>3 DEF Deployment
    <2>7. DocOK(e) /\ Routed(e) /\ Grows(d, e)
      <3>1. (e.replicas = None \/ e.replicas > 0) /\ Len(e.history) <= Kept
        BY <2>6 DEF Fit, DocOK
      <3> QED BY <3>1, <2>4, <2>5, <2>6, SameRoute
    <2>8. Derived(e)
      BY <2>1, <2>5, <2>6, AlertsOf DEF Fit, Derived
    <2> QED BY <2>7, <2>8 DEF Fit, e
  <1> QED BY <1>1, <1>2

LEMMA ScaleFits ==
    ASSUME NEW d, Fit(d)
    PROVE  Fit(Scale(d)) /\ Grows(d, Scale(d))
  <1> DEFINE e == Scale(d)
  <1>1. d \in Deployment
    BY DEF Fit, DocOK
  <1>2. /\ e = [d EXCEPT !.replicas = e.replicas] /\ e.replicas \in Nat \ {0}
        /\ d.metrics # None /\ d.metrics.replicas # None =>
              e.replicas \in Larger(1, Larger(1, d.metrics.replicas) - 1) .. Larger(1, d.metrics.replicas) + 1
    BY <1>1, ScaleFacts
  <1> HIDE DEF e
  <1>3. /\ e \in Deployment /\ e.revs = d.revs /\ e.canary = d.canary /\ e.split = d.split /\ e.current = d.current
    BY <1>1, <1>2 DEF Deployment
  <1>4. e.metrics = d.metrics /\ e.history = d.history /\ e.rule = d.rule /\ e.firing = d.firing
    BY <1>1, <1>2 DEF Deployment
  <1>5. DocOK(e) /\ Routed(e) /\ Grows(d, e)
    <2>1. (e.replicas = None \/ e.replicas > 0) /\ Len(e.history) <= Kept
      BY <1>2, <1>4 DEF Fit, DocOK
    <2> QED BY <2>1, <1>3, SameRoute
  <1>6. Derived(e)
    BY <1>1, <1>2, <1>3, <1>4, AlertsOf DEF Fit, Derived
  <1> QED BY <1>5, <1>6 DEF Fit, e

(* Evaluating the alerts makes them current, whatever they were.           *)
LEMMA AlertsFit ==
    ASSUME NEW d, DocOK(d), Routed(d),
           d.metrics # None /\ d.metrics.replicas # None =>
              d.replicas \in Larger(1, Larger(1, d.metrics.replicas) - 1) .. Larger(1, d.metrics.replicas) + 1
    PROVE  Fit(Alerts(d)) /\ Grows(d, Alerts(d))
  <1> DEFINE e == Alerts(d)
  <1>1. d \in Deployment
    BY DEF DocOK
  <1>2. e = [d EXCEPT !.firing = e.firing] /\ e.firing \in BOOLEAN /\ Alerts(e) = e
    BY <1>1, AlertsFacts
  <1> HIDE DEF e
  <1>3. /\ e \in Deployment /\ e.revs = d.revs /\ e.canary = d.canary /\ e.split = d.split /\ e.current = d.current
    BY <1>1, <1>2 DEF Deployment
  <1>4. e.metrics = d.metrics /\ e.history = d.history /\ e.rule = d.rule /\ e.replicas = d.replicas
    BY <1>1, <1>2 DEF Deployment
  <1>5. DocOK(e)
    BY <1>3, <1>4 DEF DocOK
  <1>6. Routed(e)
    BY <1>3 DEF Routed, Marked
  <1>7. Derived(e) /\ Grows(d, e)
    BY <1>1, <1>2, <1>3, <1>4 DEF Derived, Grows, Deployment
  <1> QED BY <1>5, <1>6, <1>7 DEF Fit, e

LEMMA SetRulesFits ==
    ASSUME NEW d, Fit(d)
    PROVE  Fit(SetRules(d)) /\ Grows(d, SetRules(d))
  <1> DEFINE e == [d EXCEPT !.rule = TRUE]
  <1>1. d \in Deployment
    BY DEF Fit, DocOK
  <1>2. /\ e \in Deployment /\ e.revs = d.revs /\ e.canary = d.canary /\ e.split = d.split /\ e.current = d.current
        /\ e.metrics = d.metrics /\ e.history = d.history /\ e.replicas = d.replicas
    BY <1>1 DEF Deployment
  <1>3. SetRules(d) = Alerts(e)
    BY DEF SetRules
  <1> HIDE DEF e
  <1>4. DocOK(e) /\ Routed(e) /\ Grows(d, e)
    <2>1. (e.replicas = None \/ e.replicas > 0) /\ Len(e.history) <= Kept
      BY <1>2 DEF Fit, DocOK
    <2> QED BY <2>1, <1>2, SameRoute
  <1>5. Fit(Alerts(e)) /\ Grows(e, Alerts(e))
    BY <1>2, <1>4, AlertsFit DEF Fit, Derived
  <1> QED BY <1>2, <1>3, <1>5 DEF Grows

LEMMA RecordFits ==
    ASSUME NEW d, Fit(d), NEW m \in Reports
    PROVE  Fit(Record(d, m)) /\ Grows(d, Record(d, m))
  <1> DEFINE h == Last(Append(d.history, m.load = "busy"), Kept)
             c == [d EXCEPT !.metrics = m, !.history = h]
             e == Scale(c)
  <1>1. d \in Deployment /\ d.history \in Seq(BOOLEAN)
    BY DEF Fit, DocOK, Deployment
  <1>2. h \in Seq(BOOLEAN) /\ Len(h) <= Kept
    <2>1. Append(d.history, m.load = "busy") \in Seq(BOOLEAN)
      BY <1>1
    <2> QED BY <2>1, LastFacts, ControlAssumption
  <1>3. Record(d, m) = Alerts(e)
    BY DEF Record, Measure
  <1> HIDE DEF h
  <1>4. /\ c \in Deployment /\ c.revs = d.revs /\ c.canary = d.canary /\ c.split = d.split /\ c.current = d.current
        /\ c.history = h
    BY <1>1, <1>2 DEF Deployment
  <1>5. /\ e = [c EXCEPT !.replicas = e.replicas] /\ e.replicas \in Nat \ {0}
        /\ c.metrics # None /\ c.metrics.replicas # None =>
              e.replicas \in Larger(1, Larger(1, c.metrics.replicas) - 1) .. Larger(1, c.metrics.replicas) + 1
    BY <1>4, ScaleFacts
  <1> HIDE DEF c, e
  <1>6. /\ e \in Deployment /\ e.revs = d.revs /\ e.canary = d.canary /\ e.split = d.split /\ e.current = d.current
    BY <1>4, <1>5 DEF Deployment
  <1>7. e.metrics = c.metrics /\ e.history = h
    BY <1>4, <1>5 DEF Deployment
  <1>8. DocOK(e) /\ Routed(e) /\ Grows(d, e)
    BY <1>2, <1>5, <1>6, <1>7, SameRoute
  <1>9. Fit(Alerts(e)) /\ Grows(e, Alerts(e))
    BY <1>5, <1>7, <1>8, AlertsFit
  <1> QED BY <1>3, <1>6, <1>9 DEF Grows

(* Of some revisions one is the newest.                                    *)
LEMMA NewestOther ==
    ASSUME NEW n \in Nat, NEW S \in SUBSET (1 .. n), S # {}
    PROVE  \E r \in S : \A s \in S : s <= r
  <1> DEFINE T == {n - s : s \in S}
  <1>1. T \in SUBSET Nat /\ T # {}
    <2>1. \A s \in S : n - s \in Nat /\ n - s \in T
      OBVIOUS
    <2> QED BY <2>1
  <1>2. PICK t \in T : \A u \in T : <<u, t>> \notin OpToRel(<, Nat)
    <2> HIDE DEF T
    <2> QED BY <1>1, NatLessThanWellFounded, WFMin
  <1>3. \A u \in T : t <= u
    <2>1. \A u, v \in Nat : u < v => <<u, v>> \in OpToRel(<, Nat)
      BY DEF OpToRel
    <2> HIDE DEF T
    <2>2. \A u \in T : ~ (u < t)
      BY <1>1, <1>2, <2>1, Zenon
    <2> QED BY <1>1, <2>2
  <1>4. PICK r \in S : t = n - r
    OBVIOUS
  <1>5. \A s \in S : n - r <= n - s
    BY <1>3, <1>4
  <1> QED BY <1>5

-----------------------------------------------------------------------------
(* The deployment saved, and the one every caller is about to save.        *)
Locals == [pc : {"idle", "truncate", "write"}, doc : Deployment, ack : {<<>>} \cup (Nat \X Bundles)]

DocsInv ==
    /\ file = Torn \/ Fit(file)
    /\ loc \in [Procs -> Locals]
    /\ \A p \in Procs : Fit(loc[p].doc)
    /\ acked \subseteq Nat \X Bundles
    /\ calls \in 0 .. MaxCalls /\ crashes \in 0 .. MaxCrash
    /\ raced \in BOOLEAN /\ cut \in BOOLEAN

(* What a command makes of the deployment it loaded.                       *)
Outcome(doc, ack) ==
    /\ Fit(doc) /\ Grows(Load, doc)
    /\ ack # <<>> => /\ ack \in Nat \X Bundles
                     /\ ack[1] \in DOMAIN doc.revs /\ doc.revs[ack[1]].bundle = ack[2]

Commands(p) ==
    \/ SyncCommand(p)   \/ RolloutCommand(p) \/ TrafficCommand(p) \/ RollbackCommand(p)
    \/ HealthCommand(p) \/ MetricsCommand(p) \/ SignalsCommand(p)
    \/ RulesCommand(p)  \/ AlertsCommand(p)

LEMMA LoadFits == DocsInv => Fit(Load)
  BY EmptyFits DEF DocsInv, Load

(* Every command starts with an outcome that fits.                         *)
LEMMA CommandOutcome ==
    ASSUME DocsInv, NEW p \in Procs, Commands(p)
    PROVE  \E doc, ack : Outcome(doc, ack) /\ Begin(p, doc, ack)
  <1>1. Fit(Load)
    BY LoadFits
  <1>2. Load \in Deployment /\ DOMAIN Load.revs = 1 .. Len(Load.revs) /\ Len(Load.revs) \in Nat
    BY <1>1 DEF Fit, DocOK, Deployment
  <1>3. ASSUME NEW doc, Fit(doc), Grows(Load, doc), Begin(p, doc, <<>>)
        PROVE  \E d, a : Outcome(d, a) /\ Begin(p, d, a)
    BY <1>3 DEF Outcome
  <1>4. CASE SyncCommand(p)
    <2>1. PICK b \in Bundles : Begin(p, Sync(Load, b), <<Len(Load.revs) + 1, b>>)
      BY <1>4 DEF SyncCommand
    <2>2. Outcome(Sync(Load, b), <<Len(Load.revs) + 1, b>>)
      <3>1. Len(Load.revs) < MaxRevs
        BY <1>4 DEF SyncCommand
      <3> QED BY <1>1, <1>2, <3>1, SyncFits DEF Outcome
    <2> QED BY <2>1, <2>2
  <1>5. CASE RolloutCommand(p)
    <2>1. PICK r \in DOMAIN Load.revs :
              \/ Begin(p, RolloutFull(Load, r), <<>>)
              \/ /\ Load.current # r
                 /\ \E percent \in Percents : Begin(p, RolloutCanary(Load, r, percent), <<>>)
      BY <1>5 DEF RolloutCommand
    <2>2. CASE Begin(p, RolloutFull(Load, r), <<>>)
      BY <2>2, <1>1, <1>3, RolloutFullFits
    <2>3. CASE /\ Load.current # r
               /\ \E percent \in Percents : Begin(p, RolloutCanary(Load, r, percent), <<>>)
      <3>1. PICK percent \in Percents : Begin(p, RolloutCanary(Load, r, percent), <<>>)
        BY <2>3
      <3> QED BY <3>1, <2>3, <1>1, <1>3, RolloutCanaryFits, ControlAssumption
    <2> QED BY <2>1, <2>2, <2>3
  <1>6. CASE TrafficCommand(p)
    BY <1>6, <1>1, <1>3, TrafficFits DEF TrafficCommand
  <1>7. CASE RollbackCommand(p)
    <2>1. CASE \E r \in DOMAIN Load.revs : Begin(p, Rollback(Load, r), <<>>)
      BY <2>1, <1>1, <1>3, RollbackFits
    <2>2. CASE /\ DOMAIN Load.revs \ {Load.current} # {}
               /\ Begin(p, Rollback(Load, RollbackDefault(Load)), <<>>)
      <3>1. RollbackDefault(Load) \in DOMAIN Load.revs
        <4> DEFINE others == DOMAIN Load.revs \ {Load.current}
                   Below(n) == {r \in others : r <= n}
        <4>1. \E r \in others : \A s \in others : s <= r
          BY <2>2, <1>2, NewestOther
        <4> QED BY <4>1 DEF RollbackDefault
      <3> QED BY <2>2, <3>1, <1>1, <1>3, RollbackFits
    <2> QED BY <1>7, <2>1, <2>2 DEF RollbackCommand
  <1>8. CASE HealthCommand(p)
    BY <1>8, <1>1, <1>3, HealthFits DEF HealthCommand
  <1>9. CASE MetricsCommand(p)
    BY <1>9, <1>1, <1>3, RecordFits DEF MetricsCommand
  <1>10. CASE SignalsCommand(p)
    BY <1>10, <1>1, <1>3, ScaleFits DEF SignalsCommand
  <1>11. CASE RulesCommand(p)
    BY <1>11, <1>1, <1>3, SetRulesFits DEF RulesCommand
  <1>12. CASE AlertsCommand(p)
    BY <1>12, <1>1, <1>3, AlertsFit DEF AlertsCommand, Fit, Derived
  <1> QED BY <1>4, <1>5, <1>6, <1>7, <1>8, <1>9, <1>10, <1>11, <1>12 DEF Commands

LEMMA InitDocs == Init => DocsInv
  <1>1. Empty \in Deployment
    BY EmptyFits DEF Fit, DocOK
  <1>2. Idle \in Locals /\ Idle.doc = Empty
    BY <1>1 DEF Idle, Locals
  <1>3. ASSUME Init PROVE loc \in [Procs -> Locals] /\ \A p \in Procs : Fit(loc[p].doc)
    BY <1>2, <1>3, EmptyFits DEF Init
  <1>4. ASSUME Init PROVE calls \in 0 .. MaxCalls /\ crashes \in 0 .. MaxCrash
    BY <1>4, ControlAssumption DEF Init
  <1> QED BY <1>3, <1>4, EmptyFits DEF Init, DocsInv

LEMMA DocsStep == DocsInv /\ [Next]_vars => DocsInv'
  <1> SUFFICES ASSUME DocsInv, [Next]_vars PROVE DocsInv'
    OBVIOUS
  <1>1. ASSUME NEW p \in Procs, Commands(p) PROVE DocsInv'
    <2>1. PICK doc, ack : Outcome(doc, ack) /\ Begin(p, doc, ack)
      BY <1>1, CommandOutcome
    <2>2. doc \in Deployment
      BY <2>1 DEF Outcome, Fit, DocOK
    <2>3. loc' \in [Procs -> Locals]
      <3>1. [pc |-> "truncate", doc |-> doc, ack |-> ack] \in Locals
        BY <2>1, <2>2 DEF Outcome, Locals
      <3> QED BY <3>1, <2>1 DEF Begin, DocsInv
    <2>4. \A q \in Procs : Fit(loc'[q].doc)
      BY <2>1 DEF Begin, DocsInv, Outcome
    <2>5. calls' \in 0 .. MaxCalls /\ raced' \in BOOLEAN
      BY <2>1, ControlAssumption DEF Begin, DocsInv
    <2> QED BY <2>1, <2>3, <2>4, <2>5 DEF Begin, DocsInv
  <1>2. ASSUME NEW p \in Procs, Truncate(p) PROVE DocsInv'
    <2>1. loc' \in [Procs -> Locals] /\ \A q \in Procs : loc'[q].doc = loc[q].doc
      BY <1>2 DEF Truncate, DocsInv, Locals
    <2> QED BY <1>2, <2>1 DEF Truncate, DocsInv
  <1>3. ASSUME NEW p \in Procs, NEW x, loc' = [loc EXCEPT ![p] = Idle]
        PROVE  loc' \in [Procs -> Locals] /\ \A q \in Procs : Fit(loc'[q].doc)
    <2>1. Idle \in Locals /\ Idle.doc = Empty
      BY EmptyFits DEF Idle, Locals, Fit, DocOK
    <2> QED BY <1>3, <2>1, EmptyFits DEF DocsInv
  <1>4. ASSUME NEW p \in Procs, Write(p) PROVE DocsInv'
    <2>1. acked' \subseteq Nat \X Bundles
      BY <1>4 DEF Write, DocsInv, Locals
    <2> QED BY <1>3, <1>4, <2>1 DEF Write, DocsInv
  <1>5. ASSUME NEW p \in Procs, Crash(p) PROVE DocsInv'
    <2>1. crashes' \in 0 .. MaxCrash /\ cut' \in BOOLEAN
      BY <1>5, ControlAssumption DEF Crash, DocsInv
    <2> QED BY <1>3, <1>5, <2>1 DEF Crash, DocsInv
  <1>6. CASE UNCHANGED vars
    BY <1>6 DEF vars, DocsInv
  <1> QED BY <1>1, <1>2, <1>4, <1>5, <1>6 DEF Next, Commands

(* What holds of the documents holds of what a reader loads.               *)
LEMMA DocsImply == DocsInv => TypeOK /\ TrafficGoesToLive /\ DerivedFollowsReports
  <1> SUFFICES ASSUME DocsInv PROVE TypeOK /\ TrafficGoesToLive /\ DerivedFollowsReports
    OBVIOUS
  <1>1. TypeOK
    BY DEF DocsInv, TypeOK, Fit, Locals
  <1>2. Routed(Load) /\ Derived(Load)
    BY LoadFits DEF Fit
  <1>3. TrafficGoesToLive
    BY <1>2 DEF Routed, TrafficGoesToLive, Marked
  <1>4. DerivedFollowsReports
    BY <1>2 DEF Derived, DerivedFollowsReports
  <1> QED BY <1>1, <1>3, <1>4

LEMMA DocsAlways == Spec => []DocsInv
  BY InitDocs, DocsStep, PTL DEF Spec

(* state.json is always a torn file or a deployment of the shape the       *)
(* commands rely on (_load_state), and so is all they are about to save.   *)
THEOREM ControlTypes == Spec => []TypeOK
  BY DocsAlways, DocsImply, PTL

(* All traffic of the saved deployment goes to revisions that take it, for *)
(* any number of callers that overlap and die anywhere                     *)
(* (rollout_revision, update_traffic_split, rollback_deployment).          *)
THEOREM TrafficIsRouted == Spec => []TrafficGoesToLive
  BY DocsAlways, DocsImply, PTL

(* The saved alerts and replicas are those the saved reports ask for       *)
(* (_evaluate_alerts_local, _compute_autoscaling_signals).                 *)
THEOREM DerivedIsCurrent == Spec => []DerivedFollowsReports
  BY DocsAlways, DocsImply, PTL

-----------------------------------------------------------------------------
(* Acknowledged revisions.                                                 *)
Names(d, a) == a[1] \in DOMAIN d.revs /\ d.revs[a[1]].bundle = a[2]

(* While callers take turns and no write was cut short, one of them works, *)
(* on a deployment that has all that was acknowledged and all that it is   *)
(* about to acknowledge; the file has it, except while it is written.      *)
AckedInv ==
    ~raced /\ ~cut =>
        /\ \A p, q \in Procs : loc[p].pc # "idle" /\ loc[q].pc # "idle" => p = q
        /\ \A p \in Procs : loc[p].pc # "idle" =>
              /\ \A a \in acked : Names(loc[p].doc, a)
              /\ loc[p].ack # <<>> => Names(loc[p].doc, loc[p].ack)
        /\ (\A p \in Procs : loc[p].pc # "write") => \A a \in acked : Names(Load, a)

LEMMA InitAcked == Init => AckedInv
  BY DEF Init, AckedInv, Idle

LEMMA GrownNames ==
    ASSUME NEW d \in Deployment, NEW e \in Deployment, Grows(d, e), NEW a, Names(d, a)
    PROVE  Names(e, a)
  <1>1. /\ DOMAIN d.revs = 1 .. Len(d.revs) /\ DOMAIN e.revs = 1 .. Len(e.revs)
        /\ Len(d.revs) \in Nat /\ Len(e.revs) \in Nat
    BY DEF Deployment
  <1> QED BY <1>1 DEF Grows, Names

LEMMA AckedStep == DocsInv /\ AckedInv /\ [Next]_vars => AckedInv'
  <1> SUFFICES ASSUME DocsInv, AckedInv, [Next]_vars, ~raced', ~cut' PROVE AckedInv'
    BY DEF AckedInv
  <1> USE DEF DocsInv
  <1>1. ASSUME NEW p \in Procs, Commands(p) PROVE AckedInv'
    <2>1. PICK doc, ack : Outcome(doc, ack) /\ Begin(p, doc, ack)
      BY <1>1, CommandOutcome
    <2>2. ~raced /\ ~cut /\ \A q \in Procs : loc[q].pc = "idle"
      BY <2>1 DEF Begin, AllIdle
    <2>3. \A a \in acked : Names(Load, a)
      BY <2>2 DEF AckedInv
    <2>4. Load \in Deployment /\ doc \in Deployment /\ Grows(Load, doc)
      BY <2>1, LoadFits DEF Outcome, Fit, DocOK
    <2>5. \A a \in acked : Names(doc, a)
      BY <2>3, <2>4, GrownNames
    <2>6. ack # <<>> => Names(doc, ack)
      BY <2>1 DEF Outcome, Names
    <2>7. loc' = [loc EXCEPT ![p] = [pc |-> "truncate", doc |-> doc, ack |-> ack]]
      BY <2>1 DEF Begin
    <2>8. /\ \A q \in Procs \ {p} : loc'[q].pc = "idle"
          /\ loc'[p].pc = "truncate" /\ loc'[p].doc = doc /\ loc'[p].ack = ack
      BY <2>2, <2>7
    <2>9. acked' = acked /\ Load' = Load
      BY <2>1 DEF Begin, Load
    <2>10. \A a \in acked' : Names(Load', a)
      BY <2>3, <2>9
    <2> QED BY <2>5, <2>6, <2>8, <2>9, <2>10 DEF AckedInv
  <1>2. ASSUME NEW p \in Procs, Truncate(p) PROVE AckedInv'
    <2>1. ~raced /\ ~cut /\ acked' = acked
      BY <1>2 DEF Truncate
    <2>2. /\ \A q \in Procs : loc'[q].doc = loc[q].doc /\ loc'[q].ack = loc[q].ack
          /\ \A q \in Procs : (loc'[q].pc = "idle") <=> (loc[q].pc = "idle")
          /\ loc'[p].pc = "write"
      BY <1>2 DEF Truncate, Locals
    <2> QED BY <2>1, <2>2 DEF AckedInv, Names
  <1>3. ASSUME NEW p \in Procs, Write(p) PROVE AckedInv'
    <2>1. ~raced /\ ~cut /\ loc[p].pc = "write"
      BY <1>3 DEF Write
    <2>2. /\ \A a \in acked : Names(loc[p].doc, a)
          /\ loc[p].ack # <<>> => Names(loc[p].doc, loc[p].ack)
          /\ \A q \in Procs \ {p} : loc[q].pc = "idle"
      BY <2>1 DEF AckedInv
    <2>3. \A q \in Procs : loc'[q].pc = "idle"
      BY <1>3, <2>2 DEF Write, Idle
    <2>4. Load' = loc[p].doc
      <3>1. loc[p].doc # Torn
        BY ControlAssumption DEF Locals
      <3> QED BY <1>3, <3>1 DEF Write, Load
    <2>5. \A a \in acked' : Names(Load', a)
      BY <1>3, <2>2, <2>4 DEF Write
    <2> QED BY <2>3, <2>5 DEF AckedInv
  <1>4. ASSUME NEW p \in Procs, Crash(p) PROVE AckedInv'
    <2>1. ~raced /\ ~cut /\ loc[p].pc # "idle" /\ loc[p].pc # "write"
      BY <1>4 DEF Crash
    <2>2. \A q \in Procs \ {p} : loc[q].pc = "idle"
      BY <2>1 DEF AckedInv
    <2>3. \A a \in acked : Names(Load, a)
      BY <2>1, <2>2 DEF AckedInv
    <2>4. \A q \in Procs : loc'[q].pc = "idle"
      BY <1>4, <2>2 DEF Crash, Idle
    <2>5. acked' = acked /\ Load' = Load
      BY <1>4 DEF Crash, Load
    <2>6. \A a \in acked' : Names(Load', a)
      BY <2>3, <2>5
    <2> QED BY <2>4, <2>6 DEF AckedInv
  <1>5. CASE UNCHANGED vars
    BY <1>5 DEF vars, AckedInv, Names, Load
  <1> QED BY <1>1, <1>2, <1>3, <1>4, <1>5 DEF Next, Commands

(* Callers that take turns find what was acknowledged to them under the    *)
(* revision number they were told (_upsert_local_deployment,               *)
(* _ensure_revision), whatever was rolled out or back since.               *)
THEOREM AckedAreKept == Spec => []AckedRevisionKept
  <1>1. AckedInv => AckedRevisionKept
    BY DEF AckedInv, AckedRevisionKept, AllIdle, Names
  <1> QED BY <1>1, DocsAlways, InitAcked, AckedStep, PTL DEF Spec

-----------------------------------------------------------------------------
(***************************************************************************)
(* Packages.                                                               *)
(***************************************************************************)

Fields(t) == t = [rel |-> t.rel, litter |-> t.litter, lock |-> t.lock]
(* A tree of the package k. *)
TreeOf(k, t) == Fields(t) /\ t.rel \in Catalogue /\ <<t.rel.name, t.rel.ver>> = k

(* Archives are named by versions of one package; one may be cut short.   *)
ArchivesOf(n, as) ==
    /\ as = [v \in DOMAIN as |-> as[v]]
    /\ \A v \in DOMAIN as : as[v] = HalfTree \/ TreeOf(<<n, v>>, as[v])

LockOf(l) ==
    /\ l = [root |-> l.root, pins |-> l.pins]
    /\ \A p \in l.pins : p = [key |-> p.key, sha |-> p.sha] /\ p.key \in Keys

(* What the author's directory and the command under way hold. *)
OwnInv ==
    /\ own \in OwnReleases
    /\ ArchivesOf(Own, litter)
    /\ agentLock \in {Gone, HalfTree} \/ LockOf(agentLock)

DirOf(k, d) ==
    /\ d = Dir(d.tree, d.toml, d.archives, d.first, d.index)
    /\ ArchivesOf(k[1], d.archives)
    /\ DOMAIN d.archives # {} => d.first \in DOMAIN d.archives
    /\ d.tree = Remains \/ TreeOf(k, d.tree)
    /\ d.toml = Gone \/ d.toml = [deps |-> d.toml.deps]
    /\ d.index \in {Gone, HalfTree} \/ d.index = [deps |-> d.index.deps, sha |-> d.index.sha]

(* The registry directory; only a publish under way or killed has no archive. *)
ShelfInv ==
    /\ shelf = [k \in Keys |-> shelf[k]]
    /\ \A k \in Keys : shelf[k] # Gone =>
          /\ DirOf(k, shelf[k])
          /\ DOMAIN shelf[k].archives = {} => k \in halfShelf

ServerInv ==
    /\ server = [k \in Keys |-> server[k]] /\ cache = [k \in Keys |-> cache[k]] /\ tree = [k \in Keys |-> tree[k]]
    /\ \A k \in Keys : server[k] # Gone => TreeOf(k, server[k])

PkgPcs == {"none", "build", "clear", "copy", "open", "pack", "index", "lock", "visit", "unpack", "fetch", "cache", "check"}

TaskShape(t) ==
    /\ t = [pc |-> t.pc, tree |-> t.tree, frames |-> t.frames, pins |-> t.pins, seen |-> t.seen,
            found |-> t.found, roots |-> t.roots, mode |-> t.mode, lock |-> t.lock]
    /\ t.pc \in PkgPcs /\ t.mode \in {"direct", "remote", "locked", "frozen"}
    /\ t.seen \subseteq Keys /\ t.roots \subseteq Keys

TaskOK ==
    /\ TaskShape(task)
    /\ task.pc = "none" => task = NoTask
    /\ task.pc # "none" => report = NoReport
    /\ report = [found |-> report.found, roots |-> report.roots, mode |-> report.mode]

(* A build, a publish or a lock under way. *)
Publishing == {"clear", "copy", "open", "pack", "index"}
WriterInv ==
    /\ task.pc = "build" =>
          /\ TreeOf(<<Own, own.ver>>, task.tree) /\ ArchivesOf(Own, task.tree.litter)
    /\ task.pc \in Publishing =>
          Key \in Keys /\ TreeOf(Key, task.tree) /\ ArchivesOf(Key[1], task.tree.litter)
    /\ task.pc \in {"open", "pack", "index"} => shelf[Key] # Gone /\ shelf[Key].tree = task.tree
    /\ task.pc \in {"pack", "index"} => task.tree.rel.ver \in DOMAIN shelf[Key].archives
    /\ task.pc \in Publishing => Key \in halfShelf
    /\ task.pc = "lock" => LockOf(task.lock)

FrameOK(f) == f = [key |-> f.key, want |-> f.want, left |-> f.left, archive |-> f.archive] /\ f.key \in Keys

OnStack == {task.frames[i].key : i \in DOMAIN task.frames}
Unpacking(k) == task.pc = "unpack" /\ k = TopFrame.key

(* An install from the registry server has no package met. *)
Remote == task.seen = {} /\ task.frames # <<>>

(* A package that was installed from the registry directory. *)
AsShelved(k) == Readable(k) /\ Installed(k) /\ tree[k] = Offered(k)

DepsMet(k, left) ==
    \A n \in DOMAIN DepsOf(k) \ left : \A v \in Chosen(n, DepsOf(k)[n]) : <<n, v>> \in task.seen

SeqOf(fs) == fs \in Seq({fs[i] : i \in DOMAIN fs})

(* The stack of an install. *)
StackInv ==
    /\ SeqOf(task.frames)
    /\ \A i \in DOMAIN task.frames : FrameOK(task.frames[i])
    /\ task.pc \in {"visit", "unpack"} /\ ~Remote =>
          /\ \A i \in DOMAIN task.frames :
                /\ task.frames[i].key \in task.seen
                /\ Readable(task.frames[i].key)
                /\ DepsMet(task.frames[i].key, task.frames[i].left)
          /\ \A i, j \in DOMAIN task.frames : task.frames[i].key = task.frames[j].key => i = j
          /\ \A k \in task.seen \ OnStack : AsShelved(k) /\ DepsMet(k, {})
    /\ task.pc = "unpack" /\ ~Remote => TopFrame.archive = FoundArchive(TopFrame.key) /\ TopFrame.left = {}
                       /\ MatchesSha(TopFrame.want, LocalSha(TopFrame.key))
    /\ task.pc = "unpack" => task.frames # <<>>
    /\ task.pc \in {"visit", "unpack"} => \A i \in DOMAIN task.frames : i > 1 => task.frames[i].want = Gone

(* An install from the server: one package and its archive. *)
RemoteInv ==
    /\ task.pc \in {"fetch", "cache", "check"} => Remote
    /\ task.pc = "visit" => ~Remote
    /\ task.mode = "remote" => task.seen = {}
    /\ task.pc # "none" /\ Remote =>
          /\ Len(task.frames) = 1 /\ task.pins = {} /\ task.roots = {} /\ task.found = {} /\ task.mode = "remote"
          /\ TreeOf(TopFrame.key, TopFrame.want) /\ server[TopFrame.key] # Gone
          /\ task.pc # "fetch" => TreeOf(TopFrame.key, TopFrame.archive)

(* What a finished part of an install found is as ReportedIsInstalled says. *)
FoundOK(r, mode) ==
    /\ r.key \in Keys /\ Installed(r.key)
    /\ mode = "remote" \/ ~AsItLies(r.key) =>
          /\ Whole(r.key)
          /\ r.sha # Gone => tree[r.key] = r.sha
          /\ mode = "remote" \/ DOMAIN shelf[r.key].archives \subseteq {r.key[2]} =>
                <<tree[r.key].rel.name, tree[r.key].rel.ver>> = r.key

Single == {"direct", "remote"}
InstallInv ==
    task.pc \in {"visit", "unpack"} =>
    /\ \A p \in task.pins : p = [key |-> p.key, sha |-> p.sha] /\ p.key \in task.roots
    /\ task.mode \in Single => task.pins = {}
    /\ task.mode \in Single /\ task.frames # <<>> => task.found = {}
    /\ \A r \in task.found :
          /\ FoundOK(r, task.mode) \/ Unpacking(r.key)
          /\ task.mode \notin Single => Readable(r.key) /\ MatchesSha(r.sha, LocalSha(r.key))
    /\ \A k \in task.roots :
          \/ \E p \in task.pins : p.key = k
          \/ task.frames # <<>> /\ task.frames[1].key = k
          \/ \A l \in Resolved(k) : AsShelved(l) \/ Unpacking(l)
    /\ task.mode = "frozen" =>
          \A n \in DOMAIN own.deps : \E k \in task.roots : k[1] = n /\ Accepts(k[2], own.deps[n])

ReportInv ==
    /\ \A r \in report.found : FoundOK(r, report.mode)
    /\ report.roots \subseteq Keys
    /\ InstallClosesDependencies
    /\ report.mode = "frozen" =>
          \A n \in DOMAIN own.deps : \E k \in report.roots : k[1] = n /\ Accepts(k[2], own.deps[n])
-----------------------------------------------------------------------------
(* A finite set of numbers has a greatest one: a least set without one     *)
(* would have a smaller one, by an element.                                *)
LEMMA FiniteMax ==
  ASSUME NEW S \in SUBSET Nat, IsFiniteSet(S), S # {}
  PROVE  \E m \in S : \A x \in S : x <= m
<1> DEFINE HasMax(U) == \E m \in U : \A x \in U : x <= m
           Bad == {U \in FiniteSubsetsOf(Nat) : U # {} /\ ~HasMax(U)}
<1>1. SUFFICES ASSUME Bad # {} PROVE FALSE
  BY DEF FiniteSubsetsOf
<1>2. Bad \subseteq FiniteSubsetsOf(Nat)
  OBVIOUS
<1>3. PICK U \in Bad : \A V \in Bad : <<V, U>> \notin StrictSubsetOrdering(Nat)
  <2> HIDE DEF Bad
  <2> QED BY <1>1, <1>2, FS_StrictSubsetOrderingWellFounded, WFMin
<1>4. PICK x \in U : TRUE
  OBVIOUS
<1> DEFINE V == U \ {x}
<1>5. V \in FiniteSubsetsOf(Nat)
  BY <1>2, FS_RemoveElement DEF FiniteSubsetsOf
<1>6. <<V, U>> \in StrictSubsetOrdering(Nat)
  BY <1>2, <1>4 DEF StrictSubsetOrdering, FiniteSubsetsOf
<1>7. V = {} \/ HasMax(V)
  BY <1>3, <1>5, <1>6
<1>8. U \subseteq Nat
  BY <1>2 DEF FiniteSubsetsOf
<1>9. CASE V = {}
  BY <1>4, <1>8, <1>9
<1>10. CASE HasMax(V)
  <2>1. PICK m \in V : \A y \in V : y <= m
    BY <1>10
  <2>2. m \in U /\ m \in Nat /\ x \in Nat
    BY <1>4, <1>8
  <2>3. CASE x <= m
    BY <2>1, <2>2, <2>3
  <2>4. CASE m <= x
    <3>1. \A y \in U : y <= x
      BY <2>1, <2>2, <2>4, <1>8
    <3> QED BY <3>1, <1>4
  <2> QED BY <2>2, <2>3, <2>4
<1> QED BY <1>7, <1>9, <1>10

(* list_local_agent_versions has a last one among versions of packages.    *)
LEMMA LastOfIn ==
  ASSUME NEW vs, vs # {}, \A v \in vs : \E r \in Catalogue : r.ver = v
  PROVE  LastOf(vs) \in vs
<1> DEFINE C == {r \in Catalogue : r.ver \in vs}
           S == {Rank[v] : v \in vs}
           f == [r \in C |-> Rank[r.ver]]
<1>1. IsFiniteSet(C)
  BY PackagesAssumption, FS_Subset
<1>2. f \in Surjection(C, S)
  BY DEF Surjection
<1>3. IsFiniteSet(S)
  BY <1>1, <1>2, FS_Surjection
<1>4. S \in SUBSET Nat /\ S # {}
  BY PackagesAssumption
<1>5. PICK m \in S : \A x \in S : x <= m
  <2> HIDE DEF S
  <2> QED BY <1>3, <1>4, FiniteMax
<1>6. \E v \in vs : \A w \in vs : Rank[w] <= Rank[v]
  BY <1>5
<1> QED BY <1>6 DEF LastOf

(* What resolving visits is inside every closed set with the package.      *)
LEMMA ResolvedWithin ==
  ASSUME NEW ks \in SUBSET Keys, NEW k \in ks, Closed(ks)
  PROVE  Resolved(k) \subseteq ks
BY DEF Resolved

LEMMA ResolvedHasRoot ==
  ASSUME NEW k \in Keys
  PROVE  k \in Resolved(k) /\ Resolved(k) \subseteq Keys
BY DEF Resolved

(* Everything about the registry directory is a function of shelf.         *)
LEMMA ShelfSame ==
  ASSUME UNCHANGED shelf
  PROVE  /\ \A k : Readable(k)' <=> Readable(k)
         /\ \A k : Resolved(k)' = Resolved(k)
         /\ \A k : FoundArchive(k)' = FoundArchive(k)
         /\ \A k : DepsOf(k)' = DepsOf(k)
         /\ \A n, s : Chosen(n, s)' = Chosen(n, s)
         /\ \A k : Offered(k)' = Offered(k)
         /\ \A k : LocalSha(k)' = LocalSha(k)
<1>1. \A n : ShelfVersions(n)' = ShelfVersions(n)
  BY DEF ShelfVersions
<1>2. \A k : /\ (Readable(k)' <=> Readable(k)) /\ DepsOf(k)' = DepsOf(k)
             /\ FoundArchive(k)' = FoundArchive(k) /\ LocalSha(k)' = LocalSha(k)
  BY DEF Readable, DepsOf, Manifest, FoundArchive, LocalSha, Keys, Catalogue
<1>3. \A n, s : Chosen(n, s)' = Chosen(n, s)
  BY <1>1 DEF Chosen
<1>4. \A ks : Closed(ks)' <=> Closed(ks)
  BY <1>2, <1>3 DEF Closed
<1>5. \A k : Resolved(k)' = Resolved(k)
  BY <1>4 DEF Resolved
<1> QED BY <1>2, <1>3, <1>5 DEF Offered

-----------------------------------------------------------------------------
(* Sequences of anything.                                                  *)

LEMMA SeqOfAny ==
  ASSUME NEW S, NEW fs \in Seq(S)
  PROVE  SeqOf(fs) /\ Len(fs) \in Nat /\ DOMAIN fs = 1 .. Len(fs) /\ \A i \in DOMAIN fs : fs[i] \in S
<1>1. Len(fs) \in Nat /\ fs \in [1 .. Len(fs) -> S] /\ DOMAIN fs = 1 .. Len(fs)
  BY LenProperties
<1> DEFINE T == {fs[i] : i \in DOMAIN fs}
<1>2. fs \in [1 .. Len(fs) -> T]
  BY <1>1
<1>3. fs \in Seq(T)
  <2> HIDE DEF T
  <2> QED BY <1>1, <1>2, IsASeq
<1> QED BY <1>1, <1>3 DEF SeqOf

LEMMA SeqOfDomain ==
  ASSUME NEW fs, SeqOf(fs)
  PROVE  Len(fs) \in Nat /\ DOMAIN fs = 1 .. Len(fs) /\ (fs # <<>> <=> Len(fs) \in DOMAIN fs)
<1> DEFINE S == {fs[i] : i \in DOMAIN fs}
<1>1. fs \in Seq(S)
  BY DEF SeqOf
<1> HIDE DEF S
<1>2. Len(fs) \in Nat /\ DOMAIN fs = 1 .. Len(fs)
  BY <1>1, LenProperties
<1>3. fs # <<>> <=> Len(fs) # 0
  BY <1>1, EmptySeq
<1> QED BY <1>2, <1>3

LEMMA SeqOfShort ==
  /\ SeqOf(<<>>) /\ Len(<<>>) = 0
  /\ \A f : SeqOf(<<f>>) /\ Len(<<f>>) = 1 /\ <<f>>[1] = f /\ <<f>> # <<>> /\ DOMAIN <<f>> = {1}
<1>1. SeqOf(<<>>) /\ Len(<<>>) = 0
  BY DEF SeqOf
<1>2. ASSUME NEW f
      PROVE  SeqOf(<<f>>) /\ Len(<<f>>) = 1 /\ <<f>>[1] = f /\ <<f>> # <<>> /\ DOMAIN <<f>> = {1}
  <2>1. <<f>> \in Seq({f})
    OBVIOUS
  <2>2. SeqOf(<<f>>)
    BY <2>1, SeqOfAny
  <2>3. Len(<<f>>) = 1 /\ <<f>>[1] = f /\ <<f>> # <<>> /\ DOMAIN <<f>> = {1}
    OBVIOUS
  <2> QED BY <2>2, <2>3
<1> QED BY <1>1, <1>2

LEMMA SeqOfPut ==
  ASSUME NEW fs, SeqOf(fs), NEW i \in DOMAIN fs, NEW f, NEW gs, gs = [fs EXCEPT ![i] = f]
  PROVE  /\ SeqOf(gs) /\ Len(gs) = Len(fs) /\ DOMAIN gs = DOMAIN fs
         /\ gs[i] = f /\ \A j \in DOMAIN fs : j # i => gs[j] = fs[j]
<1> DEFINE S == {fs[j] : j \in DOMAIN fs} \cup {f}
<1>1. Len(fs) \in Nat /\ DOMAIN fs = 1 .. Len(fs) /\ \A j \in DOMAIN fs : fs[j] \in S
  BY SeqOfDomain
<1>2. /\ DOMAIN gs = DOMAIN fs /\ gs = [j \in 1 .. Len(fs) |-> IF j = i THEN f ELSE fs[j]]
  <2>1. fs = [j \in 1 .. Len(fs) |-> fs[j]]
    BY <1>1, LenProperties DEF SeqOf
  <2> QED BY <1>1, <2>1
<1>3. gs \in [1 .. Len(fs) -> S]
  <2>1. f \in S
    OBVIOUS
  <2> HIDE DEF S
  <2> QED BY <1>1, <1>2, <2>1
<1>4. gs \in Seq(S)
  <2> HIDE DEF S
  <2> QED BY <1>1, <1>3, IsASeq
<1>5. Len(gs) = Len(fs)
  <2> HIDE DEF S
  <2> QED BY <1>1, <1>2, <1>4, LenProperties
<1> QED BY <1>1, <1>2, <1>4, <1>5, SeqOfAny

LEMMA SeqOfPush ==
  ASSUME NEW fs, SeqOf(fs), NEW f
  PROVE  LET gs == Append(fs, f) IN
         /\ SeqOf(gs) /\ Len(gs) = Len(fs) + 1 /\ DOMAIN gs = DOMAIN fs \cup {Len(gs)} /\ Len(gs) \notin DOMAIN fs
         /\ gs[Len(gs)] = f /\ \A j \in DOMAIN fs : gs[j] = fs[j]
<1> DEFINE S == {fs[j] : j \in DOMAIN fs} \cup {f}
<1>1. Len(fs) \in Nat /\ DOMAIN fs = 1 .. Len(fs)
  BY SeqOfDomain
<1>2. fs \in Seq(S)
  <2>1. fs \in [1 .. Len(fs) -> S]
    BY <1>1, LenProperties DEF SeqOf
  <2> HIDE DEF S
  <2> QED BY <1>1, <2>1, IsASeq
<1>3. f \in S
  OBVIOUS
<1> HIDE DEF S
<1> DEFINE gs == Append(fs, f)
<1>4. gs \in Seq(S) /\ Len(gs) = Len(fs) + 1 /\ gs[Len(gs)] = f /\ \A j \in 1 .. Len(fs) : gs[j] = fs[j]
  BY <1>2, <1>3, AppendProperties
<1>5. DOMAIN gs = 1 .. Len(gs) /\ SeqOf(gs)
  BY <1>4, SeqOfAny
<1> QED BY <1>1, <1>4, <1>5

LEMMA SeqOfPop ==
  ASSUME NEW fs, SeqOf(fs), fs # <<>>
  PROVE  LET gs == SubSeq(fs, 1, Len(fs) - 1) IN
         /\ SeqOf(gs) /\ Len(gs) = Len(fs) - 1 /\ DOMAIN gs = DOMAIN fs \ {Len(fs)}
         /\ \A j \in DOMAIN gs : gs[j] = fs[j]
<1> DEFINE S == {fs[j] : j \in DOMAIN fs}
           gs == SubSeq(fs, 1, Len(fs) - 1)
<1>1. fs \in Seq(S)
  BY DEF SeqOf
<1>2. Len(fs) \in Nat /\ DOMAIN fs = 1 .. Len(fs) /\ Len(fs) # 0
  BY SeqOfDomain
<1> HIDE DEF S
<1>3. gs \in Seq(S) /\ Len(gs) = Len(fs) - 1 /\ \A j \in 1 .. Len(gs) : gs[j] = fs[j]
  <2>1. CASE Len(fs) = 1
    BY <1>1, <1>2, <2>1, SubSeqProperties
  <2>2. CASE Len(fs) > 1
    <3>1. 1 \in 1 .. Len(fs) /\ Len(fs) - 1 \in 1 .. Len(fs)
      BY <1>2, <2>2
    <3> QED BY <1>1, <1>2, <2>2, <3>1, SubSeqProperties
  <2> QED BY <1>2, <2>1, <2>2
<1>4. DOMAIN gs = 1 .. Len(gs) /\ SeqOf(gs)
  BY <1>3, SeqOfAny
<1> QED BY <1>2, <1>3, <1>4

PkgInv ==
    OwnInv /\ ShelfInv /\ ServerInv /\ TaskOK /\ WriterInv /\ StackInv /\ RemoteInv /\ InstallInv /\ ReportInv

(* A command that ended or was killed leaves nothing to be said of it.     *)
LEMMA NoTaskFits ==
  ASSUME task' = NoTask
  PROVE  WriterInv' /\ StackInv' /\ RemoteInv' /\ InstallInv'
<1>1. task'.pc = "none" /\ task'.frames = <<>> /\ task'.seen = {}
  BY DEF NoTask
<1>2. WriterInv' /\ InstallInv'
  BY <1>1 DEF WriterInv, InstallInv, Publishing
<1>3. StackInv' /\ RemoteInv'
  BY <1>1, SeqOfShort DEF StackInv, RemoteInv, Remote
<1> QED BY <1>2, <1>3

(* build_agent_archive and zip replace one archive of a directory.         *)
LEMMA PutArchive ==
  ASSUME NEW n, NEW as, ArchivesOf(n, as), NEW v, NEW a, a = HalfTree \/ TreeOf(<<n, v>>, a)
  PROVE  /\ ArchivesOf(n, Put(as, v, a))
         /\ DOMAIN Put(as, v, a) = DOMAIN as \cup {v}
         /\ Put(as, v, a)[v] = a
<1> DEFINE bs == Put(as, v, a)
<1>1. bs = [w \in DOMAIN as \cup {v} |-> IF w = v THEN a ELSE as[w]]
  BY DEF Put
<1>2. DOMAIN bs = DOMAIN as \cup {v} /\ bs = [w \in DOMAIN bs |-> bs[w]] /\ bs[v] = a
  BY <1>1
<1>3. \A w \in DOMAIN bs : bs[w] = HalfTree \/ TreeOf(<<n, w>>, bs[w])
  BY <1>1 DEF ArchivesOf
<1> QED BY <1>2, <1>3 DEF ArchivesOf

LEMMA NoArchives == \A n : ArchivesOf(n, NoFiles)
BY DEF ArchivesOf, NoFiles

LEMMA TreesAreTrees ==
  /\ HalfTree # Gone /\ Remains # Gone /\ Remains # HalfTree
  /\ \A k, t : TreeOf(k, t) => t \notin {Gone, HalfTree, Remains}
  /\ \A l : LockOf(l) => l # Gone /\ l # HalfTree
  /\ \A t : /\ Toml(t) \notin {Gone, HalfTree} /\ Toml(t) = [deps |-> Toml(t).deps]
            /\ Index(t) \notin {Gone, HalfTree} /\ Index(t) = [deps |-> Index(t).deps, sha |-> Index(t).sha]
<1>1. DOMAIN Gone = {"left"} /\ DOMAIN HalfTree = {"left"} /\ DOMAIN Remains = {"left"}
  BY DEF Gone, HalfTree, Remains
<1>2. \A k, t : TreeOf(k, t) => DOMAIN t = {"rel", "litter", "lock"}
  BY DEF TreeOf, Fields
<1>3. \A l : LockOf(l) => DOMAIN l = {"root", "pins"}
  BY DEF LockOf
<1>5. HalfTree # Gone /\ Remains # Gone /\ Remains # HalfTree
  BY DEF HalfTree, Gone, Remains
<1>6. \A t : DOMAIN Toml(t) = {"deps"} /\ DOMAIN Index(t) = {"deps", "sha"}
  BY DEF Toml, Index
<1>7. \A t : /\ Toml(t) = [deps |-> Toml(t).deps]
            /\ Index(t) = [deps |-> Index(t).deps, sha |-> Index(t).sha]
  BY DEF Toml, Index
<1>9. /\ \A k, t : TreeOf(k, t) => t \notin {Gone, HalfTree, Remains}
      /\ \A l : LockOf(l) => l # Gone /\ l # HalfTree
  BY <1>1, <1>2, <1>3
<1>11. \A t : Toml(t) \notin {Gone, HalfTree} /\ Index(t) \notin {Gone, HalfTree}
  BY <1>1, <1>6
<1> QED BY <1>5, <1>7, <1>9, <1>11

LEMMA DirThere ==
  ASSUME NEW d, d = Dir(d.tree, d.toml, d.archives, d.first, d.index)
  PROVE  d # Gone
<1>1. DOMAIN Gone = {"left"} /\ DOMAIN d = {"tree", "toml", "archives", "first", "index"}
  BY DEF Gone, Dir
<1> QED BY <1>1

(* A published directory from its parts.                                   *)
PartsOf(k, t, m, as, f, i) ==
    /\ t = Remains \/ TreeOf(k, t)
    /\ m = Gone \/ m = [deps |-> m.deps]
    /\ ArchivesOf(k[1], as) /\ (DOMAIN as # {} => f \in DOMAIN as)
    /\ i \in {Gone, HalfTree} \/ i = [deps |-> i.deps, sha |-> i.sha]

LEMMA DirFits ==
  ASSUME NEW k, NEW t, NEW m, NEW as, NEW f, NEW i, PartsOf(k, t, m, as, f, i), NEW d, d = Dir(t, m, as, f, i)
  PROVE  DirOf(k, d) /\ d # Gone /\ d.archives = as
<1>1. d.tree = t /\ d.toml = m /\ d.archives = as /\ d.first = f /\ d.index = i
  BY DEF Dir
<1>2. d = Dir(d.tree, d.toml, d.archives, d.first, d.index)
  BY <1>1
<1> QED BY <1>1, <1>2, DirThere DEF DirOf, PartsOf

LEMMA FitsDir ==
  ASSUME NEW k, NEW d, DirOf(k, d)
  PROVE  /\ d = Dir(d.tree, d.toml, d.archives, d.first, d.index)
         /\ PartsOf(k, d.tree, d.toml, d.archives, d.first, d.index)
BY DEF DirOf, PartsOf

LEMMA PlainTree ==
  ASSUME NEW r \in Catalogue
  PROVE  /\ TreeOf(<<r.name, r.ver>>, Plain(r)) /\ <<r.name, r.ver>> \in Keys
         /\ ArchivesOf(r.name, Plain(r).litter) /\ Plain(r).rel = r
BY NoArchives DEF TreeOf, Plain, Fields, Keys

LEMMA OwnTreeTree ==
  ASSUME OwnInv
  PROVE  /\ TreeOf(<<Own, own.ver>>, OwnTree) /\ <<Own, own.ver>> \in Keys
         /\ ArchivesOf(Own, OwnTree.litter) /\ OwnTree.rel = own /\ own.name = Own
<1>1. own \in Catalogue /\ own.name = Own
  BY PackagesAssumption DEF OwnInv, Catalogue
<1> QED BY <1>1 DEF TreeOf, OwnTree, Fields, Keys, OwnInv

-----------------------------------------------------------------------------
(* The state at the start.                                                 *)
LEMMA PublishedDir ==
  ASSUME NEW c \in Catalogue, NEW t, t = Plain(c),
         NEW d, d = Dir(t, Toml(t), Put(NoFiles, t.rel.ver, t), t.rel.ver, Index(t))
  PROVE  DirOf(<<c.name, c.ver>>, d) /\ DOMAIN d.archives # {}
<1> DEFINE k  == <<c.name, c.ver>>
           as == Put(NoFiles, c.ver, t)
<1>1. TreeOf(k, t) /\ t.rel = c /\ k[1] = c.name
  BY PlainTree
<1>2. ArchivesOf(c.name, NoFiles) /\ DOMAIN NoFiles = {}
  BY NoArchives DEF NoFiles
<1>3. ArchivesOf(c.name, as) /\ DOMAIN as = DOMAIN NoFiles \cup {c.ver}
  <2>1. PICK n, v, fs : n = c.name /\ v = c.ver /\ fs = NoFiles
    OBVIOUS
  <2>2. TreeOf(<<n, v>>, t) /\ ArchivesOf(n, fs)
    BY <1>1, <1>2, <2>1
  <2>3. ArchivesOf(n, Put(fs, v, t)) /\ DOMAIN Put(fs, v, t) = DOMAIN fs \cup {v}
    BY <2>2, PutArchive
  <2> QED BY <2>1, <2>3
<1>4. /\ Toml(t) = [deps |-> Toml(t).deps]
      /\ Index(t) = [deps |-> Index(t).deps, sha |-> Index(t).sha]
  BY TreesAreTrees
<1>5. d = Dir(t, Toml(t), as, c.ver, Index(t))
  BY <1>1
<1> HIDE DEF as, k
<1>6. PartsOf(k, t, Toml(t), as, c.ver, Index(t))
  BY <1>1, <1>2, <1>3, <1>4 DEF PartsOf
<1>7. DirOf(k, d) /\ d.archives = as
  <2>1. PICK l, u, toml, bs, v, index, e :
           l = k /\ u = t /\ toml = Toml(t) /\ bs = as /\ v = c.ver /\ index = Index(t) /\ e = d
    OBVIOUS
  <2>2. PartsOf(l, u, toml, bs, v, index) /\ e = Dir(u, toml, bs, v, index)
    BY <1>5, <1>6, <2>1
  <2>3. DirOf(l, e) /\ e.archives = bs
    BY <2>2, DirFits
  <2> QED BY <2>1, <2>3
<1> QED BY <1>2, <1>3, <1>7 DEF k

LEMMA InitInv == PkgInit => PkgInv
<1> SUFFICES ASSUME PkgInit PROVE PkgInv
  OBVIOUS
<1> USE DEF PkgInit
<1>1. OwnInv
  BY NoArchives DEF OwnInv
<1>2. ShelfInv
  <2>1. shelf = [k \in Keys |-> shelf[k]]
    OBVIOUS
  <2>2. ASSUME NEW k \in Keys, shelf[k] # Gone
        PROVE  DirOf(k, shelf[k]) /\ DOMAIN shelf[k].archives # {}
    <3> DEFINE rs == {r \in Published : <<r.name, r.ver>> = k}
               c == CHOOSE r \in rs : TRUE
               t == Plain(c)
    <3>1. rs # {} /\ c \in rs
      BY <2>2
    <3>2. c \in Catalogue /\ k = <<c.name, c.ver>>
      BY <3>1 DEF Catalogue
    <3> HIDE DEF c, rs
    <3>3. shelf[k] = Dir(t, Toml(t), Put(NoFiles, t.rel.ver, t), t.rel.ver, Index(t))
      BY <2>2, <3>1 DEF c, rs
    <3> QED BY <3>2, <3>3, PublishedDir
  <2> QED BY <2>1, <2>2 DEF ShelfInv
<1>3. ServerInv
  BY DEF ServerInv
<1>4. TaskOK
  BY DEF TaskOK, TaskShape, NoTask, NoReport, PkgPcs
<1>5. task.pc = "none" /\ task.frames = <<>> /\ task.seen = {}
  BY DEF NoTask
<1>6. WriterInv /\ InstallInv /\ StackInv /\ RemoteInv
  BY <1>5, SeqOfShort DEF WriterInv, Publishing, InstallInv, StackInv, RemoteInv, Remote
<1>7. ReportInv
  BY DEF ReportInv, NoReport, InstallClosesDependencies
<1> QED BY <1>1, <1>2, <1>3, <1>4, <1>6, <1>7 DEF PkgInv

-----------------------------------------------------------------------------
(* The author's directory, the registry directory and the server.          *)
LEMMA OwnStep == PkgInv /\ PkgNext => OwnInv'
<1> SUFFICES ASSUME PkgInv, PkgNext PROVE OwnInv'
  OBVIOUS
<1> USE DEF PkgInv
<1>1. CASE UNCHANGED dirs
  <2>1. Catalogue' = Catalogue /\ Keys' = Keys
    BY DEF Catalogue, Keys
  <2> QED BY <1>1, <2>1 DEF dirs, OwnInv
<1>2. ASSUME NEW r \in OwnReleases, EditOwn(r) PROVE OwnInv'
  BY <1>2 DEF EditOwn, OwnInv
<1>3. CASE BuildOwn
  BY <1>3, PutArchive DEF BuildOwn, OwnInv
<1>4. CASE Built
  <2> DEFINE t == [task.tree EXCEPT !.litter = [v \in DOMAIN task.tree.litter \ {own.ver} |-> task.tree.litter[v]]]
  <2>1. TreeOf(<<Own, own.ver>>, task.tree)
    BY <1>4 DEF Built, Running, WriterInv
  <2>2. TreeOf(<<Own, own.ver>>, t)
    BY <2>1 DEF TreeOf, Fields
  <2>3. litter' = Put(litter, own.ver, t) /\ UNCHANGED <<own, agentLock>>
    BY <1>4 DEF Built
  <2> HIDE DEF t
  <2> QED BY <2>2, <2>3, PutArchive DEF OwnInv
<1>5. CASE LockOwn
  BY <1>5 DEF LockOwn, OwnInv
<1>6. CASE Locked
  BY <1>6 DEF Locked, OwnInv, WriterInv, Running
<1> QED
  BY <1>1, <1>2, <1>3, <1>4, <1>5, <1>6
     DEF PkgNext, Publish, PublishClear, PublishCopy, PublishOpen, PublishPack, PublishIndex, Install, InstallRemote,
         InstallLocked, NextPin, Visit, Unpack, Unpacked, InstallDone, ServerPublish, Fetch, Cached,
         CheckFetched, Killed

LEMMA DirExcept ==
  ASSUME NEW d, d = Dir(d.tree, d.toml, d.archives, d.first, d.index)
  PROVE  /\ \A as, e : e = [d EXCEPT !.archives = as] => e = Dir(d.tree, d.toml, as, d.first, d.index)
         /\ \A as, f, e : e = [d EXCEPT !.archives = as, !.first = f] => e = Dir(d.tree, d.toml, as, f, d.index)
         /\ \A i, e : e = [d EXCEPT !.index = i] => e = Dir(d.tree, d.toml, d.archives, d.first, i)
<1>1. /\ \A as, e : e = [d EXCEPT !.archives = as] => e = Dir(d.tree, d.toml, as, d.first, d.index)
      /\ \A i, e : e = [d EXCEPT !.index = i] => e = Dir(d.tree, d.toml, d.archives, d.first, i)
  BY DEF Dir
<1>2. ASSUME NEW as, NEW f, NEW e, e = [d EXCEPT !.archives = as, !.first = f]
      PROVE  e = Dir(d.tree, d.toml, as, f, d.index)
  <2>1. d = [tree |-> d.tree, toml |-> d.toml, archives |-> d.archives, first |-> d.first, index |-> d.index]
    BY DEF Dir
  <2>2. e = [tree |-> d.tree, toml |-> d.toml, archives |-> as, first |-> f, index |-> d.index]
    BY <1>2, <2>1
  <2> QED BY <2>2 DEF Dir
<1> QED BY <1>1, <1>2

(* Fewer of the archives of a directory, and some cut short.                 *)
LEMMA SomeArchives ==
  ASSUME NEW n, NEW as, ArchivesOf(n, as), NEW vs, vs \subseteq DOMAIN as, NEW short,
         NEW bs, bs = [v \in vs |-> IF v \in short THEN HalfTree ELSE as[v]]
  PROVE  ArchivesOf(n, bs) /\ DOMAIN bs = vs
BY DEF ArchivesOf

LEMMA RemnantsFit ==
  ASSUME NEW k, NEW d, DirOf(k, d), NEW e \in Remnants(d)
  PROVE  DirOf(k, e) /\ e # Gone
<1>1. /\ e \in [tree : {d.tree, Remains}, toml : {d.toml, Gone}, index : {d.index, Gone},
                archives : {[v \in vs |-> d.archives[v]] : vs \in SUBSET DOMAIN d.archives},
                first : DOMAIN d.archives \cup {0}]
      /\ e.first \in IF d.first \in DOMAIN e.archives THEN {d.first} ELSE Listed(e.archives)
  BY DEF Remnants
<1>2. PICK vs \in SUBSET DOMAIN d.archives : e.archives = [v \in vs |-> d.archives[v]]
  BY <1>1
<1>3. ArchivesOf(k[1], e.archives)
  BY <1>2, SomeArchives DEF DirOf, ArchivesOf
<1>4. DOMAIN e.archives # {} => e.first \in DOMAIN e.archives
  BY <1>1 DEF Listed
<1>5. e = Dir(e.tree, e.toml, e.archives, e.first, e.index)
  BY <1>1 DEF Dir
<1>6. e.tree \in {d.tree, Remains} /\ e.toml \in {d.toml, Gone} /\ e.index \in {d.index, Gone}
  BY <1>1
<1>7. PartsOf(k, e.tree, e.toml, e.archives, e.first, e.index)
  BY <1>3, <1>4, <1>6, FitsDir DEF PartsOf
<1> QED BY <1>5, <1>7, DirFits

LEMMA PartsFit ==
  ASSUME NEW k, NEW t, ArchivesOf(k[1], t.litter), NEW e \in PartCopies(t)
  PROVE  DirOf(k, e) /\ e # Gone
<1> DEFINE Cuts1 == {{}} \cup {{w} : w \in DOMAIN t.litter}
           Part(vs, torn) == [v \in vs |-> IF v \in torn THEN HalfTree ELSE t.litter[v]]
           As == {Part(vs, torn) : vs \in SUBSET DOMAIN t.litter, torn \in Cuts1}
           Ms == {Gone} \cup {[deps |-> [n \in ns |-> t.rel.deps[n]]] : ns \in SUBSET DOMAIN t.rel.deps}
           Fs == DOMAIN t.litter \cup {0}
<1>1. /\ e \in [tree : {Remains}, index : {Gone}, toml : Ms, archives : As, first : Fs]
      /\ e.first \in Listed(e.archives)
  BY DEF PartCopies
<1> HIDE DEF As, Ms, Fs, Part, Cuts1
<1>2. e.tree = Remains /\ e.index = Gone /\ e.toml \in Ms /\ e.archives \in As
      /\ e = Dir(e.tree, e.toml, e.archives, e.first, e.index)
  BY <1>1 DEF Dir
<1>3. ArchivesOf(k[1], e.archives)
  <2>1. \E vs \in SUBSET DOMAIN t.litter, torn \in Cuts1 : e.archives = Part(vs, torn)
    BY <1>2 DEF As
  <2>2. PICK vs \in SUBSET DOMAIN t.litter, torn \in Cuts1 : e.archives = Part(vs, torn)
    BY <2>1
  <2> QED BY <2>2, SomeArchives DEF Part
<1>4. DOMAIN e.archives # {} => e.first \in DOMAIN e.archives
  BY <1>1 DEF Listed
<1>5. e.toml = Gone \/ e.toml = [deps |-> e.toml.deps]
  BY <1>2 DEF Ms
<1>6. PartsOf(k, e.tree, e.toml, e.archives, e.first, e.index)
  BY <1>2, <1>3, <1>4, <1>5 DEF PartsOf
<1> QED BY <1>2, <1>6, DirFits

LEMMA ShelfStep == PkgInv /\ PkgNext => ShelfInv'
<1> SUFFICES ASSUME PkgInv, PkgNext PROVE ShelfInv'
  OBVIOUS
<1> USE DEF PkgInv
<1>0. Keys' = Keys /\ \A k, d : DirOf(k, d)' <=> DirOf(k, d)
  BY DEF Keys, Catalogue
<1>1. CASE UNCHANGED shelf /\ halfShelf \subseteq halfShelf'
  BY <1>0, <1>1 DEF ShelfInv
<1>2. ASSUME NEW d, NEW k \in Keys, shelf' = [shelf EXCEPT ![k] = d],
             d # Gone => DirOf(k, d) /\ (DOMAIN d.archives = {} => k \in halfShelf'),
             halfShelf \ {k} \subseteq halfShelf'
      PROVE  ShelfInv'
  <2>1. \A l \in Keys : shelf'[l] = IF l = k THEN d ELSE shelf[l]
    BY <1>2 DEF ShelfInv
  <2>2. shelf' = [l \in Keys |-> shelf'[l]]
    BY <1>2 DEF ShelfInv
  <2>3. ASSUME NEW l \in Keys, shelf'[l] # Gone
        PROVE  DirOf(l, shelf'[l]) /\ (DOMAIN shelf'[l].archives = {} => l \in halfShelf')
    BY <1>2, <2>1, <2>3 DEF ShelfInv
  <2> QED BY <1>0, <2>2, <2>3 DEF ShelfInv
<1>3. CASE Publish(OwnTree) \/ \E r \in Releases : Publish(Plain(r))
  BY <1>1, <1>3 DEF Publish
<1>6. ASSUME task.pc \in Publishing
      PROVE  /\ Key \in Keys /\ TreeOf(Key, task.tree) /\ ArchivesOf(Key[1], task.tree.litter)
             /\ Key \in halfShelf /\ (shelf[Key] # Gone => DirOf(Key, shelf[Key]))
             /\ Key[1] = task.tree.rel.name /\ Key[2] = task.tree.rel.ver /\ Key = <<Key[1], Key[2]>>
  <2>1. /\ Key \in Keys /\ TreeOf(Key, task.tree) /\ ArchivesOf(Key[1], task.tree.litter)
        /\ Key \in halfShelf
    BY <1>6 DEF WriterInv
  <2>2. Key[1] = task.tree.rel.name /\ Key[2] = task.tree.rel.ver /\ Key = <<Key[1], Key[2]>>
    BY DEF Key
  <2> QED BY <2>1, <2>2 DEF ShelfInv
<1>4. ASSUME NEW d, Shelve(d), task.pc \in Publishing, d # Gone => DirOf(Key, d), UNCHANGED halfShelf
      PROVE  ShelfInv'
  BY <1>2, <1>4, <1>6 DEF Shelve
<1>5. CASE PublishClear
  BY <1>4, <1>5 DEF PublishClear, Running, Publishing
<1>7. CASE PublishCopy
  <2>1. task.pc \in Publishing /\ UNCHANGED halfShelf
    BY <1>7 DEF PublishCopy, Running, Publishing
  <2>2. PICK v \in Listed(task.tree.litter) :
           Shelve(Dir(task.tree, Toml(task.tree), task.tree.litter, v, Gone))
    BY <1>7 DEF PublishCopy
  <2>3. DOMAIN task.tree.litter # {} => v \in DOMAIN task.tree.litter
    BY DEF Listed
  <2>5. PartsOf(Key, task.tree, Toml(task.tree), task.tree.litter, v, Gone)
    BY <1>6, <2>1, <2>3, TreesAreTrees DEF PartsOf
  <2>4. DirOf(Key, Dir(task.tree, Toml(task.tree), task.tree.litter, v, Gone))
    BY <2>5, DirFits
  <2> QED BY <1>4, <2>1, <2>2, <2>4
<1>8. ASSUME task.pc \in {"open", "pack", "index"}
      PROVE  /\ task.pc \in Publishing /\ DirOf(Key, shelf[Key])
             /\ \A a : a = HalfTree \/ TreeOf(Key, a) =>
                  /\ ArchivesOf(Key[1], Archived(a))
                  /\ DOMAIN Archived(a) = DOMAIN shelf[Key].archives \cup {task.tree.rel.ver}
  <2>1. task.pc \in Publishing
    BY <1>8 DEF Publishing
  <2>2. DirOf(Key, shelf[Key])
    BY <1>6, <1>8, <2>1 DEF WriterInv
  <2> QED BY <1>6, <2>1, <2>2, PutArchive DEF Archived, DirOf
<1>9. CASE PublishOpen
  <2>1. task.pc = "open" /\ UNCHANGED halfShelf
    BY <1>9 DEF PublishOpen, Running
  <2>2. PICK v \in DOMAIN Archived(HalfTree) :
           Shelve([shelf[Key] EXCEPT !.archives = Archived(HalfTree), !.first = v])
    BY <1>9 DEF PublishOpen
  <2> DEFINE as == Archived(HalfTree)
             d == [shelf[Key] EXCEPT !.archives = as, !.first = v]
  <2>3. ArchivesOf(Key[1], as) /\ v \in DOMAIN as
    BY <1>8, <2>1, <2>2
  <2> HIDE DEF as
  <2>4. d = Dir(shelf[Key].tree, shelf[Key].toml, as, v, shelf[Key].index)
    <3>1. shelf[Key] = Dir(shelf[Key].tree, shelf[Key].toml, shelf[Key].archives, shelf[Key].first, shelf[Key].index)
      BY <1>8, <2>1, FitsDir
    <3>2. PICK e : e = shelf[Key]
      OBVIOUS
    <3> QED BY <3>1, <3>2, DirExcept
  <2>5. Shelve(d)
    BY <2>2 DEF as
  <2> HIDE DEF d
  <2>7. PartsOf(Key, shelf[Key].tree, shelf[Key].toml, as, v, shelf[Key].index)
    BY <1>8, <2>1, <2>3, FitsDir DEF PartsOf
  <2>6. DirOf(Key, d)
    BY <2>4, <2>7, DirFits
  <2> QED BY <1>4, <1>8, <2>1, <2>5, <2>6
<1>10. CASE PublishPack
  <2>1. task.pc = "pack" /\ UNCHANGED halfShelf /\ task.tree.rel.ver \in DOMAIN shelf[Key].archives
    BY <1>10 DEF PublishPack, Running, WriterInv
  <2> DEFINE as == Archived(task.tree)
             d == [shelf[Key] EXCEPT !.archives = as]
  <2>2. ArchivesOf(Key[1], as) /\ DOMAIN as = DOMAIN shelf[Key].archives
    BY <1>6, <1>8, <2>1
  <2> HIDE DEF as
  <2>3. d = Dir(shelf[Key].tree, shelf[Key].toml, as, shelf[Key].first, shelf[Key].index)
    BY <1>8, <2>1, DirExcept DEF DirOf
  <2>4. Shelve(d)
    BY <1>10 DEF PublishPack, as
  <2> HIDE DEF d
  <2>5. DirOf(Key, d)
    <3>1. PartsOf(Key, shelf[Key].tree, shelf[Key].toml, as, shelf[Key].first, shelf[Key].index)
      BY <1>8, <2>1, <2>2, FitsDir DEF PartsOf
    <3> QED BY <2>3, <3>1, DirFits
  <2> QED BY <1>4, <1>8, <2>1, <2>4, <2>5
<1>11. CASE PublishIndex
  <2>1. task.pc = "index" /\ task.tree.rel.ver \in DOMAIN shelf[Key].archives
    BY <1>11 DEF PublishIndex, Running, WriterInv
  <2>2. PICK i \in {HalfTree, Index(task.tree)} :
           /\ shelf' = [shelf EXCEPT ![Key] = [shelf[Key] EXCEPT !.index = i]]
           /\ halfShelf' \in {halfShelf, halfShelf \ {Key}}
    BY <1>11 DEF PublishIndex, Shelve
  <2> DEFINE d == [shelf[Key] EXCEPT !.index = i]
  <2>3. d = Dir(shelf[Key].tree, shelf[Key].toml, shelf[Key].archives, shelf[Key].first, i)
    BY <1>8, <2>1, DirExcept DEF DirOf
  <2>4. shelf' = [shelf EXCEPT ![Key] = d]
    BY <2>2
  <2> HIDE DEF d
  <2>5. i \in {Gone, HalfTree} \/ i = [deps |-> i.deps, sha |-> i.sha]
    BY <2>2, TreesAreTrees
  <2>6. DirOf(Key, d) /\ d.archives = shelf[Key].archives
    <3>1. PartsOf(Key, shelf[Key].tree, shelf[Key].toml, shelf[Key].archives, shelf[Key].first, i)
      BY <1>8, <2>1, <2>5, FitsDir DEF PartsOf
    <3> QED BY <2>3, <3>1, DirFits
  <2> QED BY <1>2, <1>6, <1>8, <2>1, <2>2, <2>4, <2>6
<1>12. CASE Killed
  <2>1. CASE UNCHANGED shelf
    BY <1>1, <1>12, <2>1 DEF Killed
  <2>2. ASSUME Running("clear"), shelf[Key] # Gone, NEW d \in Remnants(shelf[Key]) \cup {Gone}, Shelve(d)
        PROVE  ShelfInv'
    <3>1. task.pc \in Publishing
      BY <2>2 DEF Running, Publishing
    <3>2. d # Gone => DirOf(Key, d)
      BY <1>6, <2>2, <3>1, RemnantsFit
    <3> QED BY <1>4, <1>12, <2>2, <3>1, <3>2 DEF Killed
  <2>3. ASSUME Running("copy"), NEW d \in PartCopies(task.tree), Shelve(d)
        PROVE  ShelfInv'
    <3>1. task.pc \in Publishing
      BY <2>3 DEF Running, Publishing
    <3>2. DirOf(Key, d)
      BY <1>6, <3>1, PartsFit
    <3> QED BY <1>4, <1>12, <2>3, <3>1, <3>2 DEF Killed
  <2> QED BY <1>12, <2>1, <2>2, <2>3 DEF Killed
<1> QED
  BY <1>1, <1>3, <1>5, <1>7, <1>9, <1>10, <1>11, <1>12
     DEF PkgNext, EditOwn, BuildOwn, Built, LockOwn, Locked, Install, InstallRemote,
         InstallLocked, NextPin, Visit, Unpack, Unpacked, InstallDone, ServerPublish, Fetch, Cached,
         CheckFetched

LEMMA ServerStep == PkgInv /\ PkgNext => ServerInv'
<1> SUFFICES ASSUME PkgInv, PkgNext PROVE ServerInv'
  OBVIOUS
<1> USE DEF PkgInv
<1> DEFINE Same(f, g) == g = f \/ \E k, x : g = [f EXCEPT ![k] = x]
<1>1. \A f, g : Same(f, g) /\ f = [k \in Keys |-> f[k]] => g = [k \in Keys |-> g[k]]
  OBVIOUS
<1>2. Same(server, server') /\ Same(cache, cache') /\ Same(tree, tree')
  BY DEF PkgNext, EditOwn, BuildOwn, Built, LockOwn, Locked, Install, InstallRemote, Publish, PublishClear, PublishCopy,
         PublishOpen, PublishPack, PublishIndex,
         InstallLocked, NextPin, Visit, Unpack, Unpacked, InstallDone, ServerPublish, Fetch, Cached,
         CheckFetched, Killed, net
<1>3. Keys' = Keys /\ Catalogue' = Catalogue
  BY DEF Keys, Catalogue
<1>4. /\ server' = [k \in Keys |-> server'[k]] /\ cache' = [k \in Keys |-> cache'[k]]
      /\ tree' = [k \in Keys |-> tree'[k]]
  <2> HIDE DEF Same
  <2> QED BY <1>1, <1>2 DEF ServerInv
<1>5. \A k \in Keys : server'[k] # Gone => TreeOf(k, server'[k])
  <2>1. CASE UNCHANGED server
    BY <2>1 DEF ServerInv
  <2>2. ASSUME NEW r \in Releases, ServerPublish(Plain(r)) 
        PROVE \A k \in Keys : server'[k] # Gone => TreeOf(k, server'[k])
    <3>1. r \in Catalogue
      BY DEF Catalogue
    <3>2. TreeOf(<<r.name, r.ver>>, Plain(r)) /\ <<r.name, r.ver>> \in Keys /\ Plain(r).rel = r
      BY <3>1, PlainTree
    <3>3. server' = [server EXCEPT ![<<r.name, r.ver>>] = Plain(r)]
      BY <2>2, <3>2 DEF ServerPublish
    <3> QED BY <3>2, <3>3 DEF ServerInv
  <2> QED
    BY <2>1, <2>2
       DEF PkgNext, EditOwn, BuildOwn, Built, LockOwn, Locked, Install, InstallRemote, Publish, PublishClear, PublishCopy,
         PublishOpen, PublishPack, PublishIndex,
         InstallLocked, NextPin, Visit, Unpack, Unpacked, InstallDone, Fetch, Cached,
         CheckFetched, Killed, net
<1> QED BY <1>3, <1>4, <1>5 DEF ServerInv, TreeOf, Fields

-----------------------------------------------------------------------------
(* The command under way.                                                  *)
SameBut(t, u, fields) ==
    /\ "pc" \notin fields => u.pc = t.pc
    /\ "tree" \notin fields => u.tree = t.tree
    /\ "frames" \notin fields => u.frames = t.frames
    /\ "pins" \notin fields => u.pins = t.pins
    /\ "seen" \notin fields => u.seen = t.seen
    /\ "found" \notin fields => u.found = t.found
    /\ "roots" \notin fields => u.roots = t.roots
    /\ "mode" \notin fields => u.mode = t.mode
    /\ "lock" \notin fields => u.lock = t.lock

LEMMA NoTaskShape == TaskShape(NoTask)
BY DEF TaskShape, NoTask, PkgPcs

LEMMA PcPut ==
  ASSUME NEW t, TaskShape(t), NEW p \in PkgPcs, NEW u, u = [t EXCEPT !.pc = p]
  PROVE  TaskShape(u) /\ SameBut(t, u, {"pc"}) /\ u.pc = p
BY DEF TaskShape, SameBut

LEMMA FramesPut ==
  ASSUME NEW t, TaskShape(t), NEW fs, NEW u, u = [t EXCEPT !.frames = fs]
  PROVE  TaskShape(u) /\ SameBut(t, u, {"frames"}) /\ u.frames = fs
BY DEF TaskShape, SameBut

LEMMA TopPut ==
  ASSUME NEW f, TaskShape(task), NEW u, u = PutFrame(f)
  PROVE  /\ TaskShape(u) /\ SameBut(task, u, {"frames"})
         /\ u.frames = [task.frames EXCEPT ![Len(task.frames)] = f]
BY FramesPut DEF PutFrame

(* What the steps of an install make of it.                                *)
Grown(t, n, k) ==
    /\ TaskShape(t) /\ SameBut(task, t, {"frames", "seen"})
    /\ t.frames = Append([task.frames EXCEPT ![Len(task.frames)] = [TopFrame EXCEPT !.left = @ \ {n}]], Frame(k, Gone))
    /\ t.seen = task.seen \cup {k}

Passed(t, n) ==
    /\ TaskShape(t) /\ SameBut(task, t, {"frames"})
    /\ t.frames = [task.frames EXCEPT ![Len(task.frames)] = [TopFrame EXCEPT !.left = @ \ {n}]]

LEMMA BeginEffect ==
  ASSUME NEW k, Install(k)
  PROVE  /\ k \in Keys /\ Readable(k) /\ report' = NoReport
         /\ TaskShape(task') /\ SameBut(NoTask, task', {"pc", "frames", "seen", "roots"})
         /\ task'.pc = "visit" /\ task'.frames = <<Frame(k, Gone)>> /\ task'.seen = {k} /\ task'.roots = {k}
<1>1. Readable(k) /\ k \in Keys /\ report' = NoReport
  BY DEF Install, Started, Readable
<1> DEFINE f == Frame(k, Gone)
<1>2. task' = [NoTask EXCEPT !.pc = "visit", !.frames = <<f>>, !.seen = {k}, !.roots = {k}]
  BY DEF Install, Started
<1> HIDE DEF f
<1>3. /\ TaskShape(task') /\ SameBut(NoTask, task', {"pc", "frames", "seen", "roots"})
      /\ task'.pc = "visit" /\ task'.frames = <<f>> /\ task'.seen = {k} /\ task'.roots = {k}
  BY <1>1, <1>2, NoTaskShape DEF TaskShape, SameBut, PkgPcs
<1> QED BY <1>1, <1>3 DEF f

LEMMA LockedEffect ==
  ASSUME OwnInv, NEW mode \in {"locked", "frozen"}, InstallLocked(mode)
  PROVE  /\ LockOf(agentLock) /\ (mode = "frozen" => StillFits) /\ report' = NoReport
         /\ TaskShape(task') /\ SameBut(NoTask, task', {"pc", "pins", "mode", "roots"})
         /\ task'.pc = "visit" /\ task'.pins = agentLock.pins /\ task'.mode = mode
         /\ task'.roots = {p.key : p \in agentLock.pins}
<1> DEFINE ks == {p.key : p \in agentLock.pins}
<1>1. LockOf(agentLock) /\ (mode = "frozen" => StillFits) /\ report' = NoReport
  BY DEF InstallLocked, Started, OwnInv
<1>2. task' = [NoTask EXCEPT !.pc = "visit", !.pins = agentLock.pins, !.mode = mode, !.roots = ks]
  BY DEF InstallLocked, Started
<1>3. ks \in SUBSET Keys
  BY <1>1 DEF LockOf
<1> HIDE DEF ks
<1>4. /\ TaskShape(task') /\ SameBut(NoTask, task', {"pc", "pins", "mode", "roots"})
      /\ task'.pc = "visit" /\ task'.pins = agentLock.pins /\ task'.mode = mode /\ task'.roots = ks
  BY <1>2, <1>3, NoTaskShape DEF TaskShape, SameBut, PkgPcs
<1> QED BY <1>1, <1>4 DEF ks

LEMMA RemoteEffect ==
  ASSUME NEW k, InstallRemote(k)
  PROVE  /\ server[k] # Gone /\ report' = NoReport
         /\ TaskShape(task') /\ SameBut(NoTask, task', {"pc", "mode", "frames"})
         /\ task'.pc = "fetch" /\ task'.mode = "remote"
         /\ task'.frames = <<[key |-> k, want |-> server[k], left |-> {}, archive |-> Gone]>>
<1> DEFINE f == [key |-> k, want |-> server[k], left |-> {}, archive |-> Gone]
<1>1. server[k] # Gone /\ report' = NoReport
  BY DEF InstallRemote, Started
<1>2. task' = [NoTask EXCEPT !.pc = "fetch", !.mode = "remote", !.frames = <<f>>]
  BY DEF InstallRemote, Started
<1> HIDE DEF f
<1>3. /\ TaskShape(task') /\ SameBut(NoTask, task', {"pc", "mode", "frames"})
      /\ task'.pc = "fetch" /\ task'.mode = "remote" /\ task'.frames = <<f>>
  BY <1>2, NoTaskShape DEF TaskShape, SameBut, PkgPcs
<1> QED BY <1>1, <1>3 DEF f

LEMMA PinEffect ==
  ASSUME TaskShape(task), NextPin
  PROVE  \/ task' = NoTask
         \/ \E p \in task.pins :
              /\ Readable(p.key)
              /\ TaskShape(task') /\ SameBut(task, task', {"frames", "seen", "pins"})
              /\ task'.frames = <<Frame(p.key, p.sha)>> /\ task'.seen = {p.key} /\ task'.pins = task.pins \ {p}
<1>1. PICK p \in task.pins :
         task' = IF Readable(p.key)
                 THEN [task EXCEPT !.frames = <<Frame(p.key, p.sha)>>, !.pins = @ \ {p}, !.seen = {p.key}]
                 ELSE NoTask
  BY DEF NextPin
<1>2. CASE Readable(p.key)
  <2> DEFINE f == Frame(p.key, p.sha)
  <2>1. task' = [task EXCEPT !.frames = <<f>>, !.pins = @ \ {p}, !.seen = {p.key}] /\ p.key \in Keys
    BY <1>1, <1>2 DEF Readable
  <2> HIDE DEF f
  <2>2. /\ TaskShape(task') /\ SameBut(task, task', {"frames", "seen", "pins"})
        /\ task'.frames = <<f>> /\ task'.seen = {p.key} /\ task'.pins = task.pins \ {p}
    BY <2>1 DEF TaskShape, SameBut
  <2> QED BY <1>2, <2>2 DEF f
<1> QED BY <1>1, <1>2

LEMMA VisitEffect ==
  ASSUME TaskShape(task), Visit
  PROVE  \/ task' = NoTask
         \/ \E n \in TopFrame.left :
               LET found == Chosen(n, DepsOf(TopFrame.key)[n]) IN
               \E v \in found :
                  \/ <<n, v>> \in task.seen /\ Passed(task', n)
                  \/ <<n, v>> \notin task.seen /\ Readable(<<n, v>>) /\ Grown(task', n, <<n, v>>)
<1>1. PICK n \in TopFrame.left :
         \/ task' = NoTask
         \/ \E v \in Chosen(n, DepsOf(TopFrame.key)[n]) :
               task' = IF Met(<<n, v>>) THEN PutFrame([TopFrame EXCEPT !.left = @ \ {n}])
                       ELSE IF ~Readable(<<n, v>>) THEN NoTask
                       ELSE [PutFrame([TopFrame EXCEPT !.left = @ \ {n}])
                               EXCEPT !.frames = Append(@, Frame(<<n, v>>, Gone)), !.seen = @ \cup {<<n, v>>}]
  BY DEF Visit, Ended
<1>2. ASSUME NEW v \in Chosen(n, DepsOf(TopFrame.key)[n]),
             task' = IF Met(<<n, v>>) THEN PutFrame([TopFrame EXCEPT !.left = @ \ {n}])
                     ELSE IF ~Readable(<<n, v>>) THEN NoTask
                     ELSE [PutFrame([TopFrame EXCEPT !.left = @ \ {n}])
                             EXCEPT !.frames = Append(@, Frame(<<n, v>>, Gone)), !.seen = @ \cup {<<n, v>>}]
      PROVE  \/ task' = NoTask
             \/ <<n, v>> \in task.seen /\ Passed(task', n)
             \/ <<n, v>> \notin task.seen /\ Readable(<<n, v>>) /\ Grown(task', n, <<n, v>>)
  <2> DEFINE g == [TopFrame EXCEPT !.left = @ \ {n}]
             t == PutFrame(g)
             k == <<n, v>>
             f == Frame(k, Gone)
  <2>1. TaskShape(t) /\ SameBut(task, t, {"frames"}) /\ t.frames = [task.frames EXCEPT ![Len(task.frames)] = g]
    <3> HIDE DEF g
    <3> QED BY TopPut
  <2>2. CASE Met(k)
    BY <1>2, <2>1, <2>2 DEF Met, Passed
  <2>3. CASE ~Met(k) /\ ~Readable(k)
    BY <1>2, <2>3
  <2>4. CASE ~Met(k) /\ Readable(k)
    <3>1. task' = [t EXCEPT !.frames = Append(@, f), !.seen = @ \cup {k}]
      BY <1>2, <2>4
    <3>2. k \in Keys /\ k \notin task.seen
      BY <2>4 DEF Readable, Met
    <3> HIDE DEF t, k, f, g
    <3>3. /\ TaskShape(task') /\ SameBut(t, task', {"frames", "seen"})
          /\ task'.frames = Append(t.frames, f) /\ task'.seen = t.seen \cup {k}
      BY <2>1, <3>1, <3>2 DEF TaskShape, SameBut
    <3>4. TaskShape(task') /\ SameBut(task, task', {"frames", "seen"}) /\ task'.seen = task.seen \cup {k}
          /\ task'.frames = Append([task.frames EXCEPT ![Len(task.frames)] = g], f)
      BY <2>1, <3>3 DEF SameBut
    <3> QED BY <2>4, <3>2, <3>4 DEF Grown, k, f, g
  <2> QED BY <2>2, <2>3, <2>4
<1> QED BY <1>1, <1>2

LEMMA UnpackEffect ==
  ASSUME TaskShape(task), Unpack
  PROVE  \/ task' = NoTask /\ UNCHANGED tree
         \/ /\ MatchesSha(TopFrame.want, LocalSha(TopFrame.key))
            /\ tree' = [tree EXCEPT ![TopFrame.key] = HalfTree]
            /\ TaskShape(task') /\ SameBut(task, task', {"pc", "frames"}) /\ task'.pc = "unpack"
            /\ task'.frames = [task.frames EXCEPT ![Len(task.frames)] =
                                 [TopFrame EXCEPT !.archive = FoundArchive(TopFrame.key)]]
<1>1. CASE Ended /\ UNCHANGED tree
  BY <1>1 DEF Ended
<1>2. CASE /\ MatchesSha(TopFrame.want, LocalSha(TopFrame.key))
           /\ tree' = [tree EXCEPT ![TopFrame.key] = HalfTree]
           /\ task' = [PutFrame([TopFrame EXCEPT !.archive = FoundArchive(TopFrame.key)]) EXCEPT !.pc = "unpack"]
  <2> DEFINE g == [TopFrame EXCEPT !.archive = FoundArchive(TopFrame.key)]
             t == PutFrame(g)
  <2>1. TaskShape(t) /\ SameBut(task, t, {"frames"}) /\ t.frames = [task.frames EXCEPT ![Len(task.frames)] = g]
    <3> HIDE DEF g
    <3> QED BY TopPut
  <2>2. task' = [t EXCEPT !.pc = "unpack"]
    BY <1>2
  <2> HIDE DEF t
  <2>3. TaskShape(task') /\ SameBut(t, task', {"pc"}) /\ task'.pc = "unpack"
    BY <2>1, <2>2, PcPut DEF PkgPcs
  <2>4. TaskShape(task') /\ SameBut(task, task', {"pc", "frames"}) /\ task'.pc = "unpack" /\ task'.frames = t.frames
    BY <2>1, <2>3 DEF SameBut
  <2> QED BY <1>2, <2>1, <2>4
<1> QED BY <1>1, <1>2 DEF Unpack

LEMMA UnpackedEffect ==
  ASSUME TaskShape(task), Unpacked
  PROVE  \/ task' = NoTask /\ UNCHANGED tree
         \/ /\ TopFrame.archive # HalfTree
            /\ tree' = [tree EXCEPT ![TopFrame.key] =
                          IF TopFrame.archive = Gone THEN shelf[TopFrame.key].tree ELSE TopFrame.archive]
            /\ TaskShape(task') /\ SameBut(task, task', {"pc", "frames", "found"}) /\ task'.pc = "visit"
            /\ task'.frames = SubSeq(task.frames, 1, Len(task.frames) - 1)
            /\ \/ task'.frames # <<>> /\ task'.found = task.found
               \/ /\ task'.frames = <<>>
                  /\ task'.found = task.found \cup {[key |-> TopFrame.key, sha |-> ShaOf(TopFrame)]}
<1> DEFINE r  == [key |-> TopFrame.key, sha |-> ShaOf(TopFrame)]
           fs == SubSeq(task.frames, 1, Len(task.frames) - 1)
           rs == IF fs # <<>> THEN task.found ELSE task.found \cup {r}
<1>1. CASE Ended /\ UNCHANGED tree
  BY <1>1 DEF Ended
<1>2. CASE /\ TopFrame.archive # HalfTree
           /\ tree' = [tree EXCEPT ![TopFrame.key] =
                         IF TopFrame.archive = Gone THEN shelf[TopFrame.key].tree ELSE TopFrame.archive]
           /\ task' = [task EXCEPT !.pc = "visit", !.frames = fs, !.found = rs]
  <2>1. task' = [task EXCEPT !.pc = "visit", !.frames = fs, !.found = rs]
    BY <1>2
  <2> HIDE DEF fs, rs
  <2>2. /\ TaskShape(task') /\ SameBut(task, task', {"pc", "frames", "found"})
        /\ task'.frames = fs /\ task'.pc = "visit" /\ task'.found = rs
    BY <2>1 DEF TaskShape, SameBut, PkgPcs
  <2>3. \/ task'.frames # <<>> /\ task'.found = task.found
        \/ task'.frames = <<>> /\ task'.found = task.found \cup {r}
    BY <2>2 DEF rs
  <2> QED BY <1>2, <2>2, <2>3 DEF fs
<1>3. \/ Ended /\ UNCHANGED tree
      \/ /\ TopFrame.archive # HalfTree
         /\ tree' = [tree EXCEPT ![TopFrame.key] =
                         IF TopFrame.archive = Gone THEN shelf[TopFrame.key].tree ELSE TopFrame.archive]
         /\ task' = [task EXCEPT !.pc = "visit", !.frames = fs, !.found = rs]
  BY DEF Unpacked
<1> QED BY <1>1, <1>2, <1>3

LEMMA FetchEffect ==
  ASSUME TaskShape(task), Fetch
  PROVE  /\ TaskShape(task') /\ SameBut(task, task', {"pc", "frames"})
         /\ task'.pc \in {"check", "cache"}
         /\ \E a \in {TopFrame.want, server[TopFrame.key]} :
               task'.frames = [task.frames EXCEPT ![Len(task.frames)] = [TopFrame EXCEPT !.archive = a]]
<1>1. ASSUME NEW a, NEW p \in {"check", "cache"}, task' = [PutFrame([TopFrame EXCEPT !.archive = a]) EXCEPT !.pc = p]
      PROVE  /\ TaskShape(task') /\ SameBut(task, task', {"pc", "frames"}) /\ task'.pc = p
             /\ task'.frames = [task.frames EXCEPT ![Len(task.frames)] = [TopFrame EXCEPT !.archive = a]]
  <2> DEFINE g == [TopFrame EXCEPT !.archive = a]
             t == PutFrame(g)
  <2>1. TaskShape(t) /\ SameBut(task, t, {"frames"}) /\ t.frames = [task.frames EXCEPT ![Len(task.frames)] = g]
    <3> HIDE DEF g
    <3> QED BY TopPut
  <2>2. task' = [t EXCEPT !.pc = p]
    BY <1>1
  <2> HIDE DEF t
  <2>3. TaskShape(task') /\ SameBut(t, task', {"pc"}) /\ task'.pc = p
    BY <2>1, <2>2, PcPut DEF PkgPcs
  <2>4. TaskShape(task') /\ SameBut(task, task', {"pc", "frames"}) /\ task'.pc = p /\ task'.frames = t.frames
    BY <2>1, <2>3 DEF SameBut
  <2> QED BY <2>1, <2>4
<1>2. \/ task' = [PutFrame([TopFrame EXCEPT !.archive = TopFrame.want]) EXCEPT !.pc = "check"]
      \/ task' = [PutFrame([TopFrame EXCEPT !.archive = server[TopFrame.key]]) EXCEPT !.pc = "cache"]
  BY DEF Fetch
<1>3. CASE task' = [PutFrame([TopFrame EXCEPT !.archive = TopFrame.want]) EXCEPT !.pc = "check"]
  <2> DEFINE a == TopFrame.want
  <2> HIDE DEF a
  <2>1. task' = [PutFrame([TopFrame EXCEPT !.archive = a]) EXCEPT !.pc = "check"]
    BY <1>3 DEF a
  <2> QED BY <1>1, <2>1 DEF a
<1>4. CASE task' = [PutFrame([TopFrame EXCEPT !.archive = server[TopFrame.key]]) EXCEPT !.pc = "cache"]
  <2> DEFINE a == server[TopFrame.key]
  <2> HIDE DEF a
  <2>1. task' = [PutFrame([TopFrame EXCEPT !.archive = a]) EXCEPT !.pc = "cache"]
    BY <1>4 DEF a
  <2> QED BY <1>1, <2>1 DEF a
<1> QED BY <1>2, <1>3, <1>4

(* What each command does to the record of the command under way.          *)
LEMMA TaskStep == PkgInv /\ PkgNext => TaskOK'
<1> SUFFICES ASSUME PkgInv, PkgNext PROVE TaskOK'
  OBVIOUS
<1> USE DEF PkgInv
<1>0. Keys' = Keys /\ TaskShape(task) /\ \A t : TaskShape(t)' <=> TaskShape(t)
  BY DEF Keys, Catalogue, TaskOK, TaskShape, PkgPcs
<1>1. CASE UNCHANGED <<task, report>>
  BY <1>0, <1>1 DEF TaskOK
<1>2. ASSUME task' = NoTask, report' = report \/ report' = NoReport
                 \/ report' = [found |-> task.found, roots |-> task.roots, mode |-> task.mode]
      PROVE  TaskOK'
  <2>1. report' = [found |-> report'.found, roots |-> report'.roots, mode |-> report'.mode]
    BY <1>2 DEF TaskOK, NoReport
  <2>2. NoTask.pc = "none"
    BY DEF NoTask
  <2> QED BY <1>0, <1>2, <2>1, <2>2, NoTaskShape DEF TaskOK
<1>3. ASSUME TaskShape(task'), task'.pc # "none", report' = NoReport
      PROVE  TaskOK'
  BY <1>0, <1>3 DEF TaskOK, NoReport
<1>4. task.pc # "none" /\ UNCHANGED report => report' = NoReport
  BY DEF TaskOK
<1>5. ASSUME NEW p \in PkgPcs \ {"none"}, Continue(p), task.pc # "none", UNCHANGED report
      PROVE  TaskOK'
  <2>1. TaskShape(task') /\ task'.pc = p
    BY <1>0, <1>5, PcPut DEF Continue
  <2> QED BY <1>3, <1>4, <1>5, <2>1
<1>6. CASE \/ BuildOwn \/ Publish(OwnTree) \/ \E r \in Releases : Publish(Plain(r))
  <2>1. report' = NoReport /\ \E p \in {"build", "clear"} : \E t : task' = [NoTask EXCEPT !.pc = p, !.tree = t]
    BY <1>6 DEF BuildOwn, Publish, Started
  <2>2. TaskShape(task') /\ task'.pc # "none"
    <3>0. PICK p \in {"build", "clear"} : \E t : task' = [NoTask EXCEPT !.pc = p, !.tree = t]
      BY <2>1
    <3>1. PICK t : task' = [NoTask EXCEPT !.pc = p, !.tree = t]
      BY <3>0
    <3>2. p \in PkgPcs
      BY DEF PkgPcs
    <3>3. TaskShape(task') /\ SameBut(NoTask, task', {"pc", "tree"}) /\ task'.pc = p /\ task'.tree = t
      BY <3>1, <3>2, NoTaskShape DEF TaskShape, SameBut
    <3> QED BY <3>3
  <2> QED BY <1>3, <2>1, <2>2
<1>7. CASE LockOwn
  <2>1. report' = NoReport /\ \E l : task' = [NoTask EXCEPT !.pc = "lock", !.lock = l]
    BY <1>7 DEF LockOwn, Started
  <2>2. PICK l : task' = [NoTask EXCEPT !.pc = "lock", !.lock = l]
    BY <2>1
  <2>3. TaskShape(task') /\ SameBut(NoTask, task', {"pc", "lock"}) /\ task'.pc = "lock"
    BY <2>2, NoTaskShape DEF TaskShape, SameBut, PkgPcs
  <2> QED BY <1>3, <2>1, <2>3
<1>8. CASE PublishClear \/ PublishCopy \/ PublishOpen \/ PublishPack \/ PublishIndex
  <2>1. task.pc # "none" /\ UNCHANGED report /\ (Ended \/ \E p \in PkgPcs \ {"none"} : Continue(p))
    BY <1>8 DEF PublishClear, PublishCopy, PublishOpen, PublishPack, PublishIndex, Running, PkgPcs
  <2> QED BY <1>2, <1>5, <2>1 DEF Ended
<1>9. CASE Built \/ Locked \/ InstallDone \/ Killed
  BY <1>2, <1>9 DEF Built, Locked, InstallDone, Killed, Ended
<1>10. ASSUME NEW k \in Keys, Install(k) PROVE TaskOK'
  <2>1. TaskShape(task') /\ task'.pc = "visit" /\ report' = NoReport
    BY <1>10, BeginEffect
  <2> QED BY <1>3, <2>1
<1>11. ASSUME NEW k \in Keys, InstallRemote(k) PROVE TaskOK'
  <2>1. TaskShape(task') /\ task'.pc = "fetch" /\ report' = NoReport
    BY <1>11, RemoteEffect
  <2> QED BY <1>3, <2>1
<1>12. ASSUME NEW mode \in {"locked", "frozen"}, InstallLocked(mode) PROVE TaskOK'
  <2>1. TaskShape(task') /\ task'.pc = "visit" /\ report' = NoReport
    BY <1>12, LockedEffect
  <2> QED BY <1>3, <2>1
<1>13. CASE NextPin
  <2>1. task.pc = "visit" /\ UNCHANGED report
    BY <1>13 DEF NextPin, Running
  <2>2. task' = NoTask \/ (TaskShape(task') /\ task'.pc = task.pc)
    <3>1. task' = NoTask \/ (TaskShape(task') /\ SameBut(task, task', {"frames", "seen", "pins"}))
      BY <1>0, <1>13, PinEffect
    <3> QED BY <3>1 DEF SameBut
  <2> QED BY <1>2, <1>3, <1>4, <2>1, <2>2
<1>14. CASE Visit
  <2>1. task.pc = "visit" /\ UNCHANGED report
    BY <1>14 DEF Visit, Running
  <2>2. task' = NoTask \/ (TaskShape(task') /\ task'.pc = task.pc)
    <3>1. task' = NoTask \/ \E n : Passed(task', n) \/ \E k : Grown(task', n, k)
      BY <1>0, <1>14, VisitEffect
    <3> QED BY <3>1 DEF Passed, Grown, SameBut
  <2> QED BY <1>2, <1>3, <1>4, <2>1, <2>2
<1>15. CASE Unpack
  <2>1. task.pc = "visit" /\ UNCHANGED report
    BY <1>15 DEF Unpack, Running
  <2>2. task' = NoTask \/ (TaskShape(task') /\ task'.pc = "unpack")
    BY <1>0, <1>15, UnpackEffect
  <2> QED BY <1>2, <1>3, <1>4, <2>1, <2>2
<1>16. CASE Unpacked
  <2>1. task.pc = "unpack" /\ UNCHANGED report
    BY <1>16 DEF Unpacked, Running
  <2>2. task' = NoTask \/ (TaskShape(task') /\ task'.pc = "visit")
    BY <1>0, <1>16, UnpackedEffect
  <2> QED BY <1>2, <1>3, <1>4, <2>1, <2>2
<1>17. CASE Fetch
  <2>1. task.pc = "fetch" /\ UNCHANGED report
    BY <1>17 DEF Fetch, Running
  <2>2. TaskShape(task') /\ task'.pc \in {"check", "cache"}
    BY <1>0, <1>17, FetchEffect
  <2> QED BY <1>3, <1>4, <2>1, <2>2
<1>18. CASE Cached \/ CheckFetched
  <2>1. task.pc # "none" /\ UNCHANGED report /\ (Ended \/ \E p \in PkgPcs \ {"none"} : Continue(p))
    BY <1>18 DEF Cached, CheckFetched, Running, PkgPcs
  <2> QED BY <1>2, <1>5, <2>1 DEF Ended
<1>19. ASSUME NEW r \in OwnReleases, EditOwn(r) PROVE TaskOK'
  <2>1. task.pc = "none" /\ task' = task /\ report' = NoReport
    BY <1>19 DEF EditOwn, Free
  <2> QED BY <1>2, <2>1 DEF TaskOK
<1>20. ASSUME NEW r \in Releases, ServerPublish(Plain(r)) PROVE TaskOK'
  BY <1>1, <1>20 DEF ServerPublish
<1> QED
  BY <1>6, <1>7, <1>8, <1>9, <1>10, <1>11, <1>12, <1>13, <1>14, <1>15, <1>16, <1>17, <1>18, <1>19, <1>20
     DEF PkgNext

-----------------------------------------------------------------------------
(* Builds, publishes and locks.                                            *)
Writers == Publishing \cup {"build", "lock"}

LEMMA WriterStep == PkgInv /\ PkgNext => WriterInv'
<1> SUFFICES ASSUME PkgInv, PkgNext PROVE WriterInv'
  OBVIOUS
<1> USE DEF PkgInv
<1>0. Keys' = Keys /\ Catalogue' = Catalogue /\ TaskShape(task)
  BY DEF Keys, Catalogue, TaskOK
<1>1. CASE task'.pc \notin Writers
  BY <1>1 DEF WriterInv, Writers, Publishing
<1>2. CASE task' = NoTask
  BY <1>2, NoTaskFits
<1>3. ASSUME NEW r \in Releases, ServerPublish(Plain(r)) PROVE WriterInv'
  <2>1. UNCHANGED <<task, shelf, own, halfShelf>>
    BY <1>3 DEF ServerPublish, dirs
  <2> QED BY <2>1, <1>0 DEF WriterInv, Key, TreeOf, LockOf
<1>4. ASSUME NEW r \in OwnReleases, EditOwn(r) PROVE WriterInv'
  <2>1. task'.pc = "none"
    BY <1>4 DEF EditOwn, Free
  <2> QED BY <1>1, <2>1 DEF Writers, Publishing
<1>5. CASE BuildOwn
  <2>1. task' = [NoTask EXCEPT !.pc = "build", !.tree = OwnTree] /\ own' = own
    BY <1>5 DEF BuildOwn, Started
  <2> DEFINE t == OwnTree
  <2>2. TreeOf(<<Own, own.ver>>, t) /\ ArchivesOf(Own, t.litter)
    BY OwnTreeTree
  <2> HIDE DEF t
  <2>3. task'.pc = "build" /\ task'.tree = t
    BY <2>1, NoTaskShape DEF TaskShape, t
  <2> QED BY <1>0, <2>1, <2>2, <2>3 DEF WriterInv, TreeOf, Publishing
<1>6. ASSUME NEW t, Publish(t), TreeOf(<<t.rel.name, t.rel.ver>>, t), <<t.rel.name, t.rel.ver>> \in Keys,
             ArchivesOf(t.rel.name, t.litter)
      PROVE  WriterInv'
  <2> DEFINE k == <<t.rel.name, t.rel.ver>>
  <2>1. halfShelf' = halfShelf \cup {k} /\ task' = [NoTask EXCEPT !.pc = "clear", !.tree = t]
    BY <1>6 DEF Publish, Started
  <2>2. task'.pc = "clear" /\ task'.tree = t
    BY <2>1, NoTaskShape DEF TaskShape
  <2>3. Key' = k
    BY <2>2 DEF Key
  <2>6. k[1] = t.rel.name
    OBVIOUS
  <2>7. TreeOf(k, t) /\ k \in Keys /\ ArchivesOf(k[1], t.litter) /\ k \in halfShelf'
    BY <1>6, <2>1, <2>6
  <2> HIDE DEF k
  <2> QED BY <1>0, <2>2, <2>3, <2>7 DEF WriterInv, TreeOf
<1>7. CASE Publish(OwnTree)
  BY <1>6, <1>7, OwnTreeTree
<1>8. ASSUME NEW r \in Releases, Publish(Plain(r)) PROVE WriterInv'
  <2>1. r \in Catalogue
    BY DEF Catalogue
  <2>2. /\ TreeOf(<<r.name, r.ver>>, Plain(r)) /\ <<r.name, r.ver>> \in Keys /\ Plain(r).rel = r
        /\ ArchivesOf(r.name, Plain(r).litter)
    BY <2>1, PlainTree
  <2> QED BY <1>6, <1>8, <2>2
<1>9. ASSUME task.pc \in Publishing
      PROVE  /\ Key \in Keys /\ TreeOf(Key, task.tree) /\ ArchivesOf(Key[1], task.tree.litter)
             /\ Key \in halfShelf /\ (shelf[Key] # Gone => DirOf(Key, shelf[Key]))
             /\ Key[2] = task.tree.rel.ver
  <2>1. Key[2] = task.tree.rel.ver
    BY DEF Key
  <2> QED BY <1>9, <2>1 DEF WriterInv, ShelfInv
<1>10. ASSUME NEW p \in Publishing, task' = [task EXCEPT !.pc = p],
              task.pc \in Publishing, UNCHANGED halfShelf, NEW d, Shelve(d),
              p \in {"open", "pack", "index"} => d # Gone /\ d.tree = task.tree,
              p \in {"pack", "index"} => task.tree.rel.ver \in DOMAIN d.archives
       PROVE  WriterInv'
  <2>1. SameBut(task, task', {"pc"}) /\ task'.pc = p
    BY <1>0, <1>10, PcPut DEF PkgPcs, Publishing
  <2>2. task'.tree = task.tree /\ Key' = Key
    BY <2>1 DEF SameBut, Key
  <2>3. shelf'[Key] = d
    BY <1>9, <1>10 DEF ShelfInv, Shelve
  <2> QED BY <1>0, <1>9, <1>10, <2>1, <2>2, <2>3 DEF WriterInv, TreeOf, Publishing
<1>11. CASE PublishClear
  <2>1. task.pc = "clear" /\ UNCHANGED halfShelf /\ task' = [task EXCEPT !.pc = "copy"] /\ Shelve(Gone)
    BY <1>11 DEF PublishClear, Running, Continue
  <2> QED BY <1>10, <2>1 DEF Publishing
<1>12. CASE PublishCopy
  <2>1. task.pc = "copy" /\ UNCHANGED halfShelf /\ task' = [task EXCEPT !.pc = "open"]
    BY <1>12 DEF PublishCopy, Running, Continue
  <2>2. PICK v : Shelve(Dir(task.tree, Toml(task.tree), task.tree.litter, v, Gone))
    BY <1>12 DEF PublishCopy
  <2> DEFINE d == Dir(task.tree, Toml(task.tree), task.tree.litter, v, Gone)
  <2>3. d # Gone /\ d.tree = task.tree
    <3>1. PICK e : e = d
      OBVIOUS
    <3>2. e.tree = task.tree /\ e = Dir(e.tree, e.toml, e.archives, e.first, e.index)
      BY <3>1 DEF Dir
    <3> QED BY <3>1, <3>2, DirThere
  <2>4. Shelve(d)
    BY <2>2
  <2> HIDE DEF d
  <2> QED BY <1>10, <2>1, <2>3, <2>4 DEF Publishing
<1>30. ASSUME task.pc \in {"open", "pack", "index"}
       PROVE  /\ shelf[Key].tree = task.tree
              /\ shelf[Key] = Dir(shelf[Key].tree, shelf[Key].toml, shelf[Key].archives, shelf[Key].first, shelf[Key].index)
  BY <1>9, <1>30 DEF WriterInv, DirOf, Publishing
<1>13. CASE PublishOpen
  <2>1. task.pc = "open" /\ UNCHANGED halfShelf /\ task' = [task EXCEPT !.pc = "pack"]
    BY <1>13 DEF PublishOpen, Running, Continue
  <2>2. PICK v : Shelve([shelf[Key] EXCEPT !.archives = Archived(HalfTree), !.first = v])
    BY <1>13 DEF PublishOpen
  <2> DEFINE as == Archived(HalfTree)
             d  == [shelf[Key] EXCEPT !.archives = as, !.first = v]
  <2>3. task.tree.rel.ver \in DOMAIN as
    BY DEF Archived, Put
  <2>4. Shelve(d)
    BY <2>2
  <2> HIDE DEF as
  <2>5. d = Dir(shelf[Key].tree, shelf[Key].toml, as, v, shelf[Key].index)
    <3>1. shelf[Key] = Dir(shelf[Key].tree, shelf[Key].toml, shelf[Key].archives, shelf[Key].first, shelf[Key].index)
      BY <1>30, <2>1
    <3>2. PICK e : e = shelf[Key]
      OBVIOUS
    <3> QED BY <3>1, <3>2, DirExcept
  <2> HIDE DEF d
  <2>6. d # Gone /\ d.tree = task.tree /\ d.archives = as
    <3>1. d.tree = shelf[Key].tree /\ d.archives = as /\ d = Dir(d.tree, d.toml, d.archives, d.first, d.index)
      BY <2>5 DEF Dir
    <3> QED BY <1>30, <2>1, <3>1, DirThere
  <2> QED BY <1>10, <2>1, <2>3, <2>4, <2>6 DEF Publishing
<1>14. CASE PublishPack
  <2>1. task.pc = "pack" /\ UNCHANGED halfShelf /\ task' = [task EXCEPT !.pc = "index"]
    BY <1>14 DEF PublishPack, Running, Continue
  <2> DEFINE as == Archived(task.tree)
             d  == [shelf[Key] EXCEPT !.archives = as]
  <2>2. task.tree.rel.ver \in DOMAIN as
    BY DEF Archived, Put
  <2>3. Shelve(d)
    BY <1>14 DEF PublishPack
  <2> HIDE DEF as
  <2>4. d = Dir(shelf[Key].tree, shelf[Key].toml, as, shelf[Key].first, shelf[Key].index)
    BY <1>30, <2>1, DirExcept
  <2> HIDE DEF d
  <2>5. d # Gone /\ d.tree = task.tree /\ d.archives = as
    <3>1. d.tree = shelf[Key].tree /\ d.archives = as /\ d = Dir(d.tree, d.toml, d.archives, d.first, d.index)
      BY <2>4 DEF Dir
    <3> QED BY <1>30, <2>1, <3>1, DirThere
  <2> QED BY <1>10, <2>1, <2>2, <2>3, <2>5 DEF Publishing
<1>15. CASE PublishIndex
  <2>1. task.pc = "index" /\ task.tree.rel.ver \in DOMAIN shelf[Key].archives
    BY <1>15 DEF PublishIndex, Running, WriterInv
  <2>2. CASE /\ Shelve([shelf[Key] EXCEPT !.index = HalfTree])
             /\ task' = [task EXCEPT !.pc = "index"]
             /\ UNCHANGED halfShelf
    <3> DEFINE d == [shelf[Key] EXCEPT !.index = HalfTree]
    <3>1. d = Dir(shelf[Key].tree, shelf[Key].toml, shelf[Key].archives, shelf[Key].first, HalfTree)
      BY <1>30, <2>1, DirExcept
    <3>2. Shelve(d)
      BY <2>2
    <3> HIDE DEF d
    <3>3. d # Gone /\ d.tree = task.tree /\ d.archives = shelf[Key].archives
      <4>1. /\ d.tree = shelf[Key].tree /\ d.archives = shelf[Key].archives
            /\ d = Dir(d.tree, d.toml, d.archives, d.first, d.index)
        BY <3>1 DEF Dir
      <4> QED BY <1>30, <2>1, <4>1, DirThere
    <3> QED BY <1>10, <2>1, <2>2, <3>2, <3>3 DEF Publishing
  <2> QED BY <1>2, <1>15, <2>2 DEF PublishIndex, Continue, Ended
<1>16. CASE LockOwn
  <2> DEFINE root == <<Own, own.ver>>
             pins == {[key |-> k, sha |-> LocalSha(k)] : k \in Resolved(root)}
             l    == [root |-> root, pins |-> pins]
  <2>1. task' = [NoTask EXCEPT !.pc = "lock", !.lock = l]
    BY <1>16 DEF LockOwn, Started
  <2>2. LockOf(l)
    <3>1. Resolved(root) \subseteq Keys
      BY DEF Resolved
    <3> QED BY <3>1 DEF LockOf
  <2> HIDE DEF l
  <2>3. task'.pc = "lock" /\ task'.lock = l
    BY <2>1, NoTaskShape DEF TaskShape
  <2> QED BY <1>0, <2>2, <2>3 DEF WriterInv, LockOf, Publishing
<1>17. CASE Built \/ Locked \/ InstallDone \/ Killed
  BY <1>2, <1>17 DEF Built, Locked, InstallDone, Killed, Ended
<1>18. ASSUME NEW k \in Keys, Install(k) \/ InstallRemote(k) PROVE WriterInv'
  <2>1. task'.pc \in {"visit", "fetch"}
    BY <1>18, BeginEffect, RemoteEffect
  <2> QED BY <1>1, <2>1 DEF Writers, Publishing
<1>19. ASSUME NEW mode \in {"locked", "frozen"}, InstallLocked(mode) PROVE WriterInv'
  <2>1. task'.pc = "visit"
    BY <1>19, LockedEffect
  <2> QED BY <1>1, <2>1 DEF Writers, Publishing
<1>20. CASE NextPin
  <2>1. task' = NoTask \/ SameBut(task, task', {"frames", "seen", "pins"})
    BY <1>0, <1>20, PinEffect
  <2>2. task' = NoTask \/ task'.pc = "visit"
    BY <1>20, <2>1 DEF NextPin, Running, SameBut
  <2> QED BY <1>1, <1>2, <2>2 DEF Writers, Publishing
<1>21. CASE Visit
  <2>1. task' = NoTask \/ (\E n : Passed(task', n)) \/ (\E n, k : Grown(task', n, k))
    BY <1>0, <1>21, VisitEffect
  <2>2. task' = NoTask \/ task'.pc = "visit"
    BY <1>21, <2>1 DEF Visit, Running, Passed, Grown, SameBut
  <2> QED BY <1>1, <1>2, <2>2 DEF Writers, Publishing
<1>22. CASE Unpack
  <2>1. task' = NoTask \/ task'.pc = "unpack"
    BY <1>0, <1>22, UnpackEffect
  <2> QED BY <1>1, <1>2, <2>1 DEF Writers, Publishing
<1>23. CASE Unpacked
  <2>1. task' = NoTask \/ task'.pc = "visit"
    BY <1>0, <1>23, UnpackedEffect
  <2> QED BY <1>1, <1>2, <2>1 DEF Writers, Publishing
<1>24. CASE Fetch
  <2>1. task'.pc \in {"check", "cache"}
    BY <1>0, <1>24, FetchEffect
  <2> QED BY <1>1, <2>1 DEF Writers, Publishing
<1>25. CASE Cached \/ CheckFetched
  <2>1. task' = NoTask \/ \E p \in {"check", "unpack"} : task' = [task EXCEPT !.pc = p]
    BY <1>25 DEF Cached, CheckFetched, Ended, Continue
  <2>2. task' = NoTask \/ task'.pc \in {"check", "unpack"}
    BY <1>0, <2>1, PcPut DEF PkgPcs
  <2> QED BY <1>1, <1>2, <2>2 DEF Writers, Publishing
<1> QED
  BY <1>3, <1>4, <1>5, <1>7, <1>8, <1>11, <1>12, <1>13, <1>14, <1>15, <1>16, <1>17, <1>18, <1>19, <1>20, <1>21,
     <1>22, <1>23, <1>24, <1>25 DEF PkgNext

-----------------------------------------------------------------------------
(* The stack of an install.                                                *)
InStack(t) ==
    /\ \A i \in DOMAIN t.frames :
          /\ t.frames[i].key \in t.seen
          /\ Readable(t.frames[i].key)
          /\ \A n \in DOMAIN DepsOf(t.frames[i].key) \ t.frames[i].left :
                \A v \in Chosen(n, DepsOf(t.frames[i].key)[n]) : <<n, v>> \in t.seen
    /\ \A i, j \in DOMAIN t.frames : t.frames[i].key = t.frames[j].key => i = j

LEMMA InStackNow ==
  ASSUME StackInv, task.pc \in {"visit", "unpack"}, ~Remote
  PROVE  InStack(task) /\ \A k \in task.seen \ OnStack : AsShelved(k) /\ DepsMet(k, {})
BY DEF StackInv, InStack, DepsMet

(* The invariant of the next state from what is known of the task there.   *)
LEMMA StackNext ==
  ASSUME UNCHANGED shelf, SeqOf(task'.frames), \A i \in DOMAIN task'.frames : FrameOK(task'.frames[i]),
         InStack(task'), \A k \in task'.seen \ OnStack' : AsShelved(k)' /\ DepsMet(k, {})',
         task'.pc = "unpack" => /\ TopFrame'.archive = FoundArchive(TopFrame'.key) /\ TopFrame'.left = {}
                                /\ MatchesSha(TopFrame'.want, LocalSha(TopFrame'.key))
                                /\ task'.frames # <<>>,
         \A i \in DOMAIN task'.frames : i > 1 => task'.frames[i].want = Gone
  PROVE  StackInv'
<1>1. /\ \A k : Readable(k)' <=> Readable(k)
      /\ \A k : FoundArchive(k)' = FoundArchive(k) /\ LocalSha(k)' = LocalSha(k)
      /\ \A k : DepsOf(k)' = DepsOf(k)
      /\ \A n, s : Chosen(n, s)' = Chosen(n, s)
  BY ShelfSame
<1>2. (\A i \in DOMAIN task.frames : FrameOK(task.frames[i]))'
  BY DEF FrameOK, Keys, Catalogue
<1>3. (\A i \in DOMAIN task.frames :
          /\ task.frames[i].key \in task.seen
          /\ Readable(task.frames[i].key)
          /\ DepsMet(task.frames[i].key, task.frames[i].left))'
  BY <1>1 DEF InStack, DepsMet
<1>4. \A i, j \in DOMAIN task'.frames : task'.frames[i].key = task'.frames[j].key => i = j
  BY DEF InStack
<1>5. (task.pc = "unpack" => /\ TopFrame.archive = FoundArchive(TopFrame.key) /\ TopFrame.left = {}
                             /\ MatchesSha(TopFrame.want, LocalSha(TopFrame.key)))'
  BY <1>1 DEF MatchesSha
<1> QED BY <1>2, <1>3, <1>4, <1>5 DEF StackInv

LEMMA FrameIsOK ==
  ASSUME NEW k \in Keys, NEW w
  PROVE  /\ FrameOK(Frame(k, w)) /\ Frame(k, w).key = k /\ Frame(k, w).want = w
         /\ Frame(k, w).left = DOMAIN DepsOf(k) /\ Frame(k, w).archive = Gone
BY DEF FrameOK, Frame

LEMMA FramePut ==
  ASSUME NEW f, FrameOK(f), NEW x
  PROVE  /\ LET g == [f EXCEPT !.left = x] IN
              FrameOK(g) /\ g.key = f.key /\ g.want = f.want /\ g.left = x /\ g.archive = f.archive
         /\ LET g == [f EXCEPT !.archive = x] IN
              FrameOK(g) /\ g.key = f.key /\ g.want = f.want /\ g.left = f.left /\ g.archive = x
BY DEF FrameOK

(* A package begun on an empty stack. *)
LEMMA StackBegins ==
  ASSUME NEW k \in Keys, NEW w, Readable(k), UNCHANGED shelf,
         task'.frames = <<Frame(k, w)>>, task'.seen = {k}, task'.pc = "visit"
  PROVE  StackInv'
<1> DEFINE f == Frame(k, w)
<1>1. FrameOK(f) /\ f.key = k /\ f.left = DOMAIN DepsOf(k)
  BY FrameIsOK
<1>2. task'.frames = <<f>>
  OBVIOUS
<1> HIDE DEF f
<1>3. SeqOf(task'.frames) /\ DOMAIN task'.frames = {1} /\ task'.frames[1] = f
  BY <1>2, SeqOfShort
<1>4. InStack(task')
  BY <1>1, <1>3 DEF InStack
<1>5. task'.seen \ OnStack' = {}
  BY <1>1, <1>3 DEF OnStack
<1> QED BY <1>1, <1>3, <1>4, <1>5, StackNext

LEMMA ChosenOne ==
  ASSUME NEW n, NEW s, NEW v \in Chosen(n, s), NEW w \in Chosen(n, s)
  PROVE  v = w
BY DEF Chosen

LEMMA AsShelvedSame ==
  ASSUME UNCHANGED shelf, NEW k, tree'[k] = tree[k]
  PROVE  AsShelved(k)' <=> AsShelved(k)
<1>1. (Readable(k)' <=> Readable(k)) /\ Offered(k)' = Offered(k)
  BY ShelfSame
<1> QED BY <1>1 DEF AsShelved, Installed

(* _seen only grows until the next pin. *)
LEMMA DepsMetGrows ==
  ASSUME UNCHANGED shelf, task.seen \subseteq task'.seen, NEW k, NEW left, DepsMet(k, left)
  PROVE  DepsMet(k, left)'
<1>1. DepsOf(k)' = DepsOf(k) /\ \A n, s : Chosen(n, s)' = Chosen(n, s)
  BY ShelfSame
<1> QED BY <1>1 DEF DepsMet

(* The stack with one dependency of the package on top done, on the package k. *)
Advanced(gs, k) ==
    /\ SeqOf(gs) /\ Len(gs) = Len(task.frames) /\ DOMAIN gs = DOMAIN task.frames
    /\ \A i \in DOMAIN gs :
          /\ FrameOK(gs[i]) /\ gs[i].key = task.frames[i].key /\ gs[i].want = task.frames[i].want
          /\ \A m \in DOMAIN DepsOf(gs[i].key) \ gs[i].left :
                \A w \in Chosen(m, DepsOf(gs[i].key)[m]) : <<m, w>> \in task.seen \cup {k}

LEMMA StackVisit ==
  ASSUME PkgInv, Visit
  PROVE  StackInv'
<1>1. task.pc = "visit" /\ task.frames # <<>> /\ UNCHANGED <<shelf, tree>>
  BY DEF Visit, Running
<1>2. /\ TaskShape(task) /\ ~Remote /\ SeqOf(task.frames)
      /\ \A i \in DOMAIN task.frames : FrameOK(task.frames[i])
      /\ \A i \in DOMAIN task.frames : i > 1 => task.frames[i].want = Gone
  BY <1>1 DEF PkgInv, TaskOK, RemoteInv, StackInv
<1>3. InStack(task) /\ \A k \in task.seen \ OnStack : AsShelved(k) /\ DepsMet(k, {})
  BY <1>1, <1>2, InStackNow DEF PkgInv
<1> DEFINE L == Len(task.frames)
<1>4. L \in Nat /\ DOMAIN task.frames = 1 .. L /\ L \in DOMAIN task.frames /\ TopFrame = task.frames[L]
  BY <1>1, <1>2, SeqOfDomain DEF TopFrame
<1> HIDE DEF L
<1>5. ASSUME NEW n \in TopFrame.left, NEW v \in Chosen(n, DepsOf(TopFrame.key)[n]),
             NEW gs, gs = [task.frames EXCEPT ![L] = [TopFrame EXCEPT !.left = @ \ {n}]]
      PROVE  Advanced(gs, <<n, v>>)
  <2> DEFINE left == TopFrame.left \ {n}
             g == [TopFrame EXCEPT !.left = left]
  <2>1. FrameOK(g) /\ g.key = TopFrame.key /\ g.want = TopFrame.want /\ g.left = left
    <3>1. FrameOK(TopFrame)
      BY <1>2, <1>4
    <3> HIDE DEF left
    <3> QED BY <3>1 DEF FrameOK
  <2>2. gs = [task.frames EXCEPT ![L] = g]
    BY <1>5
  <2> HIDE DEF g, left
  <2>3. /\ SeqOf(gs) /\ Len(gs) = L /\ DOMAIN gs = DOMAIN task.frames
        /\ gs[L] = g /\ \A j \in DOMAIN task.frames : j # L => gs[j] = task.frames[j]
    BY <1>2, <1>4, <2>2, SeqOfPut DEF L
  <2>4. \A m \in DOMAIN DepsOf(g.key) \ g.left :
           \A w \in Chosen(m, DepsOf(g.key)[m]) : <<m, w>> \in task.seen \cup {<<n, v>>}
    <3>1. ASSUME NEW m \in DOMAIN DepsOf(g.key) \ g.left, NEW w \in Chosen(m, DepsOf(g.key)[m])
          PROVE  <<m, w>> \in task.seen \cup {<<n, v>>}
      <4>1. CASE m = n
        BY <1>5, <2>1, <3>1, <4>1, ChosenOne
      <4>2. CASE m # n
        BY <1>3, <1>4, <2>1, <3>1, <4>2 DEF InStack, left
      <4> QED BY <4>1, <4>2
    <3> QED BY <3>1
  <2>5. ASSUME NEW i \in DOMAIN gs
        PROVE  /\ FrameOK(gs[i]) /\ gs[i].key = task.frames[i].key
               /\ gs[i].want = task.frames[i].want
               /\ \A m \in DOMAIN DepsOf(gs[i].key) \ gs[i].left :
                     \A w \in Chosen(m, DepsOf(gs[i].key)[m]) : <<m, w>> \in task.seen \cup {<<n, v>>}
    <3>1. CASE i = L
      BY <1>4, <2>1, <2>3, <2>4, <3>1
    <3>2. CASE i # L
      BY <1>2, <1>3, <2>3, <2>5, <3>2 DEF InStack
    <3> QED BY <3>1, <3>2
  <2> QED BY <2>3, <2>5 DEF Advanced, L
<1>6. /\ \A k : Readable(k)' <=> Readable(k)
      /\ \A k : DepsOf(k)' = DepsOf(k)
      /\ \A n, s : Chosen(n, s)' = Chosen(n, s)
  BY <1>1, ShelfSame
<1>7. CASE task' = NoTask
  BY <1>7, NoTaskFits
<1>8. ASSUME NEW n \in TopFrame.left, NEW v \in Chosen(n, DepsOf(TopFrame.key)[n]),
             <<n, v>> \in task.seen, Passed(task', n)
      PROVE  StackInv'
  <2>1. /\ task'.frames = [task.frames EXCEPT ![L] = [TopFrame EXCEPT !.left = @ \ {n}]]
        /\ task'.seen = task.seen /\ task'.pc = "visit"
    BY <1>1, <1>8 DEF Passed, SameBut, L
  <2> DEFINE gs == task'.frames
  <2>2. Advanced(gs, <<n, v>>)
    <3> HIDE DEF gs
    <3>1. gs = [task.frames EXCEPT ![L] = [TopFrame EXCEPT !.left = @ \ {n}]]
      BY <2>1 DEF gs
    <3> QED BY <1>5, <3>1
  <2>22. /\ SeqOf(gs) /\ Len(gs) = L /\ DOMAIN gs = DOMAIN task.frames
        /\ \A i \in DOMAIN gs : /\ FrameOK(gs[i]) /\ gs[i].key = task.frames[i].key
                                /\ gs[i].want = task.frames[i].want
                                /\ \A m \in DOMAIN DepsOf(gs[i].key) \ gs[i].left :
                                      \A w \in Chosen(m, DepsOf(gs[i].key)[m]) : <<m, w>> \in task.seen \cup {<<n, v>>}
    BY <2>2 DEF Advanced, L
  <2>3. InStack(task')
    BY <1>3, <1>8, <2>1, <2>22 DEF InStack
  <2>4. OnStack' = OnStack
    BY <2>22 DEF OnStack
  <2>5. \A k \in task'.seen \ OnStack' : AsShelved(k)' /\ DepsMet(k, {})'
    <3>1. SUFFICES ASSUME NEW k \in task.seen \ OnStack PROVE AsShelved(k)' /\ DepsMet(k, {})'
      BY <2>1, <2>4
    <3>2. AsShelved(k) /\ DepsMet(k, {})
      BY <1>3
    <3> QED BY <1>1, <2>1, <3>2, AsShelvedSame, DepsMetGrows
  <2> QED BY <1>1, <1>2, <2>1, <2>22, <2>3, <2>5, StackNext
<1>9. ASSUME NEW n \in TopFrame.left, NEW v \in Chosen(n, DepsOf(TopFrame.key)[n]),
             <<n, v>> \notin task.seen, Readable(<<n, v>>), Grown(task', n, <<n, v>>)
      PROVE  StackInv'
  <2> DEFINE k == <<n, v>>
             gs == [task.frames EXCEPT ![L] = [TopFrame EXCEPT !.left = @ \ {n}]]
             f  == Frame(k, Gone)
  <2>1. /\ task'.frames = Append(gs, f)
        /\ task'.seen = task.seen \cup {k} /\ task'.pc = "visit"
    BY <1>1, <1>9 DEF Grown, SameBut, L
  <2>2. /\ SeqOf(gs) /\ Len(gs) = L /\ DOMAIN gs = DOMAIN task.frames
        /\ \A i \in DOMAIN gs : /\ FrameOK(gs[i]) /\ gs[i].key = task.frames[i].key
                                /\ gs[i].want = task.frames[i].want
                                /\ \A m \in DOMAIN DepsOf(gs[i].key) \ gs[i].left :
                                      \A w \in Chosen(m, DepsOf(gs[i].key)[m]) : <<m, w>> \in task.seen \cup {k}
    <3>1. gs = [task.frames EXCEPT ![L] = [TopFrame EXCEPT !.left = @ \ {n}]]
      OBVIOUS
    <3> HIDE DEF gs
    <3>2. Advanced(gs, k)
      BY <1>5, <3>1
    <3> QED BY <3>2 DEF Advanced, L
  <2>3. FrameOK(f) /\ f.key = k /\ f.want = Gone /\ f.left = DOMAIN DepsOf(k)
    <3>1. k \in Keys
      BY <1>9 DEF Readable
    <3> QED BY <3>1, FrameIsOK
  <2>4. Readable(k) /\ k \notin task.seen
    BY <1>9
  <2> HIDE DEF gs, f, k
  <2> DEFINE fs == task'.frames
  <2>5. /\ SeqOf(fs) /\ Len(fs) = L + 1 /\ DOMAIN fs = DOMAIN task.frames \cup {L + 1} /\ L + 1 \notin DOMAIN task.frames
        /\ fs[L + 1] = f /\ \A j \in DOMAIN task.frames : fs[j] = gs[j]
    BY <2>1, <2>2, SeqOfPush
  <2> HIDE DEF fs
  <2>6. ASSUME NEW i \in DOMAIN fs
        PROVE  /\ FrameOK(fs[i]) /\ fs[i].key \in task.seen \cup {k} /\ Readable(fs[i].key)
               /\ i > 1 => fs[i].want = Gone
               /\ \A m \in DOMAIN DepsOf(fs[i].key) \ fs[i].left :
                     \A w \in Chosen(m, DepsOf(fs[i].key)[m]) : <<m, w>> \in task.seen \cup {k}
               /\ i \in DOMAIN task.frames => fs[i].key \in task.seen /\ fs[i].key = task.frames[i].key
               /\ i \notin DOMAIN task.frames => fs[i].key = k
    <3>1. CASE i = L + 1
      BY <2>3, <2>4, <2>5, <3>1
    <3>2. CASE i # L + 1
      BY <1>2, <1>3, <2>2, <2>5, <2>6, <3>2 DEF InStack
    <3> QED BY <3>1, <3>2
  <2>7. \A i, j \in DOMAIN fs : fs[i].key = fs[j].key => i = j
    <3>1. ASSUME NEW i \in DOMAIN fs, NEW j \in DOMAIN fs, fs[i].key = fs[j].key PROVE i = j
      <4>1. CASE i \in DOMAIN task.frames /\ j \in DOMAIN task.frames
        BY <1>3, <2>6, <3>1, <4>1 DEF InStack
      <4>2. CASE i \notin DOMAIN task.frames /\ j \notin DOMAIN task.frames
        BY <2>5, <3>1, <4>2
      <4> QED BY <2>4, <2>6, <3>1, <4>1, <4>2
    <3> QED BY <3>1
  <2>8. InStack(task')
    BY <2>1, <2>6, <2>7 DEF InStack, fs
  <2>9. task'.seen \ OnStack' \subseteq task.seen \ OnStack
    <3>1. k \in OnStack'
      BY <2>3, <2>5 DEF OnStack, fs
    <3>2. OnStack \subseteq OnStack'
      <4>1. \A i \in DOMAIN task.frames : i \in DOMAIN fs /\ fs[i].key = task.frames[i].key
        BY <2>5, <2>6
      <4> QED BY <4>1 DEF OnStack, fs
    <3> QED BY <2>1, <3>1, <3>2
  <2>10. \A l \in task'.seen \ OnStack' : AsShelved(l)' /\ DepsMet(l, {})'
    <3>1. SUFFICES ASSUME NEW l \in task.seen \ OnStack PROVE AsShelved(l)' /\ DepsMet(l, {})'
      BY <2>9
    <3>2. AsShelved(l) /\ DepsMet(l, {})
      BY <1>3
    <3> QED BY <1>1, <2>1, <3>2, AsShelvedSame, DepsMetGrows
  <2> QED BY <1>1, <2>1, <2>5, <2>6, <2>8, <2>10, StackNext DEF fs
<1> QED BY <1>2, <1>7, <1>8, <1>9, VisitEffect

LEMMA StackUnpack ==
  ASSUME PkgInv, Unpack
  PROVE  StackInv'
<1>1. task.pc = "visit" /\ task.frames # <<>> /\ UNCHANGED shelf /\ TopFrame.left = {}
  BY DEF Unpack, Running
<1>2. /\ TaskShape(task) /\ ~Remote /\ SeqOf(task.frames)
      /\ \A i \in DOMAIN task.frames : FrameOK(task.frames[i])
      /\ \A i \in DOMAIN task.frames : i > 1 => task.frames[i].want = Gone
  BY <1>1 DEF PkgInv, TaskOK, RemoteInv, StackInv
<1>3. InStack(task) /\ \A k \in task.seen \ OnStack : AsShelved(k) /\ DepsMet(k, {})
  BY <1>1, <1>2, InStackNow DEF PkgInv
<1> DEFINE L == Len(task.frames)
<1>4. L \in Nat /\ DOMAIN task.frames = 1 .. L /\ L \in DOMAIN task.frames /\ TopFrame = task.frames[L]
  BY <1>1, <1>2, SeqOfDomain DEF TopFrame
<1>5. CASE task' = NoTask
  BY <1>5, NoTaskFits
<1>6. CASE /\ MatchesSha(TopFrame.want, LocalSha(TopFrame.key))
           /\ tree' = [tree EXCEPT ![TopFrame.key] = HalfTree]
           /\ TaskShape(task') /\ SameBut(task, task', {"pc", "frames"}) /\ task'.pc = "unpack"
           /\ task'.frames = [task.frames EXCEPT ![Len(task.frames)] =
                                [TopFrame EXCEPT !.archive = FoundArchive(TopFrame.key)]]
  <2> DEFINE a == FoundArchive(TopFrame.key)
             g == [TopFrame EXCEPT !.archive = a]
             fs == task'.frames
  <2>1. FrameOK(g) /\ g.key = TopFrame.key /\ g.want = TopFrame.want /\ g.left = {} /\ g.archive = a
    <3>1. FrameOK(TopFrame)
      BY <1>2, <1>4
    <3> HIDE DEF a
    <3> QED BY <1>1, <3>1 DEF FrameOK
  <2>2. fs = [task.frames EXCEPT ![L] = g] /\ task'.seen = task.seen
    BY <1>6 DEF SameBut
  <2> HIDE DEF g, fs, L
  <2>3. /\ SeqOf(fs) /\ Len(fs) = L /\ DOMAIN fs = DOMAIN task.frames
        /\ fs[L] = g /\ \A j \in DOMAIN task.frames : j # L => fs[j] = task.frames[j]
    BY <1>2, <1>4, <2>2, SeqOfPut DEF L
  <2>4. ASSUME NEW i \in DOMAIN fs
        PROVE  /\ FrameOK(fs[i]) /\ fs[i].key = task.frames[i].key /\ fs[i].want = task.frames[i].want
               /\ fs[i].left = task.frames[i].left
    <3>1. CASE i = L
      BY <1>1, <1>4, <2>1, <2>3, <3>1
    <3>2. CASE i # L
      BY <1>2, <2>3, <2>4, <3>2
    <3> QED BY <3>1, <3>2
  <2>5. InStack(task')
    BY <1>3, <2>2, <2>3, <2>4 DEF InStack, fs
  <2>6. OnStack' = OnStack
    BY <2>3, <2>4 DEF OnStack, fs
  <2>7. TopFrame' = g /\ task'.frames # <<>>
    <3>1. Len(fs) \in DOMAIN fs
      BY <1>4, <2>3
    <3> QED BY <2>3, <3>1, SeqOfDomain DEF TopFrame, fs
  <2>8. \A k \in task'.seen \ OnStack' : AsShelved(k)' /\ DepsMet(k, {})'
    <3>1. SUFFICES ASSUME NEW k \in task.seen \ OnStack PROVE AsShelved(k)' /\ DepsMet(k, {})'
      BY <2>2, <2>6
    <3>2. AsShelved(k) /\ DepsMet(k, {})
      BY <1>3
    <3>3. k # TopFrame.key
      BY <1>4 DEF OnStack
    <3>4. tree'[k] = tree[k]
      <4>1. k \in Keys
        BY <1>2 DEF TaskShape
      <4> QED BY <1>6, <3>3, <4>1 DEF PkgInv, ServerInv
    <3> QED BY <1>1, <2>2, <3>2, <3>4, AsShelvedSame, DepsMetGrows
  <2>9. /\ TopFrame'.archive = FoundArchive(TopFrame'.key) /\ TopFrame'.left = {}
        /\ MatchesSha(TopFrame'.want, LocalSha(TopFrame'.key))
    BY <1>6, <2>1, <2>7
  <2> QED BY <1>1, <1>2, <2>3, <2>4, <2>5, <2>7, <2>8, <2>9, StackNext DEF fs
<1> QED BY <1>2, <1>5, <1>6, UnpackEffect

(* What the registry offers of a package that can be read: an archive, or  *)
(* the directory where there is none.                                      *)
LEMMA WhatIsOffered ==
  ASSUME ShelfInv, NEW k, Readable(k)
  PROVE  LET as == shelf[k].archives
             f  == shelf[k].first IN
         /\ k \in Keys /\ k = <<k[1], k[2]>>
         /\ AsItLies(k) <=> DOMAIN as = {}
         /\ DOMAIN as = {} => Offered(k) = Remains \/ TreeOf(k, Offered(k))
         /\ DOMAIN as # {} =>
               /\ f \in DOMAIN as /\ Offered(k) = as[f] /\ FoundArchive(k) = as[f] /\ LocalSha(k) = as[f]
               /\ as[f] # Gone /\ (as[f] = HalfTree \/ TreeOf(<<k[1], f>>, as[f]))
<1> DEFINE as == shelf[k].archives
           f  == shelf[k].first
<1>1. k \in Keys /\ shelf[k] # Gone /\ DirOf(k, shelf[k]) /\ (DOMAIN as = {} => k \in halfShelf)
  BY DEF Readable, ShelfInv
<1>2. k = <<k[1], k[2]>>
  BY <1>1 DEF Keys
<1>3. CASE DOMAIN as = {}
  BY <1>1, <1>2, <1>3 DEF AsItLies, FoundArchive, Offered, DirOf
<1>4. CASE DOMAIN as # {}
  <2>1. FoundArchive(k) = as[f] /\ LocalSha(k) = as[f] /\ f \in DOMAIN as
        /\ (as[f] = HalfTree \/ TreeOf(<<k[1], f>>, as[f]))
    BY <1>1, <1>4 DEF FoundArchive, LocalSha, DirOf, ArchivesOf
  <2>2. as[f] # Gone
    BY <2>1, TreesAreTrees
  <2> QED BY <1>1, <1>2, <1>4, <2>1, <2>2 DEF AsItLies, Offered
<1> QED BY <1>3, <1>4

(* A package that can be read and is unpacked is there. *)
LEMMA OfferedInstalled ==
  ASSUME ShelfInv, NEW k, Readable(k), FoundArchive(k) # HalfTree
  PROVE  Offered(k) \notin {Gone, HalfTree}
BY WhatIsOffered, TreesAreTrees

(* A package installed as the registry has it is whole, but for one whose  *)
(* publish was killed before it had an archive.                            *)
LEMMA ShelvedWhole ==
  ASSUME ShelfInv, NEW k, AsShelved(k), ~AsItLies(k)
  PROVE  Whole(k)
<1>1. Readable(k) /\ tree[k] = Offered(k) /\ tree[k] \notin {Gone, HalfTree}
  BY DEF AsShelved, Installed
<1>2. \E l : TreeOf(l, Offered(k))
  BY <1>1, WhatIsOffered
<1> QED BY <1>1, <1>2, TreesAreTrees DEF Whole, Installed

LEMMA StackUnpacked ==
  ASSUME PkgInv, Unpacked
  PROVE  StackInv'
<1>1. task.pc = "unpack" /\ UNCHANGED shelf
  BY DEF Unpacked, Running
<1>2. /\ TaskShape(task) /\ SeqOf(task.frames) /\ task.frames # <<>>
      /\ \A i \in DOMAIN task.frames : FrameOK(task.frames[i])
      /\ \A i \in DOMAIN task.frames : i > 1 => task.frames[i].want = Gone
  BY <1>1 DEF PkgInv, TaskOK, StackInv
<1> DEFINE L == Len(task.frames)
           fs == task'.frames
<1>3. L \in Nat /\ DOMAIN task.frames = 1 .. L /\ L \in DOMAIN task.frames /\ TopFrame = task.frames[L]
  BY <1>2, SeqOfDomain DEF TopFrame
<1>4. CASE task' = NoTask
  BY <1>4, NoTaskFits
<1>5. CASE /\ TopFrame.archive # HalfTree
           /\ tree' = [tree EXCEPT ![TopFrame.key] =
                          IF TopFrame.archive = Gone THEN shelf[TopFrame.key].tree ELSE TopFrame.archive]
           /\ SameBut(task, task', {"pc", "frames", "found"}) /\ task'.pc = "visit"
           /\ task'.frames = SubSeq(task.frames, 1, Len(task.frames) - 1)
  <2>1. task'.seen = task.seen
    BY <1>5 DEF SameBut
  <2>2. /\ SeqOf(fs) /\ Len(fs) = L - 1 /\ DOMAIN fs = DOMAIN task.frames \ {L}
        /\ \A j \in DOMAIN fs : fs[j] = task.frames[j]
    BY <1>2, <1>5, SeqOfPop
  <2>3. \A i \in DOMAIN fs : FrameOK(fs[i]) /\ (i > 1 => fs[i].want = Gone)
    BY <1>2, <2>2
  <2>4. CASE Remote
    <3>1. DOMAIN fs = {}
      BY <1>1, <1>3, <2>2, <2>4 DEF PkgInv, RemoteInv
    <3>2. task'.seen = {}
      BY <2>1, <2>4 DEF Remote
    <3>3. InStack(task')
      BY <3>1 DEF InStack
    <3> QED BY <1>1, <1>5, <2>2, <2>3, <3>1, <3>2, <3>3, StackNext
  <2>5. CASE ~Remote
    <3>1. InStack(task) /\ \A k \in task.seen \ OnStack : AsShelved(k) /\ DepsMet(k, {})
      BY <1>1, <2>5, InStackNow DEF PkgInv
    <3>2. TopFrame.archive = FoundArchive(TopFrame.key) /\ TopFrame.left = {}
      BY <1>1, <2>5 DEF PkgInv, StackInv
    <3>9. PICK k : k = TopFrame.key
      OBVIOUS
    <3>3. Readable(k) /\ DepsMet(k, {}) /\ k \in Keys /\ k \in task.seen
      BY <1>3, <3>1, <3>2, <3>9 DEF InStack, DepsMet, Readable
    <3>4. tree'[k] = Offered(k) /\ \A l \in Keys : l # k => tree'[l] = tree[l]
      BY <1>5, <3>2, <3>3, <3>9 DEF PkgInv, ServerInv, Offered
    <3>5. AsShelved(k)'
      <4>1. Offered(k)' = Offered(k) /\ Readable(k)'
        BY <1>1, <3>3, ShelfSame
      <4>2. Offered(k) \notin {Gone, HalfTree}
        BY <1>5, <3>2, <3>3, <3>9, OfferedInstalled DEF PkgInv
      <4> QED BY <3>4, <4>1, <4>2 DEF AsShelved, Installed
    <3>6. InStack(task')
      BY <2>1, <2>2, <3>1 DEF InStack
    <3>7. task'.seen \ OnStack' \subseteq (task.seen \ OnStack) \cup {k}
      <4>1. \A i \in DOMAIN task.frames : task.frames[i].key \in OnStack' \/ task.frames[i].key = k
        BY <1>3, <2>2, <3>9 DEF OnStack
      <4> QED BY <2>1, <4>1 DEF OnStack
    <3>8. ASSUME NEW l \in task'.seen \ OnStack'
          PROVE  AsShelved(l)' /\ DepsMet(l, {})'
      <4>1. CASE l = k
        BY <1>1, <2>1, <3>3, <3>5, <4>1, DepsMetGrows
      <4>2. CASE l # k
        <5>1. l \in task.seen \ OnStack /\ l \in Keys
          BY <1>2, <3>7, <4>2 DEF TaskShape
        <5>2. AsShelved(l) /\ DepsMet(l, {}) /\ tree'[l] = tree[l]
          BY <3>1, <3>4, <4>2, <5>1
        <5> QED BY <1>1, <2>1, <5>2, AsShelvedSame, DepsMetGrows
      <4> QED BY <4>1, <4>2
    <3> HIDE DEF fs
    <3> QED BY <1>1, <1>5, <2>2, <2>3, <3>6, <3>8, StackNext DEF fs
  <2> QED BY <2>4, <2>5
<1> QED BY <1>2, <1>4, <1>5, UnpackedEffect

LEMMA StackOff ==
  ASSUME SeqOf(task'.frames), \A i \in DOMAIN task'.frames : FrameOK(task'.frames[i]),
         task'.pc \notin {"visit", "unpack"}
  PROVE  StackInv'
<1>1. (\A i \in DOMAIN task.frames : FrameOK(task.frames[i]))'
  BY DEF FrameOK, Keys, Catalogue
<1> QED BY <1>1 DEF StackInv

LEMMA StackStep == PkgInv /\ PkgNext => StackInv'
<1> SUFFICES ASSUME PkgInv, PkgNext PROVE StackInv'
  OBVIOUS
<1>0. /\ TaskShape(task) /\ SeqOf(task.frames) /\ \A i \in DOMAIN task.frames : FrameOK(task.frames[i])
      /\ PkgPcs \subseteq {"visit", "unpack"} \cup (PkgPcs \ {"visit", "unpack"})
  BY DEF PkgInv, TaskOK, StackInv
<1>1. CASE task' = NoTask
  BY <1>1, NoTaskFits
<1>2. ASSUME task'.frames = task.frames \/ task'.frames = <<>>, task'.pc \notin {"visit", "unpack"}
      PROVE  StackInv'
  <2>1. SeqOf(task'.frames) /\ \A i \in DOMAIN task'.frames : FrameOK(task'.frames[i])
    BY <1>0, <1>2, SeqOfShort
  <2> QED BY <1>2, <2>1, StackOff
<1>3. ASSUME NEW r \in Releases, ServerPublish(Plain(r)) PROVE StackInv'
  <2>1. UNCHANGED <<task, shelf, tree>>
    BY <1>3 DEF ServerPublish
  <2>2. Keys' = Keys
    BY DEF Keys, Catalogue
  <2>3. StackInv
    BY DEF PkgInv
  <2>4. /\ \A k : Readable(k)' <=> Readable(k)
        /\ \A k : FoundArchive(k)' = FoundArchive(k) /\ LocalSha(k)' = LocalSha(k)
        /\ \A k : DepsOf(k)' = DepsOf(k)
        /\ \A n, s : Chosen(n, s)' = Chosen(n, s)
    BY <2>1, ShelfSame
  <2>5. (Remote' <=> Remote) /\ OnStack' = OnStack /\ TopFrame' = TopFrame
    BY <2>1 DEF Remote, OnStack, TopFrame
  <2>6. /\ \A k : AsShelved(k)' <=> AsShelved(k)
        /\ \A k, left : DepsMet(k, left)' <=> DepsMet(k, left)
        /\ \A f : FrameOK(f)' <=> FrameOK(f)
        /\ \A w, a : MatchesSha(w, a)' <=> MatchesSha(w, a)
    BY <2>1, <2>2, <2>4, AsShelvedSame DEF DepsMet, FrameOK, MatchesSha
  <2> QED BY <2>1, <2>3, <2>4, <2>5, <2>6 DEF StackInv
<1>4. ASSUME NEW r \in OwnReleases, EditOwn(r) PROVE StackInv'
  <2>1. task' = NoTask
    BY <1>4 DEF EditOwn, Free, PkgInv, TaskOK
  <2> QED BY <1>1, <2>1
<1>5. ASSUME NEW t, NEW p \in {"build", "clear"}, task' = [NoTask EXCEPT !.pc = p, !.tree = t]
      PROVE  StackInv'
  <2>1. SameBut(NoTask, task', {"pc", "tree"}) /\ task'.pc = p
    BY <1>5, NoTaskShape DEF TaskShape, SameBut
  <2> QED BY <1>2, <2>1 DEF SameBut, NoTask
<1>6. CASE \/ BuildOwn \/ Publish(OwnTree) \/ \E r \in Releases : Publish(Plain(r))
  <2>1. \E p \in {"build", "clear"} : \E t : task' = [NoTask EXCEPT !.pc = p, !.tree = t]
    BY <1>6 DEF BuildOwn, Publish, Started
  <2> QED BY <1>5, <2>1
<1>7. CASE LockOwn
  <2>1. \E l : task' = [NoTask EXCEPT !.pc = "lock", !.lock = l]
    BY <1>7 DEF LockOwn, Started
  <2>2. PICK l : task' = [NoTask EXCEPT !.pc = "lock", !.lock = l]
    BY <2>1
  <2>3. SameBut(NoTask, task', {"pc", "lock"}) /\ task'.pc = "lock"
    BY <2>2, NoTaskShape DEF TaskShape, SameBut
  <2> QED BY <1>2, <2>3 DEF SameBut, NoTask
<1>8. ASSUME NEW p \in PkgPcs \ {"visit", "unpack"}, Continue(p) PROVE StackInv'
  <2>1. SameBut(task, task', {"pc"}) /\ task'.pc = p
    BY <1>0, <1>8, PcPut DEF Continue
  <2> QED BY <1>2, <2>1 DEF SameBut
<1>9. CASE PublishClear \/ PublishCopy \/ PublishOpen \/ PublishPack \/ PublishIndex \/ Cached
  <2>1. Ended \/ \E p \in PkgPcs \ {"visit", "unpack"} : Continue(p)
    BY <1>9 DEF PublishClear, PublishCopy, PublishOpen, PublishPack, PublishIndex, Cached, PkgPcs
  <2> QED BY <1>1, <1>8, <2>1 DEF Ended
<1>10. CASE Built \/ Locked \/ InstallDone \/ Killed
  BY <1>1, <1>10 DEF Built, Locked, InstallDone, Killed, Ended
<1>11. ASSUME NEW k \in Keys, Install(k) PROVE StackInv'
  <2>1. UNCHANGED shelf
    BY <1>11 DEF Install
  <2> QED BY <1>11, <2>1, BeginEffect, StackBegins
<1>12. ASSUME NEW k \in Keys, InstallRemote(k) PROVE StackInv'
  <2> DEFINE f == [key |-> k, want |-> server[k], left |-> {}, archive |-> Gone]
  <2>1. FrameOK(f)
    BY DEF FrameOK
  <2>2. task'.frames = <<f>> /\ task'.pc = "fetch"
    BY <1>12, RemoteEffect
  <2> HIDE DEF f
  <2>3. SeqOf(task'.frames) /\ DOMAIN task'.frames = {1} /\ task'.frames[1] = f
    BY <2>2, SeqOfShort
  <2> QED BY <2>1, <2>2, <2>3, StackOff
<1>13. ASSUME NEW mode \in {"locked", "frozen"}, InstallLocked(mode) PROVE StackInv'
  <2>1. SameBut(NoTask, task', {"pc", "pins", "mode", "roots"}) /\ task'.pc = "visit" /\ UNCHANGED shelf
    BY <1>13, LockedEffect DEF PkgInv, InstallLocked
  <2>2. task'.frames = <<>> /\ task'.seen = {}
    BY <2>1 DEF SameBut, NoTask
  <2>3. DOMAIN task'.frames = {} /\ SeqOf(task'.frames)
    BY <2>2, SeqOfShort
  <2>4. InStack(task')
    BY <2>3 DEF InStack
  <2> QED BY <2>1, <2>2, <2>3, <2>4, StackNext
<1>14. CASE NextPin
  <2>1. task.pc = "visit" /\ UNCHANGED shelf
    BY <1>14 DEF NextPin, Running
  <2>2. CASE task' = NoTask
    BY <1>1, <2>2
  <2>3. ASSUME NEW p \in task.pins, Readable(p.key), SameBut(task, task', {"frames", "seen", "pins"}),
               task'.frames = <<Frame(p.key, p.sha)>>, task'.seen = {p.key}
        PROVE  StackInv'
    <3>1. task'.pc = "visit" /\ p.key \in Keys
      BY <2>1, <2>3 DEF SameBut, Readable
    <3> QED BY <2>1, <2>3, <3>1, StackBegins
  <2> QED BY <1>0, <1>14, <2>2, <2>3, PinEffect
<1>15. CASE Fetch
  <2>1. task'.pc \in {"check", "cache"}
    BY <1>0, <1>15, FetchEffect
  <2>2. task.frames # <<>>
    BY <1>15 DEF Fetch, Running, PkgInv, RemoteInv, Remote
  <2>3. PICK a : task'.frames = [task.frames EXCEPT ![Len(task.frames)] = [TopFrame EXCEPT !.archive = a]]
    BY <1>0, <1>15, FetchEffect
  <2> DEFINE g == [TopFrame EXCEPT !.archive = a]
  <2>4. Len(task.frames) \in DOMAIN task.frames /\ FrameOK(TopFrame)
    BY <1>0, <2>2, SeqOfDomain DEF TopFrame
  <2>5. FrameOK(g)
    BY <2>4 DEF FrameOK
  <2>6. task'.frames = [task.frames EXCEPT ![Len(task.frames)] = g]
    BY <2>3
  <2> HIDE DEF g
  <2>7. /\ SeqOf(task'.frames) /\ DOMAIN task'.frames = DOMAIN task.frames
        /\ task'.frames[Len(task.frames)] = g
        /\ \A j \in DOMAIN task.frames : j # Len(task.frames) => task'.frames[j] = task.frames[j]
    BY <1>0, <2>4, <2>6, SeqOfPut
  <2>8. \A i \in DOMAIN task'.frames : FrameOK(task'.frames[i])
    BY <1>0, <2>5, <2>7
  <2> QED BY <2>1, <2>7, <2>8, StackOff
<1>16. CASE CheckFetched
  <2>1. CASE task' = NoTask
    BY <1>1, <2>1
  <2>2. CASE Continue("unpack")
    <3>1. SameBut(task, task', {"pc"}) /\ task'.pc = "unpack"
      BY <1>0, <2>2, PcPut DEF Continue, PkgPcs
    <3>2. task.pc = "check" /\ Remote /\ Len(task.frames) = 1
      BY <1>16 DEF CheckFetched, Running, PkgInv, RemoteInv
    <3>3. Remote' /\ task'.frames # <<>> /\ task'.frames = task.frames
      BY <3>1, <3>2 DEF Remote, SameBut
    <3>4. DOMAIN task'.frames = {1}
      BY <1>0, <3>2, <3>3, SeqOfDomain
    <3>5. (\A i \in DOMAIN task.frames : FrameOK(task.frames[i]))'
      BY <1>0, <3>3 DEF FrameOK, Keys, Catalogue
    <3> QED BY <1>0, <3>3, <3>4, <3>5 DEF StackInv
  <2> QED BY <1>16, <2>1, <2>2 DEF CheckFetched, Ended
<1> QED
  BY <1>3, <1>4, <1>6, <1>7, <1>9, <1>10, <1>11, <1>12, <1>13, <1>14, <1>15, <1>16,
     StackVisit, StackUnpack, StackUnpacked DEF PkgNext

-----------------------------------------------------------------------------
(* An install from the registry server.                                    *)
LEMMA RemoteOff ==
  ASSUME task'.pc \notin {"fetch", "cache", "check"}, task'.seen # {} \/ task'.frames = <<>>,
         task'.mode = "remote" => task'.seen = {}
  PROVE  RemoteInv'
BY DEF RemoteInv, Remote

LEMMA RemoteStep == PkgInv /\ PkgNext => RemoteInv'
<1> SUFFICES ASSUME PkgInv, PkgNext PROVE RemoteInv'
  OBVIOUS
<1>0. /\ TaskShape(task) /\ SeqOf(task.frames) /\ \A i \in DOMAIN task.frames : FrameOK(task.frames[i])
      /\ RemoteInv /\ ServerInv /\ \A k, t : TreeOf(k, t)' <=> TreeOf(k, t)
  BY DEF PkgInv, TaskOK, StackInv, TreeOf, Fields, Catalogue
<1>1. CASE task' = NoTask
  BY <1>1, NoTaskFits
<1>2. ASSUME task.frames # <<>> PROVE TopFrame.key \in Keys /\ FrameOK(TopFrame) /\ Len(task.frames) \in DOMAIN task.frames
  BY <1>0, <1>2, SeqOfDomain DEF TopFrame, FrameOK
<1>3. ASSUME NEW r \in Releases, ServerPublish(Plain(r)) PROVE RemoteInv'
  <2>1. UNCHANGED task /\ server' = [server EXCEPT ![<<Plain(r).rel.name, Plain(r).rel.ver>>] = Plain(r)]
    BY <1>3 DEF ServerPublish
  <2>2. Plain(r) # Gone
    BY PlainTree, TreesAreTrees DEF Catalogue
  <2>3. \A k \in Keys : server[k] # Gone => server'[k] # Gone
    BY <1>0, <2>1, <2>2 DEF ServerInv
  <2>4. Remote => server'[TopFrame.key] = server'[TopFrame'.key] /\ TopFrame.key \in Keys
    BY <1>2, <2>1 DEF Remote, TopFrame
  <2> QED BY <1>0, <2>1, <2>3, <2>4 DEF RemoteInv, Remote, TopFrame
<1>4. ASSUME NEW r \in OwnReleases, EditOwn(r) PROVE RemoteInv'
  <2>1. task' = NoTask
    BY <1>4 DEF EditOwn, Free, PkgInv, TaskOK
  <2> QED BY <1>1, <2>1
<1>5. CASE \/ BuildOwn \/ Publish(OwnTree) \/ \E r \in Releases : Publish(Plain(r))
  <2>0. \E p \in {"build", "clear"} : \E t : task' = [NoTask EXCEPT !.pc = p, !.tree = t]
    BY <1>5 DEF BuildOwn, Publish, Started
  <2>1. PICK p \in {"build", "clear"} : \E t : task' = [NoTask EXCEPT !.pc = p, !.tree = t]
    BY <2>0
  <2>2. PICK t : task' = [NoTask EXCEPT !.pc = p, !.tree = t]
    BY <2>1
  <2>3. SameBut(NoTask, task', {"pc", "tree"}) /\ task'.pc = p
    BY <2>2, NoTaskShape DEF TaskShape, SameBut
  <2> QED BY <2>3, RemoteOff DEF SameBut, NoTask
<1>6. CASE LockOwn
  <2>1. \E l : task' = [NoTask EXCEPT !.pc = "lock", !.lock = l]
    BY <1>6 DEF LockOwn, Started
  <2>2. PICK l : task' = [NoTask EXCEPT !.pc = "lock", !.lock = l]
    BY <2>1
  <2>3. SameBut(NoTask, task', {"pc", "lock"}) /\ task'.pc = "lock"
    BY <2>2, NoTaskShape DEF TaskShape, SameBut
  <2> QED BY <2>3, RemoteOff DEF SameBut, NoTask
<1>20. task.seen # {} => task.mode # "remote"
  BY <1>0 DEF RemoteInv
<1>7. ASSUME NEW p \in PkgPcs \ {"visit"}, Continue(p), UNCHANGED server, task.pc \notin {"none", "fetch"},
             p \in {"fetch", "cache", "check"} => Remote
      PROVE  RemoteInv'
  <2>1. SameBut(task, task', {"pc"}) /\ task'.pc = p
    BY <1>0, <1>7, PcPut DEF Continue
  <2>2. TopFrame' = TopFrame /\ (Remote' <=> Remote) /\ task'.frames = task.frames
        /\ task'.pins = task.pins /\ task'.roots = task.roots /\ task'.found = task.found /\ task'.mode = task.mode
        /\ task'.seen = task.seen
    BY <2>1 DEF SameBut, TopFrame, Remote
  <2> QED BY <1>0, <1>7, <2>1, <2>2 DEF RemoteInv
<1>8. CASE PublishClear \/ PublishCopy \/ PublishOpen \/ PublishPack \/ PublishIndex \/ Cached \/ CheckFetched
  <2>1. UNCHANGED server /\ task.pc \notin {"none", "fetch"}
    BY <1>8 DEF PublishClear, PublishCopy, PublishOpen, PublishPack, PublishIndex, Cached, CheckFetched, Running, net
  <2>2. \/ Ended
        \/ \E p \in PkgPcs \ {"visit"} : Continue(p) /\ (p \in {"fetch", "cache", "check"} => task.pc = "cache")
    <3>1. PublishClear \/ PublishCopy \/ PublishOpen \/ PublishPack =>
            Continue("copy") \/ Continue("open") \/ Continue("pack") \/ Continue("index")
      BY DEF PublishClear, PublishCopy, PublishOpen, PublishPack
    <3>2. PublishIndex => Ended \/ Continue("index")
      BY DEF PublishIndex
    <3>3. CheckFetched => Ended \/ Continue("unpack")
      BY DEF CheckFetched
    <3>4. Cached => task.pc = "cache" /\ Continue("check")
      BY DEF Cached, Running
    <3> QED BY <1>8, <3>1, <3>2, <3>3, <3>4 DEF PkgPcs
  <2>3. task.pc = "cache" => Remote
    BY <1>0 DEF RemoteInv
  <2> QED BY <1>1, <1>7, <2>1, <2>2, <2>3 DEF Ended
<1>9. CASE Built \/ Locked \/ InstallDone \/ Killed
  BY <1>1, <1>9 DEF Built, Locked, InstallDone, Killed, Ended
<1>10. ASSUME NEW k \in Keys, Install(k) PROVE RemoteInv'
  <2>1. task'.mode = "direct"
    BY <1>10, BeginEffect DEF SameBut, NoTask
  <2> QED BY <1>10, <2>1, BeginEffect, RemoteOff
<1>11. ASSUME NEW mode \in {"locked", "frozen"}, InstallLocked(mode) PROVE RemoteInv'
  <2>1. SameBut(NoTask, task', {"pc", "pins", "mode", "roots"}) /\ task'.pc = "visit" /\ task'.mode = mode
    BY <1>11, LockedEffect DEF PkgInv
  <2> QED BY <2>1, RemoteOff DEF SameBut, NoTask
<1>12. CASE NextPin
  <2>1. task.pc = "visit"
    BY <1>12 DEF NextPin, Running
  <2>2. task' = NoTask \/ \E p : SameBut(task, task', {"frames", "seen", "pins"}) /\ task'.seen = {p}
    BY <1>0, <1>12, PinEffect
  <2>4. task.mode # "remote"
    BY <1>12, <2>1 DEF NextPin, PkgInv, InstallInv, Single
  <2>3. task' = NoTask \/ (task'.pc = "visit" /\ task'.seen # {} /\ task'.mode # "remote")
    BY <2>1, <2>2, <2>4 DEF SameBut
  <2> QED BY <1>1, <2>3, RemoteOff
<1>13. CASE Visit
  <2>1. task.pc = "visit" /\ task.seen # {}
    BY <1>0, <1>13 DEF Visit, Running, RemoteInv, Remote
  <2>2. task' = NoTask \/ (\E n : Passed(task', n)) \/ (\E n, k : Grown(task', n, k))
    BY <1>0, <1>13, VisitEffect
  <2>3. task' = NoTask \/ (task'.pc = "visit" /\ task'.seen # {} /\ task'.mode # "remote")
    BY <1>20, <2>1, <2>2 DEF Passed, Grown, SameBut
  <2> QED BY <1>1, <2>3, RemoteOff
<1>14. CASE Unpack
  <2>1. task.seen # {}
    BY <1>0, <1>14 DEF Unpack, Running, RemoteInv, Remote
  <2>2. task' = NoTask \/ (SameBut(task, task', {"pc", "frames"}) /\ task'.pc = "unpack")
    BY <1>0, <1>14, UnpackEffect
  <2>3. task' = NoTask \/ (task'.pc = "unpack" /\ task'.seen # {} /\ task'.mode # "remote")
    BY <1>20, <2>1, <2>2 DEF SameBut
  <2> QED BY <1>1, <2>3, RemoteOff
<1>15. CASE Unpacked
  <2>1. task.pc = "unpack" /\ task.frames # <<>>
    BY <1>15 DEF Unpacked, Running, PkgInv, StackInv
  <2>2. \/ task' = NoTask
        \/ /\ SameBut(task, task', {"pc", "frames", "found"}) /\ task'.pc = "visit"
           /\ task'.frames = SubSeq(task.frames, 1, Len(task.frames) - 1)
    BY <1>0, <1>15, UnpackedEffect
  <2>3. CASE /\ SameBut(task, task', {"pc", "frames", "found"}) /\ task'.pc = "visit"
             /\ task'.frames = SubSeq(task.frames, 1, Len(task.frames) - 1)
    <3>1. CASE Remote
      <4>1. Len(task.frames) = 1
        BY <1>0, <2>1, <3>1 DEF RemoteInv
      <4>2. task'.frames = <<>>
        BY <2>3, <4>1, SubSeqEmpty
      <4>3. task'.seen = {}
        BY <2>3, <3>1 DEF Remote, SameBut
      <4> QED BY <2>3, <4>2, <4>3, RemoteOff
    <3>2. CASE ~Remote
      BY <1>20, <2>1, <2>3, <3>2, RemoteOff DEF Remote, SameBut
    <3> QED BY <3>1, <3>2
  <2> QED BY <1>1, <2>2, <2>3
<1>16. ASSUME NEW k \in Keys, InstallRemote(k) PROVE RemoteInv'
  <2> DEFINE f == [key |-> k, want |-> server[k], left |-> {}, archive |-> Gone]
  <2>1. /\ server[k] # Gone /\ SameBut(NoTask, task', {"pc", "mode", "frames"})
        /\ task'.pc = "fetch" /\ task'.mode = "remote" /\ task'.frames = <<f>>
    BY <1>16, RemoteEffect
  <2>2. f.key = k /\ f.want = server[k]
    OBVIOUS
  <2> HIDE DEF f
  <2>3. Len(task'.frames) = 1 /\ task'.frames[1] = f /\ task'.frames # <<>>
    BY <2>1, SeqOfShort
  <2>4. TopFrame' = f
    BY <2>3 DEF TopFrame
  <2>5. task'.pins = {} /\ task'.roots = {} /\ task'.found = {} /\ task'.mode = "remote" /\ task'.seen = {}
    BY <2>1 DEF SameBut, NoTask
  <2>6. TreeOf(k, server[k]) /\ UNCHANGED server
    BY <1>0, <1>16, <2>1 DEF ServerInv, InstallRemote, net
  <2> QED BY <1>0, <2>1, <2>2, <2>3, <2>4, <2>5, <2>6 DEF RemoteInv, Remote
<1>17. CASE Fetch
  <2>1. task.pc = "fetch" /\ Remote /\ UNCHANGED server
    BY <1>0, <1>17 DEF Fetch, Running, RemoteInv
  <2>2. /\ SameBut(task, task', {"pc", "frames"}) /\ task'.pc \in {"check", "cache"}
        /\ \E a \in {TopFrame.want, server[TopFrame.key]} :
               task'.frames = [task.frames EXCEPT ![Len(task.frames)] = [TopFrame EXCEPT !.archive = a]]
    BY <1>0, <1>17, FetchEffect
  <2>3. PICK a \in {TopFrame.want, server[TopFrame.key]} :
           task'.frames = [task.frames EXCEPT ![Len(task.frames)] = [TopFrame EXCEPT !.archive = a]]
    BY <2>2
  <2> DEFINE g == [TopFrame EXCEPT !.archive = a]
  <2>4. /\ FrameOK(TopFrame) /\ TopFrame.key \in Keys /\ Len(task.frames) \in DOMAIN task.frames
        /\ Len(task.frames) = 1 /\ task.pins = {} /\ task.roots = {} /\ task.found = {} /\ task.mode = "remote"
        /\ TreeOf(TopFrame.key, TopFrame.want) /\ server[TopFrame.key] # Gone
    BY <1>0, <1>2, <2>1 DEF RemoteInv, Remote
  <2>5. g.key = TopFrame.key /\ g.want = TopFrame.want /\ g.archive = a
    BY <2>4 DEF FrameOK
  <2>6. task'.frames = [task.frames EXCEPT ![Len(task.frames)] = g]
    BY <2>3
  <2> HIDE DEF g
  <2>7. SeqOf(task'.frames) /\ Len(task'.frames) = 1 /\ task'.frames[1] = g
    BY <1>0, <2>4, <2>6, SeqOfPut
  <2>8. task'.frames # <<>> /\ TopFrame' = g
    BY <2>7, SeqOfShort DEF TopFrame
  <2>9. TreeOf(TopFrame.key, a)
    BY <1>0, <2>4 DEF ServerInv
  <2> QED BY <1>0, <2>1, <2>2, <2>4, <2>5, <2>7, <2>8, <2>9 DEF RemoteInv, Remote, SameBut
<1> QED
  BY <1>3, <1>4, <1>5, <1>6, <1>8, <1>9, <1>10, <1>11, <1>12, <1>13, <1>14, <1>15, <1>16, <1>17 DEF PkgNext

-----------------------------------------------------------------------------
(* What an install has done and is still to do.                            *)
FoundAt(r, tr, mode) ==
    /\ r.key \in Keys /\ tr[r.key] \notin {Gone, HalfTree}
    /\ mode = "remote" \/ ~AsItLies(r.key) =>
          /\ tr[r.key] # Remains
          /\ r.sha # Gone => tr[r.key] = r.sha
          /\ mode = "remote" \/ DOMAIN shelf[r.key].archives \subseteq {r.key[2]} =>
                <<tr[r.key].rel.name, tr[r.key].rel.ver>> = r.key

LEMMA FoundNow == \A r, mode : FoundOK(r, mode) <=> FoundAt(r, tree, mode)
BY DEF FoundOK, FoundAt, Whole, Installed

LEMMA FoundNext ==
  ASSUME UNCHANGED <<shelf, halfShelf>>
  PROVE  \A r, mode : FoundOK(r, mode)' <=> FoundAt(r, tree', mode)
<1>1. \A k : AsItLies(k)' <=> AsItLies(k)
  BY ShelfSame DEF AsItLies
<1> QED BY <1>1 DEF FoundOK, FoundAt, Whole, Installed, Keys, Catalogue

(* A tree as the registry directory has it is the pinned one where there   *)
(* is an archive to compare, and of the version it is filed under.         *)
LEMMA ShelvedFound ==
  ASSUME ShelfInv, NEW r, NEW tr, Readable(r.key), tr[r.key] = Offered(r.key),
         Offered(r.key) \notin {Gone, HalfTree}, MatchesSha(r.sha, LocalSha(r.key)),
         NEW mode, mode # "remote"
  PROVE  FoundAt(r, tr, mode)
<1> DEFINE as == shelf[r.key].archives
           f  == shelf[r.key].first
<1>1. r.key \in Keys /\ r.key = <<r.key[1], r.key[2]>> /\ (AsItLies(r.key) <=> DOMAIN as = {})
  BY WhatIsOffered
<1>2. CASE DOMAIN as = {}
  BY <1>1, <1>2 DEF FoundAt
<1>3. CASE DOMAIN as # {}
  <2>1. /\ f \in DOMAIN as /\ tr[r.key] = as[f] /\ LocalSha(r.key) = as[f]
        /\ as[f] # Gone /\ TreeOf(<<r.key[1], f>>, as[f])
    BY <1>3, WhatIsOffered
  <2>2. tr[r.key] # Remains /\ (r.sha # Gone => tr[r.key] = r.sha)
    BY <2>1, TreesAreTrees DEF MatchesSha
  <2>3. DOMAIN as \subseteq {r.key[2]} => f = r.key[2]
    BY <2>1
  <2> QED BY <1>1, <2>1, <2>2, <2>3 DEF FoundAt, TreeOf
<1> QED BY <1>2, <1>3

(* InstallInv of a state from the parts of a step. *)
DoneAt(k, t, tr, busy) == \A l \in Resolved(k) : (Readable(l) /\ tr[l] \notin {Gone, HalfTree} /\ tr[l] = Offered(l)) \/ l \in busy

InstallAt(t, tr, busy) ==
    /\ \A p \in t.pins : p = [key |-> p.key, sha |-> p.sha] /\ p.key \in t.roots
    /\ t.mode \in Single => t.pins = {}
    /\ t.mode \in Single /\ t.frames # <<>> => t.found = {}
    /\ \A r \in t.found :
          /\ FoundAt(r, tr, t.mode) \/ r.key \in busy
          /\ t.mode \notin Single => Readable(r.key) /\ MatchesSha(r.sha, LocalSha(r.key))
    /\ \A k \in t.roots :
          \/ \E p \in t.pins : p.key = k
          \/ t.frames # <<>> /\ t.frames[1].key = k
          \/ DoneAt(k, t, tr, busy)
    /\ t.mode = "frozen" =>
          \A n \in DOMAIN own.deps : \E k \in t.roots : k[1] = n /\ Accepts(k[2], own.deps[n])

Busy == IF task.pc = "unpack" THEN {TopFrame.key} ELSE {}

LEMMA InstallNow ==
  ASSUME InstallInv, task.pc \in {"visit", "unpack"}
  PROVE  InstallAt(task, tree, Busy)
<1>1. \A k : Unpacking(k) <=> k \in Busy
  BY DEF Unpacking, Busy
<1>2. \A k : DoneAt(k, task, tree, Busy) <=> \A l \in Resolved(k) : AsShelved(l) \/ Unpacking(l)
  BY <1>1 DEF DoneAt, AsShelved, Installed
<1> QED BY <1>1, <1>2, FoundNow DEF InstallInv, InstallAt

LEMMA InstallNext ==
  ASSUME UNCHANGED <<shelf, halfShelf, own>>, InstallAt(task', tree', Busy')
  PROVE  InstallInv'
<1>1. \A k : Unpacking(k)' <=> k \in Busy'
  BY DEF Unpacking, Busy
<1>2. /\ \A k : Readable(k)' <=> Readable(k)
      /\ \A k : Resolved(k)' = Resolved(k)
      /\ \A k : LocalSha(k)' = LocalSha(k)
      /\ \A k : Offered(k)' = Offered(k)
  BY ShelfSame
<1>3. \A l : AsShelved(l)' <=> (Readable(l) /\ tree'[l] \notin {Gone, HalfTree} /\ tree'[l] = Offered(l))
  BY <1>2 DEF AsShelved, Installed
<1>4. \A k : DoneAt(k, task', tree', Busy') <=> (\A l \in Resolved(k) : AsShelved(l)' \/ Unpacking(l)')
  BY <1>1, <1>3 DEF DoneAt
<1>5. \A v, s : Accepts(v, s)' <=> Accepts(v, s)
  BY DEF Accepts, Major
<1>6. \A w, a : MatchesSha(w, a)' <=> MatchesSha(w, a)
  BY DEF MatchesSha
<1>7. \A r, mode : FoundOK(r, mode)' <=> FoundAt(r, tree', mode)
  BY FoundNext
<1> QED BY <1>1, <1>2, <1>4, <1>5, <1>6, <1>7 DEF InstallInv, InstallAt

(* The package an install was asked for stays at the bottom of the stack. *)
LEMMA VisitBottom ==
  ASSUME SeqOf(task.frames), task.frames # <<>>, \A i \in DOMAIN task.frames : FrameOK(task.frames[i]),
         \/ \E n : Passed(task', n)
         \/ \E n, k : Grown(task', n, k)
  PROVE  task'.frames # <<>> /\ task'.frames[1].key = task.frames[1].key
<1> DEFINE L == Len(task.frames)
<1>1. L \in Nat /\ DOMAIN task.frames = 1 .. L /\ L \in DOMAIN task.frames /\ 1 \in DOMAIN task.frames /\ FrameOK(TopFrame)
  BY SeqOfDomain DEF TopFrame
<1>2. ASSUME NEW n, NEW gs, gs = [task.frames EXCEPT ![L] = [TopFrame EXCEPT !.left = @ \ {n}]]
      PROVE  SeqOf(gs) /\ DOMAIN gs = DOMAIN task.frames /\ gs[1].key = task.frames[1].key /\ gs # <<>>
  <2> DEFINE g == [TopFrame EXCEPT !.left = @ \ {n}]
  <2>1. g.key = TopFrame.key
    BY <1>1 DEF FrameOK
  <2>2. gs = [task.frames EXCEPT ![L] = g]
    BY <1>2
  <2> HIDE DEF g
  <2>3. SeqOf(gs) /\ DOMAIN gs = DOMAIN task.frames /\ Len(gs) = L
        /\ gs[L] = g /\ \A j \in DOMAIN task.frames : j # L => gs[j] = task.frames[j]
    BY <1>1, <2>2, SeqOfPut
  <2>4. gs[1].key = task.frames[1].key
    BY <1>1, <2>1, <2>3 DEF TopFrame
  <2>5. gs # <<>>
    BY <1>1, <2>3, SeqOfDomain
  <2> QED BY <2>3, <2>4, <2>5
<1>3. ASSUME NEW n, Passed(task', n) PROVE task'.frames # <<>> /\ task'.frames[1].key = task.frames[1].key
  <2>1. PICK gs : gs = task'.frames
    OBVIOUS
  <2>2. gs = [task.frames EXCEPT ![L] = [TopFrame EXCEPT !.left = @ \ {n}]]
    BY <1>3, <2>1 DEF Passed
  <2> HIDE DEF L
  <2> QED BY <1>2, <2>1, <2>2
<1>4. ASSUME NEW n, NEW k, Grown(task', n, k)
      PROVE  task'.frames # <<>> /\ task'.frames[1].key = task.frames[1].key
  <2>1. PICK gs : gs = [task.frames EXCEPT ![L] = [TopFrame EXCEPT !.left = @ \ {n}]]
    OBVIOUS
  <2>2. task'.frames = Append(gs, Frame(k, Gone))
    BY <1>4, <2>1 DEF Grown
  <2>3. SeqOf(gs) /\ DOMAIN gs = DOMAIN task.frames /\ gs[1].key = task.frames[1].key
    BY <1>2, <2>1
  <2> DEFINE f == Frame(k, Gone)
             fs == Append(gs, f)
  <2> HIDE DEF f
  <2>4. SeqOf(fs) /\ DOMAIN fs = DOMAIN gs \cup {Len(fs)} /\ \A j \in DOMAIN gs : fs[j] = gs[j]
    BY <2>3, SeqOfPush
  <2>5. fs # <<>>
    BY <1>1, <2>3, <2>4, SeqOfShort
  <2>6. task'.frames = fs
    BY <2>2 DEF f
  <2> HIDE DEF fs
  <2> QED BY <1>1, <2>3, <2>4, <2>5, <2>6
<1> QED BY <1>3, <1>4

LEMMA InstallVisits ==
  ASSUME PkgInv, NextPin \/ Visit
  PROVE  InstallInv'
<1>1. task.pc = "visit" /\ UNCHANGED <<shelf, halfShelf, own, tree>>
  BY DEF NextPin, Visit, Running, dirs
<1>2. TaskShape(task) /\ SeqOf(task.frames) /\ (\A i \in DOMAIN task.frames : FrameOK(task.frames[i]))
      /\ ShelfInv /\ InstallAt(task, tree, {})
  <2>1. Busy = {}
    BY <1>1 DEF Busy
  <2> QED BY <1>1, <2>1, InstallNow DEF PkgInv, TaskOK, StackInv
<1>3. CASE task' = NoTask
  BY <1>3, NoTaskFits
<1>4. ASSUME task'.pc = "visit", InstallAt(task', tree, {})
      PROVE  InstallInv'
  <2>1. Busy' = {}
    BY <1>4 DEF Busy
  <2> QED BY <1>1, <1>4, <2>1, InstallNext
<1>5. CASE NextPin
  <2>1. task.frames = <<>>
    BY <1>5 DEF NextPin
  <2>2. ASSUME NEW p \in task.pins, Readable(p.key), SameBut(task, task', {"frames", "seen", "pins"}),
               task'.frames = <<Frame(p.key, p.sha)>>, task'.pins = task.pins \ {p}
        PROVE  InstallInv'
    <3> DEFINE f == Frame(p.key, p.sha)
    <3>1. f.key = p.key
      BY <2>2, FrameIsOK DEF Readable
    <3>2. task'.frames = <<f>>
      BY <2>2
    <3> HIDE DEF f
    <3>3. task'.frames # <<>> /\ task'.frames[1].key = p.key
      BY <3>1, <3>2, SeqOfShort
    <3>4. task'.pc = "visit" /\ task'.found = task.found /\ task'.roots = task.roots /\ task'.mode = task.mode
      BY <1>1, <2>2 DEF SameBut
    <3>5. \A k : DoneAt(k, task', tree, {}) <=> DoneAt(k, task, tree, {})
      BY DEF DoneAt
    <3>6. task.mode \notin Single
      BY <1>2, <2>2 DEF InstallAt
    <3>7. \A k \in task'.roots :
             \/ \E q \in task'.pins : q.key = k
             \/ task'.frames # <<>> /\ task'.frames[1].key = k
             \/ DoneAt(k, task', tree, {})
      <4>1. SUFFICES ASSUME NEW k \in task.roots, k # p.key
                     PROVE  (\E q \in task'.pins : q.key = k) \/ DoneAt(k, task', tree, {})
        BY <3>3, <3>4
      <4>2. (\E q \in task.pins : q.key = k) \/ DoneAt(k, task, tree, {})
        BY <1>2, <2>1, <4>1 DEF InstallAt
      <4> QED BY <2>2, <3>5, <4>1, <4>2
    <3>8. InstallAt(task', tree, {})
      BY <1>2, <2>2, <3>4, <3>6, <3>7 DEF InstallAt
    <3> QED BY <1>4, <3>4, <3>8
  <2> QED BY <1>2, <1>3, <1>5, <2>2, PinEffect
<1>6. CASE Visit
  <2>1. task.frames # <<>>
    BY <1>6 DEF Visit
  <2>2. CASE (\E n : Passed(task', n)) \/ (\E n, k : Grown(task', n, k))
    <3>1. task'.frames # <<>> /\ task'.frames[1].key = task.frames[1].key
      BY <1>2, <2>1, <2>2, VisitBottom
    <3>2. /\ task'.pc = "visit" /\ task'.found = task.found /\ task'.roots = task.roots /\ task'.mode = task.mode
          /\ task'.pins = task.pins
      BY <1>1, <2>2 DEF Passed, Grown, SameBut
    <3>3. \A k : DoneAt(k, task', tree, {}) <=> DoneAt(k, task, tree, {})
      BY DEF DoneAt
    <3>4. InstallAt(task', tree, {})
      BY <1>2, <2>1, <3>1, <3>2, <3>3 DEF InstallAt
    <3> QED BY <1>4, <3>2, <3>4
  <2> QED BY <1>2, <1>3, <1>6, <2>2, VisitEffect
<1> QED BY <1>5, <1>6

LEMMA InstallUnpack ==
  ASSUME PkgInv, Unpack
  PROVE  InstallInv'
<1>1. task.pc = "visit" /\ task.frames # <<>> /\ UNCHANGED <<shelf, halfShelf, own>>
  BY DEF Unpack, Running, dirs
<1>2. TaskShape(task) /\ SeqOf(task.frames) /\ (\A i \in DOMAIN task.frames : FrameOK(task.frames[i]))
      /\ ServerInv /\ InstallAt(task, tree, {})
  <2>1. Busy = {}
    BY <1>1 DEF Busy
  <2> QED BY <1>1, <2>1, InstallNow DEF PkgInv, TaskOK, StackInv
<1>3. CASE task' = NoTask
  BY <1>3, NoTaskFits
<1>4. CASE /\ tree' = [tree EXCEPT ![TopFrame.key] = HalfTree]
           /\ SameBut(task, task', {"pc", "frames"}) /\ task'.pc = "unpack"
           /\ task'.frames = [task.frames EXCEPT ![Len(task.frames)] =
                                [TopFrame EXCEPT !.archive = FoundArchive(TopFrame.key)]]
  <2> DEFINE a == FoundArchive(TopFrame.key)
             g == [TopFrame EXCEPT !.archive = a]
             L == Len(task.frames)
  <2>1. L \in DOMAIN task.frames /\ FrameOK(TopFrame) /\ 1 \in DOMAIN task.frames
    BY <1>1, <1>2, SeqOfDomain DEF TopFrame
  <2>2. g.key = TopFrame.key
    <3> HIDE DEF a
    <3> QED BY <2>1 DEF FrameOK
  <2>3. task'.frames = [task.frames EXCEPT ![L] = g]
    BY <1>4
  <2> HIDE DEF g, L
  <2>4. SeqOf(task'.frames) /\ DOMAIN task'.frames = DOMAIN task.frames /\ Len(task'.frames) = L
        /\ task'.frames[L] = g /\ \A j \in DOMAIN task.frames : j # L => task'.frames[j] = task.frames[j]
    BY <1>2, <2>1, <2>3, SeqOfPut DEF L
  <2>5. task'.frames[1].key = task.frames[1].key /\ task'.frames # <<>>
    BY <1>1, <2>1, <2>2, <2>4, SeqOfDomain, SeqOfShort DEF TopFrame, L
  <2>6. PICK top : top = TopFrame.key
    OBVIOUS
  <2>7. Busy' = {top}
    BY <1>4, <2>2, <2>4, <2>6 DEF Busy, TopFrame
  <2>8. \A l \in Keys : l # top => tree'[l] = tree[l]
    BY <1>2, <1>4, <2>6 DEF ServerInv
  <2>9. /\ task'.found = task.found /\ task'.roots = task.roots /\ task'.mode = task.mode
        /\ task'.pins = task.pins
    BY <1>4 DEF SameBut
  <2>10. \A k : DoneAt(k, task, tree, {}) => DoneAt(k, task', tree', {top})
    BY <2>8 DEF DoneAt, Readable
  <2>11. \A r, mode : FoundAt(r, tree, mode) => FoundAt(r, tree', mode) \/ r.key \in {top}
    BY <2>8 DEF FoundAt
  <2>12. InstallAt(task', tree', {top})
    BY <1>1, <1>2, <2>5, <2>9, <2>10, <2>11 DEF InstallAt
  <2> QED BY <1>1, <2>7, <2>12, InstallNext
<1> QED BY <1>2, <1>3, <1>4, UnpackEffect

LEMMA InstallUnpacked ==
  ASSUME PkgInv, Unpacked
  PROVE  InstallInv'
<1>1. task.pc = "unpack" /\ task.frames # <<>> /\ UNCHANGED <<shelf, halfShelf, own>>
  BY DEF Unpacked, Running, dirs, PkgInv, StackInv
<1>6. PICK top : top = TopFrame
  OBVIOUS
<1>2. /\ TaskShape(task) /\ SeqOf(task.frames) /\ (\A i \in DOMAIN task.frames : FrameOK(task.frames[i]))
      /\ ServerInv /\ ShelfInv /\ InstallAt(task, tree, {top.key})
  <2>1. Busy = {top.key}
    BY <1>1, <1>6 DEF Busy
  <2> QED BY <1>1, <2>1, InstallNow DEF PkgInv, TaskOK, StackInv
<1>3. CASE task' = NoTask
  BY <1>3, NoTaskFits
<1> DEFINE L == Len(task.frames)
<1>4. L \in Nat /\ DOMAIN task.frames = 1 .. L /\ L \in DOMAIN task.frames /\ top = task.frames[L]
      /\ top.key \in Keys
  BY <1>1, <1>2, <1>6, SeqOfDomain DEF TopFrame, FrameOK
<1>5. CASE /\ top.archive # HalfTree
           /\ tree' = [tree EXCEPT ![top.key] = IF top.archive = Gone THEN shelf[top.key].tree ELSE top.archive]
           /\ SameBut(task, task', {"pc", "frames", "found"}) /\ task'.pc = "visit"
           /\ task'.frames = SubSeq(task.frames, 1, Len(task.frames) - 1)
           /\ \/ task'.frames # <<>> /\ task'.found = task.found
              \/ /\ task'.frames = <<>>
                 /\ task'.found = task.found \cup {[key |-> top.key, sha |-> ShaOf(top)]}
  <2>1. Busy' = {}
    BY <1>5 DEF Busy
  <2>2. task'.roots = task.roots /\ task'.mode = task.mode /\ task'.pins = task.pins /\ task'.seen = task.seen
    BY <1>5 DEF SameBut
  <2>3. SUFFICES InstallAt(task', tree', {})
    BY <1>1, <2>1, InstallNext
  <2>4. \A l \in Keys : l # top.key => tree'[l] = tree[l]
    BY <1>2, <1>5 DEF ServerInv
  <2>5. SeqOf(task'.frames) /\ Len(task'.frames) = L - 1 /\ \A j \in DOMAIN task'.frames : task'.frames[j] = task.frames[j]
    BY <1>1, <1>2, <1>5, SeqOfPop
  <2>6. CASE Remote
    <3>1. /\ L = 1 /\ task.pins = {} /\ task.roots = {} /\ task.found = {} /\ task.mode = "remote"
          /\ TreeOf(top.key, top.archive)
      BY <1>1, <1>6, <2>6 DEF PkgInv, RemoteInv
    <3>2. task'.frames = <<>>
      BY <1>5, <3>1, SubSeqEmpty
    <3> DEFINE r == [key |-> top.key, sha |-> top.archive]
    <3>3. task'.found = {r}
      BY <1>5, <3>1, <3>2 DEF ShaOf
    <3>4. r.key = top.key /\ r.sha = top.archive
      OBVIOUS
    <3> HIDE DEF r
    <3>5. tree'[top.key] = top.archive /\ top.archive \notin {Gone, HalfTree}
      BY <1>2, <1>4, <1>5, <3>1, TreesAreTrees DEF ServerInv
    <3>6. FoundAt(r, tree', "remote")
      BY <1>4, <3>1, <3>4, <3>5, TreesAreTrees DEF FoundAt, TreeOf
    <3> QED BY <2>2, <3>1, <3>2, <3>3, <3>6 DEF InstallAt, Single
  <2>7. CASE ~Remote
    <3>1. /\ top.archive = FoundArchive(top.key) /\ MatchesSha(top.want, LocalSha(top.key))
          /\ task.mode # "remote"
      BY <1>1, <1>6, <2>7 DEF PkgInv, StackInv, RemoteInv, Remote
    <3>2. Readable(top.key) /\ top.key \in task.seen
      BY <1>1, <1>4, <2>7 DEF PkgInv, StackInv
    <3>3. Offered(top.key) \notin {Gone, HalfTree}
      BY <1>2, <1>5, <3>1, <3>2, OfferedInstalled
    <3>4. tree'[top.key] = Offered(top.key)
      BY <1>2, <1>4, <1>5, <3>1 DEF ServerInv, Offered
    <3>5. \A r : r.key = top.key /\ MatchesSha(r.sha, LocalSha(r.key)) => FoundAt(r, tree', task.mode)
      <4>1. PICK tr : tr = tree'
        OBVIOUS
      <4>2. \A r : r.key = top.key /\ MatchesSha(r.sha, LocalSha(r.key)) => FoundAt(r, tr, task.mode)
        BY <1>2, <3>1, <3>2, <3>3, <3>4, <4>1, ShelvedFound
      <4> QED BY <4>1, <4>2
    <3>6. ASSUME NEW r \in task.found
          PROVE  /\ FoundAt(r, tree', task.mode)
                 /\ task.mode \notin Single => Readable(r.key) /\ MatchesSha(r.sha, LocalSha(r.key))
      <4>1. /\ FoundAt(r, tree, task.mode) \/ r.key = top.key
            /\ task.mode \notin Single /\ Readable(r.key) /\ MatchesSha(r.sha, LocalSha(r.key))
        BY <1>1, <1>2 DEF InstallAt
      <4>2. CASE r.key = top.key
        BY <3>5, <4>1, <4>2
      <4>3. CASE r.key # top.key
        BY <2>4, <4>1, <4>3 DEF FoundAt
      <4> QED BY <4>1, <4>2, <4>3
    <3>7. ASSUME NEW k, DoneAt(k, task, tree, {top.key}) PROVE DoneAt(k, task', tree', {})
      BY <2>4, <3>2, <3>3, <3>4, <3>7 DEF DoneAt, Readable
    <3>8. CASE task'.frames # <<>> /\ task'.found = task.found
      <4>1. task'.frames[1] = task.frames[1]
        BY <2>5, <3>8, SeqOfDomain
      <4>2. \A k \in task'.roots :
               \/ \E p \in task'.pins : p.key = k
               \/ task'.frames # <<>> /\ task'.frames[1].key = k
               \/ DoneAt(k, task', tree', {})
        BY <1>1, <1>2, <2>2, <3>7, <3>8, <4>1 DEF InstallAt
      <4> QED BY <1>1, <1>2, <2>2, <3>6, <3>8, <4>2 DEF InstallAt
    <3>9. CASE /\ task'.frames = <<>>
               /\ task'.found = task.found \cup {[key |-> top.key, sha |-> ShaOf(top)]}
      <4> DEFINE s == ShaOf(top)
                 r == [key |-> top.key, sha |-> s]
      <4>1. r.key = top.key /\ r.sha = s /\ MatchesSha(s, LocalSha(top.key))
        BY <3>1 DEF MatchesSha, ShaOf
      <4>2. task'.found = task.found \cup {r}
        BY <3>9
      <4> HIDE DEF r, s
      <4>3. FoundAt(r, tree', task.mode)
        BY <3>5, <4>1
      <4>4. L = 1
        BY <1>4, <2>5, <3>9, SeqOfShort
      <4>5. DoneAt(top.key, task', tree', {})
        <5>1. \A l \in task.seen : AsShelved(l)' /\ DepsMet(l, {})'
          <6>1. StackInv' /\ RemoteInv'
            BY StackUnpacked, RemoteStep DEF PkgNext
          <6>2. ~Remote' /\ OnStack' = {}
            BY <3>9, SeqOfShort DEF Remote, OnStack
          <6> QED BY <1>5, <2>2, <6>1, <6>2 DEF StackInv
        <5>2. /\ \A k : Readable(k)' <=> Readable(k)
              /\ \A k : DepsOf(k)' = DepsOf(k)
              /\ \A k : Offered(k)' = Offered(k)
              /\ \A n, x : Chosen(n, x)' = Chosen(n, x)
          BY <1>1, ShelfSame
        <5>3. \A l \in task.seen : Readable(l) /\ tree'[l] \notin {Gone, HalfTree} /\ tree'[l] = Offered(l)
          BY <5>1, <5>2 DEF AsShelved, Installed
        <5>4. Closed(task.seen)
          BY <2>2, <5>1, <5>2 DEF Closed, DepsMet
        <5>5. Resolved(top.key) \subseteq task.seen
          BY <1>2, <3>2, <5>4, ResolvedWithin DEF TaskShape
        <5> QED BY <5>3, <5>5 DEF DoneAt
      <4>6. \A k \in task'.roots : (\E p \in task'.pins : p.key = k) \/ DoneAt(k, task', tree', {})
        BY <1>1, <1>2, <1>4, <2>2, <3>7, <4>4, <4>5 DEF InstallAt
      <4> QED BY <1>2, <2>2, <3>2, <3>6, <3>9, <4>1, <4>2, <4>3, <4>6 DEF InstallAt
    <3> QED BY <1>5, <3>8, <3>9
  <2> QED BY <2>6, <2>7
<1> QED BY <1>2, <1>3, <1>5, <1>6, UnpackedEffect

LEMMA InstallStep == PkgInv /\ PkgNext => InstallInv'
<1> SUFFICES ASSUME PkgInv, PkgNext PROVE InstallInv'
  OBVIOUS
<1>0. TaskShape(task) /\ SeqOf(task.frames) /\ InstallInv /\ OwnInv
  BY DEF PkgInv, TaskOK, StackInv
<1>1. CASE task'.pc \notin {"visit", "unpack"}
  BY <1>1 DEF InstallInv
<1>2. CASE task' = NoTask
  BY <1>2, NoTaskFits
<1>3. ASSUME NEW r \in Releases, ServerPublish(Plain(r)) PROVE InstallInv'
  <2>1. UNCHANGED <<task, shelf, tree, halfShelf, own>>
    BY <1>3 DEF ServerPublish, dirs
  <2>2. CASE task.pc \in {"visit", "unpack"}
    <3>1. InstallAt(task, tree, Busy)
      BY <1>0, <2>2, InstallNow
    <3>2. Busy' = Busy
      BY <2>1 DEF Busy, TopFrame
    <3> QED BY <2>1, <3>1, <3>2, InstallNext
  <2> QED BY <1>1, <2>1, <2>2
<1>4. ASSUME NEW r \in OwnReleases, EditOwn(r) PROVE InstallInv'
  <2>1. task' = NoTask
    BY <1>4 DEF EditOwn, Free, PkgInv, TaskOK
  <2> QED BY <1>2, <2>1
<1>5. CASE \/ BuildOwn \/ Publish(OwnTree) \/ \E r \in Releases : Publish(Plain(r))
  <2>0. \E p \in {"build", "clear"} : \E t : task' = [NoTask EXCEPT !.pc = p, !.tree = t]
    BY <1>5 DEF BuildOwn, Publish, Started
  <2>1. PICK p \in {"build", "clear"} : \E t : task' = [NoTask EXCEPT !.pc = p, !.tree = t]
    BY <2>0
  <2>2. PICK t : task' = [NoTask EXCEPT !.pc = p, !.tree = t]
    BY <2>1
  <2>3. task'.pc = p
    BY <2>2, NoTaskShape DEF TaskShape
  <2> QED BY <1>1, <2>3
<1>6. CASE LockOwn
  <2>1. \E l : task' = [NoTask EXCEPT !.pc = "lock", !.lock = l]
    BY <1>6 DEF LockOwn, Started
  <2>2. PICK l : task' = [NoTask EXCEPT !.pc = "lock", !.lock = l]
    BY <2>1
  <2>3. task'.pc = "lock"
    BY <2>2, NoTaskShape DEF TaskShape
  <2> QED BY <1>1, <2>3
<1>7. ASSUME NEW p \in PkgPcs \ {"visit", "unpack"}, Continue(p) PROVE InstallInv'
  <2>1. task'.pc = p
    BY <1>0, <1>7, PcPut DEF Continue
  <2> QED BY <1>1, <1>7, <2>1
<1>8. CASE PublishClear \/ PublishCopy \/ PublishOpen \/ PublishPack \/ PublishIndex \/ Cached
  <2>1. Ended \/ \E p \in PkgPcs \ {"visit", "unpack"} : Continue(p)
    BY <1>8 DEF PublishClear, PublishCopy, PublishOpen, PublishPack, PublishIndex, Cached, PkgPcs
  <2> QED BY <1>2, <1>7, <2>1 DEF Ended
<1>9. CASE Built \/ Locked \/ InstallDone \/ Killed
  BY <1>2, <1>9 DEF Built, Locked, InstallDone, Killed, Ended
<1>10. ASSUME NEW k \in Keys, Install(k) PROVE InstallInv'
  <2> DEFINE f == Frame(k, Gone)
  <2>1. /\ SameBut(NoTask, task', {"pc", "frames", "seen", "roots"})
        /\ task'.pc = "visit" /\ task'.frames = <<f>> /\ task'.roots = {k} /\ f.key = k
        /\ UNCHANGED <<shelf, halfShelf, own>>
    BY <1>10, BeginEffect, FrameIsOK DEF Install, dirs
  <2> HIDE DEF f
  <2>2. task'.frames # <<>> /\ task'.frames[1].key = k
    BY <2>1, SeqOfShort
  <2>3. task'.pins = {} /\ task'.found = {} /\ task'.mode = "direct"
    BY <2>1 DEF SameBut, NoTask
  <2>4. InstallAt(task', tree', Busy')
    BY <2>1, <2>2, <2>3 DEF InstallAt
  <2> QED BY <2>1, <2>4, InstallNext
<1>11. ASSUME NEW k \in Keys, InstallRemote(k) PROVE InstallInv'
  BY <1>1, <1>11, RemoteEffect
<1>12. ASSUME NEW mode \in {"locked", "frozen"}, InstallLocked(mode) PROVE InstallInv'
  <2>1. /\ LockOf(agentLock) /\ (mode = "frozen" => StillFits)
        /\ SameBut(NoTask, task', {"pc", "pins", "mode", "roots"})
        /\ task'.pins = agentLock.pins /\ task'.mode = mode
        /\ task'.roots = {p.key : p \in agentLock.pins}
        /\ UNCHANGED <<shelf, halfShelf, own>>
    BY <1>0, <1>12, LockedEffect DEF InstallLocked, dirs
  <2>2. task'.found = {} /\ task'.mode \notin Single
    BY <2>1 DEF SameBut, NoTask, Single
  <2>3. ASSUME mode = "frozen", NEW n \in DOMAIN own.deps
        PROVE  \E k \in task'.roots : k[1] = n /\ Accepts(k[2], own.deps[n])
    <3> DEFINE vs == {p.key[2] : p \in {q \in agentLock.pins : q.key[1] = n}}
    <3>1. vs # {} /\ Accepts(LastOf(vs), own.deps[n])
      <4>1. (\E p \in agentLock.pins : p.key[1] = n) /\ Accepts(PinOf(n), own.deps[n])
        BY <2>1, <2>3 DEF StillFits
      <4>2. PinOf(n) = LastOf(vs)
        BY DEF PinOf
      <4> HIDE DEF vs
      <4>3. vs # {}
        BY <4>1 DEF vs
      <4> QED BY <4>1, <4>2, <4>3
    <3>2. \A v \in vs : \E r \in Catalogue : r.ver = v
      BY <2>1 DEF LockOf, Keys
    <3>3. LastOf(vs) \in vs
      <4> HIDE DEF vs
      <4> QED BY <3>1, <3>2, LastOfIn
    <3>4. PICK p \in agentLock.pins : p.key[1] = n /\ p.key[2] = LastOf(vs)
      BY <3>3
    <3> QED BY <2>1, <3>1, <3>4
  <2>4. \A p \in task'.pins : p = [key |-> p.key, sha |-> p.sha] /\ p.key \in task'.roots
    BY <2>1 DEF LockOf
  <2>5. \A k \in task'.roots : \E p \in task'.pins : p.key = k
    BY <2>1
  <2>6. InstallAt(task', tree', Busy')
    BY <2>1, <2>2, <2>3, <2>4, <2>5 DEF InstallAt
  <2> QED BY <2>1, <2>6, InstallNext
<1>13. CASE Fetch
  BY <1>0, <1>1, <1>13, FetchEffect
<1>14. CASE CheckFetched
  <2>1. CASE Continue("unpack")
    <3>1. SameBut(task, task', {"pc"}) /\ UNCHANGED <<shelf, halfShelf, own>>
      BY <1>0, <1>14, <2>1, PcPut DEF Continue, PkgPcs, CheckFetched, dirs
    <3>2. Remote /\ task.pc = "check"
      BY <1>14 DEF CheckFetched, Running, PkgInv, RemoteInv
    <3>3. task.pins = {} /\ task.roots = {} /\ task.found = {} /\ task.mode = "remote"
      BY <3>2 DEF PkgInv, RemoteInv
    <3>4. task'.pins = {} /\ task'.roots = {} /\ task'.found = {} /\ task'.mode = "remote"
      BY <3>1, <3>3 DEF SameBut
    <3>5. InstallAt(task', tree', Busy')
      BY <3>4 DEF InstallAt
    <3> QED BY <3>1, <3>5, InstallNext
  <2> QED BY <1>2, <1>14, <2>1 DEF CheckFetched, Ended
<1> QED
  BY <1>3, <1>4, <1>5, <1>6, <1>8, <1>9, <1>10, <1>11, <1>12, <1>13, <1>14,
     InstallVisits, InstallUnpack, InstallUnpacked DEF PkgNext

-----------------------------------------------------------------------------
(* What the last install reported.                                         *)
LEMMA NoReportFits ==
  ASSUME report' = NoReport
  PROVE  ReportInv'
<1>1. report'.found = {} /\ report'.roots = {} /\ report'.mode = "direct"
  BY DEF NoReport
<1> QED BY <1>1 DEF ReportInv, InstallClosesDependencies

LEMMA ReportNext ==
  ASSUME UNCHANGED <<shelf, halfShelf, own, tree>>, report'.roots \subseteq Keys,
         \A r \in report'.found : FoundOK(r, report'.mode),
         \A k \in report'.roots : \A l \in Resolved(k) :
            Installed(l) /\ tree[l] = Offered(l) /\ (~AsItLies(l) => Whole(l)),
         report'.mode = "frozen" =>
            \A n \in DOMAIN own.deps : \E k \in report'.roots : k[1] = n /\ Accepts(k[2], own.deps[n])
  PROVE  ReportInv'
<1>1. \A r, mode : FoundOK(r, mode)' <=> FoundOK(r, mode)
  BY FoundNext, FoundNow
<1>2. /\ \A k : Resolved(k)' = Resolved(k)
      /\ \A k : (Installed(k)' <=> Installed(k)) /\ (Whole(k)' <=> Whole(k))
      /\ \A k : Offered(k)' = Offered(k) /\ (AsItLies(k)' <=> AsItLies(k))
      /\ Keys' = Keys
      /\ \A v, s : Accepts(v, s)' <=> Accepts(v, s)
  BY ShelfSame DEF Installed, Whole, AsItLies, Keys, Catalogue, Accepts, Major
<1> QED BY <1>1, <1>2 DEF ReportInv, InstallClosesDependencies

LEMMA ReportStep == PkgInv /\ PkgNext => ReportInv'
<1> SUFFICES ASSUME PkgInv, PkgNext PROVE ReportInv'
  OBVIOUS
<1>1. CASE report' = NoReport
  BY <1>1, NoReportFits
<1>2. CASE task.pc # "none" /\ UNCHANGED report
  BY <1>1, <1>2 DEF PkgInv, TaskOK
<1>3. ASSUME NEW r \in Releases, ServerPublish(Plain(r)) PROVE ReportInv'
  <2>1. UNCHANGED <<report, shelf, tree, halfShelf, own>>
    BY <1>3 DEF ServerPublish, dirs
  <2>2. ReportInv
    BY DEF PkgInv
  <2> QED BY <2>1, <2>2, ReportNext DEF ReportInv, InstallClosesDependencies
<1>4. CASE InstallDone
  <2>1. /\ task.pc = "visit" /\ task.frames = <<>> /\ task.pins = {} /\ UNCHANGED <<shelf, tree, halfShelf, own>>
        /\ report' = [found |-> task.found, roots |-> task.roots, mode |-> task.mode]
    BY <1>4 DEF InstallDone, Running, dirs
  <2>2. report'.found = task.found /\ report'.roots = task.roots /\ report'.mode = task.mode
    BY <2>1
  <2>3. InstallInv /\ task.roots \subseteq Keys
    BY DEF PkgInv, TaskOK, TaskShape
  <2>4. \A k : ~Unpacking(k)
    BY <2>1 DEF Unpacking
  <2>5. \A r \in task.found : FoundOK(r, task.mode)
    BY <2>1, <2>3, <2>4 DEF InstallInv
  <2>6. \A k \in task.roots : \A l \in Resolved(k) :
           Installed(l) /\ tree[l] = Offered(l) /\ (~AsItLies(l) => Whole(l))
    <3>1. \A k \in task.roots : \A l \in Resolved(k) : AsShelved(l)
      BY <2>1, <2>3, <2>4 DEF InstallInv
    <3> QED BY <3>1, ShelvedWhole DEF AsShelved, PkgInv
  <2>7. task.mode = "frozen" =>
            \A n \in DOMAIN own.deps : \E k \in task.roots : k[1] = n /\ Accepts(k[2], own.deps[n])
    BY <2>1, <2>3 DEF InstallInv
  <2> QED BY <2>1, <2>2, <2>3, <2>5, <2>6, <2>7, ReportNext
<1>5. CASE \/ \E r \in OwnReleases : EditOwn(r)
           \/ BuildOwn \/ Publish(OwnTree) \/ LockOwn
           \/ \E r \in Releases : Publish(Plain(r))
           \/ \E k \in Keys : Install(k) \/ InstallRemote(k)
           \/ \E mode \in {"locked", "frozen"} : InstallLocked(mode)
  BY <1>1, <1>5 DEF EditOwn, BuildOwn, Publish, LockOwn, Install, InstallRemote, InstallLocked, Started
<1>6. CASE \/ Built \/ PublishClear \/ PublishCopy \/ PublishOpen \/ PublishPack \/ PublishIndex \/ Locked
           \/ NextPin \/ Visit \/ Unpack \/ Unpacked \/ Fetch \/ Cached \/ CheckFetched \/ Killed
  BY <1>2, <1>6
     DEF Built, PublishClear, PublishCopy, PublishOpen, PublishPack, PublishIndex, Locked, NextPin, Visit, Unpack, Unpacked,
         Fetch, Cached, CheckFetched, Killed, Running
<1> QED BY <1>3, <1>4, <1>5, <1>6 DEF PkgNext

-----------------------------------------------------------------------------
LEMMA PkgStep == PkgInv /\ [PkgNext]_pkgVars => PkgInv'
<1> SUFFICES ASSUME PkgInv, [PkgNext]_pkgVars PROVE PkgInv'
  OBVIOUS
<1>1. CASE PkgNext
  BY <1>1, OwnStep, ShelfStep, ServerStep, TaskStep, WriterStep, StackStep, RemoteStep, InstallStep, ReportStep
     DEF PkgInv
<1>2. CASE UNCHANGED pkgVars
  <2>1. /\ UNCHANGED <<own, litter, agentLock, shelf, tree, server, cache, task, report, commands, kills, halfShelf>>
        /\ Keys' = Keys /\ Catalogue' = Catalogue
    BY <1>2 DEF pkgVars, Keys, Catalogue
  <2>2. /\ \A k : Readable(k)' <=> Readable(k)
        /\ \A k : Resolved(k)' = Resolved(k)
        /\ \A k : FoundArchive(k)' = FoundArchive(k) /\ LocalSha(k)' = LocalSha(k)
        /\ \A k : DepsOf(k)' = DepsOf(k)
        /\ \A n, s : Chosen(n, s)' = Chosen(n, s)
    BY <2>1, ShelfSame
  <2>3. (Remote' <=> Remote) /\ OnStack' = OnStack /\ TopFrame' = TopFrame /\ Key' = Key /\ Busy' = Busy
    BY <2>1 DEF Remote, OnStack, TopFrame, Key, Busy
  <2>4. /\ \A k : AsShelved(k)' <=> AsShelved(k)
        /\ \A k, left : DepsMet(k, left)' <=> DepsMet(k, left)
        /\ \A f : FrameOK(f)' <=> FrameOK(f)
        /\ \A w, a : MatchesSha(w, a)' <=> MatchesSha(w, a)
        /\ \A k, t : TreeOf(k, t)' <=> TreeOf(k, t)
        /\ \A k, d : DirOf(k, d)' <=> DirOf(k, d)
        /\ \A n, as : ArchivesOf(n, as)' <=> ArchivesOf(n, as)
        /\ \A l : LockOf(l)' <=> LockOf(l)
        /\ \A t : TaskShape(t)' <=> TaskShape(t)
    BY <2>1, <2>2, AsShelvedSame
       DEF DepsMet, FrameOK, MatchesSha, TreeOf, DirOf, ArchivesOf, LockOf, TaskShape, PkgPcs
  <2>5. OwnInv' /\ ShelfInv' /\ ServerInv' /\ TaskOK'
    BY <2>1, <2>4 DEF PkgInv, OwnInv, ShelfInv, ServerInv, TaskOK
  <2>6. WriterInv'
    BY <2>1, <2>3, <2>4 DEF PkgInv, WriterInv
  <2>7. StackInv'
    BY <2>1, <2>2, <2>3, <2>4 DEF PkgInv, StackInv
  <2>8. RemoteInv'
    BY <2>1, <2>3, <2>4 DEF PkgInv, RemoteInv
  <2>9. InstallInv'
    <3>1. CASE task.pc \in {"visit", "unpack"}
      BY <2>1, <2>3, <3>1, InstallNow, InstallNext DEF PkgInv
    <3>2. CASE task.pc \notin {"visit", "unpack"}
      BY <2>1, <3>2 DEF InstallInv
    <3> QED BY <3>1, <3>2
  <2>10. ReportInv'
    BY <2>1, ReportNext DEF PkgInv, ReportInv, InstallClosesDependencies
  <2> QED BY <2>5, <2>6, <2>7, <2>8, <2>9, <2>10 DEF PkgInv
<1> QED BY <1>1, <1>2

(* What is built, shelved, pinned and reported is made of releases.        *)
THEOREM PackagesTyped == PkgSpec => [](OwnInv /\ ShelfInv /\ ServerInv /\ TaskOK)
<1>1. PkgInv => OwnInv /\ ShelfInv /\ ServerInv /\ TaskOK
  BY DEF PkgInv
<1> QED BY <1>1, InitInv, PkgStep, PTL DEF PkgSpec

LEMMA ReportHolds == ReportInv => ReportedIsInstalled /\ InstallClosesDependencies
<1> SUFFICES ASSUME ReportInv PROVE ReportedIsInstalled /\ InstallClosesDependencies
  OBVIOUS
<1>1. InstallClosesDependencies
  BY DEF ReportInv
<1>2. ASSUME report.mode = "frozen", NEW n \in DOMAIN own.deps
      PROVE  \E k \in Keys : k[1] = n /\ Accepts(k[2], own.deps[n]) /\ Installed(k)
  <2>1. PICK k \in report.roots : k[1] = n /\ Accepts(k[2], own.deps[n])
    BY <1>2 DEF ReportInv
  <2>2. k \in Keys /\ k \in Resolved(k)
    BY ResolvedHasRoot DEF ReportInv
  <2> QED BY <1>1, <2>1, <2>2 DEF InstallClosesDependencies
<1>3. \A r \in report.found : FoundOK(r, report.mode)
  BY DEF ReportInv
<1> QED BY <1>1, <1>2, <1>3 DEF ReportedIsInstalled, FoundOK

(* What an install reports is there (registry_groups/install.py:63-111):   *)
(* the pinned archive wherever there is one to compare, of the version it  *)
(* is filed under, and after a frozen install what agent.toml asks for.    *)
THEOREM ReportTrue == PkgSpec => []ReportedIsInstalled
<1>1. PkgInv => ReportedIsInstalled
  BY ReportHolds DEF PkgInv
<1> QED BY <1>1, InitInv, PkgStep, PTL DEF PkgSpec

(* An install that ends well has installed all it resolves to.             *)
THEOREM InstallClosed == PkgSpec => []InstallClosesDependencies
<1>1. PkgInv => InstallClosesDependencies
  BY ReportHolds DEF PkgInv
<1> QED BY <1>1, InitInv, PkgStep, PTL DEF PkgSpec

-----------------------------------------------------------------------------
(***************************************************************************)
(* Runs.                                                                   *)
(***************************************************************************)

-----------------------------------------------------------------------------
(* Types.                                                                  *)

Roles == {"user", "assistant"}
Lines == (0 .. MaxJobs) \X Roles

Asked == {"search.docs", "time.now"}
Plans == {Sequential, Parallel}

AllPolicies == Policies \cup {[p EXCEPT !.allowed_tools = Asked] : p \in Policies}

RunPcs  == {"check", "call", "ask", "user", "assistant", "finish"}
FlowPcs == {"step", "attempt", "done"}

Kids    == [pc : {"count", "read", "append", "over"}, kind : {"policy.check", "tool.call"},
            number : Nat, ok : BOOLEAN]
Results == [ok : BOOLEAN, attempts : 1 .. Retries + 1]
Events  == [kind : {"agent.start", "policy.check", "tool.call", "model.tokens"},
            tool : Tools \cup Asked \cup {NoTool}, number : Nat]

Children == UNION {[S -> Kids] : S \in SUBSET Asked}

Jobs == [pc : {"idle"} \cup RunPcs \cup FlowPcs, id : 0 .. MaxJobs, policy : AllPolicies \cup {0},
         tool : Tools \cup {NoTool}, steps : Plans \cup {<<>>}, attempts : 0 .. Retries + 1,
         kids : Children, results : Seq(Results), events : Seq(Events),
         number : Nat]

RunsTypeOK ==
    /\ memory \in Seq(Lines \cup {Cut})
    /\ job \in [Callers -> Jobs]
    /\ jobs \in 0 .. MaxJobs /\ full \in Nat /\ wipes \in Nat
    /\ ended \subseteq 0 .. MaxJobs /\ broken \subseteq 0 .. MaxJobs

-----------------------------------------------------------------------------
(* Memory.  No two callers under way have the same id, an ended run's id   *)
(* is taken by none, and what the memory file has of a run is what the     *)
(* run's place in its program says.                                        *)

OfOther(line, r) == line = Cut \/ line[1] # r

Untold(r) == \A l \in DOMAIN memory : OfOther(memory[l], r)

TaskTold(r) ==
    \E i \in DOMAIN memory : memory[i] = <<r, "user">> /\ \A l \in DOMAIN memory \ {i} : OfOther(memory[l], r)

Remembered(r) ==
    \E i, k \in DOMAIN memory :
        /\ i < k /\ memory[i] = <<r, "user">> /\ memory[k] = <<r, "assistant">>
        /\ \A l \in DOMAIN memory \ {i, k} : OfOther(memory[l], r)

Told(j) ==
    /\ j.pc \in {"check", "call", "ask", "user"} => Untold(j.id)
    /\ j.pc = "assistant" /\ j.id \notin broken => TaskTold(j.id)
    /\ j.pc = "finish" /\ j.id \notin broken => Remembered(j.id)

IdsApart ==
    /\ \A c \in Callers : job[c].pc # "idle" => job[c].id \in (1 .. jobs) \ ended
    /\ \A c, d \in Callers : c # d /\ job[c].pc # "idle" /\ job[d].pc # "idle" => job[c].id # job[d].id
    /\ \A l \in DOMAIN memory : memory[l] = Cut \/ memory[l][1] \in 1 .. jobs
    /\ ended \subseteq 1 .. jobs

MemoryInv ==
    /\ IdsApart
    /\ \A c \in Callers : Told(job[c])
    /\ \A r \in ended \ broken : Remembered(r)

-----------------------------------------------------------------------------
(* A job: where it is in its plan, what its events add up to, and how they *)
(* are numbered.                                                           *)

Shaped(j) ==
    /\ j.pc \in FlowPcs <=> j.steps # <<>>
    /\ j.pc \notin FlowPcs => j.results = <<>> /\ j.kids = NoKids
    /\ j.pc \in {"step", "attempt"} => Len(j.results) < Len(j.steps)
    /\ j.pc = "step" => j.attempts <= Retries /\ \A t \in DOMAIN j.kids : j.kids[t].pc = "over"
    /\ j.pc = "attempt" => j.attempts >= 1 /\ DOMAIN j.kids = Current(j)
    /\ j.pc = "done" => j.kids = NoKids /\ Len(j.results) = Len(j.steps)

(* The step of a tool, and the attempts of it that are over.               *)
StepOf(j, t) == IF j.steps = Sequential /\ t = "time.now" THEN 4 ELSE 3

Tries(j, t) ==
    IF StepOf(j, t) <= Len(j.results) THEN j.results[StepOf(j, t)].attempts
    ELSE IF StepOf(j, t) > Len(j.results) + 1 THEN 0
    ELSE IF j.pc = "attempt" THEN j.attempts - 1 ELSE j.attempts

UnderWay(j, t) == j.pc = "attempt" /\ t \in DOMAIN j.kids

Checked(j, t) ==
    IF UnderWay(j, t) THEN IF j.kids[t].kind = "tool.call" \/ j.kids[t].pc = "over" THEN 1 ELSE 0 ELSE 0
Called(j, t)  == IF UnderWay(j, t) THEN IF j.kids[t].pc = "over" THEN 1 ELSE 0 ELSE 0

Counted(j) ==
    \A t \in Asked :
        /\ Happened(j, "policy.check", t) = Tries(j, t) + Checked(j, t)
        /\ Happened(j, "tool.call", t) = IF Allowed(j.policy, t) THEN Tries(j, t) + Called(j, t) ELSE 0

KidOk(j, t) ==
    /\ j.kids[t].kind = "tool.call" => Allowed(j.policy, t)
    /\ j.kids[t].kind = "policy.check" /\ j.kids[t].pc = "over" => ~Allowed(j.policy, t) /\ ~j.kids[t].ok

ResultOk(j, i) ==
    /\ ~j.results[i].ok => j.results[i].attempts = Retries + 1
    /\ j.results[i].ok => \A t \in j.steps[i] : Allowed(j.policy, t)

ReportsOf(j) ==
    /\ j.pc \in FlowPcs => Counted(j)
    /\ \A t \in DOMAIN j.kids : KidOk(j, t)
    /\ \A i \in DOMAIN j.results : ResultOk(j, i)

(* A thread has counted but not yet appended.                              *)
Ahead(j, t) == IF t \in DOMAIN j.kids THEN IF j.kids[t].pc \in {"read", "append"} THEN 1 ELSE 0 ELSE 0

Below(j, t, n) == \A i \in DOMAIN j.events : j.events[i].tool = t => j.events[i].number < n

InOrder(j) ==
    \A i \in DOMAIN j.events :
        /\ j.events[i].number <= j.number
        /\ j.events[i].number - i < IF j.steps = Parallel THEN 2 ELSE 1
        /\ \A k \in 1 .. i - 1 : j.events[k].tool = j.events[i].tool => j.events[k].number < j.events[i].number

Numbered(j) ==
    /\ j.number = Len(j.events) + Ahead(j, "search.docs") + Ahead(j, "time.now")
    /\ InOrder(j)
    /\ \A t \in DOMAIN j.kids :
          /\ j.kids[t].pc = "read" => Below(j, t, j.number)
          /\ j.kids[t].pc = "append" => j.kids[t].number <= j.number /\ Below(j, t, j.kids[t].number)

JobOk(j) == Shaped(j) /\ ReportsOf(j) /\ Numbered(j)

JobsInv == \A c \in Callers : JobOk(job[c])


-----------------------------------------------------------------------------
(* Sequences and records.                                                  *)

LEMMA AppendFacts ==
    ASSUME NEW S, NEW s \in Seq(S), NEW e \in S
    PROVE  /\ Append(s, e) \in Seq(S) /\ Len(s) \in Nat /\ Len(Append(s, e)) = Len(s) + 1
           /\ DOMAIN s = 1 .. Len(s) /\ DOMAIN Append(s, e) = 1 .. Len(s) + 1
           /\ \A i \in 1 .. Len(s) : Append(s, e)[i] = s[i]
           /\ Append(s, e)[Len(s) + 1] = e
  OBVIOUS

LEMMA PlansAre ==
    /\ Len(Sequential) = 5 /\ Len(Parallel) = 4 /\ Sequential # Parallel
    /\ Sequential # <<>> /\ Parallel # <<>>
    /\ \A p \in Plans : \A i \in 1 .. Len(p) : p[i] \subseteq Asked
  BY DEF Plans, Sequential, Parallel, Asked

LEMMA KidsOf ==
    ASSUME NEW j \in Jobs
    PROVE  /\ DOMAIN j.kids \subseteq Asked
           /\ j.kids \in [DOMAIN j.kids -> Kids]
           /\ \A t \in DOMAIN j.kids : j.kids[t] \in Kids
  <1>1. j.kids \in UNION {[S -> Kids] : S \in SUBSET Asked}
    BY DEF Jobs, Children
  <1> QED BY <1>1

LEMMA SomeKids ==
    ASSUME NEW S \in SUBSET Asked, NEW f \in [S -> Kids]
    PROVE  f \in Children
  BY DEF Children

LEMMA NoKidsAre ==
    /\ NoKids \in Children
    /\ DOMAIN NoKids = {}
  BY DEF NoKids, Children

LEMMA NoJobIs ==
    /\ NoJob \in Jobs
    /\ NoJob.pc = "idle" /\ NoJob.id = 0 /\ NoJob.steps = <<>> /\ NoJob.results = <<>> /\ NoJob.events = <<>>
    /\ NoJob.kids = NoKids /\ NoJob.number = 0 /\ NoJob.attempts = 0
  <1>1. /\ NoJob.pc = "idle" /\ NoJob.id = 0 /\ NoJob.steps = <<>> /\ NoJob.results = <<>> /\ NoJob.events = <<>>
        /\ NoJob.kids = NoKids /\ NoJob.number = 0 /\ NoJob.attempts = 0
    BY DEF NoJob
  <1>2. 0 \in 0 .. MaxJobs /\ 0 \in 0 .. Retries + 1
    BY RunsAssumption
  <1>3. << >> \in Seq(Results) /\ << >> \in Seq(Events)
    OBVIOUS
  <1>4. NoJob \in Jobs
    BY <1>2, <1>3, NoKidsAre DEF NoJob, Jobs
  <1> QED BY <1>1, <1>4

(* What an action that only moves on one job leaves behind.                *)
LEMMA Stepped ==
    ASSUME RunsTypeOK, NEW c \in Callers, NEW k \in Jobs, Step(c, k)
    PROVE  /\ job' \in [Callers -> Jobs] /\ job'[c] = k
           /\ \A d \in Callers \ {c} : job'[d] = job[d]
  BY DEF RunsTypeOK, Step

LEMMA CallerJob ==
    ASSUME RunsTypeOK, NEW c \in Callers
    PROVE  job[c] \in Jobs
  BY DEF RunsTypeOK

LEMMA EmitIs ==
    ASSUME NEW j \in Jobs, NEW kind \in {"agent.start", "policy.check", "tool.call", "model.tokens"},
           NEW t \in Tools \cup Asked \cup {NoTool}
    PROVE  /\ Emit(j, kind, t) \in Jobs
           /\ Emit(j, kind, t).number = j.number + 1
           /\ Emit(j, kind, t).events = Append(j.events, [kind |-> kind, tool |-> t, number |-> j.number + 1])
           /\ Emit(j, kind, t).pc = j.pc /\ Emit(j, kind, t).id = j.id /\ Emit(j, kind, t).policy = j.policy
           /\ Emit(j, kind, t).steps = j.steps /\ Emit(j, kind, t).results = j.results
           /\ Emit(j, kind, t).kids = j.kids /\ Emit(j, kind, t).attempts = j.attempts
           /\ Emit(j, kind, t).tool = j.tool
  <1>1. PICK e : e = [kind |-> kind, tool |-> t, number |-> j.number + 1]
    OBVIOUS
  <1>2. j.number \in Nat /\ j.events \in Seq(Events)
    BY DEF Jobs
  <1>3. e \in Events
    BY <1>1, <1>2 DEF Events
  <1>4. PICK s : s = Append(j.events, e)
    OBVIOUS
  <1>5. s \in Seq(Events)
    BY <1>2, <1>3, <1>4
  <1>6. Emit(j, kind, t) = [j EXCEPT !.number = j.number + 1, !.events = s]
    BY <1>1, <1>4 DEF Emit, Jobs
  <1> HIDE <1>1, <1>4
  <1>7. Emit(j, kind, t) \in Jobs
    <2>1. j.number + 1 \in Nat
      BY <1>2
    <2>2. PICK n \in Nat : n = j.number + 1
      BY <2>1
    <2>3. Emit(j, kind, t) = [j EXCEPT !.number = n, !.events = s]
      BY <1>6, <2>2
    <2> QED BY <1>5, <2>3 DEF Jobs
  <1>8. Emit(j, kind, t).number = j.number + 1 /\ Emit(j, kind, t).events = s
    BY <1>6 DEF Jobs
  <1>9. /\ Emit(j, kind, t).pc = j.pc /\ Emit(j, kind, t).id = j.id /\ Emit(j, kind, t).policy = j.policy
        /\ Emit(j, kind, t).steps = j.steps /\ Emit(j, kind, t).results = j.results
        /\ Emit(j, kind, t).kids = j.kids /\ Emit(j, kind, t).attempts = j.attempts
        /\ Emit(j, kind, t).tool = j.tool
    BY <1>6 DEF Jobs
  <1> QED BY <1>1, <1>4, <1>7, <1>8, <1>9

-----------------------------------------------------------------------------
(* What each action makes of a job.                                        *)

RunMoves(j, k) ==
    /\ k.id = j.id /\ k.policy = j.policy /\ k.steps = j.steps /\ k.results = j.results /\ k.kids = j.kids

Logs(j, k) ==
    \E e \in Events :
        k.events = Append(j.events, e) /\ e.number = j.number + 1 /\ k.number = j.number + 1

LEMMA EmitMoves ==
    ASSUME NEW j \in Jobs, NEW kind \in {"agent.start", "policy.check", "tool.call", "model.tokens"},
           NEW t \in Tools \cup Asked \cup {NoTool}, NEW pc \in RunPcs, NEW k, k = [Emit(j, kind, t) EXCEPT !.pc = pc]
    PROVE  k \in Jobs /\ k.pc = pc /\ RunMoves(j, k) /\ Logs(j, k)
  <1>1. PICK m : m = Emit(j, kind, t)
    OBVIOUS
  <1>2. PICK e : e = [kind |-> kind, tool |-> t, number |-> j.number + 1]
    OBVIOUS
  <1>3. /\ m \in Jobs /\ m.number = j.number + 1 /\ m.events = Append(j.events, e) /\ RunMoves(j, m)
    BY <1>1, <1>2, EmitIs DEF RunMoves
  <1>4. e \in Events /\ e.number = j.number + 1
    <2>1. j.number \in Nat
      BY DEF Jobs
    <2> QED BY <1>2, <2>1 DEF Events
  <1>5. k = [m EXCEPT !.pc = pc]
    BY <1>1
  <1> HIDE <1>1, <1>2
  <1>6. k \in Jobs /\ k.pc = pc /\ RunMoves(m, k) /\ k.events = m.events /\ k.number = m.number
    BY <1>3, <1>5 DEF Jobs, RunMoves
  <1> QED BY <1>3, <1>4, <1>6 DEF RunMoves, Logs

LEMMA ToolJob ==
    ASSUME RunsTypeOK, NEW c \in Callers, CheckTool(c) \/ CallTool(c) \/ AskModel(c)
    PROVE  \E k \in Jobs :
              /\ Step(c, k) /\ job[c].pc \in {"check", "call", "ask"}
              /\ k = NoJob \/ (k.pc \in {"call", "ask", "user"} /\ RunMoves(job[c], k) /\ Logs(job[c], k))
  <1>1. job[c] \in Jobs /\ job[c].tool \in Tools \cup Asked \cup {NoTool}
    BY CallerJob DEF Jobs
  <1>2. CASE CheckTool(c)
    <2>1. job[c].pc = "check"
      BY <1>2 DEF CheckTool, At
    <2>2. CASE Step(c, [Emit(job[c], "policy.check", job[c].tool) EXCEPT !.pc = "call"])
      <3>1. PICK k : k = [Emit(job[c], "policy.check", job[c].tool) EXCEPT !.pc = "call"]
        OBVIOUS
      <3>2. k \in Jobs /\ k.pc = "call" /\ RunMoves(job[c], k) /\ Logs(job[c], k)
        BY <1>1, <3>1, EmitMoves DEF RunPcs
      <3> QED BY <2>1, <2>2, <3>1, <3>2
    <2> QED BY <1>2, <2>1, <2>2, NoJobIs DEF CheckTool, Fails
  <1>3. CASE CallTool(c)
    <2>1. job[c].pc = "call" /\ Step(c, [Emit(job[c], "tool.call", job[c].tool) EXCEPT !.pc = "ask"])
      BY <1>3 DEF CallTool, At
    <2>2. PICK k : k = [Emit(job[c], "tool.call", job[c].tool) EXCEPT !.pc = "ask"]
      OBVIOUS
    <2>3. k \in Jobs /\ k.pc = "ask" /\ RunMoves(job[c], k) /\ Logs(job[c], k)
      BY <1>1, <2>2, EmitMoves DEF RunPcs
    <2> QED BY <2>1, <2>2, <2>3
  <1>4. CASE AskModel(c)
    <2>1. job[c].pc = "ask"
      BY <1>4 DEF AskModel, At
    <2>2. CASE Step(c, [Emit(job[c], "model.tokens", NoTool) EXCEPT !.pc = "user"])
      <3>1. PICK k : k = [Emit(job[c], "model.tokens", NoTool) EXCEPT !.pc = "user"]
        OBVIOUS
      <3>2. k \in Jobs /\ k.pc = "user" /\ RunMoves(job[c], k) /\ Logs(job[c], k)
        BY <1>1, <3>1, EmitMoves DEF RunPcs
      <3> QED BY <2>1, <2>2, <3>1, <3>2
    <2> QED BY <1>4, <2>1, <2>2, NoJobIs DEF AskModel, Fails
  <1> QED BY <1>2, <1>3, <1>4

LEMMA RememberJob ==
    ASSUME RunsTypeOK, NEW c \in Callers, NEW role \in Roles, NEW next \in RunPcs, Remember(c, role, next)
    PROVE  \E k \in Jobs :
              /\ Step(c, k) /\ job[c].pc = role
              /\ \/ k = NoJob /\ memory' = Appended(job[c], Cut) /\ broken' = broken
                 \/ /\ k.pc = next /\ RunMoves(job[c], k) /\ k.events = job[c].events /\ k.number = job[c].number
                    /\ memory' = Appended(job[c], <<job[c].id, role>>)
                    /\ broken' = IF memory' = memory THEN broken \cup {job[c].id} ELSE broken
  <1>1. job[c] \in Jobs /\ job[c].pc = role
    BY CallerJob DEF Remember, At
  <1>2. PICK k : k = [job[c] EXCEPT !.pc = next]
    OBVIOUS
  <1>3. /\ k \in Jobs /\ k.pc = next /\ RunMoves(job[c], k) /\ k.events = job[c].events /\ k.number = job[c].number
    BY <1>1, <1>2 DEF Jobs, RunMoves
  <1>4. \/ Step(c, NoJob) /\ memory' = Appended(job[c], Cut) /\ broken' = broken
        \/ /\ Step(c, k) /\ memory' = Appended(job[c], <<job[c].id, role>>)
           /\ broken' = IF memory' = memory THEN broken \cup {job[c].id} ELSE broken
    BY <1>2 DEF Remember, Fails
  <1> QED BY <1>1, <1>3, <1>4, NoJobIs

(* A command that begins takes the next id.                                *)
Begins(k) ==
    /\ k.id = jobs + 1 /\ k.results = <<>> /\ k.kids = NoKids /\ k.attempts = 0
    /\ \/ k.pc \in {"ask", "check"} /\ k.steps = <<>> /\ Logs(NoJob, k)
       \/ k.pc = "step" /\ k.steps \in Plans /\ k.events = <<>> /\ k.number = 0

LEMMA MakesRuntime ==
    ASSUME RunsTypeOK, NEW c \in Callers, NEW policy \in AllPolicies, NEW j \in Jobs, NEW weight \in Nat \ {0},
           MakeRuntime(c, policy, j, weight)
    PROVE  /\ job[c].pc \in Over /\ jobs + 1 \in 1 .. MaxJobs
           /\ jobs' \in jobs + 1 .. MaxJobs
           /\ \E k \in Jobs :
                 /\ Step(c, k)
                 /\ k = NoJob \/ (/\ k.id = jobs + 1 /\ k.pc = j.pc /\ k.steps = j.steps /\ k.results = j.results
                                  /\ k.kids = j.kids /\ k.attempts = j.attempts /\ k.events = j.events
                                  /\ k.number = j.number)
  <1>1. PICK u, v : u = jobs /\ v = jobs'
    OBVIOUS
  <1>2. u \in Nat /\ u + weight <= MaxJobs /\ v = u + weight /\ MaxJobs \in Nat
    BY <1>1, RunsAssumption DEF RunsTypeOK, MakeRuntime
  <1>3. u + 1 \in 1 .. MaxJobs /\ v \in u + 1 .. MaxJobs
    BY <1>2
  <1>4. PICK id \in 1 .. MaxJobs : id = u + 1
    BY <1>3
  <1>5. id \in 0 .. MaxJobs
    OBVIOUS
  <1>6. PICK k : k = [j EXCEPT !.id = id, !.policy = policy]
    OBVIOUS
  <1>7. /\ k \in Jobs /\ k.id = id /\ k.pc = j.pc /\ k.steps = j.steps /\ k.results = j.results
        /\ k.kids = j.kids /\ k.attempts = j.attempts /\ k.events = j.events /\ k.number = j.number
    BY <1>5, <1>6 DEF Jobs
  <1>8. Step(c, NoJob) \/ Step(c, k)
    BY <1>1, <1>4, <1>6 DEF MakeRuntime
  <1>9. job[c].pc \in Over
    BY DEF MakeRuntime
  <1> QED BY <1>1, <1>3, <1>4, <1>7, <1>8, <1>9, NoJobIs

LEMMA BeginJob ==
    ASSUME RunsTypeOK, NEW c \in Callers, BeginRun(c) \/ BeginWorkflow(c)
    PROVE  /\ job[c].pc \in Over /\ jobs' \in jobs + 1 .. MaxJobs
           /\ \E k \in Jobs : Step(c, k) /\ (k = NoJob \/ Begins(k))
           /\ UNCHANGED <<memory, full, wipes, ended, broken>>
  <1>0. UNCHANGED <<memory, full, wipes, ended, broken>>
    BY DEF BeginRun, BeginWorkflow, MakeRuntime
  <1>1. CASE BeginRun(c)
    <2>1. PICK policy \in Policies, t \in Tools \cup {NoTool} :
             MakeRuntime(c, policy, [Emit(NoJob, "agent.start", NoTool) EXCEPT
                                       !.pc = IF t = NoTool THEN "ask" ELSE "check", !.tool = t], 1)
      BY <1>1 DEF BeginRun
    <2>2. PICK pc : pc = IF t = NoTool THEN "ask" ELSE "check"
      OBVIOUS
    <2>3. PICK m : m = [Emit(NoJob, "agent.start", NoTool) EXCEPT !.pc = pc]
      OBVIOUS
    <2>4. m \in Jobs /\ m.pc = pc /\ RunMoves(NoJob, m) /\ Logs(NoJob, m) /\ m.attempts = 0
      <3>1. PICK e : e = Emit(NoJob, "agent.start", NoTool)
        OBVIOUS
      <3>2. e \in Jobs /\ e.attempts = 0
        BY <3>1, EmitIs, NoJobIs
      <3>3. m.attempts = 0
        BY <2>3, <3>1, <3>2 DEF Jobs
      <3> QED BY <2>2, <2>3, <3>3, EmitMoves, NoJobIs DEF RunPcs
    <2>5. PICK j : j = [m EXCEPT !.tool = t]
      OBVIOUS
    <2>6. /\ j \in Jobs /\ j.pc = pc /\ j.steps = m.steps /\ j.results = m.results /\ j.kids = m.kids
          /\ j.attempts = m.attempts /\ j.events = m.events /\ j.number = m.number
      BY <2>4, <2>5 DEF Jobs
    <2>7. j = [Emit(NoJob, "agent.start", NoTool) EXCEPT !.pc = IF t = NoTool THEN "ask" ELSE "check", !.tool = t]
      BY <2>2, <2>3, <2>5
    <2>8. MakeRuntime(c, policy, j, 1) /\ policy \in AllPolicies
      BY <2>1, <2>7 DEF AllPolicies
    <2>9. PICK k \in Jobs : Step(c, k) /\ (k = NoJob \/ (/\ k.id = jobs + 1 /\ k.pc = j.pc /\ k.steps = j.steps
                                                       /\ k.results = j.results /\ k.kids = j.kids
                                                       /\ k.attempts = j.attempts /\ k.events = j.events
                                                       /\ k.number = j.number))
      BY <2>6, <2>8, MakesRuntime
    <2>10. k = NoJob \/ Begins(k)
      BY <2>2, <2>4, <2>6, <2>9, NoJobIs DEF Begins, RunMoves, Logs
    <2> QED BY <1>0, <2>6, <2>8, <2>9, <2>10, MakesRuntime
  <1>2. CASE BeginWorkflow(c)
    <2>1. PICK policy \in Policies, steps \in {Sequential, Parallel} :
             MakeRuntime(c, [policy EXCEPT !.allowed_tools = Asked],
                         [NoJob EXCEPT !.pc = "step", !.steps = steps], Weight)
      BY <1>2 DEF BeginWorkflow, Asked
    <2>2. PICK q : q = [policy EXCEPT !.allowed_tools = Asked]
      OBVIOUS
    <2>3. q \in AllPolicies /\ Weight \in Nat \ {0}
      BY <2>2, RunsAssumption DEF AllPolicies
    <2>4. PICK j : j = [NoJob EXCEPT !.pc = "step", !.steps = steps]
      OBVIOUS
    <2>5. /\ j \in Jobs /\ j.pc = "step" /\ j.steps = steps /\ j.results = <<>> /\ j.kids = NoKids
          /\ j.attempts = 0 /\ j.events = <<>> /\ j.number = 0
      BY <2>4, NoJobIs DEF Jobs, Plans, FlowPcs
    <2>6. MakeRuntime(c, q, j, Weight)
      BY <2>1, <2>2, <2>4
    <2>7. PICK k \in Jobs : Step(c, k) /\ (k = NoJob \/ (/\ k.id = jobs + 1 /\ k.pc = j.pc /\ k.steps = j.steps
                                                       /\ k.results = j.results /\ k.kids = j.kids
                                                       /\ k.attempts = j.attempts /\ k.events = j.events
                                                       /\ k.number = j.number))
      BY <2>3, <2>5, <2>6, MakesRuntime
    <2>8. k = NoJob \/ Begins(k)
      BY <2>5, <2>7 DEF Begins, Plans
    <2> QED BY <1>0, <2>3, <2>5, <2>6, <2>7, <2>8, MakesRuntime
  <1> QED BY <1>1, <1>2

(* One child of an attempt moves on.                                       *)
KidMoves(j, k, t, kid) ==
    /\ k.pc = j.pc /\ k.id = j.id /\ k.policy = j.policy /\ k.steps = j.steps
    /\ k.results = j.results /\ k.attempts = j.attempts
    /\ DOMAIN k.kids = DOMAIN j.kids /\ k.kids[t] = kid
    /\ \A u \in DOMAIN j.kids \ {t} : k.kids[u] = j.kids[u]

LEMMA KidJob ==
    ASSUME NEW j \in Jobs, NEW t \in DOMAIN j.kids, NEW kid \in Kids
    PROVE  \E k \in Jobs : /\ k = [j EXCEPT !.kids[t] = kid] /\ KidMoves(j, k, t, kid)
                           /\ k.events = j.events /\ k.number = j.number
  <1>1. PICK S \in SUBSET Asked : S = DOMAIN j.kids
    BY KidsOf
  <1>2. PICK f : f = [j.kids EXCEPT ![t] = kid]
    OBVIOUS
  <1>3. j.kids \in [S -> Kids] /\ t \in S
    BY <1>1, KidsOf
  <1>4. f \in [S -> Kids] /\ f[t] = kid /\ \A u \in S \ {t} : f[u] = j.kids[u]
    BY <1>2, <1>3
  <1>5. f \in Children /\ DOMAIN f = S
    BY <1>4, SomeKids
  <1>6. PICK k : k = [j EXCEPT !.kids = f]
    OBVIOUS
  <1>7. k = [j EXCEPT !.kids[t] = kid]
    BY <1>2, <1>6 DEF Jobs
  <1> HIDE <1>2
  <1>8. /\ k \in Jobs /\ k.kids = f /\ k.events = j.events /\ k.number = j.number
        /\ k.pc = j.pc /\ k.id = j.id /\ k.policy = j.policy /\ k.steps = j.steps
        /\ k.results = j.results /\ k.attempts = j.attempts
    BY <1>5, <1>6 DEF Jobs
  <1> QED BY <1>1, <1>4, <1>5, <1>7, <1>8 DEF KidMoves

LEMMA CountJob ==
    ASSUME RunsTypeOK, NEW c \in Callers, NEW t \in Tools, CountEvent(c, t)
    PROVE  /\ job[c].pc = "attempt" /\ t \in DOMAIN job[c].kids /\ job[c].kids[t].pc = "count"
           /\ \E k \in Jobs, kid \in Kids :
                 /\ Step(c, k) /\ KidMoves(job[c], k, t, kid)
                 /\ kid.pc = "read" /\ kid.kind = job[c].kids[t].kind
                 /\ k.events = job[c].events /\ k.number = job[c].number + 1
  <1>1. PICK j : j = job[c]
    OBVIOUS
  <1>2. j \in Jobs /\ j.pc = "attempt" /\ t \in DOMAIN j.kids /\ j.kids[t].pc = "count"
    BY <1>1, CallerJob DEF CountEvent, KidAt, At
  <1>3. j.kids[t] \in Kids
    BY <1>2, KidsOf
  <1>4. PICK kid : kid = [j.kids[t] EXCEPT !.pc = "read"]
    OBVIOUS
  <1>5. kid \in Kids /\ kid.pc = "read" /\ kid.kind = j.kids[t].kind
    BY <1>3, <1>4 DEF Kids
  <1>6. PICK m \in Jobs : /\ m = [j EXCEPT !.kids[t] = kid] /\ KidMoves(j, m, t, kid)
                          /\ m.events = j.events /\ m.number = j.number
    BY <1>2, <1>5, KidJob
  <1>7. PICK n \in Nat : n = j.number + 1
    BY <1>2 DEF Jobs
  <1>8. PICK k : k = [m EXCEPT !.number = n]
    OBVIOUS
  <1>9. Step(c, k)
    <2>1. Step(c, [m EXCEPT !.number = @ + 1])
      BY <1>1, <1>4, <1>6 DEF CountEvent, Kid
    <2>2. [m EXCEPT !.number = @ + 1] = [m EXCEPT !.number = n]
      BY <1>6, <1>7
    <2> QED BY <1>8, <2>1, <2>2
  <1> HIDE <1>4, <1>6
  <1>10. k \in Jobs /\ k.number = n /\ k.events = m.events /\ KidMoves(j, k, t, kid)
    BY <1>6, <1>8 DEF Jobs, KidMoves
  <1> QED BY <1>1, <1>2, <1>5, <1>6, <1>7, <1>9, <1>10

LEMMA ReadJob ==
    ASSUME RunsTypeOK, NEW c \in Callers, NEW t \in Tools, ReadCount(c, t)
    PROVE  /\ job[c].pc = "attempt" /\ t \in DOMAIN job[c].kids /\ job[c].kids[t].pc = "read"
           /\ \E k \in Jobs, kid \in Kids :
                 /\ Step(c, k) /\ KidMoves(job[c], k, t, kid)
                 /\ kid.pc = "append" /\ kid.kind = job[c].kids[t].kind /\ kid.number = job[c].number
                 /\ k.events = job[c].events /\ k.number = job[c].number
  <1>1. PICK j : j = job[c]
    OBVIOUS
  <1>2. j \in Jobs /\ j.pc = "attempt" /\ t \in DOMAIN j.kids /\ j.kids[t].pc = "read"
    BY <1>1, CallerJob DEF ReadCount, KidAt, At
  <1>3. j.kids[t] \in Kids /\ j.number \in Nat
    BY <1>2, KidsOf DEF Jobs
  <1>4. PICK kid : kid = [j.kids[t] EXCEPT !.pc = "append", !.number = j.number]
    OBVIOUS
  <1>5. kid \in Kids /\ kid.pc = "append" /\ kid.kind = j.kids[t].kind /\ kid.number = j.number
    BY <1>3, <1>4 DEF Kids
  <1>6. PICK k \in Jobs : /\ k = [j EXCEPT !.kids[t] = kid] /\ KidMoves(j, k, t, kid)
                          /\ k.events = j.events /\ k.number = j.number
    BY <1>2, <1>5, KidJob
  <1>7. Step(c, k)
    BY <1>1, <1>4, <1>6 DEF ReadCount, Kid
  <1> QED BY <1>1, <1>2, <1>5, <1>6, <1>7

(* The event is appended, and the child is where its check or its call     *)
(* leaves it.                                                              *)
AppendOutcome(j, t, kid) ==
    \/ /\ j.kids[t].kind = "policy.check" /\ Allowed(j.policy, t) /\ kid.pc = "count" /\ kid.kind = "tool.call"
    \/ /\ j.kids[t].kind = "policy.check" /\ ~Allowed(j.policy, t)
       /\ kid.pc = "over" /\ kid.kind = "policy.check" /\ ~kid.ok
    \/ j.kids[t].kind = "tool.call" /\ kid.pc = "over" /\ kid.kind = "tool.call"

LEMMA AppendJob ==
    ASSUME RunsTypeOK, NEW c \in Callers, NEW t \in Tools, AppendEvent(c, t)
    PROVE  /\ job[c].pc = "attempt" /\ t \in DOMAIN job[c].kids /\ job[c].kids[t].pc = "append"
           /\ \E k \in Jobs, kid \in Kids, e \in Events :
                 /\ Step(c, k) /\ KidMoves(job[c], k, t, kid) /\ AppendOutcome(job[c], t, kid)
                 /\ e = [kind |-> job[c].kids[t].kind, tool |-> t, number |-> job[c].kids[t].number]
                 /\ k.events = Append(job[c].events, e) /\ k.number = job[c].number
  <1>1. PICK j : j = job[c]
    OBVIOUS
  <1>2. j \in Jobs /\ j.pc = "attempt" /\ t \in DOMAIN j.kids /\ j.kids[t].pc = "append"
    BY <1>1, CallerJob DEF AppendEvent, KidAt, At
  <1>3. PICK q : q = j.kids[t]
    OBVIOUS
  <1>4. q \in Kids /\ j.events \in Seq(Events)
    BY <1>2, <1>3, KidsOf DEF Jobs
  <1>5. PICK e : e = [kind |-> q.kind, tool |-> t, number |-> q.number]
    OBVIOUS
  <1>6. e \in Events
    BY <1>4, <1>5 DEF Events, Kids
  <1>7. PICK kid \in Kids : /\ AppendOutcome(j, t, kid)
                            /\ Step(c, [[j EXCEPT !.kids[t] = kid] EXCEPT !.events = Append(@, e)])
    <2>1. CASE q.kind = "policy.check" /\ Allowed(j.policy, t)
      <3>1. PICK kid : kid = [q EXCEPT !.pc = "count", !.kind = "tool.call"]
        OBVIOUS
      <3>2. kid \in Kids /\ kid.pc = "count" /\ kid.kind = "tool.call"
        BY <1>4, <3>1 DEF Kids
      <3>3. Step(c, [[j EXCEPT !.kids[t] = kid] EXCEPT !.events = Append(@, e)])
        BY <1>1, <1>3, <1>5, <2>1, <3>1 DEF AppendEvent, Kid
      <3> QED BY <1>3, <2>1, <3>2, <3>3 DEF AppendOutcome
    <2>2. CASE q.kind = "policy.check" /\ ~Allowed(j.policy, t)
      <3>1. PICK kid : kid = [q EXCEPT !.pc = "over", !.ok = FALSE]
        OBVIOUS
      <3>2. kid \in Kids /\ kid.pc = "over" /\ kid.kind = "policy.check" /\ ~kid.ok
        BY <1>4, <2>2, <3>1 DEF Kids
      <3>3. Step(c, [[j EXCEPT !.kids[t] = kid] EXCEPT !.events = Append(@, e)])
        BY <1>1, <1>3, <1>5, <2>2, <3>1 DEF AppendEvent, Kid
      <3> QED BY <1>3, <2>2, <3>2, <3>3 DEF AppendOutcome
    <2>3. CASE q.kind = "tool.call"
      <3>1. PICK ok \in {TRUE, ~MaySlow(j)} :
               Step(c, [[j EXCEPT !.kids[t] = [q EXCEPT !.pc = "over", !.ok = ok]] EXCEPT !.events = Append(@, e)])
        BY <1>1, <1>3, <1>5, <2>3 DEF AppendEvent, Kid
      <3>2. ok \in BOOLEAN
        BY DEF MaySlow
      <3>3. PICK kid : kid = [q EXCEPT !.pc = "over", !.ok = ok]
        OBVIOUS
      <3>4. kid \in Kids /\ kid.pc = "over" /\ kid.kind = "tool.call"
        BY <1>4, <2>3, <3>2, <3>3 DEF Kids
      <3> QED BY <1>3, <2>3, <3>1, <3>3, <3>4 DEF AppendOutcome
    <2> QED BY <1>4, <2>1, <2>2, <2>3 DEF Kids
  <1>8. PICK m \in Jobs : /\ m = [j EXCEPT !.kids[t] = kid] /\ KidMoves(j, m, t, kid)
                          /\ m.events = j.events /\ m.number = j.number
    BY <1>2, <1>7, KidJob
  <1>9. PICK s : s = Append(j.events, e)
    OBVIOUS
  <1>10. s \in Seq(Events)
    BY <1>4, <1>6, <1>9
  <1>11. PICK k : k = [m EXCEPT !.events = s]
    OBVIOUS
  <1>12. Step(c, k)
    <2>1. [m EXCEPT !.events = Append(@, e)] = [m EXCEPT !.events = s]
      BY <1>8, <1>9
    <2> QED BY <1>7, <1>8, <1>11, <2>1
  <1> HIDE <1>8, <1>9
  <1>13. k \in Jobs /\ k.events = s /\ k.number = m.number /\ KidMoves(j, k, t, kid)
    BY <1>8, <1>10, <1>11 DEF Jobs, KidMoves
  <1> QED BY <1>1, <1>2, <1>3, <1>5, <1>6, <1>7, <1>8, <1>9, <1>12, <1>13

LEMMA AttemptJob ==
    ASSUME RunsTypeOK, NEW c \in Callers, Shaped(job[c]), BeginAttempt(c)
    PROVE  /\ job[c].pc = "step"
           /\ \E k \in Jobs :
                 /\ Step(c, k) /\ k.pc = "attempt" /\ k.id = job[c].id /\ k.policy = job[c].policy
                 /\ k.steps = job[c].steps /\ k.results = job[c].results
                 /\ k.attempts = job[c].attempts + 1 /\ k.attempts \in 1 .. Retries + 1
                 /\ DOMAIN k.kids = Current(job[c]) /\ \A t \in DOMAIN k.kids : k.kids[t] = NewKid
                 /\ k.events = job[c].events /\ k.number = job[c].number
  <1>1. PICK j : j = job[c]
    OBVIOUS
  <1>2. /\ j \in Jobs /\ j.pc = "step" /\ Shaped(j)
        /\ Step(c, [j EXCEPT !.pc = "attempt", !.attempts = @ + 1, !.kids = [t \in Current(j) |-> NewKid]])
    BY <1>1, CallerJob DEF BeginAttempt, At
  <1>3. Current(j) \in SUBSET Asked
    <2>1. j.steps \in Plans \cup {<<>>} /\ j.steps # <<>> /\ j.results \in Seq(Results) /\ Len(j.results) < Len(j.steps)
      BY <1>2 DEF Shaped, FlowPcs, Jobs
    <2>2. Len(j.results) + 1 \in 1 .. Len(j.steps)
      BY <2>1, PlansAre DEF Plans
    <2> QED BY <2>1, <2>2, PlansAre DEF Current
  <1>4. PICK n \in 1 .. Retries + 1 : n = j.attempts + 1
    <2>1. j.attempts \in 0 .. Retries + 1 /\ j.attempts <= Retries
      BY <1>2 DEF Shaped, Jobs
    <2>2. j.attempts + 1 \in 1 .. Retries + 1
      BY <2>1, RunsAssumption
    <2> QED BY <2>2
  <1>5. n \in 0 .. Retries + 1
    OBVIOUS
  <1>6. PICK f : f = [t \in Current(j) |-> NewKid]
    OBVIOUS
  <1>7. NewKid \in Kids
    BY DEF NewKid, Kids
  <1>8. f \in [Current(j) -> Kids] /\ DOMAIN f = Current(j) /\ \A t \in Current(j) : f[t] = NewKid
    BY <1>6, <1>7
  <1>9. f \in Children
    BY <1>3, <1>8, SomeKids
  <1>10. PICK k : k = [j EXCEPT !.pc = "attempt", !.attempts = n, !.kids = f]
    OBVIOUS
  <1>11. Step(c, k)
    BY <1>2, <1>4, <1>6, <1>10
  <1> HIDE <1>6
  <1>12. /\ k \in Jobs /\ k.pc = "attempt" /\ k.id = j.id /\ k.policy = j.policy /\ k.steps = j.steps
         /\ k.results = j.results /\ k.attempts = n /\ k.kids = f /\ k.events = j.events /\ k.number = j.number
    BY <1>2, <1>5, <1>9, <1>10 DEF Jobs, FlowPcs
  <1> QED BY <1>1, <1>2, <1>4, <1>8, <1>11, <1>12

(* An attempt ends with the step's result, or leaves it to be tried again. *)
Passes(j, k, r) ==
    /\ r.attempts = j.attempts /\ k.results = Append(j.results, r) /\ k.attempts = 0 /\ k.kids = NoKids
    /\ k.pc = IF Len(j.results) + 1 = Len(j.steps) THEN "done" ELSE "step"
    /\ IF r.ok THEN \A t \in DOMAIN j.kids : j.kids[t].ok ELSE j.attempts > Retries

LEMMA EndJob ==
    ASSUME RunsTypeOK, NEW c \in Callers, Shaped(job[c]), EndAttempt(c)
    PROVE  /\ job[c].pc = "attempt" /\ AttemptOver(job[c])
           /\ \E k \in Jobs :
                 /\ Step(c, k) /\ k.id = job[c].id /\ k.policy = job[c].policy /\ k.steps = job[c].steps
                 /\ k.events = job[c].events /\ k.number = job[c].number
                 /\ \/ \E r \in Results : Passes(job[c], k, r)
                    \/ /\ k.pc = "step" /\ k.results = job[c].results /\ k.attempts = job[c].attempts
                       /\ k.kids = job[c].kids /\ ~(k.attempts > Retries)
  <1>1. PICK j : j = job[c]
    OBVIOUS
  <1>2. j \in Jobs /\ j.pc = "attempt" /\ AttemptOver(j) /\ Shaped(j)
    BY <1>1, CallerJob DEF EndAttempt, At
  <1>3. j.attempts \in 1 .. Retries + 1 /\ j.results \in Seq(Results)
    <2>1. j.attempts \in 0 .. Retries + 1 /\ j.attempts >= 1 /\ j.results \in Seq(Results)
      BY <1>2 DEF Shaped, Jobs
    <2> QED BY <2>1, RunsAssumption
  <1> DEFINE passed(ok) ==
          [j EXCEPT !.results = Append(@, [ok |-> ok, attempts |-> j.attempts]), !.attempts = 0, !.kids = NoKids,
                    !.pc = IF Len(j.results) + 1 = Len(j.steps) THEN "done" ELSE "step"]
  <1>4. ASSUME NEW ok \in BOOLEAN, IF ok THEN \A t \in DOMAIN j.kids : j.kids[t].ok ELSE j.attempts > Retries
        PROVE  /\ passed(ok) \in Jobs /\ \E r \in Results : Passes(j, passed(ok), r)
               /\ passed(ok).id = j.id /\ passed(ok).policy = j.policy /\ passed(ok).steps = j.steps
               /\ passed(ok).events = j.events /\ passed(ok).number = j.number
    <2>1. PICK r : r = [ok |-> ok, attempts |-> j.attempts]
      OBVIOUS
    <2>2. r \in Results /\ r.ok = ok /\ r.attempts = j.attempts
      BY <1>3, <2>1 DEF Results
    <2>3. PICK s : s = Append(j.results, r)
      OBVIOUS
    <2>4. s \in Seq(Results)
      BY <1>3, <2>2, <2>3
    <2>5. PICK pc : pc = IF Len(j.results) + 1 = Len(j.steps) THEN "done" ELSE "step"
      OBVIOUS
    <2>6. PICK k : k = [j EXCEPT !.results = s, !.attempts = 0, !.kids = NoKids, !.pc = pc]
      OBVIOUS
    <2>7. k = passed(ok)
      BY <1>2, <2>1, <2>3, <2>5, <2>6 DEF Jobs
    <2>8. pc \in FlowPcs /\ 0 \in 0 .. Retries + 1
      BY <2>5, RunsAssumption DEF FlowPcs
    <2> HIDE <2>3, <2>5
    <2>9. /\ k \in Jobs /\ k.results = s /\ k.attempts = 0 /\ k.kids = NoKids /\ k.pc = pc
          /\ k.id = j.id /\ k.policy = j.policy /\ k.steps = j.steps /\ k.events = j.events /\ k.number = j.number
      BY <1>2, <2>4, <2>6, <2>8, NoKidsAre DEF Jobs
    <2>10. Passes(j, k, r)
      BY <1>4, <2>2, <2>3, <2>5, <2>9 DEF Passes
    <2> HIDE DEF passed
    <2> QED BY <2>2, <2>7, <2>9, <2>10
  <1>5. CASE (\A t \in DOMAIN j.kids : j.kids[t].ok) /\ Step(c, passed(TRUE))
    <2>1. PICK k : k = passed(TRUE)
      OBVIOUS
    <2> HIDE DEF passed
    <2> QED BY <1>1, <1>2, <1>4, <1>5, <2>1
  <1>6. CASE GivesUp(j) /\ Step(c, passed(FALSE))
    <2>1. PICK k : k = passed(FALSE)
      OBVIOUS
    <2> HIDE DEF passed
    <2> QED BY <1>1, <1>2, <1>4, <1>6, <2>1 DEF GivesUp
  <1>7. CASE ~GivesUp(j) /\ Step(c, [j EXCEPT !.pc = "step"])
    <2>1. PICK k : k = [j EXCEPT !.pc = "step"]
      OBVIOUS
    <2>2. /\ k \in Jobs /\ k.pc = "step" /\ k.results = j.results /\ k.attempts = j.attempts /\ k.kids = j.kids
          /\ k.id = j.id /\ k.policy = j.policy /\ k.steps = j.steps /\ k.events = j.events /\ k.number = j.number
      BY <1>2, <2>1 DEF Jobs, FlowPcs
    <2> QED BY <1>1, <1>2, <1>7, <2>1, <2>2 DEF GivesUp
  <1> QED BY <1>1, <1>5, <1>6, <1>7 DEF EndAttempt

-----------------------------------------------------------------------------
(* Counting events, and their numbers.                                     *)

LEMMA CountsAppend ==
    ASSUME NEW j \in Jobs, NEW k \in Jobs, NEW e \in Events, k.events = Append(j.events, e), NEW kind, NEW t
    PROVE  /\ Happened(j, kind, t) \in Nat
           /\ e.kind = kind /\ e.tool = t => Happened(k, kind, t) = Happened(j, kind, t) + 1
           /\ ~(e.kind = kind /\ e.tool = t) => Happened(k, kind, t) = Happened(j, kind, t)
  <1> DEFINE H(s) == {i \in DOMAIN s : s[i].kind = kind /\ s[i].tool = t}
  <1>1. PICK s, n : s = j.events /\ n = Len(s)
    OBVIOUS
  <1>2. s \in Seq(Events) /\ n \in Nat
    BY <1>1 DEF Jobs
  <1>3. PICK u : u = Append(s, e)
    OBVIOUS
  <1>4. /\ DOMAIN s = 1 .. n /\ DOMAIN u = 1 .. n + 1
        /\ \A i \in 1 .. n : u[i] = s[i]
        /\ u[n + 1] = e
    BY <1>1, <1>2, <1>3, AppendFacts
  <1>5. IsFiniteSet(H(s))
    <2>1. IsFiniteSet(1 .. n)
      BY <1>2, FS_Interval
    <2>2. H(s) \subseteq 1 .. n
      BY <1>4
    <2> QED BY <2>1, <2>2, FS_Subset
  <1>6. n + 1 \notin H(s)
    <2>1. n + 1 \notin 1 .. n
      BY <1>2
    <2> QED BY <1>4, <2>1
  <1>7. e.kind = kind /\ e.tool = t => H(u) = H(s) \cup {n + 1}
    BY <1>2, <1>4
  <1>8. ~(e.kind = kind /\ e.tool = t) => H(u) = H(s)
    BY <1>2, <1>4
  <1>9. Happened(j, kind, t) = Cardinality(H(s)) /\ Happened(k, kind, t) = Cardinality(H(u))
    BY <1>1, <1>3 DEF Happened
  <1> HIDE DEF H
  <1>10. Cardinality(H(s)) \in Nat /\ Cardinality(H(s) \cup {n + 1}) = Cardinality(H(s)) + 1
    BY <1>5, <1>6, FS_AddElement, FS_CardinalityType
  <1> QED BY <1>7, <1>8, <1>9, <1>10

(* An event that is numbered above the earlier ones of its tool, and not   *)
(* too far above its place, keeps the log in order.                        *)
LEMMA OrderAppend ==
    ASSUME NEW j \in Jobs, NEW k \in Jobs, NEW e \in Events, k.events = Append(j.events, e),
           k.steps = j.steps, k.number >= j.number, e.number <= k.number,
           InOrder(j), Below(j, e.tool, e.number),
           e.number - (Len(j.events) + 1) < IF j.steps = Parallel THEN 2 ELSE 1
    PROVE  InOrder(k)
  <1>1. PICK s, n : s = j.events /\ n = Len(s)
    OBVIOUS
  <1>2. s \in Seq(Events) /\ n \in Nat /\ j.number \in Nat /\ k.number \in Nat
    BY <1>1 DEF Jobs
  <1>3. PICK u : u = Append(s, e)
    OBVIOUS
  <1>4. /\ DOMAIN s = 1 .. n /\ DOMAIN u = 1 .. n + 1
        /\ \A i \in 1 .. n : u[i] = s[i] /\ s[i] \in Events
        /\ u[n + 1] = e
    BY <1>1, <1>2, <1>3, AppendFacts
  <1>5. PICK b \in {1, 2} : b = IF j.steps = Parallel THEN 2 ELSE 1
    OBVIOUS
  <1>6. \A i \in 1 .. n : /\ s[i].number <= j.number /\ s[i].number - i < b
                          /\ \A m \in 1 .. i - 1 : s[m].tool = s[i].tool => s[m].number < s[i].number
    BY <1>1, <1>4, <1>5 DEF InOrder
  <1>7. \A i \in 1 .. n : s[i].tool = e.tool => s[i].number < e.number
    BY <1>1, <1>4 DEF Below
  <1>8. \A i \in 1 .. n : s[i].number \in Nat
    BY <1>4 DEF Events
  <1>9. ASSUME NEW i \in 1 .. n
        PROVE  /\ u[i].number <= k.number /\ u[i].number - i < b
               /\ \A m \in 1 .. i - 1 : u[m].tool = u[i].tool => u[m].number < u[i].number
    <2>1. \A m \in 1 .. i - 1 : m \in 1 .. n
      BY <1>2
    <2>2. s[i].number <= k.number
      BY <1>2, <1>6, <1>8
    <2> QED BY <1>4, <1>6, <2>1, <2>2
  <1>10. /\ u[n + 1].number <= k.number /\ u[n + 1].number - (n + 1) < b
         /\ \A m \in 1 .. (n + 1) - 1 : u[m].tool = u[n + 1].tool => u[m].number < u[n + 1].number
    <2>1. (n + 1) - 1 = n
      BY <1>2
    <2> QED BY <1>1, <1>4, <1>5, <1>7, <2>1
  <1>11. \A i \in 1 .. n + 1 : i \in 1 .. n \/ i = n + 1
    BY <1>2
  <1>12. k.events = u /\ k.steps = j.steps
    BY <1>1, <1>3
  <1> QED BY <1>4, <1>5, <1>9, <1>10, <1>11, <1>12 DEF InOrder

(* The next number is above all.                                           *)
LEMMA NextIsAbove ==
    ASSUME NEW j \in Jobs, InOrder(j), NEW t
    PROVE  Below(j, t, j.number + 1)
  <1>1. ASSUME NEW i \in DOMAIN j.events PROVE j.events[i].number < j.number + 1
    <2>1. j.events \in Seq(Events) /\ j.number \in Nat
      BY DEF Jobs
    <2>2. j.events[i] \in Events
      BY <2>1, ElementOfSeq, LenProperties
    <2>3. j.events[i].number \in Nat
      BY <2>2 DEF Events
    <2> QED BY <2>1, <2>3 DEF InOrder
  <1> QED BY <1>1 DEF Below

-----------------------------------------------------------------------------
(* Every action keeps a job's invariant: the runs.                         *)

LEMMA NoJobOk == JobOk(NoJob)
  <1>1. NoJob.kids = NoKids /\ DOMAIN NoJob.kids = {}
    BY NoJobIs, NoKidsAre
  <1>2. Shaped(NoJob)
    BY <1>1, NoJobIs DEF Shaped, FlowPcs
  <1>3. ReportsOf(NoJob)
    BY <1>1, NoJobIs DEF ReportsOf, FlowPcs
  <1>4. Numbered(NoJob)
    BY <1>1, NoJobIs DEF Numbered, Ahead, InOrder
  <1> QED BY <1>2, <1>3, <1>4 DEF JobOk

LEMMA RunJobOk ==
    ASSUME NEW j \in Jobs, NEW k \in Jobs, JobOk(j), j.pc \in RunPcs \cup {"idle"}, k.pc \in RunPcs,
           k.steps = j.steps, k.results = j.results, k.kids = j.kids,
           Logs(j, k) \/ (k.events = j.events /\ k.number = j.number)
    PROVE  JobOk(k)
  <1>1. j.pc \notin FlowPcs /\ k.pc \notin FlowPcs /\ k.pc \notin {"step", "attempt", "done"}
    BY DEF RunPcs, FlowPcs
  <1>2. j.results = <<>> /\ j.kids = NoKids /\ j.steps = <<>> /\ DOMAIN j.kids = {}
    BY <1>1, NoKidsAre DEF JobOk, Shaped
  <1>3. Shaped(k)
    BY <1>1, <1>2 DEF Shaped
  <1>4. ReportsOf(k)
    BY <1>1, <1>2 DEF ReportsOf
  <1>5. Numbered(j) /\ j.number \in Nat /\ Len(j.events) \in Nat /\ j.number = Len(j.events) /\ InOrder(j)
    <2>1. Numbered(j) /\ j.number \in Nat /\ Len(j.events) \in Nat
      BY DEF JobOk, Jobs
    <2> QED BY <1>2, <2>1 DEF Numbered, Ahead
  <1>6. CASE Logs(j, k)
    <2>1. PICK e \in Events : k.events = Append(j.events, e) /\ e.number = j.number + 1 /\ k.number = j.number + 1
      BY <1>6 DEF Logs
    <2>2. Below(j, e.tool, e.number)
      BY <1>5, <2>1, NextIsAbove
    <2>3. Len(k.events) = Len(j.events) + 1
      BY <2>1, AppendFacts DEF Jobs
    <2>4. k.number >= j.number /\ e.number <= k.number /\ e.number - (Len(j.events) + 1) = 0
      BY <1>5, <2>1
    <2>5. InOrder(k)
      BY <1>5, <2>1, <2>2, <2>4, OrderAppend
    <2>6. k.number = Len(k.events)
      BY <1>5, <2>1, <2>3
    <2>7. Numbered(k)
      BY <1>2, <2>5, <2>6 DEF Numbered, Ahead, Jobs
    <2> QED BY <1>3, <1>4, <2>7 DEF JobOk
  <1>7. CASE k.events = j.events /\ k.number = j.number
    <2>1. Numbered(k)
      BY <1>2, <1>5, <1>7 DEF Numbered, Ahead, InOrder
    <2> QED BY <1>3, <1>4, <2>1 DEF JobOk
  <1> QED BY <1>6, <1>7

-----------------------------------------------------------------------------
(* Every action keeps a job's invariant: the workflows.                    *)

LEMMA Silent ==
    ASSUME NEW k, k.events = <<>>, NEW kind, NEW t
    PROVE  Happened(k, kind, t) = 0
  <1>1. {i \in DOMAIN k.events : k.events[i].kind = kind /\ k.events[i].tool = t} = {}
    OBVIOUS
  <1> QED BY <1>1, FS_EmptySet DEF Happened

LEMMA BeginOk ==
    ASSUME NEW k \in Jobs, Begins(k)
    PROVE  JobOk(k)
  <1>1. DOMAIN k.kids = {} /\ k.kids = NoKids /\ k.results = <<>> /\ k.attempts = 0
    BY NoKidsAre DEF Begins
  <1>2. CASE k.pc \in {"ask", "check"} /\ k.steps = <<>> /\ Logs(NoJob, k)
    BY <1>1, <1>2, RunJobOk, NoJobIs, NoJobOk DEF RunPcs
  <1>3. CASE k.pc = "step" /\ k.steps \in Plans /\ k.events = <<>> /\ k.number = 0
    <2>1. Shaped(k)
      BY <1>1, <1>3, PlansAre, RunsAssumption DEF Shaped, FlowPcs, Plans
    <2>2. ASSUME NEW t \in Asked
          PROVE  Tries(k, t) = 0 /\ Checked(k, t) = 0 /\ Called(k, t) = 0
      <3>1. StepOf(k, t) \in {3, 4} /\ Len(k.results) = 0
        BY <1>1 DEF StepOf
      <3> QED BY <1>1, <1>3, <3>1 DEF Tries, Checked, Called, UnderWay
    <2>3. Counted(k)
      BY <1>3, <2>2, Silent DEF Counted
    <2>4. ReportsOf(k)
      BY <1>1, <2>3 DEF ReportsOf
    <2>5. Numbered(k)
      BY <1>1, <1>3 DEF Numbered, Ahead, InOrder
    <2> QED BY <2>1, <2>4, <2>5 DEF JobOk
  <1> QED BY <1>2, <1>3 DEF Begins

LEMMA FlowFacts ==
    ASSUME NEW j \in Jobs, Shaped(j), j.pc \in FlowPcs
    PROVE  /\ j.steps \in Plans /\ j.results \in Seq(Results) /\ Len(j.results) \in Nat
           /\ j.attempts \in Nat /\ Retries \in Nat /\ j.number \in Nat /\ Len(j.events) \in Nat
           /\ \A t \in Asked : StepOf(j, t) \in {3, 4} /\ Tries(j, t) \in Nat
           /\ \A i \in 1 .. Len(j.results) : j.results[i] \in Results /\ j.results[i].attempts \in 1 .. Retries + 1
  <1>1. /\ j.steps \in Plans /\ j.results \in Seq(Results) /\ Len(j.results) \in Nat
        /\ j.attempts \in Nat /\ Retries \in Nat /\ j.number \in Nat /\ Len(j.events) \in Nat
    BY RunsAssumption DEF Shaped, Jobs
  <1>2. \A i \in 1 .. Len(j.results) : j.results[i] \in Results
    BY <1>1, ElementOfSeq
  <1>3. \A i \in 1 .. Len(j.results) : j.results[i].attempts \in 1 .. Retries + 1
    BY <1>2 DEF Results
  <1>4. ASSUME NEW t \in Asked PROVE StepOf(j, t) \in {3, 4} /\ Tries(j, t) \in Nat
    <2>1. PICK i \in {3, 4} : i = StepOf(j, t)
      BY DEF StepOf
    <2>2. i <= Len(j.results) => j.results[i].attempts \in Nat
      BY <1>1, <1>3
    <2>3. j.pc = "attempt" => j.attempts - 1 \in Nat
      BY <1>1 DEF Shaped
    <2> QED BY <1>1, <2>1, <2>2, <2>3 DEF Tries
  <1> QED BY <1>1, <1>2, <1>3, <1>4

LEMMA AttemptOk ==
    ASSUME NEW j \in Jobs, NEW k \in Jobs, JobOk(j), j.pc = "step", k.pc = "attempt", k.policy = j.policy,
           k.steps = j.steps, k.results = j.results, k.attempts = j.attempts + 1,
           DOMAIN k.kids = Current(j), \A t \in DOMAIN k.kids : k.kids[t] = NewKid,
           k.events = j.events, k.number = j.number
    PROVE  JobOk(k)
  <1>0. Shaped(j) /\ ReportsOf(j) /\ Numbered(j) /\ j.pc \in FlowPcs /\ k.pc \in FlowPcs
    BY DEF JobOk, FlowPcs
  <1>1. j.attempts \in Nat /\ j.steps \in Plans
    BY <1>0, FlowFacts
  <1>2. k.attempts >= 1 /\ k.attempts - 1 = j.attempts
    BY <1>1
  <1>3. Shaped(k)
    BY <1>0, <1>2 DEF Shaped, Current, FlowPcs
  <1>4. ASSUME NEW t \in Asked
        PROVE  /\ Tries(k, t) = Tries(j, t) /\ Checked(k, t) = 0 /\ Called(k, t) = 0
               /\ Checked(j, t) = 0 /\ Called(j, t) = 0
    <2>1. StepOf(k, t) = StepOf(j, t)
      BY DEF StepOf
    <2>2. Tries(k, t) = Tries(j, t)
      BY <1>2, <2>1 DEF Tries
    <2> QED BY <2>2 DEF Checked, Called, UnderWay, NewKid
  <1>5. \A kind, t : Happened(k, kind, t) = Happened(j, kind, t)
    BY DEF Happened
  <1>6. Counted(k)
    BY <1>0, <1>4, <1>5 DEF ReportsOf, Counted
  <1>7. ReportsOf(k)
    BY <1>0, <1>6 DEF ReportsOf, KidOk, NewKid, ResultOk
  <1>8. Ahead(k, "search.docs") = Ahead(j, "search.docs") /\ Ahead(k, "time.now") = Ahead(j, "time.now")
    BY <1>0 DEF Ahead, Shaped, NewKid
  <1>9. Numbered(k)
    BY <1>0, <1>8 DEF Numbered, InOrder, NewKid
  <1> QED BY <1>3, <1>7, <1>9 DEF JobOk

(* A child's step that counts or reads changes nothing that is reported.   *)
LEMMA KidReports ==
    ASSUME NEW j \in Jobs, NEW k \in Jobs, NEW t \in DOMAIN j.kids, NEW kid \in Kids, JobOk(j), j.pc = "attempt",
           KidMoves(j, k, t, kid), k.events = j.events, kid.kind = j.kids[t].kind,
           j.kids[t].pc # "over", kid.pc # "over"
    PROVE  Shaped(k) /\ ReportsOf(k)
  <1>0. Shaped(j) /\ ReportsOf(j) /\ j.pc \in FlowPcs /\ k.pc \in FlowPcs
    BY DEF JobOk, FlowPcs, KidMoves
  <1>1. Shaped(k)
    BY <1>0 DEF Shaped, Current, FlowPcs, KidMoves
  <1>2. \A u \in Asked : Tries(k, u) = Tries(j, u) /\ Checked(k, u) = Checked(j, u) /\ Called(k, u) = Called(j, u)
    <2>1. ASSUME NEW u \in Asked
          PROVE  Tries(k, u) = Tries(j, u) /\ Checked(k, u) = Checked(j, u) /\ Called(k, u) = Called(j, u)
      <3>1. Tries(k, u) = Tries(j, u)
        BY DEF Tries, StepOf, KidMoves
      <3>2. Checked(k, u) = Checked(j, u) /\ Called(k, u) = Called(j, u)
        BY DEF Checked, Called, UnderWay, KidMoves
      <3> QED BY <3>1, <3>2
    <2> QED BY <2>1
  <1>3. Counted(k)
    <2>1. \A kind, u : Happened(k, kind, u) = Happened(j, kind, u)
      BY DEF Happened
    <2>2. k.policy = j.policy /\ Counted(j)
      BY <1>0 DEF KidMoves, ReportsOf
    <2> QED BY <1>2, <2>1, <2>2 DEF Counted
  <1>4. \A u \in DOMAIN k.kids : KidOk(k, u)
    BY <1>0 DEF ReportsOf, KidOk, KidMoves
  <1>5. \A i \in DOMAIN k.results : ResultOk(k, i)
    BY <1>0 DEF ReportsOf, ResultOk, KidMoves
  <1> QED BY <1>1, <1>3, <1>4, <1>5 DEF ReportsOf

(* Two threads log in a parallel step, one in any other.                   *)
LEMMA AheadBound ==
    ASSUME NEW j \in Jobs, Shaped(j), j.pc = "attempt"
    PROVE  Ahead(j, "search.docs") + Ahead(j, "time.now") <= IF j.steps = Parallel THEN 2 ELSE 1
  <1>1. j.steps \in Plans /\ Len(j.results) \in Nat /\ Len(j.results) < Len(j.steps) /\ DOMAIN j.kids = Current(j)
    BY FlowFacts DEF Shaped, FlowPcs
  <1>2. Ahead(j, "search.docs") \in {0, 1} /\ Ahead(j, "time.now") \in {0, 1}
    BY DEF Ahead
  <1>3. CASE j.steps = Parallel
    BY <1>2, <1>3
  <1>4. CASE j.steps # Parallel
    <2>0. j.steps = Sequential
      BY <1>1, <1>4 DEF Plans
    <2>1. j.steps = Sequential /\ Len(j.results) + 1 \in 1 .. 5
      BY <1>1, <2>0, PlansAre
    <2>2. \A i \in 1 .. 5 : "search.docs" \notin Sequential[i] \/ "time.now" \notin Sequential[i]
      BY DEF Sequential
    <2>3. "search.docs" \notin DOMAIN j.kids \/ "time.now" \notin DOMAIN j.kids
      BY <1>1, <2>1, <2>2 DEF Current
    <2> QED BY <1>2, <1>4, <2>3 DEF Ahead
  <1> QED BY <1>3, <1>4

LEMMA CountOk ==
    ASSUME NEW j \in Jobs, NEW k \in Jobs, NEW t \in DOMAIN j.kids, NEW kid \in Kids, JobOk(j), j.pc = "attempt",
           KidMoves(j, k, t, kid), j.kids[t].pc = "count", kid.pc = "read", kid.kind = j.kids[t].kind,
           k.events = j.events, k.number = j.number + 1
    PROVE  JobOk(k)
  <1>1. Shaped(k) /\ ReportsOf(k)
    BY KidReports
  <1>2. Numbered(j) /\ InOrder(j) /\ j.number \in Nat /\ k.number \in Nat /\ Len(j.events) \in Nat /\ t \in Asked
    BY KidsOf DEF JobOk, Numbered, Jobs
  <1>3. Ahead(k, t) = 1 /\ Ahead(j, t) = 0 /\ \A u \in Asked \ {t} : Ahead(k, u) = Ahead(j, u)
    BY DEF Ahead, KidMoves
  <1>4. PICK u \in Asked : /\ u # t
                           /\ Ahead(j, "search.docs") + Ahead(j, "time.now") = Ahead(j, t) + Ahead(j, u)
                           /\ Ahead(k, "search.docs") + Ahead(k, "time.now") = Ahead(k, t) + Ahead(k, u)
    BY <1>2 DEF Ahead, Asked
  <1>5. Ahead(k, "search.docs") + Ahead(k, "time.now") = Ahead(j, "search.docs") + Ahead(j, "time.now") + 1
    <2>1. Ahead(j, u) \in {0, 1}
      BY DEF Ahead
    <2> QED BY <1>3, <1>4, <2>1
  <1>6. k.number = Len(k.events) + Ahead(k, "search.docs") + Ahead(k, "time.now")
    <2>1. \A v \in Asked : Ahead(j, v) \in {0, 1} /\ Ahead(k, v) \in {0, 1}
      BY DEF Ahead
    <2>2. j.number = Len(j.events) + Ahead(j, "search.docs") + Ahead(j, "time.now")
      BY <1>2 DEF Numbered
    <2> QED BY <1>2, <1>5, <2>1, <2>2 DEF Asked
  <1>7. \A i \in DOMAIN j.events : j.events[i].number \in Nat
    <2>1. j.events \in Seq(Events)
      BY DEF Jobs
    <2>2. \A i \in DOMAIN j.events : j.events[i] \in Events
      BY <2>1, ElementOfSeq, LenProperties
    <2> QED BY <2>2 DEF Events
  <1>8. InOrder(k)
    <2>1. k.steps = j.steps
      BY DEF KidMoves
    <2>2. \A i \in DOMAIN j.events : j.events[i].number <= k.number
      BY <1>2, <1>7 DEF InOrder
    <2> QED BY <1>2, <2>1, <2>2 DEF InOrder
  <1>9. ASSUME NEW v \in DOMAIN k.kids
        PROVE  /\ k.kids[v].pc = "read" => Below(k, v, k.number)
               /\ k.kids[v].pc = "append" => k.kids[v].number <= k.number /\ Below(k, v, k.kids[v].number)
    <2>1. Below(k, v, k.number)
      BY <1>2, NextIsAbove DEF Below
    <2>2. CASE v = t
      BY <2>1, <2>2 DEF KidMoves
    <2>3. CASE v # t
      <3>1. v \in DOMAIN j.kids /\ k.kids[v] = j.kids[v] /\ j.kids[v] \in Kids
        BY <2>3, KidsOf DEF KidMoves
      <3>2. k.kids[v].pc = "append" => k.kids[v].number <= j.number /\ Below(k, v, k.kids[v].number)
        BY <1>2, <3>1 DEF Numbered, Below
      <3>3. k.kids[v].number \in Nat
        BY <3>1 DEF Kids
      <3> QED BY <1>2, <2>1, <3>2, <3>3
    <2> QED BY <2>2, <2>3
  <1> QED BY <1>1, <1>6, <1>8, <1>9 DEF JobOk, Numbered

LEMMA ReadOk ==
    ASSUME NEW j \in Jobs, NEW k \in Jobs, NEW t \in DOMAIN j.kids, NEW kid \in Kids, JobOk(j), j.pc = "attempt",
           KidMoves(j, k, t, kid), j.kids[t].pc = "read", kid.pc = "append", kid.kind = j.kids[t].kind,
           kid.number = j.number, k.events = j.events, k.number = j.number
    PROVE  JobOk(k)
  <1>1. Shaped(k) /\ ReportsOf(k)
    BY KidReports
  <1>2. Numbered(j) /\ InOrder(j) /\ j.number \in Nat
    BY DEF JobOk, Numbered, Jobs
  <1>3. \A u \in Asked : Ahead(k, u) = Ahead(j, u)
    BY DEF Ahead, KidMoves
  <1>4. k.number = Len(k.events) + Ahead(k, "search.docs") + Ahead(k, "time.now")
    BY <1>2, <1>3 DEF Numbered, Asked
  <1>5. InOrder(k)
    BY <1>2 DEF InOrder, KidMoves
  <1>6. ASSUME NEW v \in DOMAIN k.kids
        PROVE  /\ k.kids[v].pc = "read" => Below(k, v, k.number)
               /\ k.kids[v].pc = "append" => k.kids[v].number <= k.number /\ Below(k, v, k.kids[v].number)
    <2>1. CASE v = t
      BY <1>2, <2>1 DEF KidMoves, Numbered, Below
    <2>2. CASE v # t
      BY <1>2, <2>2 DEF KidMoves, Numbered, Below
    <2> QED BY <2>1, <2>2
  <1> QED BY <1>1, <1>4, <1>5, <1>6 DEF JobOk, Numbered

LEMMA AppendCounts ==
    ASSUME NEW j \in Jobs, NEW k \in Jobs, NEW t \in DOMAIN j.kids, NEW kid \in Kids, NEW e \in Events,
           JobOk(j), j.pc = "attempt", KidMoves(j, k, t, kid), j.kids[t].pc = "append", AppendOutcome(j, t, kid),
           e.kind = j.kids[t].kind, e.tool = t, k.events = Append(j.events, e)
    PROVE  Counted(k)
  <1>0. Shaped(j) /\ Counted(j) /\ KidOk(j, t) /\ t \in Asked /\ k.pc = "attempt" /\ k.policy = j.policy
    BY KidsOf DEF JobOk, ReportsOf, FlowPcs, KidMoves
  <1>1. ASSUME NEW u \in Asked
        PROVE  /\ Happened(k, "policy.check", u) = Tries(k, u) + Checked(k, u)
               /\ Happened(k, "tool.call", u) = IF Allowed(k.policy, u) THEN Tries(k, u) + Called(k, u) ELSE 0
    <2>1. Tries(k, u) = Tries(j, u)
      BY DEF Tries, StepOf, KidMoves
    <2>2. Tries(j, u) \in Nat
      BY <1>0, FlowFacts DEF FlowPcs
    <2>3. /\ Happened(j, "policy.check", u) = Tries(j, u) + Checked(j, u)
          /\ Happened(j, "tool.call", u) = IF Allowed(j.policy, u) THEN Tries(j, u) + Called(j, u) ELSE 0
      BY <1>0 DEF Counted
    <2>4. CASE u # t
      <3>1. Checked(k, u) = Checked(j, u) /\ Called(k, u) = Called(j, u)
        BY <1>0, <2>4 DEF Checked, Called, UnderWay, KidMoves
      <3>2. /\ Happened(k, "policy.check", u) = Happened(j, "policy.check", u)
            /\ Happened(k, "tool.call", u) = Happened(j, "tool.call", u)
        BY <2>4, CountsAppend
      <3> QED BY <1>0, <2>1, <2>3, <3>1, <3>2
    <2>5. CASE u = t
      <3>1. UnderWay(j, u) /\ UnderWay(k, u) /\ k.kids[u] = kid
        BY <1>0, <2>5 DEF UnderWay, KidMoves
      <3>2. Called(j, u) = 0
        BY <2>5 DEF Called
      <3>3. CASE j.kids[t].kind = "policy.check"
        <4>1. Checked(j, u) = 0 /\ Checked(k, u) = 1
          BY <2>5, <3>1, <3>3 DEF Checked, AppendOutcome
        <4>2. Allowed(j.policy, u) => Called(k, u) = 0
          BY <2>5, <3>1, <3>3 DEF Called, AppendOutcome
        <4>3. Happened(k, "policy.check", u) = Happened(j, "policy.check", u) + 1
          BY <2>5, <3>3, CountsAppend
        <4>4. Happened(k, "tool.call", u) = Happened(j, "tool.call", u)
          BY <2>5, <3>3, CountsAppend
        <4>5. Happened(k, "policy.check", u) = Tries(k, u) + Checked(k, u)
          BY <2>1, <2>2, <2>3, <4>1, <4>3
        <4> QED BY <1>0, <2>1, <2>3, <3>2, <4>2, <4>4, <4>5
      <3>4. CASE j.kids[t].kind = "tool.call"
        <4>1. Checked(j, u) = 1 /\ Checked(k, u) = 1 /\ Called(k, u) = 1
          BY <2>5, <3>1, <3>4 DEF Checked, Called, AppendOutcome
        <4>2. Allowed(j.policy, u)
          BY <1>0, <2>5, <3>4 DEF KidOk
        <4>3. Happened(k, "policy.check", u) = Happened(j, "policy.check", u)
          BY <2>5, <3>4, CountsAppend
        <4>4. Happened(k, "tool.call", u) = Happened(j, "tool.call", u) + 1
          BY <2>5, <3>4, CountsAppend
        <4>5. Happened(j, "tool.call", u) = Tries(j, u) + 0
          BY <2>3, <3>2, <4>2
        <4>6. Happened(k, "tool.call", u) = Tries(k, u) + Called(k, u)
          BY <2>1, <2>2, <4>1, <4>4, <4>5
        <4> QED BY <1>0, <2>1, <2>3, <4>1, <4>2, <4>3, <4>6
      <3> QED BY <3>3, <3>4 DEF AppendOutcome
    <2> QED BY <2>4, <2>5
  <1> QED BY <1>1 DEF Counted

LEMMA AppendNumbers ==
    ASSUME NEW j \in Jobs, NEW k \in Jobs, NEW t \in DOMAIN j.kids, NEW kid \in Kids, NEW e \in Events,
           JobOk(j), j.pc = "attempt", KidMoves(j, k, t, kid), j.kids[t].pc = "append", kid.pc \in {"count", "over"},
           e.number = j.kids[t].number, e.tool = t, k.events = Append(j.events, e), k.number = j.number
    PROVE  Numbered(k)
  <1>1. Shaped(j) /\ Numbered(j) /\ InOrder(j) /\ t \in Asked /\ k.steps = j.steps
    BY KidsOf DEF JobOk, Numbered, KidMoves
  <1>2. PICK n, x, y : n = Len(j.events) /\ x = j.number /\ y = e.number
    OBVIOUS
  <1>3. n \in Nat /\ x \in Nat /\ y \in Nat
    BY <1>2 DEF Jobs, Events
  <1>4. y <= x /\ Below(j, t, y)
    BY <1>1, <1>2 DEF Numbered
  <1>5. PICK b \in {1, 2} : b = IF j.steps = Parallel THEN 2 ELSE 1
    OBVIOUS
  <1>6. PICK p : p = Ahead(j, "search.docs") + Ahead(j, "time.now")
    OBVIOUS
  <1>7. p \in Nat /\ p <= b /\ x = n + p
    <2>1. p <= b
      BY <1>1, <1>5, <1>6, AheadBound
    <2>2. Ahead(j, "search.docs") \in {0, 1} /\ Ahead(j, "time.now") \in {0, 1}
      BY DEF Ahead
    <2>3. x = n + Ahead(j, "search.docs") + Ahead(j, "time.now")
      BY <1>1, <1>2 DEF Numbered
    <2> QED BY <1>3, <1>6, <2>1, <2>2, <2>3
  <1>8. y - (n + 1) < b
    BY <1>3, <1>4, <1>7
  <1>9. InOrder(k)
    <2>1. k.number >= j.number /\ e.number <= k.number
      BY <1>2, <1>3, <1>4
    <2>2. e.number - (Len(j.events) + 1) < IF j.steps = Parallel THEN 2 ELSE 1
      BY <1>2, <1>5, <1>8
    <2> QED BY <1>1, <1>2, <1>4, <2>1, <2>2, OrderAppend
  <1>10. Ahead(k, "search.docs") + Ahead(k, "time.now") + 1 = p
    <2>1. Ahead(k, t) = 0 /\ Ahead(j, t) = 1 /\ \A u \in Asked \ {t} : Ahead(k, u) = Ahead(j, u)
      BY DEF Ahead, KidMoves
    <2>2. \A u \in Asked : Ahead(j, u) \in {0, 1} /\ Ahead(k, u) \in {0, 1}
      BY DEF Ahead
    <2>3. CASE t = "search.docs"
      BY <1>6, <2>1, <2>2, <2>3 DEF Asked
    <2>4. CASE t = "time.now"
      BY <1>6, <2>1, <2>2, <2>4 DEF Asked
    <2> QED BY <1>1, <2>3, <2>4 DEF Asked
  <1>11. k.number = Len(k.events) + Ahead(k, "search.docs") + Ahead(k, "time.now")
    <2>1. Len(k.events) = n + 1
      BY <1>2, AppendFacts DEF Jobs
    <2>2. Ahead(k, "search.docs") \in {0, 1} /\ Ahead(k, "time.now") \in {0, 1}
      BY DEF Ahead
    <2> QED BY <1>2, <1>3, <1>7, <1>10, <2>1, <2>2
  <1>12. ASSUME NEW v \in DOMAIN k.kids
         PROVE  /\ k.kids[v].pc = "read" => Below(k, v, k.number)
                /\ k.kids[v].pc = "append" => k.kids[v].number <= k.number /\ Below(k, v, k.kids[v].number)
    <2>1. CASE v = t
      BY <2>1 DEF KidMoves
    <2>2. CASE v # t
      <3>1. v \in DOMAIN j.kids /\ k.kids[v] = j.kids[v]
        BY <2>2 DEF KidMoves
      <3>2. ASSUME NEW m, Below(j, v, m) PROVE Below(k, v, m)
        <4>1. PICK s : s = j.events
          OBVIOUS
        <4>2. s \in Seq(Events)
          BY <4>1 DEF Jobs
        <4>3. DOMAIN k.events = 1 .. n + 1 /\ DOMAIN s = 1 .. n /\ k.events[n + 1] = e
              /\ \A i \in 1 .. n : k.events[i] = s[i]
          BY <1>2, <4>1, <4>2, AppendFacts
        <4>4. \A i \in 1 .. n + 1 : i \in 1 .. n \/ i = n + 1
          BY <1>3
        <4> QED BY <2>2, <3>2, <4>1, <4>3, <4>4 DEF Below
      <3> QED BY <1>1, <3>1, <3>2 DEF Numbered
    <2> QED BY <2>1, <2>2
  <1> QED BY <1>9, <1>11, <1>12 DEF Numbered

LEMMA AppendOk ==
    ASSUME NEW j \in Jobs, NEW k \in Jobs, NEW t \in DOMAIN j.kids, NEW kid \in Kids, NEW e \in Events,
           JobOk(j), j.pc = "attempt", KidMoves(j, k, t, kid), j.kids[t].pc = "append", AppendOutcome(j, t, kid),
           e = [kind |-> j.kids[t].kind, tool |-> t, number |-> j.kids[t].number],
           k.events = Append(j.events, e), k.number = j.number
    PROVE  JobOk(k)
  <1>0. e.kind = j.kids[t].kind /\ e.tool = t /\ e.number = j.kids[t].number /\ kid.pc \in {"count", "over"}
    BY DEF AppendOutcome
  <1>1. Shaped(j) /\ ReportsOf(j)
    BY DEF JobOk
  <1>2. Shaped(k)
    BY <1>1 DEF Shaped, Current, FlowPcs, KidMoves
  <1>3. Counted(k)
    BY <1>0, AppendCounts
  <1>4. \A u \in DOMAIN k.kids : KidOk(k, u)
    <2>1. KidOk(k, t)
      BY <1>1 DEF ReportsOf, KidOk, KidMoves, AppendOutcome
    <2>2. \A u \in DOMAIN j.kids \ {t} : KidOk(k, u)
      BY <1>1 DEF ReportsOf, KidOk, KidMoves
    <2> QED BY <2>1, <2>2 DEF KidMoves
  <1>5. \A i \in DOMAIN k.results : ResultOk(k, i)
    BY <1>1 DEF ReportsOf, ResultOk, KidMoves
  <1>6. Numbered(k)
    BY <1>0, AppendNumbers
  <1> QED BY <1>2, <1>3, <1>4, <1>5, <1>6 DEF JobOk, ReportsOf

(* Every tool is called in one step of a plan.                             *)
LEMMA OneStepEach ==
    ASSUME NEW j \in Jobs, j.steps \in Plans, NEW i \in 1 .. Len(j.steps), NEW t \in Asked
    PROVE  t \in j.steps[i] <=> i = StepOf(j, t)
  <1>1. CASE j.steps = Sequential
    <2>1. i \in 1 .. 5
      BY <1>1, PlansAre
    <2>2. /\ Sequential[1] = {} /\ Sequential[2] = {} /\ Sequential[3] = {"search.docs"}
          /\ Sequential[4] = {"time.now"} /\ Sequential[5] = {}
      BY DEF Sequential
    <2>3. i \in {1, 2, 3, 4, 5}
      BY <2>1
    <2> QED BY <1>1, <2>2, <2>3 DEF StepOf, Asked
  <1>2. CASE j.steps = Parallel
    <2>1. i \in 1 .. 4 /\ j.steps # Sequential
      BY <1>2, PlansAre
    <2>2. /\ Parallel[1] = {} /\ Parallel[2] = {} /\ Parallel[3] = {"search.docs", "time.now"} /\ Parallel[4] = {}
      BY DEF Parallel
    <2>3. i \in {1, 2, 3, 4}
      BY <2>1
    <2> QED BY <1>2, <2>1, <2>2, <2>3 DEF StepOf, Asked
  <1> QED BY <1>1, <1>2 DEF Plans

(* An attempt that is over has counted in full.                            *)
FullTries(j, t) ==
    IF StepOf(j, t) < Len(j.results) + 1 THEN j.results[StepOf(j, t)].attempts
    ELSE IF StepOf(j, t) = Len(j.results) + 1 THEN j.attempts ELSE 0

LEMMA OverCounts ==
    ASSUME NEW j \in Jobs, JobOk(j), j.pc = "attempt", AttemptOver(j), NEW t \in Asked
    PROVE  /\ Happened(j, "policy.check", t) = FullTries(j, t)
           /\ Happened(j, "tool.call", t) = IF Allowed(j.policy, t) THEN FullTries(j, t) ELSE 0
  <1>0. Shaped(j) /\ Counted(j) /\ j.pc \in FlowPcs
    BY DEF JobOk, ReportsOf, FlowPcs
  <1>1. PICK n, i, a : n = Len(j.results) + 1 /\ i = StepOf(j, t) /\ a = j.attempts
    OBVIOUS
  <1>2. n \in Nat /\ n >= 1 /\ Len(j.results) = n - 1 /\ i \in {3, 4} /\ a \in Nat /\ n <= Len(j.steps) /\ j.steps \in Plans
    <2>1. Len(j.results) \in Nat /\ Len(j.results) < Len(j.steps) /\ j.steps \in Plans
      BY <1>0, FlowFacts DEF Shaped
    <2>2. Len(j.steps) \in Nat
      BY <2>1, PlansAre DEF Plans
    <2> QED BY <1>0, <1>1, <2>1, <2>2, FlowFacts
  <1>3. t \in DOMAIN j.kids <=> i = n
    <2>1. n \in 1 .. Len(j.steps)
      BY <1>2, PlansAre DEF Plans
    <2>2. DOMAIN j.kids = j.steps[n]
      BY <1>0, <1>1 DEF Shaped, Current
    <2> QED BY <1>1, <1>2, <2>1, <2>2, OneStepEach
  <1>4. Checked(j, t) = (IF i = n THEN 1 ELSE 0) /\ Called(j, t) = IF i = n THEN 1 ELSE 0
    BY <1>3 DEF Checked, Called, UnderWay, AttemptOver
  <1>5. Tries(j, t) = IF i < n THEN j.results[i].attempts ELSE IF i = n THEN a - 1 ELSE 0
    <2>1. (i <= Len(j.results) <=> i < n) /\ (i > Len(j.results) + 1 <=> i > n)
      BY <1>2
    <2>2. i < n \/ i = n \/ i > n
      BY <1>2
    <2> QED BY <1>1, <1>2, <2>1, <2>2 DEF Tries
  <1>6. /\ Happened(j, "policy.check", t) = Tries(j, t) + Checked(j, t)
        /\ Happened(j, "tool.call", t) = IF Allowed(j.policy, t) THEN Tries(j, t) + Called(j, t) ELSE 0
    BY <1>0 DEF Counted
  <1>7. Tries(j, t) \in Nat
    BY <1>0, FlowFacts
  <1>8. Tries(j, t) + Checked(j, t) = FullTries(j, t)
    <2>1. Tries(j, t) + Checked(j, t) = IF i < n THEN j.results[i].attempts ELSE IF i = n THEN a ELSE 0
      BY <1>2, <1>4, <1>5, <1>7
    <2> QED BY <1>1, <2>1 DEF FullTries
  <1>9. Called(j, t) = Checked(j, t)
    BY <1>4
  <1> QED BY <1>1, <1>6, <1>8, <1>9

LEMMA EndOk ==
    ASSUME NEW j \in Jobs, NEW k \in Jobs, JobOk(j), j.pc = "attempt", AttemptOver(j),
           k.policy = j.policy, k.steps = j.steps, k.events = j.events, k.number = j.number,
           \/ \E r \in Results : Passes(j, k, r)
           \/ /\ k.pc = "step" /\ k.results = j.results /\ k.attempts = j.attempts
              /\ k.kids = j.kids /\ ~(k.attempts > Retries)
    PROVE  JobOk(k)
  <1>0. Shaped(j) /\ ReportsOf(j) /\ Numbered(j) /\ j.pc \in FlowPcs
    BY DEF JobOk, FlowPcs
  <1>1. PICK n, a : n = Len(j.results) + 1 /\ a = j.attempts
    OBVIOUS
  <1>2. n \in Nat /\ n >= 1 /\ Len(j.results) = n - 1 /\ n <= Len(j.steps) /\ j.steps \in Plans
        /\ a \in Nat /\ Retries \in Nat /\ Len(j.steps) \in Nat
    <2>1. Len(j.results) \in Nat /\ Len(j.results) < Len(j.steps) /\ j.steps \in Plans
      BY <1>0, FlowFacts DEF Shaped
    <2>2. Len(j.steps) \in Nat
      BY <2>1, PlansAre DEF Plans
    <2> QED BY <1>0, <1>1, <2>1, <2>2, FlowFacts
  <1>3. \A kind, t : Happened(k, kind, t) = Happened(j, kind, t)
    BY DEF Happened
  <1>4. k.pc \in {"step", "done"} /\ \A t \in DOMAIN k.kids : k.kids[t].pc = "over"
    BY NoKidsAre DEF Passes, AttemptOver
  <1>5. Numbered(k)
    <2>1. \A t \in Asked : Ahead(k, t) = 0 /\ Ahead(j, t) = 0
      BY <1>4 DEF Ahead, AttemptOver
    <2>2. InOrder(k)
      BY <1>0 DEF Numbered, InOrder
    <2> QED BY <1>0, <1>4, <2>1, <2>2 DEF Numbered, Asked
  <1>6. \A t \in Asked : Checked(k, t) = 0 /\ Called(k, t) = 0
    BY <1>4 DEF Checked, Called, UnderWay
  <1>7. ASSUME NEW r \in Results, Passes(j, k, r) PROVE JobOk(k)
    <2>1. /\ r.attempts = a /\ k.results = Append(j.results, r) /\ k.attempts = 0 /\ k.kids = NoKids
          /\ k.pc = IF n = Len(j.steps) THEN "done" ELSE "step"
      BY <1>1, <1>7 DEF Passes
    <2>2. Len(k.results) = n /\ k.results[n] = r /\ \A i \in 1 .. n - 1 : k.results[i] = j.results[i]
      <3>1. j.results \in Seq(Results)
        BY DEF Jobs
      <3> QED BY <1>1, <1>2, <2>1, <3>1, AppendFacts
    <2>3. Shaped(k)
      <3>1. k.pc \in FlowPcs /\ k.steps # <<>>
        BY <1>2, <1>4, PlansAre DEF FlowPcs, Plans
      <3>2. k.pc = "step" => n < Len(k.steps)
        BY <1>2, <2>1
      <3>3. k.pc = "done" => n = Len(k.steps)
        BY <2>1
      <3> QED BY <1>2, <1>4, <2>1, <2>2, <3>1, <3>2, <3>3, NoKidsAre DEF Shaped
    <2>4. ASSUME NEW t \in Asked
          PROVE  /\ Happened(k, "policy.check", t) = Tries(k, t)
                 /\ Happened(k, "tool.call", t) = IF Allowed(k.policy, t) THEN Tries(k, t) ELSE 0
                 /\ Tries(k, t) \in Nat
      <3>1. PICK i \in {3, 4} : i = StepOf(j, t) /\ i = StepOf(k, t)
        BY DEF StepOf
      <3>2. Tries(k, t) = IF i < n THEN j.results[i].attempts ELSE IF i = n THEN a ELSE 0
        <4>1. (i <= Len(k.results) <=> i <= n) /\ (i > Len(k.results) + 1 <=> i > n + 1)
          BY <2>2
        <4>2. i < n => k.results[i] = j.results[i]
          BY <1>2, <2>2
        <4>3. i = n => k.results[i].attempts = a
          BY <2>1, <2>2
        <4>4. i < n \/ i = n \/ i > n
          BY <1>2
        <4>5. (i <= n <=> i < n \/ i = n) /\ (i > n => ~(i <= n) /\ ~(i < n) /\ i # n)
          BY <1>2
        <4>6. Tries(k, t) = IF i <= n THEN k.results[i].attempts ELSE 0
          BY <1>4, <2>1, <3>1, <4>1 DEF Tries
        <4> QED BY <4>2, <4>3, <4>4, <4>5, <4>6
      <3>3. Tries(k, t) \in Nat
        BY <2>3, FlowFacts, <1>4 DEF FlowPcs
      <3>4. /\ Happened(j, "policy.check", t) = Tries(k, t)
            /\ Happened(j, "tool.call", t) = IF Allowed(j.policy, t) THEN Tries(k, t) ELSE 0
        <4>1. Tries(k, t) = FullTries(j, t)
          BY <1>1, <3>1, <3>2 DEF FullTries
        <4> QED BY <4>1, OverCounts
      <3> QED BY <1>3, <3>3, <3>4
    <2>5. Counted(k)
      BY <1>6, <2>4 DEF Counted
    <2>6. ASSUME NEW i \in DOMAIN k.results PROVE ResultOk(k, i)
      <3>1. i \in 1 .. n
        BY <2>2 DEF Jobs
      <3>2. CASE i = n
        <4>1. ~r.ok => r.attempts = Retries + 1
          <5>1. r.attempts \in 1 .. Retries + 1
            BY DEF Results
          <5>2. ~r.ok => a > Retries
            BY <1>1, <1>7 DEF Passes
          <5> QED BY <1>2, <2>1, <5>1, <5>2
        <4>2. ASSUME r.ok, NEW t \in k.steps[n] PROVE Allowed(k.policy, t)
          <5>1. DOMAIN j.kids = k.steps[n]
            BY <1>0, <1>1 DEF Shaped, Current
          <5>2. j.kids[t].ok /\ j.kids[t].pc = "over" /\ j.kids[t] \in Kids /\ KidOk(j, t)
            BY <1>0, <1>7, <4>2, <5>1, KidsOf DEF Passes, AttemptOver, ReportsOf
          <5> QED BY <5>2 DEF KidOk, Kids
        <4> QED BY <2>2, <3>2, <4>1, <4>2 DEF ResultOk
      <3>3. CASE i # n
        <4>1. i \in 1 .. n - 1 /\ i \in DOMAIN j.results
          BY <1>2, <3>1, <3>3 DEF Jobs
        <4>2. ResultOk(j, i) /\ k.results[i] = j.results[i]
          BY <1>0, <2>2, <4>1 DEF ReportsOf
        <4> QED BY <4>2 DEF ResultOk
      <3> QED BY <3>2, <3>3
    <2>7. DOMAIN k.kids = {}
      BY <2>1, NoKidsAre
    <2> QED BY <1>5, <2>3, <2>5, <2>6, <2>7 DEF JobOk, ReportsOf
  <1>8. CASE /\ k.pc = "step" /\ k.results = j.results /\ k.attempts = j.attempts
             /\ k.kids = j.kids /\ ~(k.attempts > Retries)
    <2>1. Shaped(k)
      <3>1. k.attempts <= Retries
        BY <1>1, <1>2, <1>8
      <3> QED BY <1>0, <1>4, <1>8, <3>1 DEF Shaped, FlowPcs
    <2>2. ASSUME NEW t \in Asked
          PROVE  /\ Happened(k, "policy.check", t) = Tries(k, t)
                 /\ Happened(k, "tool.call", t) = IF Allowed(k.policy, t) THEN Tries(k, t) ELSE 0
                 /\ Tries(k, t) \in Nat
      <3>1. PICK i \in {3, 4} : i = StepOf(j, t) /\ i = StepOf(k, t)
        BY DEF StepOf
      <3>2. Tries(k, t) = IF i < n THEN j.results[i].attempts ELSE IF i = n THEN a ELSE 0
        <4>1. (i <= Len(k.results) <=> i < n) /\ (i > Len(k.results) + 1 <=> i > n)
          BY <1>2, <1>8
        <4>2. i < n \/ i = n \/ i > n
          BY <1>2
        <4>3. Tries(k, t) = IF i < n THEN j.results[i].attempts ELSE IF i > n THEN 0 ELSE a
          BY <1>1, <1>8, <3>1, <4>1 DEF Tries
        <4>4. i > n => ~(i < n) /\ i # n
          BY <1>2
        <4> QED BY <4>2, <4>3, <4>4
      <3>3. Tries(k, t) \in Nat
        BY <1>8, <2>1, FlowFacts DEF FlowPcs
      <3>4. /\ Happened(j, "policy.check", t) = Tries(k, t)
            /\ Happened(j, "tool.call", t) = IF Allowed(j.policy, t) THEN Tries(k, t) ELSE 0
        <4>1. Tries(k, t) = FullTries(j, t)
          BY <1>1, <3>1, <3>2 DEF FullTries
        <4> QED BY <4>1, OverCounts
      <3> QED BY <1>3, <3>3, <3>4
    <2>3. Counted(k)
      BY <1>6, <2>2 DEF Counted
    <2>4. ReportsOf(k)
      BY <1>0, <1>8, <2>3 DEF ReportsOf, KidOk, ResultOk
    <2> QED BY <1>5, <2>1, <2>4 DEF JobOk
  <1> QED BY <1>7, <1>8

-----------------------------------------------------------------------------
(* Types and jobs, for every action.                                       *)

TypesInv == RunsTypeOK /\ JobsInv

LEMMA JobMoves ==
    ASSUME TypesInv, NEW c \in Callers, NEW k \in Jobs, JobOk(k), Step(c, k)
    PROVE  job' \in [Callers -> Jobs] /\ JobsInv'
  <1>1. /\ job' \in [Callers -> Jobs] /\ job'[c] = k
        /\ \A d \in Callers \ {c} : job'[d] = job[d]
    BY Stepped DEF TypesInv
  <1>2. ASSUME NEW d \in Callers PROVE JobOk(job[d])'
    <2>1. JobOk(job'[d])
      BY <1>1 DEF TypesInv, JobsInv
    <2> QED BY <2>1 DEF JobOk, Shaped, ReportsOf, Numbered, FlowPcs, Current, Counted, KidOk, ResultOk, InOrder, Below,
                        Ahead, Happened, Tries, Checked, Called, UnderWay, StepOf, Allowed
  <1> QED BY <1>1, <1>2 DEF JobsInv

LEMMA FlowJobs ==
    ASSUME TypesInv, NEW c \in Callers,
           BeginAttempt(c) \/ EndAttempt(c) \/ \E t \in Tools : CountEvent(c, t) \/ ReadCount(c, t) \/ AppendEvent(c, t)
    PROVE  /\ \E k \in Jobs : /\ Step(c, k) /\ JobOk(k) /\ k.id = job[c].id
                              /\ job[c].pc \in {"step", "attempt"} /\ k.pc \in FlowPcs
           /\ UNCHANGED <<memory, jobs, full, wipes, ended, broken>>
  <1>0. RunsTypeOK /\ JobOk(job[c]) /\ Shaped(job[c]) /\ job[c] \in Jobs
    BY CallerJob DEF TypesInv, JobsInv, JobOk
  <1>1. UNCHANGED <<memory, jobs, full, wipes, ended, broken>>
    BY DEF BeginAttempt, EndAttempt, CountEvent, ReadCount, AppendEvent
  <1>2. CASE BeginAttempt(c)
    <2>1. PICK k \in Jobs :
             /\ Step(c, k) /\ k.pc = "attempt" /\ k.id = job[c].id /\ k.policy = job[c].policy
             /\ k.steps = job[c].steps /\ k.results = job[c].results
             /\ k.attempts = job[c].attempts + 1 /\ k.attempts \in 1 .. Retries + 1
             /\ DOMAIN k.kids = Current(job[c]) /\ \A t \in DOMAIN k.kids : k.kids[t] = NewKid
             /\ k.events = job[c].events /\ k.number = job[c].number
      BY <1>0, <1>2, AttemptJob
    <2>2. job[c].pc = "step"
      BY <1>0, <1>2, AttemptJob
    <2>3. JobOk(k)
      BY <1>0, <2>1, <2>2, AttemptOk
    <2> QED BY <1>1, <2>1, <2>2, <2>3 DEF FlowPcs
  <1>3. CASE EndAttempt(c)
    <2>1. PICK k \in Jobs :
             /\ Step(c, k) /\ k.id = job[c].id /\ k.policy = job[c].policy /\ k.steps = job[c].steps
             /\ k.events = job[c].events /\ k.number = job[c].number
             /\ \/ \E r \in Results : Passes(job[c], k, r)
                \/ /\ k.pc = "step" /\ k.results = job[c].results /\ k.attempts = job[c].attempts
                   /\ k.kids = job[c].kids /\ ~(k.attempts > Retries)
      BY <1>0, <1>3, EndJob
    <2>2. job[c].pc = "attempt" /\ AttemptOver(job[c])
      BY <1>0, <1>3, EndJob
    <2>3. JobOk(k)
      BY <1>0, <2>1, <2>2, EndOk
    <2>4. k.pc \in FlowPcs
      BY <2>1 DEF Passes, FlowPcs
    <2> QED BY <1>1, <2>1, <2>2, <2>3, <2>4
  <1>4. ASSUME NEW t \in Tools, CountEvent(c, t)
        PROVE  \E k \in Jobs : /\ Step(c, k) /\ JobOk(k) /\ k.id = job[c].id
                               /\ job[c].pc \in {"step", "attempt"} /\ k.pc \in FlowPcs
    <2>1. job[c].pc = "attempt" /\ t \in DOMAIN job[c].kids /\ job[c].kids[t].pc = "count"
      BY <1>0, <1>4, CountJob
    <2>2. PICK k \in Jobs, kid \in Kids :
             /\ Step(c, k) /\ KidMoves(job[c], k, t, kid)
             /\ kid.pc = "read" /\ kid.kind = job[c].kids[t].kind
             /\ k.events = job[c].events /\ k.number = job[c].number + 1
      BY <1>0, <1>4, CountJob
    <2>3. JobOk(k)
      BY <1>0, <2>1, <2>2, CountOk
    <2> QED BY <2>1, <2>2, <2>3 DEF KidMoves, FlowPcs
  <1>5. ASSUME NEW t \in Tools, ReadCount(c, t)
        PROVE  \E k \in Jobs : /\ Step(c, k) /\ JobOk(k) /\ k.id = job[c].id
                               /\ job[c].pc \in {"step", "attempt"} /\ k.pc \in FlowPcs
    <2>1. job[c].pc = "attempt" /\ t \in DOMAIN job[c].kids /\ job[c].kids[t].pc = "read"
      BY <1>0, <1>5, ReadJob
    <2>2. PICK k \in Jobs, kid \in Kids :
             /\ Step(c, k) /\ KidMoves(job[c], k, t, kid)
             /\ kid.pc = "append" /\ kid.kind = job[c].kids[t].kind /\ kid.number = job[c].number
             /\ k.events = job[c].events /\ k.number = job[c].number
      BY <1>0, <1>5, ReadJob
    <2>3. JobOk(k)
      BY <1>0, <2>1, <2>2, ReadOk
    <2> QED BY <2>1, <2>2, <2>3 DEF KidMoves, FlowPcs
  <1>6. ASSUME NEW t \in Tools, AppendEvent(c, t)
        PROVE  \E k \in Jobs : /\ Step(c, k) /\ JobOk(k) /\ k.id = job[c].id
                               /\ job[c].pc \in {"step", "attempt"} /\ k.pc \in FlowPcs
    <2>1. job[c].pc = "attempt" /\ t \in DOMAIN job[c].kids /\ job[c].kids[t].pc = "append"
      BY <1>0, <1>6, AppendJob
    <2>2. PICK k \in Jobs, kid \in Kids, e \in Events :
             /\ Step(c, k) /\ KidMoves(job[c], k, t, kid) /\ AppendOutcome(job[c], t, kid)
             /\ e = [kind |-> job[c].kids[t].kind, tool |-> t, number |-> job[c].kids[t].number]
             /\ k.events = Append(job[c].events, e) /\ k.number = job[c].number
      BY <1>0, <1>6, AppendJob
    <2>3. JobOk(k)
      BY <1>0, <2>1, <2>2, AppendOk
    <2> QED BY <2>1, <2>2, <2>3 DEF KidMoves, FlowPcs
  <1> QED BY <1>1, <1>2, <1>3, <1>4, <1>5, <1>6

LEMMA RunJobs ==
    ASSUME TypesInv, NEW c \in Callers, CheckTool(c) \/ CallTool(c) \/ AskModel(c)
    PROVE  /\ \E k \in Jobs : /\ Step(c, k) /\ JobOk(k) /\ job[c].pc \in {"check", "call", "ask"}
                              /\ k = NoJob \/ (k.id = job[c].id /\ k.pc \in {"call", "ask", "user"})
           /\ UNCHANGED <<memory, jobs, full, wipes, ended, broken>>
  <1>0. RunsTypeOK /\ JobOk(job[c]) /\ job[c] \in Jobs
    BY CallerJob DEF TypesInv, JobsInv
  <1>1. UNCHANGED <<memory, jobs, full, wipes, ended, broken>>
    BY DEF CheckTool, CallTool, AskModel
  <1>2. PICK k \in Jobs :
           /\ Step(c, k) /\ job[c].pc \in {"check", "call", "ask"}
           /\ k = NoJob \/ (k.pc \in {"call", "ask", "user"} /\ RunMoves(job[c], k) /\ Logs(job[c], k))
    BY <1>0, ToolJob
  <1>3. CASE k = NoJob
    BY <1>1, <1>2, <1>3, NoJobOk
  <1>4. CASE k.pc \in {"call", "ask", "user"} /\ RunMoves(job[c], k) /\ Logs(job[c], k)
    <2>1. JobOk(k)
      BY <1>0, <1>2, <1>4, RunJobOk DEF RunMoves, RunPcs
    <2> QED BY <1>1, <1>2, <1>4, <2>1 DEF RunMoves
  <1> QED BY <1>2, <1>3, <1>4

LEMMA AppendedIs ==
    ASSUME RunsTypeOK, NEW j, NEW line \in Lines \cup {Cut}
    PROVE  /\ Appended(j, line) \in Seq(Lines \cup {Cut})
           /\ Appended(j, line) = memory \/ Appended(j, line) = Append(memory, line)
           /\ Append(memory, line) # memory
  <1>1. PICK s : s = Append(memory, line)
    OBVIOUS
  <1>2. memory \in Seq(Lines \cup {Cut})
    BY DEF RunsTypeOK
  <1>3. s \in Seq(Lines \cup {Cut}) /\ Len(s) # Len(memory)
    BY <1>1, <1>2, AppendFacts
  <1>4. Appended(j, line) = memory \/ Appended(j, line) = s
    BY <1>1 DEF Appended
  <1> QED BY <1>1, <1>2, <1>3, <1>4

LEMMA RememberJobs ==
    ASSUME TypesInv, NEW c \in Callers, NEW role \in Roles, NEW next \in RunPcs, Remember(c, role, next)
    PROVE  /\ \E k \in Jobs :
                 /\ Step(c, k) /\ JobOk(k) /\ job[c].pc = role
                 /\ \/ k = NoJob /\ memory' = Appended(job[c], Cut) /\ broken' = broken
                    \/ /\ k.pc = next /\ k.id = job[c].id
                       /\ memory' = Appended(job[c], <<job[c].id, role>>)
                       /\ broken' = IF memory' = memory THEN broken \cup {job[c].id} ELSE broken
           /\ UNCHANGED <<jobs, wipes, ended>> /\ full' \in Nat
  <1>0. RunsTypeOK /\ JobOk(job[c]) /\ job[c] \in Jobs
    BY CallerJob DEF TypesInv, JobsInv
  <1>1. UNCHANGED <<jobs, wipes, ended>> /\ full' \in Nat
    BY <1>0 DEF Remember, RunsTypeOK
  <1>2. PICK k \in Jobs :
           /\ Step(c, k) /\ job[c].pc = role
           /\ \/ k = NoJob /\ memory' = Appended(job[c], Cut) /\ broken' = broken
              \/ /\ k.pc = next /\ RunMoves(job[c], k) /\ k.events = job[c].events /\ k.number = job[c].number
                 /\ memory' = Appended(job[c], <<job[c].id, role>>)
                 /\ broken' = IF memory' = memory THEN broken \cup {job[c].id} ELSE broken
    BY <1>0, RememberJob
  <1>3. CASE k = NoJob /\ memory' = Appended(job[c], Cut) /\ broken' = broken
    BY <1>1, <1>2, <1>3, NoJobOk
  <1>4. CASE /\ k.pc = next /\ RunMoves(job[c], k) /\ k.events = job[c].events /\ k.number = job[c].number
             /\ memory' = Appended(job[c], <<job[c].id, role>>)
             /\ broken' = IF memory' = memory THEN broken \cup {job[c].id} ELSE broken
    <2>1. job[c].pc \in RunPcs
      BY <1>2 DEF RunPcs, Roles
    <2>2. JobOk(k)
      BY <1>0, <1>2, <1>4, <2>1, RunJobOk DEF RunMoves
    <2> QED BY <1>1, <1>2, <1>4, <2>2 DEF RunMoves
  <1> QED BY <1>2, <1>3, <1>4

LEMMA BeginJobs ==
    ASSUME TypesInv, NEW c \in Callers, BeginRun(c) \/ BeginWorkflow(c)
    PROVE  /\ job[c].pc \in Over /\ jobs' \in jobs + 1 .. MaxJobs
           /\ \E k \in Jobs : Step(c, k) /\ JobOk(k) /\ (k = NoJob \/ Begins(k))
           /\ UNCHANGED <<memory, full, wipes, ended, broken>>
  BY BeginJob, BeginOk, NoJobOk DEF TypesInv

LEMMA JobsStay ==
    ASSUME JobsInv, job' = job
    PROVE  JobsInv'
  <1>1. ASSUME NEW c \in Callers PROVE JobOk(job[c])'
    <2>1. JobOk(job'[c])
      BY DEF JobsInv
    <2> QED BY <2>1 DEF JobOk, Shaped, ReportsOf, Numbered, FlowPcs, Current, Counted, KidOk, ResultOk, InOrder, Below,
                        Ahead, Happened, Tries, Checked, Called, UnderWay, StepOf, Allowed
  <1> QED BY <1>1 DEF JobsInv

LEMMA TypesStep ==
    ASSUME TypesInv, [RunsNext]_runVars
    PROVE  TypesInv'
  <1>0. RunsTypeOK /\ JobsInv
    BY DEF TypesInv
  <1>1. CASE UNCHANGED runVars
    <2>1. RunsTypeOK' /\ job' = job
      BY <1>0, <1>1 DEF RunsTypeOK, runVars
    <2> QED BY <1>0, <2>1, JobsStay DEF TypesInv
  <1>2. CASE Reinstall
    <2>1. JobsInv'
      BY <1>0, <1>2, JobsStay DEF Reinstall
    <2>2. \A c \in Callers : job[c].id \in 0 .. MaxJobs
      BY <1>0, CallerJob DEF Jobs
    <2>3. broken' \subseteq 0 .. MaxJobs
      BY <1>0, <1>2, <2>2 DEF Reinstall, RunsTypeOK
    <2>4. wipes' \in Nat
      BY <1>0, <1>2 DEF Reinstall, RunsTypeOK
    <2>5. RunsTypeOK'
      BY <1>0, <1>2, <2>3, <2>4 DEF Reinstall, RunsTypeOK
    <2> QED BY <2>1, <2>5 DEF TypesInv
  <1>3. ASSUME NEW c \in Callers, BeginRun(c) \/ BeginWorkflow(c) PROVE TypesInv'
    <2>1. job' \in [Callers -> Jobs] /\ JobsInv'
      BY <1>3, BeginJobs, JobMoves
    <2>2. jobs' \in 0 .. MaxJobs
      <3>1. jobs' \in jobs + 1 .. MaxJobs
        BY <1>3, BeginJobs
      <3>2. jobs \in 0 .. MaxJobs /\ MaxJobs \in Nat
        BY <1>0, RunsAssumption DEF RunsTypeOK
      <3> QED BY <3>1, <3>2
    <2>3. UNCHANGED <<memory, full, wipes, ended, broken>>
      BY <1>3, BeginJobs
    <2> QED BY <1>0, <2>1, <2>2, <2>3 DEF TypesInv, RunsTypeOK
  <1>4. ASSUME NEW c \in Callers, CheckTool(c) \/ CallTool(c) \/ AskModel(c) PROVE TypesInv'
    <2>1. job' \in [Callers -> Jobs] /\ JobsInv'
      BY <1>4, RunJobs, JobMoves
    <2>2. UNCHANGED <<memory, jobs, full, wipes, ended, broken>>
      BY <1>4, RunJobs
    <2> QED BY <1>0, <2>1, <2>2 DEF TypesInv, RunsTypeOK
  <1>5. ASSUME NEW c \in Callers,
               BeginAttempt(c) \/ EndAttempt(c) \/ \E t \in Tools : CountEvent(c, t) \/ ReadCount(c, t) \/ AppendEvent(c, t)
        PROVE  TypesInv'
    <2>1. job' \in [Callers -> Jobs] /\ JobsInv'
      BY <1>5, FlowJobs, JobMoves
    <2>2. UNCHANGED <<memory, jobs, full, wipes, ended, broken>>
      BY <1>5, FlowJobs
    <2> QED BY <1>0, <2>1, <2>2 DEF TypesInv, RunsTypeOK
  <1>6. ASSUME NEW c \in Callers, NEW role \in Roles, NEW next \in RunPcs, Remember(c, role, next) PROVE TypesInv'
    <2>1. job' \in [Callers -> Jobs] /\ JobsInv'
      BY <1>6, RememberJobs, JobMoves
    <2>2. job[c].id \in 0 .. MaxJobs
      BY <1>0, CallerJob DEF Jobs
    <2>3. <<job[c].id, role>> \in Lines \cup {Cut} /\ Cut \in Lines \cup {Cut}
      BY <2>2 DEF Lines
    <2>4. memory' \in Seq(Lines \cup {Cut}) /\ broken' \in {broken, broken \cup {job[c].id}}
      BY <1>0, <1>6, <2>3, RememberJobs, AppendedIs
    <2>5. UNCHANGED <<jobs, wipes, ended>> /\ full' \in Nat
      BY <1>6, RememberJobs
    <2>6. broken' \subseteq 0 .. MaxJobs
      BY <1>0, <2>2, <2>4 DEF RunsTypeOK
    <2> QED BY <1>0, <2>1, <2>4, <2>5, <2>6 DEF TypesInv, RunsTypeOK
  <1>7. ASSUME NEW c \in Callers, Finish(c) PROVE TypesInv'
    <2>1. job' \in [Callers -> Jobs] /\ JobsInv'
      BY <1>7, JobMoves, NoJobIs, NoJobOk DEF Finish
    <2>2. job[c].id \in 0 .. MaxJobs
      BY <1>0, CallerJob DEF Jobs
    <2>3. ended' \subseteq 0 .. MaxJobs /\ UNCHANGED <<memory, jobs, full, wipes, broken>>
      BY <1>0, <1>7, <2>2 DEF Finish, RunsTypeOK
    <2> QED BY <1>0, <2>1, <2>3 DEF TypesInv, RunsTypeOK
  <1>8. {"user", "assistant"} \subseteq Roles /\ {"assistant", "finish"} \subseteq RunPcs
    BY DEF Roles, RunPcs
  <1> QED BY <1>1, <1>2, <1>3, <1>4, <1>5, <1>6, <1>7, <1>8 DEF RunsNext

LEMMA TypesInit == RunsInit => TypesInv
  <1> SUFFICES ASSUME RunsInit PROVE TypesInv
    OBVIOUS
  <1>1. RunsTypeOK
    BY NoJobIs, RunsAssumption DEF RunsInit, RunsTypeOK
  <1>2. JobsInv
    BY NoJobOk DEF RunsInit, JobsInv
  <1> QED BY <1>1, <1>2 DEF TypesInv

(* Lines of the memory file parse or are cut, and every caller's job has   *)
(* the shape its place in the program asks for.                            *)
THEOREM RunTypes == RunsSpec => []RunsTypeOK
  <1>1. RunsSpec => []TypesInv
    BY TypesInit, TypesStep, PTL DEF RunsSpec
  <1>2. TypesInv => RunsTypeOK
    BY DEF TypesInv
  <1> QED BY <1>1, <1>2, PTL

(* What a workflow reports of the attempts of its steps is what happened:  *)
(* events are counted exactly, tool by tool and attempt by attempt.        *)
THEOREM WorkflowsReport == RunsSpec => []AttemptsAreReported
  <1>1. RunsSpec => []TypesInv
    BY TypesInit, TypesStep, PTL DEF RunsSpec
  <1>2. TypesInv => AttemptsAreReported
    <2> SUFFICES ASSUME TypesInv, NEW c \in Callers, NEW i \in DOMAIN job[c].results
                 PROVE  LET j == job[c]
                            r == j.results[i]
                        IN /\ r.attempts \in 1 .. Retries + 1
                           /\ ~r.ok => r.attempts = Retries + 1
                           /\ \A t \in j.steps[i] :
                                 /\ Happened(j, "policy.check", t) = r.attempts
                                 /\ Happened(j, "tool.call", t) <= r.attempts
                                 /\ IF Allowed(j.policy, t) THEN Happened(j, "tool.call", t) > 0
                                    ELSE Happened(j, "tool.call", t) = 0 /\ ~r.ok
      BY DEF AttemptsAreReported
    <2>1. PICK j : j = job[c]
      OBVIOUS
    <2>2. j \in Jobs /\ Shaped(j) /\ ReportsOf(j) /\ i \in DOMAIN j.results
      BY <2>1, CallerJob DEF TypesInv, JobsInv, JobOk
    <2>3. j.pc \in FlowPcs
      BY <2>2 DEF Shaped
    <2>4. PICK n : n = Len(j.results)
      OBVIOUS
    <2>5. j.results \in Seq(Results) /\ n \in Nat /\ i \in 1 .. n /\ j.steps \in Plans
      BY <2>2, <2>3, <2>4, FlowFacts DEF Jobs
    <2>6. PICK r : r = j.results[i]
      OBVIOUS
    <2>7. r.attempts \in 1 .. Retries + 1 /\ Retries \in Nat
      BY <2>2, <2>3, <2>4, <2>5, <2>6, FlowFacts
    <2>8. ResultOk(j, i)
      BY <2>2 DEF ReportsOf
    <2>9. i \in 1 .. Len(j.steps)
      <3>1. n <= Len(j.steps) /\ Len(j.steps) \in Nat
        BY <2>2, <2>3, <2>4, <2>5, PlansAre DEF Shaped, FlowPcs, Plans
      <3> QED BY <2>5, <3>1
    <2>10. ASSUME NEW t \in j.steps[i]
           PROVE  /\ Happened(j, "policy.check", t) = r.attempts
                  /\ Happened(j, "tool.call", t) = IF Allowed(j.policy, t) THEN r.attempts ELSE 0
                  /\ ~Allowed(j.policy, t) => ~r.ok
      <3>1. t \in Asked
        BY <2>5, <2>9, PlansAre
      <3>2. StepOf(j, t) = i
        BY <2>2, <2>5, <2>9, <3>1, OneStepEach
      <3>3. Tries(j, t) = r.attempts
        BY <2>4, <2>5, <2>6, <3>2 DEF Tries
      <3>4. Checked(j, t) = 0 /\ Called(j, t) = 0
        <4>1. CASE j.pc # "attempt"
          BY <4>1 DEF Checked, Called, UnderWay
        <4>2. CASE j.pc = "attempt"
          <5>1. DOMAIN j.kids = j.steps[n + 1] /\ n + 1 \in 1 .. Len(j.steps) /\ i # n + 1
            <6>1. n < Len(j.steps) /\ DOMAIN j.kids = j.steps[n + 1]
              BY <2>2, <2>4, <4>2 DEF Shaped, Current
            <6>2. Len(j.steps) \in Nat
              BY <2>5, PlansAre DEF Plans
            <6> QED BY <2>5, <6>1, <6>2
          <5>2. t \notin j.steps[n + 1]
            BY <2>2, <2>5, <3>1, <3>2, <5>1, OneStepEach
          <5> QED BY <5>1, <5>2 DEF Checked, Called, UnderWay
        <4> QED BY <4>1, <4>2
      <3>5. /\ Happened(j, "policy.check", t) = Tries(j, t) + Checked(j, t)
            /\ Happened(j, "tool.call", t) = IF Allowed(j.policy, t) THEN Tries(j, t) + Called(j, t) ELSE 0
        BY <2>2, <2>3, <3>1 DEF ReportsOf, Counted
      <3>6. ~Allowed(j.policy, t) => ~r.ok
        BY <2>6, <2>8 DEF ResultOk
      <3> QED BY <2>7, <3>3, <3>4, <3>5, <3>6
    <2> QED BY <2>1, <2>6, <2>7, <2>8, <2>10 DEF ResultOk
  <1> QED BY <1>1, <1>2, PTL

(* Events are numbered in the order they happened, tool by tool, and a     *)
(* number runs ahead by less than the threads that log at a time.          *)
THEOREM EventsInOrder == RunsSpec => []EventsNumberedInOrder
  <1>1. RunsSpec => []TypesInv
    BY TypesInit, TypesStep, PTL DEF RunsSpec
  <1>2. TypesInv => EventsNumberedInOrder
    <2> SUFFICES ASSUME TypesInv, NEW c \in Callers
                 PROVE  LET j == job[c] IN
                        /\ \A i \in DOMAIN j.events :
                              /\ j.events[i].number - i < IF j.steps = Parallel THEN 2 ELSE 1
                              /\ \A k \in 1 .. i - 1 :
                                    j.events[k].tool = j.events[i].tool => j.events[k].number < j.events[i].number
                        /\ (\A t \in DOMAIN j.kids : j.kids[t].pc \in {"count", "over"}) => j.number = Len(j.events)
      BY DEF EventsNumberedInOrder
    <2>1. PICK j : j = job[c]
      OBVIOUS
    <2>2. j \in Jobs /\ Numbered(j) /\ InOrder(j)
      BY <2>1, CallerJob DEF TypesInv, JobsInv, JobOk, Numbered
    <2>3. (\A t \in DOMAIN j.kids : j.kids[t].pc \in {"count", "over"}) => j.number = Len(j.events)
      <3> SUFFICES ASSUME \A t \in DOMAIN j.kids : j.kids[t].pc \in {"count", "over"} PROVE j.number = Len(j.events)
        OBVIOUS
      <3>1. Ahead(j, "search.docs") = 0 /\ Ahead(j, "time.now") = 0
        BY DEF Ahead
      <3>2. Len(j.events) \in Nat
        BY <2>2 DEF Jobs
      <3> QED BY <2>2, <3>1, <3>2 DEF Numbered
    <2> QED BY <2>1, <2>2, <2>3 DEF InOrder
  <1> QED BY <1>1, <1>2, PTL

-----------------------------------------------------------------------------
(* Memory.                                                                 *)

LEMMA TellsOther ==
    ASSUME RunsTypeOK, NEW line \in Lines \cup {Cut}, memory' = memory \/ memory' = Append(memory, line),
           NEW r, OfOther(line, r)
    PROVE  (Untold(r) => Untold(r)') /\ (TaskTold(r) => TaskTold(r)') /\ (Remembered(r) => Remembered(r)')
  <1>1. PICK s, u : s = memory /\ u = memory'
    OBVIOUS
  <1>2. CASE u = s
    BY <1>1, <1>2 DEF Untold, TaskTold, Remembered
  <1>3. CASE u = Append(s, line)
    <2>1. PICK n : n = Len(s)
      OBVIOUS
    <2>2. n \in Nat /\ DOMAIN s = 1 .. n /\ DOMAIN u = 1 .. n + 1 /\ u[n + 1] = line /\ \A i \in 1 .. n : u[i] = s[i]
      BY <1>1, <1>3, <2>1, AppendFacts DEF RunsTypeOK
    <2>3. \A i \in 1 .. n + 1 : i \in 1 .. n \/ i = n + 1
      BY <2>2
    <2>4. \A i \in 1 .. n : i \in 1 .. n + 1 /\ i # n + 1
      BY <2>2
    <2>5. Untold(r) => Untold(r)'
      BY <1>1, <2>2, <2>3 DEF Untold
    <2>6. ASSUME TaskTold(r) PROVE TaskTold(r)'
      <3>1. PICK i \in 1 .. n : s[i] = <<r, "user">> /\ \A l \in 1 .. n \ {i} : OfOther(s[l], r)
        BY <1>1, <2>2, <2>6 DEF TaskTold
      <3>2. u[i] = <<r, "user">> /\ i \in 1 .. n + 1 /\ \A l \in 1 .. n + 1 \ {i} : OfOther(u[l], r)
        BY <2>2, <2>3, <2>4, <3>1
      <3> QED BY <1>1, <2>2, <3>2 DEF TaskTold
    <2>7. ASSUME Remembered(r) PROVE Remembered(r)'
      <3>1. PICK i \in 1 .. n, k \in 1 .. n :
               /\ i < k /\ s[i] = <<r, "user">> /\ s[k] = <<r, "assistant">>
               /\ \A l \in 1 .. n \ {i, k} : OfOther(s[l], r)
        BY <1>1, <2>2, <2>7 DEF Remembered
      <3>2. /\ i \in 1 .. n + 1 /\ k \in 1 .. n + 1 /\ u[i] = <<r, "user">> /\ u[k] = <<r, "assistant">>
            /\ \A l \in 1 .. n + 1 \ {i, k} : OfOther(u[l], r)
        BY <2>2, <2>3, <2>4, <3>1
      <3> QED BY <1>1, <2>2, <3>1, <3>2 DEF Remembered
    <2> QED BY <2>5, <2>6, <2>7
  <1> QED BY <1>1, <1>2, <1>3

LEMMA TellsOwn ==
    ASSUME RunsTypeOK, NEW r \in 0 .. MaxJobs, NEW role \in Roles, memory' = Append(memory, <<r, role>>)
    PROVE  /\ role = "user" /\ Untold(r) => TaskTold(r)'
           /\ role = "assistant" /\ TaskTold(r) => Remembered(r)'
  <1>0. PICK line : line = <<r, role>>
    OBVIOUS
  <1>1. PICK s, u : s = memory /\ u = memory'
    OBVIOUS
  <1>2. PICK n : n = Len(s)
    OBVIOUS
  <1>3. line \in Lines \cup {Cut} /\ u = Append(s, line)
    BY <1>0, <1>1 DEF Lines
  <1>4. n \in Nat /\ DOMAIN s = 1 .. n /\ DOMAIN u = 1 .. n + 1 /\ u[n + 1] = line /\ \A i \in 1 .. n : u[i] = s[i]
    <2>1. s \in Seq(Lines \cup {Cut})
      BY <1>1 DEF RunsTypeOK
    <2> QED BY <1>2, <1>3, <2>1, AppendFacts
  <1>5. \A i \in 1 .. n + 1 : i \in 1 .. n \/ i = n + 1
    BY <1>4
  <1>6. n + 1 \in 1 .. n + 1 /\ \A i \in 1 .. n : i \in 1 .. n + 1 /\ i < n + 1
    BY <1>4
  <1>7. ASSUME role = "user", Untold(r) PROVE TaskTold(r)'
    <2>1. \A l \in 1 .. n : OfOther(s[l], r)
      BY <1>1, <1>4, <1>7 DEF Untold
    <2>2. u[n + 1] = <<r, "user">> /\ \A l \in 1 .. n + 1 \ {n + 1} : OfOther(u[l], r)
      BY <1>0, <1>4, <1>5, <1>7, <2>1
    <2> QED BY <1>1, <1>4, <1>6, <2>2 DEF TaskTold
  <1>8. ASSUME role = "assistant", TaskTold(r) PROVE Remembered(r)'
    <2>1. PICK i \in 1 .. n : s[i] = <<r, "user">> /\ \A l \in 1 .. n \ {i} : OfOther(s[l], r)
      BY <1>1, <1>4, <1>8 DEF TaskTold
    <2>2. /\ i < n + 1 /\ i \in 1 .. n + 1 /\ u[i] = <<r, "user">> /\ u[n + 1] = <<r, "assistant">>
          /\ \A l \in 1 .. n + 1 \ {i, n + 1} : OfOther(u[l], r)
      BY <1>0, <1>4, <1>5, <1>6, <1>8, <2>1
    <2> QED BY <1>1, <1>4, <1>6, <2>2 DEF Remembered
  <1> QED BY <1>7, <1>8

(* A step of one caller that keeps its id, or ends its job.                *)
LEMMA IdsStay ==
    ASSUME TypesInv, IdsApart, NEW c \in Callers, job[c].pc # "idle", NEW k \in Jobs, Step(c, k),
           k = NoJob \/ k.id = job[c].id, jobs' = jobs,
           NEW line \in Lines \cup {Cut}, memory' = memory \/ memory' = Append(memory, line),
           line = Cut \/ line[1] = job[c].id,
           ended' = ended \/ (ended' = ended \cup {job[c].id} /\ k = NoJob)
    PROVE  IdsApart'
  <1>1. /\ job' \in [Callers -> Jobs] /\ job'[c] = k
        /\ \A d \in Callers \ {c} : job'[d] = job[d]
    BY Stepped DEF TypesInv
  <1>2. \A d \in Callers : job[d].pc # "idle" => job[d].id \in (1 .. jobs) \ ended
    BY DEF IdsApart
  <1>3. \A d \in Callers : d # c /\ job[d].pc # "idle" => job[d].id # job[c].id
    BY DEF IdsApart
  <1>4. \A d \in Callers : job'[d].pc # "idle" => job[d].pc # "idle" /\ job'[d].id = job[d].id
    BY <1>1, NoJobIs
  <1>5. ASSUME NEW d \in Callers, job'[d].pc # "idle" PROVE job'[d].id \in (1 .. jobs') \ ended'
    <2>1. job'[d].id = job[d].id /\ job[d].id \in (1 .. jobs) \ ended
      BY <1>2, <1>4, <1>5
    <2>2. k = NoJob => d # c
      BY <1>1, <1>5, NoJobIs
    <2> QED BY <1>3, <1>4, <1>5, <2>1, <2>2
  <1>6. ASSUME NEW d \in Callers, NEW e \in Callers, d # e, job'[d].pc # "idle", job'[e].pc # "idle"
        PROVE  job'[d].id # job'[e].id
    BY <1>4, <1>6 DEF IdsApart
  <1>7. ended' \subseteq 1 .. jobs'
    BY <1>2 DEF IdsApart
  <1>8. \A l \in DOMAIN memory' : memory'[l] = Cut \/ memory'[l][1] \in 1 .. jobs'
    <2>1. line = Cut \/ line[1] \in 1 .. jobs
      BY <1>2
    <2>2. CASE memory' = memory
      BY <2>2 DEF IdsApart
    <2>3. CASE memory' = Append(memory, line)
      <3>1. PICK s, u, n : s = memory /\ u = memory' /\ n = Len(s)
        OBVIOUS
      <3>2. n \in Nat /\ DOMAIN s = 1 .. n /\ DOMAIN u = 1 .. n + 1 /\ u[n + 1] = line /\ \A i \in 1 .. n : u[i] = s[i]
        BY <2>3, <3>1, AppendFacts DEF TypesInv, RunsTypeOK
      <3>3. \A i \in 1 .. n + 1 : i \in 1 .. n \/ i = n + 1
        BY <3>2
      <3>4. \A l \in 1 .. n : s[l] = Cut \/ s[l][1] \in 1 .. jobs
        BY <3>1, <3>2 DEF IdsApart
      <3> QED BY <2>1, <3>1, <3>2, <3>3, <3>4
    <2> QED BY <2>2, <2>3
  <1> QED BY <1>5, <1>6, <1>7, <1>8 DEF IdsApart

(* The others' jobs are told as they were.                                 *)
LEMMA OthersTold ==
    ASSUME TypesInv, MemoryInv, NEW c \in Callers, job[c].pc # "idle", NEW k \in Jobs, Step(c, k),
           NEW line \in Lines \cup {Cut}, memory' = memory \/ memory' = Append(memory, line),
           OfOther(line, job[c].id) \/ line[1] = job[c].id, broken \subseteq broken'
    PROVE  /\ \A d \in Callers \ {c} : job'[d] = job[d] /\ (OfOther(line, job[d].id) => Told(job[d])')
           /\ \A r \in ended \ broken : OfOther(line, r) => Remembered(r)'
  <1>1. \A d \in Callers \ {c} : job'[d] = job[d]
    BY Stepped DEF TypesInv
  <1>2. RunsTypeOK
    BY DEF TypesInv
  <1>3. ASSUME NEW d \in Callers \ {c}, OfOther(line, job[d].id) PROVE Told(job[d])'
    <2>1. PICK m, r : m = job[d] /\ r = m.id
      OBVIOUS
    <2>2. (Untold(r) => Untold(r)') /\ (TaskTold(r) => TaskTold(r)') /\ (Remembered(r) => Remembered(r)')
      BY <1>2, <1>3, <2>1, TellsOther
    <2>3. Told(m)
      BY <2>1 DEF MemoryInv
    <2>4. job'[d] = m
      BY <1>1, <2>1
    <2>5. Told(m)'
      BY <2>1, <2>2, <2>3 DEF Told
    <2> QED BY <2>4, <2>5 DEF Told, Untold, TaskTold, Remembered, OfOther
  <1>4. ASSUME NEW r \in ended \ broken, OfOther(line, r) PROVE Remembered(r)'
    BY <1>2, <1>4, TellsOther DEF MemoryInv
  <1> QED BY <1>1, <1>3, <1>4

LEMMA SilentMemory ==
    ASSUME TypesInv, MemoryInv, NEW c \in Callers, job[c].pc # "idle", NEW k \in Jobs, Step(c, k),
           k = NoJob \/ (k.id = job[c].id /\ (k.pc \in FlowPcs \/ (/\ job[c].pc \in {"check", "call", "ask"}
                                                                  /\ k.pc \in {"call", "ask", "user"}))),
           UNCHANGED <<memory, jobs, broken>>,
           ended' = ended \/ (ended' = ended \cup {job[c].id} /\ k = NoJob /\ job[c].pc = "finish")
    PROVE  MemoryInv'
  <1>1. /\ job' \in [Callers -> Jobs] /\ job'[c] = k
        /\ \A d \in Callers \ {c} : job'[d] = job[d]
    BY Stepped DEF TypesInv
  <1>2. \A r : Untold(r)' = Untold(r) /\ TaskTold(r)' = TaskTold(r) /\ Remembered(r)' = Remembered(r)
    BY DEF Untold, TaskTold, Remembered
  <1>3. IdsApart'
    <2>1. Cut \in Lines \cup {Cut}
      OBVIOUS
    <2> QED BY <2>1, IdsStay DEF MemoryInv
  <1>4. Told(job[c])
    BY DEF MemoryInv
  <1>5. ASSUME NEW d \in Callers PROVE Told(job[d])'
    <2>1. CASE d = c
      <3>1. k.pc \in {"check", "call", "ask", "user"} => Untold(k.id)'
        BY <1>2, <1>4, NoJobIs DEF Told, FlowPcs
      <3>2. k.pc # "assistant" /\ k.pc # "finish"
        BY NoJobIs DEF FlowPcs
      <3> QED BY <1>1, <2>1, <3>1, <3>2 DEF Told
    <2>2. CASE d # c
      <3>1. Told(job[d]) /\ job'[d] = job[d]
        BY <1>1, <2>2 DEF MemoryInv
      <3> QED BY <1>2, <3>1 DEF Told
    <2> QED BY <2>1, <2>2
  <1>6. ASSUME NEW r \in (ended \ broken)' PROVE Remembered(r)'
    <2>1. CASE r \in ended
      BY <1>2, <1>6, <2>1 DEF MemoryInv
    <2>2. CASE r \notin ended
      BY <1>2, <1>4, <1>6, <2>2 DEF Told
    <2> QED BY <2>1, <2>2
  <1> QED BY <1>3, <1>5, <1>6 DEF MemoryInv

LEMMA RememberMemory ==
    ASSUME TypesInv, MemoryInv, NEW c \in Callers, NEW role \in Roles,
           NEW next, next = (IF role = "user" THEN "assistant" ELSE "finish"), Remember(c, role, next)
    PROVE  MemoryInv'
  <1>0. RunsTypeOK /\ next \in RunPcs
    BY DEF TypesInv, RunPcs
  <1>1. PICK k \in Jobs :
           /\ Step(c, k) /\ job[c].pc = role
           /\ \/ k = NoJob /\ memory' = Appended(job[c], Cut) /\ broken' = broken
              \/ /\ k.pc = next /\ k.id = job[c].id
                 /\ memory' = Appended(job[c], <<job[c].id, role>>)
                 /\ broken' = IF memory' = memory THEN broken \cup {job[c].id} ELSE broken
    BY <1>0, RememberJobs
  <1>2. UNCHANGED <<jobs, wipes, ended>>
    BY <1>0, RememberJobs
  <1>3. PICK r \in 0 .. MaxJobs : r = job[c].id
    BY <1>0, CallerJob DEF Jobs
  <1>4. job[c].pc # "idle" /\ r \in (1 .. jobs) \ ended
    BY <1>1, <1>3 DEF Roles, MemoryInv, IdsApart
  <1>5. PICK line \in Lines \cup {Cut} :
           /\ memory' = Appended(job[c], line)
           /\ \/ line = Cut /\ k = NoJob /\ broken' = broken
              \/ /\ line = <<r, role>> /\ k.pc = next /\ k.id = r
                 /\ broken' = IF memory' = memory THEN broken \cup {r} ELSE broken
    <2>1. <<r, role>> \in Lines
      BY DEF Lines
    <2> QED BY <1>1, <1>3, <2>1
  <1>6. memory' = memory \/ memory' = Append(memory, line)
    BY <1>0, <1>5, AppendedIs
  <1>7. line = Cut \/ line[1] = r
    BY <1>5
  <1>8. /\ job' \in [Callers -> Jobs] /\ job'[c] = k
        /\ \A d \in Callers \ {c} : job'[d] = job[d]
    BY <1>0, <1>1, Stepped
  <1>9. IdsApart'
    <2>1. k = NoJob \/ k.id = job[c].id
      BY <1>1
    <2> QED BY <1>1, <1>2, <1>3, <1>4, <1>6, <1>7, <2>1, IdsStay DEF MemoryInv
  <1>10. /\ \A d \in Callers \ {c} : job'[d] = job[d] /\ (OfOther(line, job[d].id) => Told(job[d])')
         /\ \A q \in ended \ broken : OfOther(line, q) => Remembered(q)'
    <2>1. broken \subseteq broken'
      BY <1>5
    <2>2. OfOther(line, job[c].id) \/ line[1] = job[c].id
      BY <1>3, <1>7 DEF OfOther
    <2> QED BY <1>1, <1>4, <1>6, <2>1, <2>2, OthersTold
  <1>11. ASSUME NEW d \in Callers \ {c} PROVE Told(job[d])'
    <2>1. CASE job[d].pc = "idle"
      <3>1. job'[d].pc = "idle"
        BY <1>10, <2>1
      <3> QED BY <3>1 DEF Told
    <2>2. CASE job[d].pc # "idle"
      <3>1. job[d].id # r
        BY <1>3, <1>4, <2>2 DEF MemoryInv, IdsApart
      <3> QED BY <1>7, <1>10, <3>1 DEF OfOther
    <2> QED BY <2>1, <2>2
  <1>12. \A q \in (ended \ broken)' : Remembered(q)'
    <2>1. ASSUME NEW q \in (ended \ broken)' PROVE Remembered(q)'
      <3>1. q \in ended \ broken /\ q # r
        BY <1>2, <1>4, <1>5, <2>1
      <3> QED BY <1>7, <1>10, <3>1 DEF OfOther
    <2> QED BY <2>1
  <1>13. Told(job[c])'
    <2>1. CASE k = NoJob
      BY <1>8, <2>1, NoJobIs DEF Told
    <2>2. CASE /\ line = <<r, role>> /\ k.pc = next /\ k.id = r
               /\ broken' = IF memory' = memory THEN broken \cup {r} ELSE broken
      <3>1. CASE memory' = memory
        <4>1. r \in broken' /\ k.pc \in {"assistant", "finish"}
          BY <2>2, <3>1
        <4> QED BY <1>8, <2>2, <4>1 DEF Told
      <3>2. CASE memory' = Append(memory, line) /\ memory' # memory
        <4>1. broken' = broken
          BY <2>2, <3>2
        <4>2. /\ role = "user" /\ Untold(r) => TaskTold(r)'
              /\ role = "assistant" /\ TaskTold(r) => Remembered(r)'
          BY <1>0, <2>2, <3>2, TellsOwn
        <4>3. Told(job[c])
          BY DEF MemoryInv
        <4>4. CASE role = "user"
          <5>1. Untold(r) /\ k.pc = "assistant"
            BY <1>1, <1>3, <2>2, <4>3, <4>4 DEF Told
          <5> QED BY <1>8, <2>2, <4>2, <4>4, <5>1 DEF Told
        <4>5. CASE role = "assistant"
          <5>1. (r \notin broken => TaskTold(r)) /\ k.pc = "finish"
            BY <1>1, <1>3, <2>2, <4>3, <4>5 DEF Told
          <5> QED BY <1>8, <2>2, <4>1, <4>2, <4>5, <5>1 DEF Told
        <4> QED BY <4>4, <4>5 DEF Roles
      <3> QED BY <1>6, <3>1, <3>2
    <2> QED BY <1>5, <2>1, <2>2
  <1> QED BY <1>9, <1>11, <1>12, <1>13 DEF MemoryInv

LEMMA BeginMemory ==
    ASSUME TypesInv, MemoryInv, NEW c \in Callers, BeginRun(c) \/ BeginWorkflow(c)
    PROVE  MemoryInv'
  <1>1. PICK k \in Jobs : Step(c, k) /\ (k = NoJob \/ Begins(k))
    BY BeginJobs
  <1>2. job[c].pc \in Over /\ jobs' \in jobs + 1 .. MaxJobs /\ UNCHANGED <<memory, full, wipes, ended, broken>>
    BY BeginJobs
  <1>3. /\ job' \in [Callers -> Jobs] /\ job'[c] = k
        /\ \A d \in Callers \ {c} : job'[d] = job[d]
    BY <1>1, Stepped DEF TypesInv
  <1>4. PICK n, m : n = jobs /\ m = jobs'
    OBVIOUS
  <1>5. n \in Nat /\ m \in Nat /\ n + 1 <= m /\ n + 1 \notin 1 .. n /\ n + 1 \in 1 .. m /\ 1 .. n \subseteq 1 .. m
    <2>1. n \in Nat /\ MaxJobs \in Nat
      BY <1>4, RunsAssumption DEF TypesInv, RunsTypeOK
    <2> QED BY <1>2, <1>4, <2>1
  <1>6. \A r : Untold(r)' = Untold(r) /\ TaskTold(r)' = TaskTold(r) /\ Remembered(r)' = Remembered(r)
    BY <1>2 DEF Untold, TaskTold, Remembered
  <1>7. /\ \A d \in Callers : job[d].pc # "idle" => job[d].id \in (1 .. n) \ ended
        /\ \A d, e \in Callers : d # e /\ job[d].pc # "idle" /\ job[e].pc # "idle" => job[d].id # job[e].id
        /\ \A l \in DOMAIN memory : memory[l] = Cut \/ memory[l][1] \in 1 .. n
        /\ ended \subseteq 1 .. n
    BY <1>4 DEF MemoryInv, IdsApart
  <1>8. k = NoJob \/ k.id = n + 1
    BY <1>1, <1>4 DEF Begins
  <1>9. IdsApart'
    <2>1. ASSUME NEW d \in Callers, job'[d].pc # "idle" PROVE job'[d].id \in (1 .. m) \ ended
      <3>1. CASE d = c
        BY <1>3, <1>5, <1>7, <1>8, <2>1, <3>1, NoJobIs
      <3>2. CASE d # c
        BY <1>3, <1>5, <1>7, <2>1, <3>2
      <3> QED BY <3>1, <3>2
    <2>2. ASSUME NEW d \in Callers, NEW e \in Callers, d # e, job'[d].pc # "idle", job'[e].pc # "idle"
          PROVE  job'[d].id # job'[e].id
      <3>1. \A f \in Callers \ {c} : job'[f].pc # "idle" => job'[f].id \in 1 .. n
        BY <1>3, <1>7
      <3>2. CASE d # c /\ e # c
        BY <1>3, <1>7, <2>2, <3>2
      <3>3. CASE d = c \/ e = c
        BY <1>3, <1>5, <1>8, <2>2, <3>1, <3>3, NoJobIs
      <3> QED BY <3>2, <3>3
    <2>3. \A l \in DOMAIN memory : memory[l] = Cut \/ memory[l][1] \in 1 .. m
      BY <1>5, <1>7
    <2>4. ended \subseteq 1 .. m
      BY <1>5, <1>7
    <2> QED BY <1>2, <1>4, <2>1, <2>2, <2>3, <2>4 DEF IdsApart
  <1>10. ASSUME NEW d \in Callers PROVE Told(job[d])'
    <2>1. CASE d # c
      <3>1. Told(job[d]) /\ job'[d] = job[d]
        BY <1>3, <2>1 DEF MemoryInv
      <3> QED BY <1>2, <1>6, <3>1 DEF Told
    <2>2. CASE d = c /\ k = NoJob
      BY <1>3, <2>2, NoJobIs DEF Told
    <2>3. CASE d = c /\ Begins(k)
      <3>1. Untold(n + 1)
        <4>1. ASSUME NEW l \in DOMAIN memory PROVE OfOther(memory[l], n + 1)
          BY <1>5, <1>7 DEF OfOther
        <4> QED BY <4>1 DEF Untold
      <3>2. k.id = n + 1 /\ k.pc \notin {"assistant", "finish"}
        BY <1>4, <2>3 DEF Begins
      <3> QED BY <1>3, <1>6, <2>3, <3>1, <3>2 DEF Told
    <2> QED BY <1>1, <2>1, <2>2, <2>3
  <1>11. \A r \in (ended \ broken)' : Remembered(r)'
    BY <1>2, <1>6 DEF MemoryInv
  <1> QED BY <1>9, <1>10, <1>11 DEF MemoryInv

LEMMA ReinstallMemory ==
    ASSUME TypesInv, MemoryInv, Reinstall
    PROVE  MemoryInv'
  <1>1. /\ job' = job /\ jobs' = jobs /\ memory' = <<>> /\ ended' = {}
        /\ \A c \in Callers : job[c].id \in broken'
    BY DEF Reinstall
  <1>2. IdsApart'
    BY <1>1 DEF MemoryInv, IdsApart
  <1>3. \A r : Untold(r)'
    BY <1>1 DEF Untold
  <1>4. \A c \in Callers : Told(job[c])'
    BY <1>1, <1>3 DEF Told
  <1> QED BY <1>1, <1>2, <1>4 DEF MemoryInv

LEMMA MemoryStep ==
    ASSUME TypesInv, MemoryInv, [RunsNext]_runVars
    PROVE  MemoryInv'
  <1>1. CASE UNCHANGED runVars
    <2>1. UNCHANGED <<memory, job, jobs, ended, broken>>
      BY <1>1 DEF runVars
    <2> QED BY <2>1 DEF MemoryInv, IdsApart, Told, Untold, TaskTold, Remembered
  <1>2. CASE Reinstall
    BY <1>2, ReinstallMemory
  <1>3. ASSUME NEW c \in Callers, CheckTool(c) \/ CallTool(c) \/ AskModel(c) PROVE MemoryInv'
    <2>1. PICK k \in Jobs : /\ Step(c, k) /\ job[c].pc \in {"check", "call", "ask"}
                            /\ k = NoJob \/ (k.id = job[c].id /\ k.pc \in {"call", "ask", "user"})
      BY <1>3, RunJobs
    <2>2. UNCHANGED <<memory, jobs, full, wipes, ended, broken>>
      BY <1>3, RunJobs
    <2> QED BY <2>1, <2>2, SilentMemory
  <1>4. ASSUME NEW c \in Callers,
               BeginAttempt(c) \/ EndAttempt(c) \/ \E t \in Tools : CountEvent(c, t) \/ ReadCount(c, t) \/ AppendEvent(c, t)
        PROVE  MemoryInv'
    <2>1. PICK k \in Jobs : /\ Step(c, k) /\ k.id = job[c].id
                            /\ job[c].pc \in {"step", "attempt"} /\ k.pc \in FlowPcs
      BY <1>4, FlowJobs
    <2>2. UNCHANGED <<memory, jobs, full, wipes, ended, broken>>
      BY <1>4, FlowJobs
    <2> QED BY <2>1, <2>2, SilentMemory
  <1>5. ASSUME NEW c \in Callers, Finish(c) PROVE MemoryInv'
    <2>1. /\ Step(c, NoJob) /\ job[c].pc = "finish" /\ ended' = ended \cup {job[c].id}
          /\ UNCHANGED <<memory, jobs, broken>>
      BY <1>5 DEF Finish, At
    <2> QED BY <2>1, SilentMemory, NoJobIs
  <1>6. ASSUME NEW c \in Callers, Remember(c, "user", "assistant") \/ Remember(c, "assistant", "finish") PROVE MemoryInv'
    BY <1>6, RememberMemory DEF Roles
  <1>7. ASSUME NEW c \in Callers, BeginRun(c) \/ BeginWorkflow(c) PROVE MemoryInv'
    BY <1>7, BeginMemory
  <1> QED BY <1>1, <1>2, <1>3, <1>4, <1>5, <1>6, <1>7 DEF RunsNext

(* Of every run that ended since the agent was installed, and lost no line *)
(* to a failed append or an install, the memory file has the task and      *)
(* after it the answer, once each.                                         *)
THEOREM EndedRunsRemembered == RunsSpec => []EndedRunsAreRemembered
  <1>1. RunsInit => TypesInv /\ MemoryInv
    <2>1. ASSUME RunsInit PROVE MemoryInv
      BY <2>1, NoJobIs DEF RunsInit, MemoryInv, IdsApart, Told
    <2> QED BY <2>1, TypesInit
  <1>2. TypesInv /\ MemoryInv /\ [RunsNext]_runVars => (TypesInv /\ MemoryInv)'
    BY TypesStep, MemoryStep
  <1>3. TypesInv /\ MemoryInv => EndedRunsAreRemembered
    BY DEF MemoryInv, EndedRunsAreRemembered, Remembered, OfOther
  <1> QED BY <1>1, <1>2, <1>3, PTL DEF RunsSpec

-----------------------------------------------------------------------------
(***************************************************************************)
(* The platform.                                                           *)
(***************************************************************************)

(* A run of the platform is a run of each of its parts: the groups share   *)
(* no file, and a command of one leaves the others' alone.                 *)
LEMMA PlatformParts == PlatformSpec => Spec /\ PkgSpec /\ RunsSpec
  <1>1. PlatformInit => Init /\ PkgInit /\ RunsInit
    BY DEF PlatformInit
  <1>2. [PlatformNext]_platformVars => [Next]_vars /\ [PkgNext]_pkgVars /\ [RunsNext]_runVars
    BY DEF PlatformNext, platformVars
  <1> QED BY <1>1, <1>2, PTL DEF PlatformSpec, Spec, PkgSpec, RunsSpec

(* What the parts promise holds of the platform, whichever command groups  *)
(* are used.                                                               *)
THEOREM PlatformKeepsPromises ==
    PlatformSpec => []( /\ TrafficGoesToLive /\ DerivedFollowsReports /\ AckedRevisionKept
                        /\ ReportedIsInstalled /\ InstallClosesDependencies
                        /\ EndedRunsAreRemembered /\ AttemptsAreReported /\ EventsNumberedInOrder )
  BY PlatformParts, TrafficIsRouted, DerivedIsCurrent, AckedAreKept, ReportTrue, InstallClosed,
     EndedRunsRemembered, WorkflowsReport, EventsInOrder, PTL
==============================================================================
