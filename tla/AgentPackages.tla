--------------------------- MODULE AgentPackages ---------------------------
(***************************************************************************)
(* Agent packages: src/mellowlang/agents/registry_groups and the commands  *)
(* of cli/commands/agent_groups/lifecycle.py.  An author keeps the         *)
(* directory of an agent, builds and publishes it, writes its agent.lock   *)
(* and installs; others publish to the same registry directory and to a    *)
(* registry server.  One command runs at a time and may be killed.         *)
(*                                                                         *)
(* A tree is what a package directory holds: the release (agent.toml and   *)
(* the sources), the archives built in it and its agent.lock.  Its archive *)
(* and the sha256 of that are the tree itself, since archives are          *)
(* reproducible.  A publish that is killed while it removes or copies a    *)
(* directory leaves any part of it; an installed directory removed or      *)
(* unpacked in part counts as HalfTree.                                    *)
(* Left out: signatures, tokens, search, names that are not normal.        *)
(***************************************************************************)
EXTENDS Naturals, Sequences, FiniteSets

CONSTANTS
    Own,          \* the author's package
    OwnReleases,  \* what the author's directory may become
    Releases,     \* what others may publish
    Published,    \* what they have published before
    Rank,         \* the place of a version among the others as strings
    MaxCommands,  \* bound: commands, edits and publishes on the server; see InstallFollows
    MaxKills      \* bound: commands that are killed or whose download fails

VARIABLES
    own,        \* the release the author's directory holds
    litter,     \* archives in the author's directory, by the version in their names
    agentLock,  \* its agent.lock
    shelf,      \* mellow_agent_packages/registry
    tree,       \* mellow_agent_packages/installed
    server,     \* the registry server: the archive of each version
    cache,      \* downloaded archives
    task,       \* the command under way
    report,     \* what the last install reported, if it ended well
    commands, kills,
    halfShelf   \* packages whose last publish was killed

(* Version a.b.c is 10 * a + b.  A release has a name, a version and the   *)
(* constraints of its dependencies, each a set of comparisons.             *)
Catalogue == OwnReleases \cup Releases \cup Published

ASSUME PackagesAssumption ==
    /\ IsFiniteSet(Catalogue)
    /\ \A r \in OwnReleases : r.name = Own
    /\ \A r \in Catalogue : r.ver \in Nat /\ Rank[r.ver] \in Nat
    /\ MaxCommands \in Nat /\ MaxKills \in Nat

pkgVars == <<own, litter, agentLock, shelf, tree, server, cache, task, report, commands, kills,
             halfShelf>>

(* What may be there instead of a tree, an archive or a manifest: nothing, *)
(* one cut short that cannot be read, or some of a tree's files.           *)
Gone     == [left |-> "nothing"]
HalfTree == [left |-> "half"]
Remains  == [left |-> "some"]

NoFiles  == [v \in {} |-> Gone]
Put(fs, v, f) == [w \in DOMAIN fs \cup {v} |-> IF w = v THEN f ELSE fs[w]]

Plain(r) == [rel |-> r, litter |-> NoFiles, lock |-> Gone]
OwnTree  == [rel |-> own, litter |-> litter, lock |-> agentLock]
Keys     == {<<r.name, r.ver>> : r \in Catalogue}

(* A published directory: the tree copied, what its agent.toml says, the   *)
(* archives and the one listed first, and agent-manifest.json.             *)
Dir(t, toml, archives, first, index) ==
    [tree |-> t, toml |-> toml, archives |-> archives, first |-> first, index |-> index]
Toml(t)  == [deps |-> t.rel.deps]
Index(t) == [deps |-> t.rel.deps, sha |-> t]

(* Any of the archives may be listed first (0 where there is none).        *)
Listed(as) == IF DOMAIN as = {} THEN {0} ELSE DOMAIN as

(* pc; the tree built or published; for an install the packages under way, *)
(* the pins still to do, the packages met, what is done, what it was asked *)
(* for and whether by a lock; the lock to be written.                      *)
NoTask == [pc |-> "none", tree |-> Gone, frames |-> <<>>, pins |-> {}, seen |-> {},
           found |-> {}, roots |-> {}, mode |-> "direct", lock |-> Gone]

NoReport == [found |-> {}, roots |-> {}, mode |-> "direct"]

PkgInit ==
    /\ own \in OwnReleases
    /\ litter = NoFiles /\ agentLock = Gone
    /\ shelf = [k \in Keys |->
                  LET rs == {r \in Published : <<r.name, r.ver>> = k}
                  IN  IF rs = {} THEN Gone
                      ELSE LET t == Plain(CHOOSE r \in rs : TRUE)
                           IN  Dir(t, Toml(t), Put(NoFiles, t.rel.ver, t), t.rel.ver, Index(t))]
    /\ tree = [k \in Keys |-> Gone]
    /\ server = [k \in Keys |-> Gone] /\ cache = [k \in Keys |-> Gone]
    /\ task = NoTask /\ report = NoReport
    /\ commands = 0 /\ kills = 0 /\ halfShelf = {}

-----------------------------------------------------------------------------
(* version_satisfies: every part of the constraint holds.                  *)
Major(v) == v \div 10
Accepts(v, spec) ==
    \A p \in spec :
        CASE p.op = "^"  -> v >= p.ver /\ Major(v) = Major(p.ver)
          [] p.op = ">=" -> v >= p.ver
          [] p.op = "<"  -> v < p.ver
          [] p.op = "==" -> v = p.ver

(* list_local_agent_versions sorts the directories' names.                 *)
ShelfVersions(n) == {k[2] : k \in {l \in Keys : l[1] = n /\ shelf[l] # Gone}}
LastOf(vs) == CHOOSE v \in vs : \A w \in vs : Rank[w] <= Rank[v]

(* The version a dependency is resolved to, if any satisfies it.           *)
Chosen(n, spec) ==
    LET fit == {v \in ShelfVersions(n) : Accepts(v, spec)}
    IN  IF fit = {} THEN {} ELSE {LastOf(fit)}

(* The manifest of a published package is agent-manifest.json, or          *)
(* agent.toml where that is missing: nothing else of a package is read.    *)
Manifest(k) == IF shelf[k].index # Gone THEN shelf[k].index ELSE shelf[k].toml
Readable(k) == k \in Keys /\ shelf[k] # Gone /\ Manifest(k) \notin {Gone, HalfTree}
DepsOf(k)   == Manifest(k).deps

(* _local_archive_and_sha takes the first archive that the directory       *)
(* lists; where there is none, the hash that agent-manifest.json names.    *)
FoundArchive(k) ==
    IF DOMAIN shelf[k].archives = {} THEN Gone ELSE shelf[k].archives[shelf[k].first]
LocalSha(k) ==
    IF DOMAIN shelf[k].archives # {} THEN FoundArchive(k)
    ELSE IF shelf[k].index \in {Gone, HalfTree} THEN Gone ELSE shelf[k].index.sha

(* What resolving from k visits: the packages chosen for the dependencies  *)
(* and theirs, which is the least set that has k and is closed.            *)
Closed(ks) ==
    \A l \in ks : Readable(l) =>
        \A n \in DOMAIN DepsOf(l) : \A v \in Chosen(n, DepsOf(l)[n]) : <<n, v>> \in ks
Resolved(k) ==
    LET closed == {ks \in SUBSET Keys : k \in ks /\ Closed(ks)}
    IN  {l \in Keys : \A ks \in closed : l \in ks}

(* Every package visited can be read and every dependency satisfied.       *)
Resolves(k) ==
    \A l \in Resolved(k) : Readable(l) /\ \A n \in DOMAIN DepsOf(l) : Chosen(n, DepsOf(l)[n]) # {}

-----------------------------------------------------------------------------
Free == task.pc = "none" /\ commands < MaxCommands

(* Bound: the last command allowed is an install, since the others change  *)
(* what a later install finds and report nothing.                          *)
InstallFollows == commands + 1 < MaxCommands

Started(t) ==
    /\ Free
    /\ commands' = commands + 1
    /\ task' = t
    /\ report' = NoReport

Running(pc) == task.pc = pc
Continue(pc) == task' = [task EXCEPT !.pc = pc]
Ended == task' = NoTask

dirs == <<own, litter, agentLock>>
net  == <<server, cache>>
bounds == <<commands, kills>>

(* The author edits the directory: another version, or other dependencies. *)
EditOwn(r) ==
    /\ InstallFollows
    /\ Free
    /\ own # r
    /\ own' = r
    /\ commands' = commands + 1
    /\ report' = NoReport
    /\ UNCHANGED <<litter, agentLock, shelf, tree, net, task, kills, halfShelf>>

(* build_agent_archive writes into the directory itself.                   *)
BuildOwn ==
    /\ InstallFollows
    /\ Started([NoTask EXCEPT !.pc = "build", !.tree = OwnTree])
    /\ litter' = Put(litter, own.ver, HalfTree)
    /\ UNCHANGED <<own, agentLock, shelf, tree, net, kills, halfShelf>>

Built ==
    LET others == [v \in DOMAIN task.tree.litter \ {own.ver} |-> task.tree.litter[v]] IN
    /\ Running("build")
    /\ litter' = Put(litter, own.ver, [task.tree EXCEPT !.litter = others])
    /\ Ended
    /\ UNCHANGED <<own, agentLock, shelf, tree, net, report, bounds, halfShelf>>

Key == <<task.tree.rel.name, task.tree.rel.ver>>
Shelve(d) == shelf' = [shelf EXCEPT ![Key] = d]

(* publish_agent_from_dir: the old directory goes, the author's is copied, *)
(* the archive is built into the copy, and the manifest comes last.        *)
Publish(t) ==
    /\ InstallFollows
    /\ Started([NoTask EXCEPT !.pc = "clear", !.tree = t])
    /\ halfShelf' = halfShelf \cup {<<t.rel.name, t.rel.ver>>}
    /\ UNCHANGED <<dirs, shelf, tree, net, kills>>

PublishClear ==
    /\ Running("clear")
    /\ Shelve(Gone)
    /\ Continue("copy")
    /\ UNCHANGED <<dirs, tree, net, report, bounds, halfShelf>>

PublishCopy ==
    /\ Running("copy")
    /\ \E v \in Listed(task.tree.litter) :
          Shelve(Dir(task.tree, Toml(task.tree), task.tree.litter, v, Gone))
    /\ Continue("open")
    /\ UNCHANGED <<dirs, tree, net, report, bounds, halfShelf>>

Archived(a) == Put(shelf[Key].archives, task.tree.rel.ver, a)

PublishOpen ==
    /\ Running("open")
    /\ \E v \in DOMAIN Archived(HalfTree) :
          Shelve([shelf[Key] EXCEPT !.archives = Archived(HalfTree), !.first = v])
    /\ Continue("pack")
    /\ UNCHANGED <<dirs, tree, net, report, bounds, halfShelf>>

PublishPack ==
    /\ Running("pack")
    /\ Shelve([shelf[Key] EXCEPT !.archives = Archived(task.tree)])
    /\ Continue("index")
    /\ UNCHANGED <<dirs, tree, net, report, bounds, halfShelf>>

PublishIndex ==
    /\ Running("index")
    /\ \/ /\ shelf[Key].index = Gone
          /\ Shelve([shelf[Key] EXCEPT !.index = HalfTree])
          /\ Continue("index")
          /\ UNCHANGED halfShelf
       \/ /\ shelf[Key].index = HalfTree
          /\ Shelve([shelf[Key] EXCEPT !.index = Index(task.tree)])
          /\ halfShelf' = halfShelf \ {Key}
          /\ Ended
    /\ UNCHANGED <<dirs, tree, net, report, bounds>>

(* generate_agent_lock: own's graph as the registry has it, one pin for    *)
(* each package.                                                           *)
LockOwn ==
    LET root == <<Own, own.ver>> IN
    /\ Free /\ InstallFollows /\ Resolves(root)
    /\ Started([NoTask EXCEPT !.pc = "lock",
                  !.lock = [root |-> root,
                            pins |-> {[key |-> k, sha |-> LocalSha(k)] : k \in Resolved(root)}]])
    /\ agentLock' = HalfTree
    /\ UNCHANGED <<own, litter, shelf, tree, net, kills, halfShelf>>

Locked ==
    /\ Running("lock")
    /\ agentLock' = task.lock
    /\ Ended
    /\ UNCHANGED <<own, litter, shelf, tree, net, report, bounds, halfShelf>>

-----------------------------------------------------------------------------
(* install_agent_package: a stack of packages being installed, each with   *)
(* the dependencies still to do; want is the hash to be met, if any.       *)
Frame(k, want) == [key |-> k, want |-> want, left |-> DOMAIN DepsOf(k), archive |-> Gone]
TopFrame == task.frames[Len(task.frames)]
PutFrame(f) == [task EXCEPT !.frames[Len(task.frames)] = f]

Install(k) ==
    /\ Free /\ Readable(k)
    /\ Started([NoTask EXCEPT !.pc = "visit", !.frames = <<Frame(k, Gone)>>, !.seen = {k}, !.roots = {k}])
    /\ UNCHANGED <<dirs, shelf, tree, net, kills, halfShelf>>

(* install_agent_with_lock: the pins in some fixed order.  With --frozen   *)
(* agent.toml must still fit the lock, of which the last pin of each name  *)
(* counts.                                                                 *)
PinOf(n) == LastOf({p.key[2] : p \in {q \in agentLock.pins : q.key[1] = n}})
StillFits ==
    /\ agentLock.root = <<Own, own.ver>>
    /\ \A n \in DOMAIN own.deps :
          /\ \E p \in agentLock.pins : p.key[1] = n
          /\ Accepts(PinOf(n), own.deps[n])

InstallLocked(mode) ==
    /\ agentLock \notin {Gone, HalfTree}
    /\ mode = "frozen" => StillFits
    /\ Started([NoTask EXCEPT !.pc = "visit", !.pins = agentLock.pins, !.mode = mode,
                  !.roots = {p.key : p \in agentLock.pins}])
    /\ UNCHANGED <<dirs, shelf, tree, net, kills, halfShelf>>

NextPin ==
    /\ Running("visit") /\ task.frames = <<>>
    /\ \E p \in {p \in task.pins : p = CHOOSE q \in task.pins : TRUE} :
          task' = IF Readable(p.key)
                  THEN [task EXCEPT !.frames = <<Frame(p.key, p.sha)>>, !.pins = @ \ {p}, !.seen = {p.key}]
                  ELSE NoTask
    /\ UNCHANGED <<dirs, shelf, tree, net, report, bounds, halfShelf>>

(* Mutant: one version of a package is enough.                             *)
Met_ByName(k) == \E l \in task.seen : l[1] = k[1]

(* _seen *)
Met(k) == k \in task.seen

Visit ==
    /\ Running("visit") /\ task.frames # <<>>
    /\ \E n \in TopFrame.left :
          LET found == Chosen(n, DepsOf(TopFrame.key)[n])
              rest  == [TopFrame EXCEPT !.left = @ \ {n}]
          IN  \/ /\ found = {}
                 /\ Ended
              \/ \E v \in found :
                    task' = IF Met(<<n, v>>) THEN PutFrame(rest)
                            ELSE IF ~Readable(<<n, v>>) THEN NoTask
                            ELSE [PutFrame(rest) EXCEPT !.frames = Append(@, Frame(<<n, v>>, Gone)),
                                                        !.seen = @ \cup {<<n, v>>}]
    /\ UNCHANGED <<dirs, shelf, tree, net, report, bounds, halfShelf>>

(* Mutant: takes the hash of what lies in the registry for the one wanted. *)
MatchesSha_Itself(want, a) == a = Gone \/ a = a
(* Nothing is compared where the registry has no hash for the package.     *)
MatchesSha(want, a) == want = Gone \/ a = Gone \/ a = want

(* The dependencies are there: the registry's hash is compared and the old *)
(* tree removed ...                                                        *)
Unpack ==
    /\ Running("visit") /\ task.frames # <<>> /\ TopFrame.left = {}
    /\ IF MatchesSha(TopFrame.want, LocalSha(TopFrame.key))
       THEN /\ tree' = [tree EXCEPT ![TopFrame.key] = HalfTree]
            /\ task' = [PutFrame([TopFrame EXCEPT !.archive = FoundArchive(TopFrame.key)]) EXCEPT !.pc = "unpack"]
       ELSE Ended /\ UNCHANGED tree
    /\ UNCHANGED <<dirs, shelf, net, report, bounds, halfShelf>>

(* ... and the new one unpacked, or where there is no archive whatever the *)
(* registry's directory holds copied.  An archive cut short raises.  What  *)
(* is reported is the hash wanted, or else the registry's.                 *)
ShaOf(f) == IF task.mode = "remote" THEN f.archive
            ELSE IF task.mode = "direct" THEN LocalSha(f.key) ELSE f.want

Unpacked ==
    LET f    == TopFrame
        rest == SubSeq(task.frames, 1, Len(task.frames) - 1)
    IN
    /\ Running("unpack")
    /\ IF f.archive = HalfTree THEN Ended /\ UNCHANGED tree
       ELSE /\ tree' = [tree EXCEPT ![f.key] = IF f.archive = Gone THEN shelf[f.key].tree ELSE f.archive]
            /\ task' = [task EXCEPT !.pc = "visit", !.frames = rest,
                          !.found = IF rest # <<>> THEN @
                                     ELSE @ \cup {[key |-> f.key, sha |-> ShaOf(f)]}]
    /\ UNCHANGED <<dirs, shelf, net, report, bounds, halfShelf>>

InstallDone ==
    /\ Running("visit") /\ task.frames = <<>> /\ task.pins = {}
    /\ report' = [found |-> task.found, roots |-> task.roots, mode |-> task.mode]
    /\ Ended
    /\ UNCHANGED <<dirs, shelf, tree, net, bounds, halfShelf>>

-----------------------------------------------------------------------------
(* Others publish on the server, which replaces what it has.               *)
ServerPublish(t) ==
    /\ InstallFollows
    /\ commands < MaxCommands
    /\ commands' = commands + 1
    /\ server' = [server EXCEPT ![<<t.rel.name, t.rel.ver>>] = t]
    /\ UNCHANGED <<dirs, shelf, tree, cache, task, report, kills, halfShelf>>

(* install_agent_remote asks for the hash, takes the cached archive if it  *)
(* has that hash or else downloads, and installs nothing but this package. *)
InstallRemote(k) ==
    /\ server[k] # Gone
    /\ Started([NoTask EXCEPT !.pc = "fetch", !.mode = "remote",
                  !.frames = <<[key |-> k, want |-> server[k], left |-> {}, archive |-> Gone]>>])
    /\ UNCHANGED <<dirs, shelf, tree, net, kills, halfShelf>>

Fetch ==
    LET f == TopFrame IN
    /\ Running("fetch")
    /\ IF cache[f.key] = f.want
       THEN /\ task' = [PutFrame([f EXCEPT !.archive = f.want]) EXCEPT !.pc = "check"]
            /\ UNCHANGED cache
       ELSE /\ task' = [PutFrame([f EXCEPT !.archive = server[f.key]]) EXCEPT !.pc = "cache"]
            /\ cache' = [cache EXCEPT ![f.key] = HalfTree]
    /\ UNCHANGED <<dirs, shelf, tree, server, report, bounds, halfShelf>>

Cached ==
    /\ Running("cache")
    /\ cache' = [cache EXCEPT ![TopFrame.key] = TopFrame.archive]
    /\ Continue("check")
    /\ UNCHANGED <<dirs, shelf, tree, server, report, bounds, halfShelf>>

CheckFetched ==
    /\ Running("check")
    /\ IF MatchesSha(TopFrame.want, TopFrame.archive)
       THEN /\ tree' = [tree EXCEPT ![TopFrame.key] = HalfTree]
            /\ Continue("unpack")
       ELSE Ended /\ UNCHANGED tree
    /\ UNCHANGED <<dirs, shelf, net, report, bounds, halfShelf>>

(* What may be left of a published directory whose removal is cut off: any *)
(* of its files.                                                           *)
Remnants(d) ==
    {e \in [tree : {d.tree, Remains}, toml : {d.toml, Gone}, index : {d.index, Gone},
            archives : {[v \in vs |-> d.archives[v]] : vs \in SUBSET DOMAIN d.archives},
            first : DOMAIN d.archives \cup {0}] :
        /\ e.tree # Remains => e.toml = d.toml /\ DOMAIN d.tree.litter \subseteq DOMAIN e.archives
        /\ e.first \in IF d.first \in DOMAIN e.archives THEN {d.first} ELSE Listed(e.archives)}

(* What a copy that is cut off leaves: files whole, cut short or not there *)
(* yet.  An agent.toml cut short parses without its last lines or counts   *)
(* as none.                                                                *)
PartCopies(t) ==
    {e \in [tree : {Remains}, index : {Gone},
            toml : {Gone} \cup {[deps |-> [n \in ns |-> t.rel.deps[n]]] : ns \in SUBSET DOMAIN t.rel.deps},
            archives : {[v \in vs |-> IF v \in torn THEN HalfTree ELSE t.litter[v]] :
                          vs \in SUBSET DOMAIN t.litter, torn \in {{}} \cup {{w} : w \in DOMAIN t.litter}},
            first : DOMAIN t.litter \cup {0}] : e.first \in Listed(e.archives)}

(* The process dies, or the download fails.                                *)
Killed ==
    /\ task.pc # "none" /\ kills < MaxKills
    /\ kills' = kills + 1
    /\ Ended
    /\ \/ UNCHANGED shelf
       \/ Running("clear") /\ shelf[Key] # Gone /\ \E d \in Remnants(shelf[Key]) \cup {Gone} : Shelve(d)
       \/ Running("copy") /\ \E d \in PartCopies(task.tree) : Shelve(d)
    /\ UNCHANGED <<dirs, tree, net, report, commands, halfShelf>>

PkgNext ==
    \/ \E r \in OwnReleases : EditOwn(r)
    \/ BuildOwn \/ Built
    \/ Publish(OwnTree) \/ \E r \in Releases : Publish(Plain(r))
    \/ PublishClear \/ PublishCopy \/ PublishOpen \/ PublishPack \/ PublishIndex
    \/ LockOwn \/ Locked
    \/ \E k \in Keys : Install(k) \/ InstallRemote(k)
    \/ \E mode \in {"locked", "frozen"} : InstallLocked(mode)
    \/ NextPin \/ Visit \/ Unpack \/ Unpacked \/ InstallDone
    \/ \E r \in Releases : ServerPublish(Plain(r))
    \/ Fetch \/ Cached \/ CheckFetched
    \/ Killed

PkgSpec == PkgInit /\ [][PkgNext]_pkgVars

-----------------------------------------------------------------------------
Installed(k) == tree[k] \notin {Gone, HalfTree}
Whole(k)     == Installed(k) /\ tree[k] # Remains

(* A publish was killed before it had an archive: the package is installed *)
(* as its directory lies there.                                            *)
AsItLies(k) == k \in halfShelf /\ FoundArchive(k) = Gone

(* What an install reports is there: each package it names is a whole tree *)
(* with the sha256 it names - with a lock the pinned one, whatever has     *)
(* been published since - of the version it is filed under, unless the     *)
(* registry's directory holds an archive of another build (lock.py:20      *)
(* takes the first it lists); and after a frozen install the author's      *)
(* dependencies are met by what is installed.  A package whose publish was *)
(* killed before it had an archive is installed too, but any part of it    *)
(* under any hash (registry_groups/install.py:97-106).                     *)
ReportedIsInstalled ==
    /\ \A r \in report.found :
          /\ Installed(r.key)
          /\ report.mode = "remote" \/ ~AsItLies(r.key) =>
                /\ Whole(r.key)
                /\ r.sha # Gone => tree[r.key] = r.sha
                /\ report.mode = "remote" \/ DOMAIN shelf[r.key].archives \subseteq {r.key[2]} =>
                      <<tree[r.key].rel.name, tree[r.key].rel.ver>> = r.key
    /\ report.mode = "frozen" =>
          \A n \in DOMAIN own.deps :
             \E k \in Keys : k[1] = n /\ Accepts(k[2], own.deps[n]) /\ Installed(k)

(* An install from the registry directory that ends well has installed     *)
(* everything the package depends on, through cycles and through several   *)
(* versions of one package, each as the registry has it: its archive, a    *)
(* whole tree, or for a publish killed before it had one its directory as  *)
(* it lies there (registry_groups/install.py:72-106).                      *)
Offered(k) == IF FoundArchive(k) = Gone THEN shelf[k].tree ELSE FoundArchive(k)

InstallClosesDependencies ==
    \A k \in report.roots : \A l \in Resolved(k) :
       /\ Installed(l) /\ tree[l] = Offered(l)
       /\ ~AsItLies(l) => Whole(l)
=============================================================================
