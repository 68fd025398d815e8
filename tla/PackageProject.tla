--------------------------- MODULE PackageProject ---------------------------
(***************************************************************************)
(* One project's packages: src/mellowlang/package_manager.py with          *)
(* packages/project.py, packages/lockfile.py and packages/metadata.py.     *)
(* The commands add, remove, install, uninstall, update, sync-imports and  *)
(* resolve-runtime change the project's manifest, its installed packages,  *)
(* mellow.lock, the import map and the runtime map one after the other;    *)
(* they may fail or die between any two.  Others publish meanwhile.        *)
(***************************************************************************)
EXTENDS Naturals, SequencesExt

CONSTANTS
    Names,      \* packages
    Releases,   \* versions of each that may be published
    Deps,       \* Deps[n][v]: the dependencies of n@v, a spec for each name
    Starter,    \* bundled starter packages, with their version
    MaxOps,     \* bound: commands, and publishes while the project is worked on
    MaxFault    \* bound: crashes, failed requests and failed extractions

(* Version 12 stands for 1.2; a spec is a comparison with a version.       *)
NoSpec   == [op |-> "", ver |-> 0]
Latest   == [op |-> "*", ver |-> 0]
Caret(v) == [op |-> "^", ver |-> v]
Exact(v) == [op |-> "=", ver |-> v]
UserSpecs(n) == {Exact(v) : v \in Releases[n]}
Specs    == [op : {"", "*", "^", "="}, ver : Nat]

ASSUME ProjectAssumption ==
    /\ IsFiniteSet(Names) /\ DOMAIN Releases = Names /\ DOMAIN Starter \subseteq Names
    /\ \A n \in DOMAIN Starter : Starter[n] \in Nat \ {0, 1}
    /\ \A n \in Names : /\ Releases[n] \subseteq Nat \ {0, 1} /\ IsFiniteSet(Releases[n])
                        /\ DOMAIN Deps[n] = Releases[n] \cup {Starter[m] : m \in DOMAIN Starter \cap {n}}
                        /\ \A v \in DOMAIN Deps[n] : /\ DOMAIN Deps[n][v] \subseteq Names
                                                     /\ \A d \in DOMAIN Deps[n][v] : Deps[n][v][d] \in Specs
    /\ MaxOps \in Nat /\ MaxFault \in Nat

VARIABLES
    remote,     \* the registry: versions in the order they were published
    local,      \* mellow_packages/registry: versions published locally
    manifest,   \* mellow.toml: dependencies
    installed,  \* mellow_packages/installed: a version, None or Partial
    lock,       \* mellow.lock: packages, and the names of root dependencies
    imports,    \* the packages the project's source imports
    importMap,  \* .mellow_imports.json: imports with an entry
    runtimeMap, \* .mellow_runtime.json: imports with an entry
    cmd,        \* the command under way
    ops, faults,
    slips,      \* what may put the lock out of step: see OneSlipOnePackage
    cut         \* a crash left a truncated lockfile behind

vars == <<remote, local, manifest, installed, lock, imports, importMap, runtimeMap,
          cmd, ops, faults, slips, cut>>

maps   == <<imports, importMap, runtimeMap>>
store  == <<remote, local>>
ghosts == <<faults, slips, cut>>

None    == 0    \* no directory
Partial == 1    \* a directory without current/manifest.json

(* f with a value for k, and the entries of g before those of f.           *)
Put(f, k, v) == [x \in DOMAIN f \cup {k} |-> IF x = k THEN v ELSE f[x]]
Over(g, f)   == [x \in DOMAIN g \cup DOMAIN f |-> IF x \in DOMAIN g THEN g[x] ELSE f[x]]

NoDeps  == [n \in {} |-> Latest]
NoLock  == [packages |-> [n \in {} |-> None], root |-> {}]

(* A lockfile that was truncated and not yet written.                      *)
Torn == [left |-> "part"]

(* _load_lockfile: a file that does not parse reads as the empty default.  *)
Load == IF lock = Torn THEN NoLock ELSE lock

(* pc; the installs to do, the first of them under way with the version    *)
(* chosen and the one its lock entry gets; the n@v visited; the lockfile   *)
(* about to be written and what comes after it; for a sync, the imports    *)
(* left to look at, what to do if the local sources do not suffice, and    *)
(* what it will declare.                                                   *)
Idle == [pc |-> "idle", todo |-> <<>>, ver |-> None, entry |-> NoSpec, visited |-> {},
         new |-> Torn, then |-> "end", left |-> {}, fallback |-> <<>>, added |-> NoDeps,
         kind |-> "none", touched |-> {}]

(* top: the installation starts with nothing visited.                      *)
Install(n, spec, src, top) == [name |-> n, spec |-> spec, src |-> src, top |-> top]

Init ==
    /\ remote \in [Names -> (UNION {SetToSeqs(Releases[n]) : n \in Names}) \cup {<<>>}]
    /\ \A n \in Names : remote[n] = <<>> \/ ToSet(remote[n]) = Releases[n]
    /\ local = [n \in Names |-> {}]
    /\ manifest = NoDeps
    /\ installed = [n \in Names |-> None]
    /\ lock = NoLock
    /\ imports \in SUBSET Names
    /\ importMap = {} /\ runtimeMap = {}
    /\ cmd = Idle
    /\ ops = 0 /\ faults = 0 /\ slips = 0 /\ cut = FALSE

(* current/manifest.json exists.                                           *)
Has(n) == installed[n] \notin {None, Partial}

Major(v) == v \div 10

(* _version_satisfies                                                      *)
Satisfies(v, s) ==
    \/ s.op \in {"", "*"}
    \/ s.op = "^" /\ Major(v) = Major(s.ver) /\ v >= s.ver
    \/ s.op = "=" /\ v = s.ver

(* _choose_version: the highest that satisfies the spec, if there is one.  *)
Choose(vs, s) ==
    LET fit == {v \in vs : Satisfies(v, s)}
    IN  {[ver |-> v, entry |-> Exact(v)] : v \in IF fit = {} THEN {} ELSE {Max(fit)}}

(* _find_local_package_source: the directory named by the spec, any one    *)
(* without a spec (the last in string order), else the starter package,    *)
(* whose lock entry then is the spec itself.                               *)
FindLocal(n, s) ==
    LET dirs == {v \in local[n] : s \in {NoSpec, Exact(v)}} IN
    IF dirs # {} THEN {[ver |-> v, entry |-> Exact(v)] : v \in dirs}
    ELSE {[ver |-> Starter[m], entry |-> IF s = NoSpec THEN Exact(Starter[m]) ELSE s] :
             m \in DOMAIN Starter \cap {n}}

Found(j) == IF j.src = "remote" THEN Choose(ToSet(remote[j.name]), j.spec)
            ELSE FindLocal(j.name, j.spec)

-----------------------------------------------------------------------------
(* The commands.                                                           *)
Start(kind, todo) ==
    /\ cmd.pc = "idle"
    /\ ops < MaxOps
    /\ ops' = ops + 1
    /\ cmd' = [Idle EXCEPT !.pc = "run", !.kind = kind, !.todo = todo]

(* add_dependency: the manifest is written before anything is installed.   *)
Add(n, s) ==
    LET found == Choose(ToSet(remote[n]), NoSpec)
        spec  == IF s # NoSpec THEN s
                 ELSE IF found = {} THEN Latest ELSE Caret((CHOOSE f \in found : TRUE).ver)
    IN
    /\ Start("install", <<Install(n, spec, "remote", TRUE)>>)
    /\ manifest' = Put(manifest, n, spec)
    /\ UNCHANGED <<store, installed, lock, maps, ghosts>>

InstallOnline(n, s) ==
    /\ Start("install", <<Install(n, s, "remote", TRUE)>>)
    /\ UNCHANGED <<store, manifest, installed, lock, maps, ghosts>>

(* install_package writes no lockfile.                                     *)
InstallOffline(n, v) ==
    /\ v \in local[n]
    /\ Start("offline", <<Install(n, Exact(v), "offline", TRUE)>>)
    /\ slips' = slips + 1
    /\ UNCHANGED <<store, manifest, installed, lock, maps, faults, cut>>

(* What an update takes to be there: the version installed, else the one   *)
(* in the lockfile, whose spec is read as a version (0: none).             *)
Current(n) ==
    IF Has(n) THEN installed[n]
    ELSE IF n \in DOMAIN Load.packages THEN Load.packages[n].ver ELSE 0

(* package_update_plan and update_packages: root dependencies, or all that *)
(* is installed, whose last published version is the higher one.           *)
Update(all) ==
    LET has == {n \in Names : Has(n)}
        targets == IF all THEN has \cup Load.root ELSE IF Load.root # {} THEN Load.root ELSE has
        behind == {n \in targets : remote[n] # <<>> /\ Last(remote[n]) > Current(n)}
        Plan(n) == Install(n, Exact(Last(remote[n])), "remote", TRUE)
    IN
    /\ Start("install", SetToSeq({Plan(n) : n \in behind}))
    /\ UNCHANGED <<store, manifest, installed, lock, maps, ghosts>>

(* Mutant: the lock entry of an uninstalled package stays.                 *)
Unlocked_Kept(n) == Load

Unlocked(n) == [packages |-> [m \in DOMAIN Load.packages \ {n} |-> Load.packages[m]],
                root |-> Load.root \ {n}]

(* uninstall_package and, with the declaration, remove_dependency.         *)
Uninstall(n, declared) ==
    /\ cmd.pc = "idle"
    /\ ops < MaxOps
    /\ ops' = ops + 1
    /\ manifest' = IF declared THEN [m \in DOMAIN manifest \ {n} |-> manifest[m]] ELSE manifest
    /\ installed' = [installed EXCEPT ![n] = None]
    /\ cmd' = IF installed[n] = None THEN Idle
              ELSE [Idle EXCEPT !.pc = "lock", !.kind = "uninstall", !.new = Unlocked(n)]
    /\ UNCHANGED <<store, lock, maps, ghosts>>

(* sync_imports, alone or as a part of resolve_project_runtime.            *)
Sync(kind) ==
    /\ cmd.pc = "idle"
    /\ ops < MaxOps
    /\ ops' = ops + 1
    /\ cmd' = [Idle EXCEPT !.pc = "run", !.kind = kind, !.left = imports]
    /\ UNCHANGED <<store, manifest, installed, lock, maps, ghosts>>

-----------------------------------------------------------------------------
(* install_remote and install_local_package_into_project, one package: the *)
(* old tree is removed, ...                                                *)
Begin ==
    /\ cmd.pc = "run" /\ cmd.todo # <<>>
    /\ \E f \in Found(Head(cmd.todo)) :
          /\ cmd' = [cmd EXCEPT !.pc = "extract", !.ver = f.ver, !.entry = f.entry]
          /\ slips' = IF f.entry = Exact(f.ver) THEN slips ELSE slips + 1
    /\ installed' = [installed EXCEPT ![Head(cmd.todo).name] = Partial]
    /\ UNCHANGED <<store, manifest, lock, maps, ops, faults, cut>>

(* ... the new one unpacked and its manifest.json written, ...             *)
Extract ==
    LET j == Head(cmd.todo) IN
    /\ cmd.pc = "extract"
    /\ installed' = [installed EXCEPT ![j.name] = cmd.ver]
    /\ cmd' = IF j.src = "offline" THEN Idle
              ELSE [cmd EXCEPT !.pc = "lock", !.then = "deps",
                       !.touched = @ \cup {j.name},
                       !.new = [packages |-> Put(Load.packages, j.name, cmd.entry),
                                root     |-> Load.root \cup {j.name}]]
    /\ UNCHANGED <<store, manifest, lock, maps, ops, ghosts>>

(* A bad archive or signature: the command ends, the old tree is gone.     *)
ExtractFails ==
    LET j == Head(cmd.todo) IN
    /\ cmd.pc = "extract" /\ j.src = "remote"
    /\ faults < MaxFault
    /\ faults' = faults + 1
    /\ slips' = slips + 1
    /\ \E left \in {Partial, cmd.ver} : installed' = [installed EXCEPT ![j.name] = left]
    /\ cmd' = Idle
    /\ UNCHANGED <<store, manifest, lock, maps, ops, cut>>

(* ... and the lockfile saved, truncated first.                            *)
TruncateLock ==
    /\ cmd.pc = "lock"
    /\ lock' = Torn
    /\ cmd' = [cmd EXCEPT !.pc = "lock_open"]
    /\ UNCHANGED <<store, manifest, installed, maps, ops, ghosts>>

(* Mutant: a package is visited once, whatever its version.                *)
Key_NameOnly(n, entry) == n

Key(n, entry) == <<n, entry>>

(* Mutant: what was visited is forgotten at every package.                 *)
Visited_Fresh(j) == {}

Visited(j) == IF j.top THEN {} ELSE cmd.visited

(* Its dependencies come next, unless this version was visited before.     *)
Descend ==
    LET j    == Head(cmd.todo)
        key  == Key(j.name, cmd.entry)
        deps == Deps[j.name][cmd.ver]
        Dep(d) == Install(d, deps[d], j.src, FALSE)
    IN  [cmd EXCEPT
          !.pc = "run", !.then = "end", !.new = Torn, !.ver = None, !.entry = NoSpec,
          !.visited = Visited(j) \cup {key},
          !.todo = (IF key \in Visited(j) THEN <<>> ELSE SetToSeq({Dep(d) : d \in DOMAIN deps}))
                      \o Tail(@),
          !.added = IF j.top /\ j.spec = NoSpec THEN Put(@, j.name, Caret(cmd.entry.ver)) ELSE @]

WriteLock ==
    /\ cmd.pc = "lock_open"
    /\ lock' = cmd.new
    /\ cmd' = CASE cmd.then = "deps" -> Descend
                [] cmd.then = "resolve" -> [cmd EXCEPT !.pc = "resolve", !.new = Torn]
                [] cmd.then = "end" -> Idle
    /\ UNCHANGED <<store, manifest, installed, maps, ops, ghosts>>

(* Mutant: a local installation that fails is not tried in the registry.   *)
Fail_NoFallback ==
    /\ cmd.pc = "run" /\ cmd.todo # <<>>
    /\ \/ Found(Head(cmd.todo)) = {} /\ UNCHANGED faults
       \/ Head(cmd.todo).src = "remote" /\ faults < MaxFault /\ faults' = faults + 1
    /\ cmd' = IF Head(cmd.todo).src # "local" THEN Idle ELSE [cmd EXCEPT !.todo = <<>>, !.touched = {}]
    /\ UNCHANGED <<store, manifest, installed, lock, maps, ops, slips, cut>>

(* Nothing fits, or the network fails.  A local installation of an import  *)
(* falls back to the registry; everything else ends the command.           *)
Fail ==
    /\ cmd.pc = "run" /\ cmd.todo # <<>>
    /\ \/ Found(Head(cmd.todo)) = {} /\ UNCHANGED faults
       \/ Head(cmd.todo).src = "remote" /\ faults < MaxFault /\ faults' = faults + 1
    /\ cmd' = IF Head(cmd.todo).src # "local" THEN Idle
              ELSE [cmd EXCEPT !.todo = cmd.fallback, !.fallback = <<>>, !.touched = {},
                       !.added = [n \in DOMAIN @ \ {j.name : j \in ToSet(cmd.fallback)} |-> @[n]]]
    /\ UNCHANGED <<store, manifest, installed, lock, maps, ops, slips, cut>>

-----------------------------------------------------------------------------
(* sync_imports looks at one import after the other: the local sources     *)
(* first, then the registry, which an undeclared import reaches only if a  *)
(* package of its name is known locally (autocomplete_remote_name).        *)
NextImport(n) ==
    LET spec  == IF n \in DOMAIN manifest THEN manifest[n] ELSE NoSpec
        known == local[n] # {} \/ n \in DOMAIN Starter
    IN
    /\ cmd.pc = "run" /\ cmd.todo = <<>>
    /\ n \in cmd.left
    /\ cmd' = IF Has(n) THEN [cmd EXCEPT !.left = @ \ {n}]
              ELSE [cmd EXCEPT
                    !.left = @ \ {n},
                    !.todo = <<Install(n, spec, "local", TRUE)>>,
                    !.fallback = IF spec # NoSpec \/ known
                                 THEN <<Install(n, spec, "remote", TRUE)>> ELSE <<>>]
    /\ UNCHANGED <<store, manifest, installed, lock, maps, ops, ghosts>>

Done == cmd.pc = "run" /\ cmd.todo = <<>> /\ cmd.left = {}

EndInstall ==
    /\ Done /\ cmd.kind = "install"
    /\ cmd' = Idle
    /\ UNCHANGED <<store, manifest, installed, lock, maps, ops, ghosts>>

(* The declarations, the import map and the lockfile are written.          *)
EndSync ==
    /\ Done /\ cmd.kind \in {"sync", "resolve"}
    /\ manifest' = Over(cmd.added, manifest)
    /\ importMap' = {n \in imports : Has(n)}
    /\ cmd' = [cmd EXCEPT !.pc = "lock", !.new = Load,
                  !.then = IF cmd.kind = "resolve" THEN "resolve" ELSE "end"]
    /\ UNCHANGED <<store, installed, lock, imports, runtimeMap, ops, ghosts>>

(* resolve_import_entry believes the old runtime map first.                *)
Resolve ==
    /\ cmd.pc = "resolve"
    /\ runtimeMap' = {n \in imports : n \in runtimeMap \cup importMap \/ Has(n)}
    /\ cmd' = Idle
    /\ UNCHANGED <<store, manifest, installed, lock, imports, importMap, ops, ghosts>>

-----------------------------------------------------------------------------
(* Others publish at any time; the user publishes locally and edits code.  *)
Publish(n, v) ==
    /\ ops < MaxOps
    /\ ops' = ops + 1
    /\ v \in Releases[n] \ ToSet(remote[n])
    /\ remote' = [remote EXCEPT ![n] = Append(@, v)]
    /\ UNCHANGED <<local, manifest, installed, lock, maps, cmd, ghosts>>

PublishLocal(n, v) ==
    /\ cmd.pc = "idle"
    /\ ops < MaxOps
    /\ ops' = ops + 1
    /\ v \in Releases[n]
    /\ local' = [local EXCEPT ![n] = @ \cup {v}]
    /\ UNCHANGED <<remote, manifest, installed, lock, maps, cmd, ghosts>>

(* The command is interrupted; a truncated lockfile stays truncated.       *)
Crash ==
    /\ cmd.pc # "idle"
    /\ faults < MaxFault
    /\ faults' = faults + 1
    /\ slips' = slips + 1
    /\ cut' = (cut \/ lock = Torn)
    /\ cmd' = Idle
    /\ UNCHANGED <<store, manifest, installed, lock, maps, ops>>

Step ==
    \/ Begin \/ Extract \/ ExtractFails \/ TruncateLock \/ WriteLock \/ Fail
    \/ \E n \in Names : NextImport(n)
    \/ EndInstall \/ EndSync \/ Resolve

Next ==
    \/ \E n \in Names : \E s \in {NoSpec} \cup UserSpecs(n) : Add(n, s) \/ InstallOnline(n, s)
    \/ \E n \in Names : \E v \in Releases[n] : InstallOffline(n, v) \/ Publish(n, v) \/ PublishLocal(n, v)
    \/ \E n \in Names, declared \in BOOLEAN : Uninstall(n, declared)
    \/ \E all \in BOOLEAN : Update(all)
    \/ \E kind \in {"sync", "resolve"} : Sync(kind)
    \/ Step
    \/ Crash

Spec == Init /\ [][Next]_vars

(* A command that runs goes on.                                            *)
FairSpec == Spec /\ WF_vars(Step)

-----------------------------------------------------------------------------
(* A command that installs with dependencies leaves, once it is through,   *)
(* every package it installed with all dependencies of the version that    *)
(* ended up installed: through diamonds, cycles and two versions of one    *)
(* package in a single run.                                                *)
ClosesDependencies ==
    Done => \A n \in cmd.touched : \A d \in DOMAIN Deps[n][installed[n]] : Has(d)

(* mellow.lock names the version that is installed.                        *)
Agrees(n) ==
    IF n \in DOMAIN lock.packages THEN Has(n) /\ lock.packages[n] = Exact(installed[n])
    ELSE installed[n] = None

(* docs/LOCKFILE_AND_IMPORTS.md:12 - the lockfile stores what was resolved.*)
(* One package at most falls out of step with it for every crash, failed   *)
(* extraction and offline install, and whenever a starter package stands   *)
(* in for a declared version, which the lockfile then names instead.  A    *)
(* lockfile cut short by a crash is lost altogether.                       *)
OneSlipOnePackage ==
    cmd.pc = "idle" /\ ~cut => Cardinality({n \in Names : ~Agrees(n)}) <= slips

(* A sync that gets through has installed every import that is declared,   *)
(* be it from a local source or, when that failed half way, the registry.  *)
SyncDelivers == cmd.pc = "resolve" => \A n \in imports \cap DOMAIN manifest : Has(n)

(* Every command ends, in a catalogue with circular dependencies too.      *)
CommandsEnd == cmd.pc # "idle" ~> cmd.pc = "idle"
=============================================================================
