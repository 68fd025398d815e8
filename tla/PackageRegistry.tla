--------------------------- MODULE PackageRegistry --------------------------
(***************************************************************************)
(* The package registry server (src/mellowlang/registry/server_groups),    *)
(* one package of it, and a client that fetches from it (install_remote in *)
(* package_manager.py).  The server is a ThreadingHTTPServer: every        *)
(* handler loads, changes and rewrites whole files, and nothing locks      *)
(* them.  A publish and a login run in a publisher's handler; the client's *)
(* handler is its own, since it waits for the answer.                      *)
(***************************************************************************)
EXTENDS Naturals, FiniteSetsExt

CONSTANTS
    Publishers, \* handler threads that serve publishes and logins
    Client,     \* the installing client
    Versions,   \* versions of the package
    Archives,   \* archive contents; an archive stands for its own sha256 too
    Absent,     \* no such file
    Torn,       \* contents of a file that was truncated and not yet written
    Unknown,    \* the client was told no checksum
    MaxPublish, \* bound: publishes, of all versions together
    MaxLogin,   \* bound: logins
    MaxFetch,   \* bound: fetches of the client
    MaxCrash    \* bound: crashes

ASSUME RegistryAssumption ==
    /\ Client \notin Publishers
    /\ {Absent, Torn, Unknown} \cap Archives = {}
    /\ Absent # Torn /\ Absent # Unknown /\ Torn # Unknown
    /\ \A S \in SUBSET Versions : Torn \notin [S -> Archives]
    /\ MaxPublish \in Nat /\ MaxLogin \in Nat /\ MaxFetch \in Nat /\ MaxCrash \in Nat

VARIABLES
    archive,    \* <version>/<filename>
    meta,       \* <version>/meta.json: the sha256 it holds
    index,      \* index.json: a sha256 for every version listed
    tokens,     \* tokens.json; token 0 is the bootstrap token
    cache,      \* the client's ~/.mellow/cache/packages
    installed,  \* mellow_packages/installed/<name>/current
    loc,        \* the local variables of every handler and of the client
    issued,     \* logins so far: tokens 1 .. issued were handed out
    uploads,    \* publishes per version that passed the checks
    acked,      \* versions whose publish was answered ok
    raced,      \* an index.json access fell between another's load and save
    cut,        \* the server died while it was writing index.json
    crashes, fetches

vars == <<archive, meta, index, tokens, cache, installed, loc,
          issued, uploads, acked, raced, cut, crashes, fetches>>

files  == <<archive, meta, index, tokens>>
ghosts == <<issued, uploads, acked, cut, crashes, fetches>>

Actors == Publishers \cup {Client}

Idle == [pc |-> "idle", ver |-> Absent, raw |-> Absent, sum |-> Unknown, new |-> Torn]

NoInstall == [ver |-> Absent, raw |-> Absent, sum |-> Unknown]

NoIndex == [v \in {} |-> Absent]

(* _json_load: a file that does not parse reads as the empty default.      *)
LoadIndex  == IF index = Torn THEN NoIndex ELSE index
LoadTokens == IF tokens = Torn THEN {} ELSE tokens

Init ==
    /\ archive = [v \in Versions |-> Absent]
    /\ meta = archive
    /\ index = NoIndex
    /\ tokens = {0}
    /\ cache = archive
    /\ installed = NoInstall
    /\ loc = [x \in Actors |-> Idle]
    /\ issued = 0 /\ crashes = 0 /\ fetches = 0
    /\ uploads = [v \in Versions |-> 0]
    /\ acked = {}
    /\ raced = FALSE /\ cut = FALSE

(* Some handler other than x's holds a copy of the index it will save.     *)
Holding(x) == \E y \in Actors \ {x} : loc[y].pc \in {"index", "index_open"}

-----------------------------------------------------------------------------
(* RegistryStore.login: tokens.json is loaded, extended and saved.         *)
LoginLoad(p) ==
    /\ loc[p].pc = "idle"
    /\ issued < MaxLogin
    /\ issued' = issued + 1
    /\ loc' = [loc EXCEPT ![p] = [Idle EXCEPT !.pc = "tokens", !.new = LoadTokens \cup {issued'}]]
    /\ UNCHANGED <<files, cache, installed, uploads, acked, raced, cut, crashes, fetches>>

(* Mutant: the index is written first.                                      *)
PublishCheck_IndexFirst(p, v, a) ==
    /\ loc[p].pc = "idle"
    /\ \E t \in 0 .. issued : t \in LoadTokens
    /\ loc' = [loc EXCEPT ![p] = [Idle EXCEPT !.pc = "load", !.ver = v, !.raw = a]]
    /\ uploads' = [uploads EXCEPT ![v] = @ + 1]
    /\ UNCHANGED <<files, cache, installed, issued, acked, raced, cut, crashes, fetches>>

(* RegistryStore.publish up to its first write: whoami and the checksum of *)
(* the upload, which publish_remote computed from the archive it sends.    *)
PublishCheck(p, v, a) ==
    /\ loc[p].pc = "idle"
    /\ \E t \in 0 .. issued : t \in LoadTokens
    /\ loc' = [loc EXCEPT ![p] = [Idle EXCEPT !.pc = "archive", !.ver = v, !.raw = a]]
    /\ uploads' = [uploads EXCEPT ![v] = @ + 1]
    /\ UNCHANGED <<files, cache, installed, issued, acked, raced, cut, crashes, fetches>>

(* Mutant: the index is rebuilt with the new version only.                 *)
PublishLoadIndex_Fresh(p) ==
    /\ loc[p].pc = "load"
    /\ loc' = [loc EXCEPT ![p].pc = "index", ![p].new = [v \in {loc[p].ver} |-> loc[p].raw]]
    /\ raced' = (raced \/ Holding(p))
    /\ UNCHANGED <<files, cache, installed, ghosts>>

PublishLoadIndex(p) ==
    /\ loc[p].pc = "load"
    /\ loc' = [loc EXCEPT
          ![p].pc  = "index",
          ![p].new = [v \in DOMAIN LoadIndex \cup {loc[p].ver} |->
                         IF v = loc[p].ver THEN loc[p].raw ELSE LoadIndex[v]]]
    /\ raced' = (raced \/ Holding(p))
    /\ UNCHANGED <<files, cache, installed, ghosts>>

-----------------------------------------------------------------------------
(* write_text and write_bytes: the file is truncated, then written.        *)
Truncate(x) ==
    LET v == loc[x].ver IN
    /\ \/ loc[x].pc = "archive" /\ archive' = [archive EXCEPT ![v] = Torn]
          /\ UNCHANGED <<meta, index, tokens, cache, raced>>
       \/ loc[x].pc = "meta" /\ meta' = [meta EXCEPT ![v] = Torn]
          /\ UNCHANGED <<archive, index, tokens, cache, raced>>
       \/ loc[x].pc = "index" /\ index' = Torn /\ raced' = (raced \/ Holding(x))
          /\ UNCHANGED <<archive, meta, tokens, cache>>
       \/ loc[x].pc = "tokens" /\ tokens' = Torn
          /\ UNCHANGED <<archive, meta, index, cache, raced>>
       \/ loc[x].pc = "cache" /\ cache' = [cache EXCEPT ![v] = Torn]
          /\ UNCHANGED <<files, raced>>
    /\ loc' = [loc EXCEPT ![x].pc =
                 CASE @ = "archive" -> "archive_open" [] @ = "meta"   -> "meta_open"
                   [] @ = "index"   -> "index_open"   [] @ = "tokens" -> "tokens_open"
                   [] @ = "cache"   -> "cache_open"]
    /\ UNCHANGED <<installed, ghosts>>

WriteArchive(p) ==
    /\ loc[p].pc = "archive_open"
    /\ archive' = [archive EXCEPT ![loc[p].ver] = loc[p].raw]
    /\ loc' = [loc EXCEPT ![p].pc = "meta"]
    /\ UNCHANGED <<meta, index, tokens, cache, installed, raced, ghosts>>

WriteMeta(p) ==
    /\ loc[p].pc = "meta_open"
    /\ meta' = [meta EXCEPT ![loc[p].ver] = loc[p].raw]
    /\ loc' = [loc EXCEPT ![p].pc = "load"]
    /\ UNCHANGED <<archive, index, tokens, cache, installed, raced, ghosts>>

(* save_index ends a publish, which answers ok, or a download's count,     *)
(* after which the handler reads the archive.                              *)
WriteIndex(x) ==
    /\ loc[x].pc = "index_open"
    /\ index' = loc[x].new
    /\ raced' = (raced \/ Holding(x))
    /\ loc' = [loc EXCEPT ![x] = IF x = Client THEN [@ EXCEPT !.pc = "bytes", !.new = Torn] ELSE Idle]
    /\ acked' = IF x = Client THEN acked ELSE acked \cup {loc[x].ver}
    /\ UNCHANGED <<archive, meta, tokens, cache, installed, issued, uploads, cut, crashes, fetches>>

WriteTokens(p) ==
    /\ loc[p].pc = "tokens_open"
    /\ tokens' = loc[p].new
    /\ loc' = [loc EXCEPT ![p] = Idle]
    /\ UNCHANGED <<archive, meta, index, cache, installed, raced, ghosts>>

-----------------------------------------------------------------------------
(* install_remote: the package's versions come from the index, ...         *)
FetchVersions ==
    /\ loc[Client].pc = "idle"
    /\ fetches < MaxFetch
    /\ fetches' = fetches + 1
    /\ \E v \in DOMAIN LoadIndex :
          loc' = [loc EXCEPT ![Client] = [Idle EXCEPT !.pc = "version", !.ver = v]]
    /\ UNCHANGED <<files, cache, installed, issued, uploads, acked, raced, cut, crashes>>

(* Mutant: a cached archive is used without comparing its checksum.        *)
FetchMeta_TrustsCache ==
    LET c == loc[Client]
        sum == IF meta[c.ver] = Torn THEN Unknown ELSE meta[c.ver]
    IN
    /\ c.pc = "version"
    /\ loc' = [loc EXCEPT ![Client] =
          IF meta[c.ver] = Absent THEN Idle
          ELSE IF cache[c.ver] \in Archives
               THEN [c EXCEPT !.pc = "extract", !.sum = sum, !.raw = cache[c.ver]]
               ELSE [c EXCEPT !.pc = "download", !.sum = sum]]
    /\ UNCHANGED <<files, cache, installed, raced, ghosts>>

(* ... the checksum from meta.json, where a torn file answers ok without   *)
(* one, and the archive from the cache if it has that checksum.            *)
FetchMeta ==
    LET c == loc[Client]
        sum == IF meta[c.ver] = Torn THEN Unknown ELSE meta[c.ver]
    IN
    /\ c.pc = "version"
    /\ loc' = [loc EXCEPT ![Client] =
          IF meta[c.ver] = Absent THEN Idle
          ELSE IF cache[c.ver] \in Archives /\ sum \in {Unknown, cache[c.ver]}
               THEN [c EXCEPT !.pc = "extract", !.sum = sum, !.raw = cache[c.ver]]
               ELSE [c EXCEPT !.pc = "download", !.sum = sum]]
    /\ UNCHANGED <<files, cache, installed, raced, ghosts>>

(* archive_bytes: a torn meta.json names no file, so there is no archive;  *)
(* the download is counted in the index if the index lists the version.    *)
DownloadLoad ==
    LET c == loc[Client] IN
    /\ c.pc = "download"
    /\ loc' = [loc EXCEPT ![Client] =
          IF meta[c.ver] \in {Absent, Torn} THEN Idle
          ELSE IF c.ver \in DOMAIN LoadIndex THEN [c EXCEPT !.pc = "index", !.new = LoadIndex]
          ELSE [c EXCEPT !.pc = "bytes"]]
    /\ raced' = (raced \/ Holding(Client))
    /\ UNCHANGED <<files, cache, installed, ghosts>>

DownloadBytes ==
    /\ loc[Client].pc = "bytes"
    /\ loc' = [loc EXCEPT ![Client].pc = "cache", ![Client].raw = archive[loc[Client].ver]]
    /\ UNCHANGED <<files, cache, installed, raced, ghosts>>

(* The download is cached before its checksum is compared.                 *)
WriteCache ==
    LET c == loc[Client] IN
    /\ c.pc = "cache_open"
    /\ cache' = [cache EXCEPT ![c.ver] = c.raw]
    /\ loc' = [loc EXCEPT ![Client] =
                 IF c.sum \in {Unknown, c.raw} THEN [c EXCEPT !.pc = "extract"] ELSE Idle]
    /\ UNCHANGED <<files, installed, raced, ghosts>>

(* _extract_archive_to_install removes the old tree and unpacks, which an  *)
(* incomplete archive does not survive.                                    *)
Remove ==
    /\ loc[Client].pc = "extract"
    /\ installed' = NoInstall
    /\ loc' = [loc EXCEPT ![Client].pc = "unpack"]
    /\ UNCHANGED <<files, cache, raced, ghosts>>

Unpack ==
    LET c == loc[Client] IN
    /\ c.pc = "unpack"
    /\ installed' = IF c.raw = Torn THEN installed ELSE [ver |-> c.ver, raw |-> c.raw, sum |-> c.sum]
    /\ loc' = [loc EXCEPT ![Client] = Idle]
    /\ UNCHANGED <<files, cache, raced, ghosts>>

-----------------------------------------------------------------------------
ServerSide == {"download", "index", "index_open", "bytes"}

(* The server dies with all its handlers; a waiting client gets an error.  *)
ServerCrash ==
    /\ crashes < MaxCrash
    /\ crashes' = crashes + 1
    /\ cut' = (cut \/ \E x \in Actors : loc[x].pc = "index_open")
    /\ loc' = [x \in Actors |-> IF x \in Publishers \/ loc[x].pc \in ServerSide THEN Idle ELSE loc[x]]
    /\ UNCHANGED <<files, cache, installed, issued, uploads, acked, raced, fetches>>

ClientCrash ==
    /\ crashes < MaxCrash
    /\ crashes' = crashes + 1
    /\ loc[Client].pc \notin ServerSide \cup {"idle"}
    /\ loc' = [loc EXCEPT ![Client] = Idle]
    /\ UNCHANGED <<files, cache, installed, issued, uploads, acked, raced, cut, fetches>>

Next ==
    \/ \E p \in Publishers :
          \/ LoginLoad(p) \/ PublishLoadIndex(p)
          \/ WriteArchive(p) \/ WriteMeta(p) \/ WriteTokens(p)
          \/ /\ MapThenSumSet(LAMBDA v : uploads[v], Versions) < MaxPublish
             /\ \E v \in Versions, a \in Archives : PublishCheck(p, v, a)
    \/ \E x \in Actors : Truncate(x) \/ WriteIndex(x)
    \/ FetchVersions \/ FetchMeta \/ DownloadLoad \/ DownloadBytes \/ WriteCache \/ Remove \/ Unpack
    \/ ServerCrash \/ ClientCrash

Spec == Init /\ [][Next]_vars

-----------------------------------------------------------------------------
Listed == DOMAIN LoadIndex

(* A version published once is downloadable from the moment the index      *)
(* lists it: its archive and its description are complete and agree with   *)
(* the index, whichever handlers overlapped and whenever the server died.  *)
(* And a publish that was answered ok stays in the index, unless another   *)
(* handler's load and save of index.json overlapped with a save, or a      *)
(* crash cut the file short: both make a later save forget it.             *)
AckedIsFetchable ==
    /\ \A v \in Listed : uploads[v] = 1 => archive[v] = index[v] /\ meta[v] = index[v]
    /\ ~raced /\ ~cut /\ index # Torn => acked \subseteq Listed

(* A client installs the archive whose checksum it was told, or was told   *)
(* none: neither a republish between its requests nor a cache left behind  *)
(* by an earlier download gets another archive installed.                  *)
InstalledAsDescribed == installed.sum \in {Unknown, installed.raw} \/ installed = NoInstall

Catalog == INSTANCE PackageCatalog WITH
    stored  <- {v \in Versions : archive[v] # Absent /\ meta[v] # Absent},
    offered <- Listed

(* The registry implements the catalogue: its index lists stored versions  *)
(* only, and no handler, overlap or crash makes it forget a stored one.    *)
CatalogSpec == Catalog!Spec
=============================================================================
