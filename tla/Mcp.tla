-------------------------------- MODULE Mcp --------------------------------
(***************************************************************************)
(* The MCP server: sessions that a URL binds to a folder of one vault      *)
(* (src/src/mcp/index.ts), the reading of that URL and the confinement of  *)
(* every tool to the folder (src/src/mcp/scope.ts, scope-tools.ts).        *)
(*                                                                         *)
(* A name is a sequence of characters.  A raw segment of a URL may also    *)
(* hold escapes, each one element; a path given to a tool is a sequence of *)
(* segments.  The SDK (transport, protocol object, message bodies) is      *)
(* external, and so is what a containment check finds on disk: it fails    *)
(* or not.  A tool or resource is here what the scope makes of it: the     *)
(* vault, the path on disk and the paths of the rows its service works on. *)
(* What the services do with them, page by page and await by await, is the *)
(* subject of VaultFiles and Listing.                                      *)
(*                                                                         *)
(* BareFilter, AnyUrl and LeaveOpen are not the code: each is a plausible  *)
(* bug of the definition it precedes, by which a property is tried.        *)
(***************************************************************************)
EXTENDS Search

CONSTANTS
    Slots,      \* requests in flight
    Sids,       \* session ids; an id is given out once
    Urls,       \* [raw, means]: raw = <<>> is the unscoped mount; `means` is the
                \* scope a reader of the URL expects, Unscoped or NoScope
    Slugs,      \* the configured vaults
    Paths,      \* that tools are called with
    Asked,      \* searches: [query, opts]
    Callers,    \* the slots that call every tool; the others list the vaults (a
                \* bound: a call reads and writes no other slot)
    CacheMax,   \* SCOPE_SURFACE_CACHE_MAX
    NoSid

Unscoped == [slug |-> <<>>, prefix |-> <<>>]
NoScope == [slug |-> <<>>, prefix |-> <<"/">>]

ASSUME McpAssumption ==
    /\ \A slug \in Slugs : slug \in Seq(STRING) /\ slug # <<>> /\ "NUL" \notin Range(slug)
    /\ \A url \in Urls : url.raw \in Seq(Seq(STRING))
    /\ Paths \subseteq Seq(Seq(STRING))
    /\ \A asked \in Asked :
           /\ asked.query \in [vector : [DOMAIN Chunks -> Nat], fts : [DOMAIN Chunks -> Nat]]
           /\ asked.opts \in [limit : Nat \ {0}, lambda : 0 .. 100, maxPerPath : Nat \ {0},
                               threshold : Nat, prefix : Seq(STRING),
                               mode : {"vector", "fts", "hybrid"}]
    /\ CacheMax \in Nat \ {0} /\ NoSid \notin Sids /\ Callers \subseteq Slots
    /\ \A c \in Range(Chunks) : c.of \in Slugs

VARIABLES
    sessions,   \* of a session id: the key it is bound to, the scope it serves
    server,     \* of a session id: its protocol object
    cache,      \* scopeSurfaces: [key, scope], the least recently used first
    slot        \* the requests being handled
vars == <<sessions, server, cache, slot>>

NoAnswer == [did |-> "nothing"]
Idle == [stage |-> "idle", url |-> [raw |-> <<>>, means |-> Unscoped], sid |-> NoSid,
         scope |-> Unscoped, answer |-> NoAnswer]

----------------------------------------------------------------------------
(* From a URL to a scope.                                                  *)

Escapes == [e \in {"%2e", "%2F", "%61"} |->
                CASE e = "%2e" -> "." [] e = "%2F" -> "/" [] e = "%61" -> "a"]
Malformed(segment) == "%ZZ" \in Range(segment)
decodeURIComponent(segment) ==
    [i \in DOMAIN segment |-> IF segment[i] \in DOMAIN Escapes
                              THEN Escapes[segment[i]] ELSE segment[i]]

\* A segment `..` counts, `.` does not.
Hidden(segment) == segment # <<>> /\ segment # <<".">> /\ Head(segment) = "."
Kept(segments) == Without(segments, {<<>>, <<".">>})
Join(segments) ==
    FoldLeft(LAMBDA text, s : IF text = <<>> THEN s ELSE text \o <<"/">> \o s, <<>>, segments)

decoded(raw) == [i \in DOMAIN raw |-> decodeURIComponent(raw[i])]
ValidPrefix(raw) ==
    /\ \A segment \in Range(raw) : ~Malformed(segment)
    /\ \A segment \in Range(decoded(raw)) : "/" \notin Range(segment)
    /\ \A segment \in Range(Tail(decoded(raw))) : ~Hidden(segment)
parseScope(raw) ==
    IF ValidPrefix(raw) /\ decoded(raw)[1] \in Slugs
    THEN [slug |-> decoded(raw)[1], prefix |-> Join(Kept(Tail(decoded(raw))))]
    ELSE NoScope

resolveScope(url) == IF url.raw = <<>> THEN Unscoped ELSE parseScope(url.raw)

scopeKey(scope) == IF scope = Unscoped THEN <<>>
                   ELSE scope.slug \o <<"NUL">> \o scope.prefix

----------------------------------------------------------------------------
(* What a scope makes of a tool.                                           *)

under(scope, path) ==
    IF scope.prefix = <<>> THEN path ELSE scope.prefix \o <<"/">> \o path

Folder(scope) == IF scope.prefix = <<>> THEN <<>> ELSE scope.prefix \o <<"/">>
strip(scope, path) == SubSeq(path, Len(Folder(scope)) + 1, Len(path))

\* Hits of no path under the prefix are dropped.
Stripped(scope, hits) ==
    LET inside == Without(hits, {h \in Range(hits) : ~IsPrefix(Folder(scope), h.path)})
    IN  [i \in DOMAIN inside |-> [inside[i] EXCEPT !.path = strip(scope, @)]]

\* The prefixes that a caller gives are ones assertSafeRelativePath lets through.
BareFilter(opts, scope) == [opts EXCEPT !.prefix = scope.prefix \o @]
withScopedFilter(opts, scope) ==
    IF scope.prefix = <<>> THEN opts
    ELSE [opts EXCEPT !.prefix = scope.prefix \o <<"/">> \o @]

\* The vault a tool addresses: an argument left out is filled in.
VaultArgument(scope, arg) == IF arg = <<>> THEN scope.slug ELSE arg
VaultFound(scope, slug) == slug \in Slugs /\ scope.slug \in {<<>>, slug}

VaultsListed(scope) == {slug \in Slugs : VaultFound(scope, slug)}

assertSafeRelativePath(path) ==
    path # <<>> /\ Head(path) # <<>> /\ \A segment \in Range(path) : ~Hidden(segment)

\* What a path names must not be the root itself.
safeJoin(path) == assertSafeRelativePath(path) /\ Kept(path) # <<>>

\* Every name here is that of a Markdown file; a path that goes on after it, with
\* a slash or `/.`, has no extension.
isMarkdownPath(path) == Last(path) \notin {<<>>, <<".">>}

\* The rows of a file are filed and dropped under the path as it was given.
RowsOf(path) == IF isMarkdownPath(path) THEN {Join(path)} ELSE {}

\* Slashes at the end of a folder's path are cut off, and nothing else is.
canonicalFolderPath(path) ==
    SubSeq(path, 1, Cardinality({i \in DOMAIN path :
                                    \E j \in i .. Len(path) : path[j] # <<>>}))

Table(slug) == {c \in DOMAIN Chunks : Chunks[c].of = slug}

\* The disk: the notes that have rows, none of them hidden.
Notes(slug) == {PathOf(c) : c \in Table(slug)}
Named(scope, path) == Join(Kept(<<scope.prefix>> \o path))
InFolder(slug, folder) == {n \in Notes(slug) : IsPrefix(folder, n)}

\* What a walk from the root of the scope yields, and the folders on its way.
walkVault(scope, slug) == {strip(scope, n) : n \in InFolder(slug, Folder(scope))}
walkVaultFolders(scope, slug) ==
    UNION {{SubSeq(p, 1, i - 1) : i \in {j \in DOMAIN p : p[j] = "/"}} : p \in walkVault(scope, slug)}

----------------------------------------------------------------------------
(* Requests.  Up to its first await a request is one step.                 *)

Init ==
    /\ sessions = <<>>
    /\ server = [s \in Sids |-> "unborn"]
    /\ cache = <<>>
    /\ slot = [r \in Slots |-> Idle]

Answer(r, answer) == slot' = [slot EXCEPT ![r].stage = "done", ![r].answer = answer]
At(r, stage) == slot[r].stage = stage

AnyUrl(s, key) == s \in DOMAIN sessions
pairFor(s, key) == s \in DOMAIN sessions /\ sessions[s].key = key

\* A URL without a scope, an id that is unknown or bound to another scope, or,
\* except in a POST, no id at all.
Refused(r, url, s, method) ==
    /\ At(r, "idle")
    /\ \/ resolveScope(url) = NoScope
       \/ s = NoSid /\ method # "POST"
       \/ s # NoSid /\ ~pairFor(s, scopeKey(resolveScope(url)))
    /\ slot' = [slot EXCEPT ![r] = [Idle EXCEPT !.stage = "done", !.url = url]]
    /\ UNCHANGED <<sessions, server, cache>>

\* A POST without an id: the root of the scope is looked at first.
Bind(r, url) ==
    /\ At(r, "idle")
    /\ resolveScope(url) # NoScope
    /\ slot' = [slot EXCEPT ![r] = [Idle EXCEPT !.stage = "binding", !.url = url,
                                                !.scope = resolveScope(url)]]
    /\ UNCHANGED <<sessions, server, cache>>

\* A request of a session goes to the transport of the session.
Route(r, url, s, method) ==
    /\ At(r, "idle")
    /\ resolveScope(url) # NoScope
    /\ pairFor(s, scopeKey(resolveScope(url)))
    /\ slot' = [slot EXCEPT ![r] =
           IF method = "POST"
           THEN [Idle EXCEPT !.stage = "calling", !.url = url, !.scope = sessions[s].scope]
           ELSE [Idle EXCEPT !.stage = "deleting", !.url = url, !.sid = s]]
    /\ UNCHANGED <<sessions, server, cache>>

\* The memo of the surfaces: what it holds for the key, or else a new one; that
\* entry becomes the youngest, and the oldest go.
Known(key) == {e \in Range(cache) : e.key = key}
scopedSurface(scope) ==
    IF Known(scopeKey(scope)) = {} THEN scope
    ELSE (CHOOSE e \in Known(scopeKey(scope)) : TRUE).scope
Memo(scope) ==
    LET entry == [key |-> scopeKey(scope), scope |-> scopedSurface(scope)]
        all == Append(Without(cache, Known(entry.key)), entry)
    IN  SubSeq(all, IF Len(all) > CacheMax THEN Len(all) - CacheMax + 1 ELSE 1, Len(all))

createPair(r) ==
    /\ At(r, "binding")
    /\ IF slot[r].scope = Unscoped
       THEN /\ slot' = [slot EXCEPT ![r].stage = "connecting"]
            /\ UNCHANGED cache
       ELSE /\ slot' = [slot EXCEPT ![r].stage = "connecting",
                                    ![r].scope = scopedSurface(@)]
            /\ cache' = Memo(slot[r].scope)
    /\ UNCHANGED <<sessions, server>>

onsessioninitialized(r, s) ==
    /\ At(r, "connecting")
    /\ server[s] = "unborn"
    /\ sessions' = [t \in DOMAIN sessions \cup {s} |->
           IF t = s THEN [key |-> scopeKey(resolveScope(slot[r].url)), scope |-> slot[r].scope]
           ELSE sessions[t]]
    /\ server' = [server EXCEPT ![s] = "open"]
    /\ Answer(r, [did |-> "initialised"])
    /\ UNCHANGED cache

\* The body is no `initialize`: the SDK answers, and nobody keeps the new pair.
NotInitialized(r) ==
    /\ At(r, "connecting")
    /\ Answer(r, NoAnswer)
    /\ UNCHANGED <<sessions, server, cache>>

\* assertScopeRootSafe, when a session is bound and before each of its calls.
RootRefused(r) ==
    /\ slot[r].stage \in {"binding", "calling"}
    /\ slot[r].scope # Unscoped
    /\ Answer(r, NoAnswer)
    /\ UNCHANGED <<sessions, server, cache>>

----------------------------------------------------------------------------
(* The end of a session: a DELETE, or the transport closes by itself.      *)

\* onsessionclosed and onclose do the same: the server is closed, the entry goes.
LeaveOpen(s) == UNCHANGED server
disposeServer(s) == server' = [server EXCEPT ![s] = "closing"]
Forget(s) == sessions' = [t \in DOMAIN sessions \ {s} |-> sessions[t]]

onsessionclosed(r) ==
    /\ At(r, "deleting")
    /\ IF slot[r].sid \in DOMAIN sessions
       THEN disposeServer(slot[r].sid) /\ Forget(slot[r].sid)
       ELSE UNCHANGED <<sessions, server>>
    /\ Answer(r, NoAnswer)
    /\ UNCHANGED cache

onclose(s) ==
    /\ s \in DOMAIN sessions
    /\ disposeServer(s)
    /\ Forget(s)
    /\ UNCHANGED <<cache, slot>>

ServerCloses(s) ==
    /\ server[s] = "closing"
    /\ server' = [server EXCEPT ![s] = "closed"]
    /\ UNCHANGED <<sessions, cache, slot>>

----------------------------------------------------------------------------
(* Calls of tools.  They need nothing of the session but its surface, and  *)
(* so go on when it ends meanwhile.                                        *)

\* A call for a path: the file under the root, and the rows under the scope's
\* path of each Markdown file that the service reindexes or drops.
OnPath(r, tool, arg, path, rows) ==
    LET scope == slot[r].scope
        vault == VaultArgument(scope, arg)
    IN  /\ At(r, "calling")
        /\ Answer(r, IF VaultFound(scope, vault) /\ safeJoin(path)
                     THEN [did |-> tool, vault |-> vault, file |-> Named(scope, path),
                           indexed |-> {under(scope, p) : p \in rows}]
                     ELSE NoAnswer)
        /\ UNCHANGED <<sessions, server, cache>>

writeFileTool(r, arg, path) == OnPath(r, "wrote", arg, path, RowsOf(path))
appendFileTool(r, arg, path) == OnPath(r, "appended", arg, path, RowsOf(path))
patchFileTool(r, arg, path) == OnPath(r, "patched", arg, path, RowsOf(path))
deleteFileTool(r, arg, path) == OnPath(r, "deleted", arg, path, RowsOf(path))
readFileTool(r, arg, path) == OnPath(r, "read", arg, path, {})
createFolderTool(r, arg, path) == OnPath(r, "created", arg, path, {})

\* The descendants are collected under the spelling that the folder was given.
deleteFolderTool(r, arg, path, recursive) ==
    LET scope == slot[r].scope
        folder == Named(scope, path) \o <<"/">>
        notes == InFolder(VaultArgument(scope, arg), folder)
    IN  /\ recursive \/ notes = {}
        /\ OnPath(r, "removed", arg, path,
                  {Join(canonicalFolderPath(path)) \o SubSeq(n, Len(folder), Len(n)) :
                       n \in notes})

\* A URI is a slug, which holds no slash, and the path after the first slash.
readResource(r, slug, path) == OnPath(r, "resource", slug, path, {})

OnVault(r, arg, answer(_, _)) ==
    LET scope == slot[r].scope
        vault == VaultArgument(scope, arg)
    IN  /\ At(r, "calling")
        /\ Answer(r, IF VaultFound(scope, vault) THEN answer(scope, vault) ELSE NoAnswer)
        /\ UNCHANGED <<sessions, server, cache>>

listFilesTool(r, arg, prefix) ==
    OnVault(r, arg, LAMBDA scope, vault :
        [did |-> "files", vault |-> vault,
         paths |-> {p \in walkVault(scope, vault) : IsPrefix(prefix, p)}])
listFoldersTool(r, arg, prefix) ==
    OnVault(r, arg, LAMBDA scope, vault :
        [did |-> "folders", vault |-> vault,
         paths |-> {p \in walkVaultFolders(scope, vault) : IsPrefix(prefix, p)}])

\* A page of the vault that the cursor names; one of another vault is empty.
listResources(r, slug) ==
    OnVault(r, slug, LAMBDA scope, vault :
        [did |-> "resources", vault |-> vault, paths |-> walkVault(scope, vault)])

vaultStatusTool(r, arg) ==
    OnVault(r, arg, LAMBDA scope, vault : [did |-> "status", vault |-> vault])

searchTool(r, arg, asked) ==
    OnVault(r, arg, LAMBDA scope, vault :
        [did |-> "searched", vault |-> vault, asked |-> asked,
         hits |-> Stripped(scope, search(Table(vault), asked.query,
                               withScopedFilter(asked.opts, scope)))])

listVaultsTool(r) ==
    /\ At(r, "calling")
    /\ Answer(r, [did |-> "listed", vaults |-> VaultsListed(slot[r].scope)])
    /\ UNCHANGED <<sessions, server, cache>>

\* A file or folder that is not there, is the other or is not empty.
Fails(r) ==
    /\ At(r, "calling")
    /\ Answer(r, NoAnswer)
    /\ UNCHANGED <<sessions, server, cache>>

Return(r) ==
    /\ At(r, "done")
    /\ slot' = [slot EXCEPT ![r] = Idle]
    /\ UNCHANGED <<sessions, server, cache>>

Arguments(r) == Slugs \cup (IF slot[r].scope = Unscoped THEN {} ELSE {<<>>})

Arrives(r) ==
    \E url \in Urls :
        \/ Bind(r, url)
        \/ \E s \in Sids \cup {NoSid}, method \in {"POST", "DELETE"} :
               Refused(r, url, s, method) \/ Route(r, url, s, method)
Binds(r) == createPair(r) \/ NotInitialized(r) \/ \E s \in Sids : onsessioninitialized(r, s)
PathCalls(r, arg, path) ==
    \/ writeFileTool(r, arg, path)
    \/ appendFileTool(r, arg, path)
    \/ patchFileTool(r, arg, path)
    \/ deleteFileTool(r, arg, path)
    \/ readFileTool(r, arg, path)
    \/ createFolderTool(r, arg, path)
    \/ \E recursive \in BOOLEAN : deleteFolderTool(r, arg, path, recursive)
VaultCalls(r, arg) ==
    \/ vaultStatusTool(r, arg)
    \/ \E asked \in Asked :
           \/ searchTool(r, arg, asked)
           \/ listFilesTool(r, arg, asked.opts.prefix)
           \/ listFoldersTool(r, arg, asked.opts.prefix)
Resources(r, slug) == listResources(r, slug) \/ \E path \in Paths : readResource(r, slug, path)
Calls(r) ==
    \/ \E arg \in Arguments(r) :
           (\E path \in Paths : PathCalls(r, arg, path)) \/ VaultCalls(r, arg)
    \/ \E slug \in Slugs : Resources(r, slug)

Next ==
    \/ \E r \in Slots :
           Arrives(r) \/ Binds(r) \/ RootRefused(r) \/ listVaultsTool(r) \/ Fails(r)
            \/ onsessionclosed(r) \/ Return(r)
    \/ \E r \in Callers : Calls(r)
    \/ \E s \in Sids : onclose(s) \/ ServerCloses(s)

Spec == Init /\ [][Next]_vars

----------------------------------------------------------------------------
Answered(r, did) == At(r, "done") /\ slot[r].answer.did = did

\* Does the path lie in the folder?  In none, when the scope is a whole vault.
Inside(scope, path) == scope.prefix = <<>> \/ IsPrefix(scope.prefix \o <<"/">>, path)

\* Whatever sessions, aliases of URLs and evicted surfaces came before, a call
\* touches and shows only what the URL of its own request stands for: its vault,
\* files and rows in its folder, and the notes and folders there under the paths
\* they have in it (pairFor and scopedSurface, mcp/index.ts; parseScope, scopeDeps).
CallsStayInScope ==
    \A r \in Slots :
        LET meant == slot[r].url.means
            answer == slot[r].answer
            Says(field) == At(r, "done") /\ field \in DOMAIN answer
        IN  /\ meant = NoScope => slot[r].stage \in {"idle", "done"} /\ answer = NoAnswer
            /\ meant \notin {Unscoped, NoScope} =>
                   /\ Says("vault") => answer.vault = meant.slug
                   /\ Says("vaults") => answer.vaults = {meant.slug}
                   /\ Says("file") => \A p \in answer.indexed \cup {answer.file} : Inside(meant, p)
                   /\ Says("paths") => \A p \in answer.paths :
                          LET path == Folder(meant) \o p
                          IN  IF Answered(r, "folders")
                              THEN InFolder(meant.slug, path \o <<"/">>) # {}
                              ELSE path \in Notes(meant.slug)

\* The search of a vault that holds the rows of the folder only, by the paths
\* they have in it.
SearchWithin(scope, slug, asked) ==
    LET from == Folder(scope)
        rows == {c \in Table(slug) :
                    /\ IsPrefix(from, PathOf(c))
                    /\ IsPrefix(asked.opts.prefix,
                                SubSeq(PathOf(c), Len(from) + 1, Len(PathOf(c))))}
        hits == search(rows, asked.query, [asked.opts EXCEPT !.prefix = <<>>])
    IN  [i \in DOMAIN hits |-> [hits[i] EXCEPT !.path = SubSeq(@, Len(from) + 1, Len(@))]]

\* To search a scope is to search its folder as a vault of its own: rows of
\* other folders, a folder with a longer name among them, neither appear nor
\* take places from those that do (withScopedFilter, strip in scope.ts).
ScopeIsAVaultOfItsOwn ==
    \A r \in Slots : Answered(r, "searched") =>
        slot[r].answer.hits = SearchWithin(slot[r].scope, slot[r].answer.vault, slot[r].answer.asked)

\* What is asked of an answer: at most `limit` chunks, none twice, at most
\* maxPerPath of a file, all above the floor; and with room left, every chunk
\* that could have been there is one of a file that has its share already
\* (search in indexer/index.ts, applyMmr and applyThreshold in rank.ts).
SearchKeepsTheCaps ==
    \A r \in Slots : Answered(r, "searched") =>
        LET answer == slot[r].answer
            opts == answer.asked.opts
            chunks == {h.chunk : h \in Range(answer.hits)}
            share(path) == Cardinality({c \in chunks : PathOf(c) = path})
            open == searchHybrid(Table(answer.vault), answer.asked.query,
                                 withScopedFilter(opts, slot[r].scope))
        IN  /\ Len(answer.hits) = Cardinality(chunks) /\ Len(answer.hits) <= opts.limit
            /\ \A c \in chunks : share(PathOf(c)) <= opts.maxPerPath
            /\ \A h \in Range(answer.hits) : h.score >= opts.threshold
            /\ Len(answer.hits) < opts.limit =>
                   \A h \in Range(Cut(open, candidates(opts.limit))) :
                       \/ h.chunk \in chunks
                       \/ h.score < opts.threshold
                       \/ share(h.path) = opts.maxPerPath

\* A server that was opened for a session is closed as soon as the session has
\* left the map, and none is closed under a session that is in it, however many
\* DELETEs and closings of the transport meet (createPair, mcp/index.ts).
OpenServersAreSessions == \A s \in Sids : server[s] = "open" <=> s \in DOMAIN sessions

----------------------------------------------------------------------------
(* What a comment of the code says and the code does not do.               *)

\* "Drop FIRST (best-effort) so that if the unlink succeeds the index is already
\* in the right state" (deleteFile, vault/files.ts): once a note is deleted its
\* rows are, by whichever path that the checks let through it was named.
DeletedNotesLoseTheirRows ==
    \A r \in Slots : LET answer == slot[r].answer IN
        Answered(r, "deleted") /\ answer.file \in Notes(answer.vault) =>
            answer.file \in answer.indexed
=============================================================================
