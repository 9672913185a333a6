------------------------------ MODULE Listing -------------------------------
(***************************************************************************)
(* A client that pages through every vault (src/src/vault/files.ts,        *)
(* vault/folders.ts, mcp/resources.ts) while files come and go: the walk   *)
(* of a vault is in the order of the names within each directory, and the  *)
(* cursor between two pages is compared with whole paths.                  *)
(*                                                                         *)
(* A name is a sequence of code points and a path a sequence of names.     *)
(* Files and folders are listed by the same code but for what a walk       *)
(* yields, so that an entry here is either.                                *)
(***************************************************************************)
EXTENDS Naturals, Sequences

CONSTANTS
    Slugs,      \* the vaults, in the order of the configuration
    Entries,    \* paths that can be there
    Slash, Dot, \* code points; no name holds Slash
    PageLimit,  \* entries of a page, at least one
    MaxChanges  \* bound: entries that come or go

Vaults == 1 .. Len(Slugs)
NoPath == <<>>

\* Comparing two sequences at their first difference; a proper prefix comes first.
Before(less(_, _), s, t) ==
    \E i \in 1 .. Len(t) :
        /\ i <= Len(s) + 1 /\ \A j \in 1 .. i - 1 : s[j] = t[j]
        /\ i <= Len(s) => less(s[i], t[i])

CodeLess(x, y) == x < y
NameLess(m, n) == Before(CodeLess, m, n)

\* The order of the walk: `entries.sort` by name in every directory.
WalkedBefore(p, q) == Before(NameLess, p, q)

\* The path as one string, which is what a cursor holds, and `>` on such strings.
Text(p) == LET upTo[i \in 0 .. Len(p)] ==
                   CASE i = 0 -> <<>>
                     [] i = 1 -> p[1]
                     [] OTHER -> upTo[i - 1] \o <<Slash>> \o p[i]
           IN  upTo[Len(p)]
After(p, cursor) == cursor = NoPath \/ Before(CodeLess, Text(cursor), Text(p))

Hidden(p) == \E i \in DOMAIN p : p[i][1] = Dot

VARIABLES
    tree,    \* of a vault: the entries in it
    changes,
    at,      \* the client: between pages, in one, or at the end
    vault,   \* of the page: the vault it is in, and where it resumes
    cursor,
    walked,  \* of the page: the last entry the walk has yielded
    items,   \* of the page: what is on it so far, in order
    listed,  \* the entries of the pages so far
    stable   \* of a vault: the entries that were there all the time (history)
vars == <<tree, changes, at, vault, cursor, walked, items, listed, stable>>

Init ==
    /\ tree \in [Vaults -> SUBSET Entries] /\ stable = tree /\ changes = 0
    /\ at = "client" /\ vault = 1 /\ cursor = NoPath
    /\ walked = NoPath /\ items = <<>> /\ listed = [v \in Vaults |-> {}]

\* resources/list, or GET of the files or folders of a vault.
Request ==
    /\ at = "client" /\ at' = "walk" /\ walked' = NoPath /\ items' = <<>>
    /\ UNCHANGED <<tree, changes, vault, cursor, listed, stable>>

Ahead == {p \in tree[vault] : ~Hidden(p) /\ (walked = NoPath \/ WalkedBefore(walked, p))}
Nearest(p) == p \in Ahead /\ \A q \in Ahead : q = p \/ WalkedBefore(p, q)
Wanted(p) == After(p, cursor)
PageOf == {items[i] : i \in DOMAIN items}

\* One turn of the loop: not past the cursor, one more item, or one too many.
Visit(p) ==
    /\ at = "walk" /\ Nearest(p) /\ walked' = p
    /\ \/ ~Wanted(p) /\ UNCHANGED <<at, cursor, items, listed>>
       \/ /\ Wanted(p) /\ Len(items) < PageLimit /\ items' = Append(items, p)
          /\ UNCHANGED <<at, cursor, listed>>
       \/ /\ Wanted(p) /\ Len(items) = PageLimit /\ at' = "client"
          /\ cursor' = items[PageLimit] /\ UNCHANGED items
          /\ listed' = [listed EXCEPT ![vault] = @ \cup PageOf]
    /\ UNCHANGED <<tree, changes, vault, stable>>

\* The last page of a vault; resources/list goes on with the next one.
Exhausted ==
    /\ at = "walk" /\ Ahead = {}
    /\ listed' = [listed EXCEPT ![vault] = @ \cup PageOf]
    /\ \/ vault < Len(Slugs) /\ vault' = vault + 1 /\ at' = "client" /\ cursor' = NoPath
       \/ vault = Len(Slugs) /\ at' = "done" /\ UNCHANGED <<vault, cursor>>
    /\ UNCHANGED <<tree, changes, walked, items, stable>>

Change(v, p) ==
    /\ changes < MaxChanges /\ changes' = changes + 1 /\ at # "done"
    /\ \/ p \in tree[v] /\ tree' = [tree EXCEPT ![v] = @ \ {p}]
          /\ stable' = [stable EXCEPT ![v] = @ \ {p}]
       \/ p \notin tree[v] /\ tree' = [tree EXCEPT ![v] = @ \cup {p}] /\ UNCHANGED stable
    /\ UNCHANGED <<at, vault, cursor, walked, items, listed>>

Next ==
    \/ Request \/ Exhausted \/ \E p \in Entries : Visit(p)
    \/ \E v \in Vaults, p \in Entries : Change(v, p)

Spec == Init /\ [][Next]_vars

-----------------------------------------------------------------------------
\* files.ts: the walk is in the order of the comparison the cursor makes, which
\* would otherwise `skip or repeat entries`.  An entry that was there from the first
\* page to the last is on one of them.
EveryEntryListed ==
    at = "done" => \A v \in Vaults : {p \in stable[v] : ~Hidden(p)} \subseteq listed[v]
=============================================================================
