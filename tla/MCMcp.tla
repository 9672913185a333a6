------------------------------- MODULE MCMcp -------------------------------
(* Two vaults, "v" with a folder "a" that holds notes and a folder "ab"    *)
(* beside it, and "va", whose name is that of the folder's key without its *)
(* separator.  URLs: the mount, the folder and an alias of it, the other   *)
(* vault, one that climbs out and one of a vault that is not there.        *)
EXTENDS Mcp
CONSTANTS r1, r2, s1, s2

v == <<"v">>
va == <<"v", "a">>
Row(vault, path) == [of |-> vault, path |-> path]
MCChunks == <<Row(v, <<"a", "/", "b">>), Row(v, <<"a", "/", "b">>),
              Row(v, <<"a", "/", "b", "c">>), Row(v, <<"a", "b", "/", "b">>),
              Row(v, <<"b">>), Row(va, <<"a", "/", "b">>),
              Row(v, <<"a", "/", "c", "/", "b">>)>>

MCSlugs == {v, va}
Url(raw, slug, prefix) == [raw |-> raw, means |-> [slug |-> slug, prefix |-> prefix]]
MCUrls ==
    {[raw |-> <<>>, means |-> Unscoped],
     Url(<<v, <<"a">>>>, v, <<"a">>),
     Url(<<v, <<".">>, <<"%61">>, <<>>>>, v, <<"a">>),
     Url(<<va>>, va, <<>>),
     [raw |-> <<v, <<"a">>, <<"%2e", ".">>, <<"b">>>>, means |-> NoScope],
     [raw |-> <<<<"x">>, <<"a">>>>, means |-> NoScope]}
\* Two folders, one of them spelled with slashes to spare, a way out, and a note
\* spelled otherwise than it is listed.
MCPaths == {<<<<"c">>>>, <<<<"a">>, <<>>, <<"c">>, <<>>>>, <<<<".", ".">>, <<"b">>>>,
            <<<<".">>, <<"b">>>>}

\* How close each chunk is: the folder's neighbour leads, the chunks of one note
\* do, or the last note of the folder.
Outside == <<3, 1, 2, 5, 4, 2, 1>>
Twice == <<5, 4, 3, 5, 4, 2, 1>>
Inner == <<1, 4, 4, 5, 5, 2, 1>>
Matches == <<0, 2, 3, 1, 0, 1, 0>>
Ask(liking, n, lambda, cap, floor, prefix, mode) ==
    [query |-> [vector |-> liking, fts |-> Matches],
     opts |-> [limit |-> n, lambda |-> lambda, maxPerPath |-> cap, threshold |-> floor,
               prefix |-> prefix, mode |-> mode]]
MCAsked ==
    {Ask(Outside, 1, 50, 1, 0, <<>>, "hybrid"), Ask(Outside, 2, 50, 1, 0, <<>>, "hybrid"),
     Ask(Inner, 2, 100, 2, 30, <<>>, "hybrid"), Ask(Outside, 3, 0, 2, 0, <<"b">>, "hybrid"),
     Ask(Twice, 2, 50, 1, 3, <<>>, "vector"), Ask(Inner, 2, 50, 1, 2, <<"b">>, "fts")}

MCSlots == {r1, r2}
MCSids == {s1, s2}
MCCallers == {r1}
MCSymmetry == Permutations(MCSids)
=============================================================================
