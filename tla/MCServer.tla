------------------------------ MODULE MCServer ------------------------------
(* Environments in which one or two variables differ from a plain one: the *)
(* vaults, with names that collide once they are slugs, and the numbers at *)
(* either side of every bound.                                             *)
EXTENDS Server
V(name, slug) == [name |-> name, slug |-> slug]
A == V(<<11>>, <<>>)
B == V(<<2>>, <<>>)
ASpaced == V(<<0, 1, 0, 0>>, <<>>)
Dashed == V(<<1, 0, 0, 2>>, <<>>)
Renamed == V(<<2>>, <<11, 0, 2>>)
Blank == V(<<0>>, <<>>)
MCPlain ==
    [vaults |-> <<A, B>>, timeout |-> Unset, poll |-> Unset, tail |-> "unset",
     crashes |-> Unset, stalls |-> Unset, threshold |-> Unset, port |-> Unset,
     listed |-> TRUE, provider |-> "transformers", key |-> FALSE,
     sync |-> [mode |-> "unset"]]
MCSlugs == {<<1>>, <<2>>}
MCEnvironments ==
    {[MCPlain EXCEPT !.vaults = v] :
        v \in {<<A>>, <<B>>, <<A, B>>, <<A, ASpaced>>, <<Blank>>, <<>>, <<B, Dashed, Renamed>>}}
    \cup {[MCPlain EXCEPT !.timeout = t, !.poll = p] :
            t \in {Malformed, 0, 1, 4}, p \in {Unset, 0, 1, 2}}
    \cup {[MCPlain EXCEPT !.crashes = n] : n \in {0, 2, 3}}
    \cup {[MCPlain EXCEPT !.threshold = 3], [MCPlain EXCEPT !.stalls = Malformed],
          [MCPlain EXCEPT !.tail = "yes"], [MCPlain EXCEPT !.listed = FALSE],
          [MCPlain EXCEPT !.port = 65536], [MCPlain EXCEPT !.provider = "openai"]}
=============================================================================
