------------------------------ MODULE PathMutex ------------------------------
(***************************************************************************)
(* What the file service relies on (src/src/vault/lock.ts, its header): of *)
(* the sections that name one key at most one runs, they run in the order  *)
(* of their calls, and sections of different keys never wait for another.  *)
(***************************************************************************)
EXTENDS Sequences

CONSTANTS Calls, Keys

VARIABLES
    line,    \* of a key: the calls that have not left yet, in order
    inside   \* the calls whose section runs
vars == <<line, inside>>

Init == line = [k \in Keys |-> <<>>] /\ inside = {}

Absent(c) == \A k \in Keys : \A i \in DOMAIN line[k] : line[k][i] # c

Arrive(c, k) ==
    /\ Absent(c)
    /\ line' = [line EXCEPT ![k] = Append(@, c)]
    /\ UNCHANGED inside

Enter(c, k) ==
    /\ line[k] # <<>> /\ Head(line[k]) = c /\ c \notin inside
    /\ inside' = inside \cup {c}
    /\ UNCHANGED line

Leave(c, k) ==
    /\ line[k] # <<>> /\ Head(line[k]) = c /\ c \in inside
    /\ line' = [line EXCEPT ![k] = Tail(@)]
    /\ inside' = inside \ {c}

Next == \E c \in Calls, k \in Keys : Arrive(c, k) \/ Enter(c, k) \/ Leave(c, k)

Spec == Init /\ [][Next]_vars
=============================================================================
