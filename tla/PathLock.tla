------------------------------ MODULE PathLock ------------------------------
(***************************************************************************)
(* The per-path mutex of the file service (src/src/vault/lock.ts): a chain *)
(* of promises per key.  A call awaits the tail of the chain it found and  *)
(* is the tail of the chain it leaves; the map forgets a key only when the *)
(* call that leaves is still its tail.                                     *)
(*                                                                         *)
(* LeaveAndForget and EnterAtOnce are not the code: each is a plausible    *)
(* bug of the definition it precedes, by which a property is tried.        *)
(***************************************************************************)
EXTENDS Naturals, Sequences

CONSTANTS
    Calls,   \* calls of withPathLock
    Keys,    \* the strings they lock
    NoCall   \* no entry in the map; nothing to wait for

ASSUME LockAssumption == NoCall \notin Calls

VARIABLES
    queues,    \* the map: of a key, the call whose slot ends its chain
    previous,  \* of a call: the one whose tail it awaits, if it does
    slot,      \* of a call: has it come, does it run, has it released?
    lockedKey, \* of a call: the key it waits for or holds
    line       \* of a key: its calls that have not released, as they came (history)
lockVars == <<queues, previous, slot, lockedKey, line>>

LockInit ==
    /\ queues = [k \in Keys |-> NoCall]
    /\ previous = [c \in Calls |-> NoCall]
    /\ slot = [c \in Calls |-> "none"]
    /\ lockedKey = [c \in Calls |-> NoCall]
    /\ line = [k \in Keys |-> <<>>]

\* Everything up to `await previous`.
withPathLock(c, k) ==
    /\ slot[c] = "none"
    /\ slot' = [slot EXCEPT ![c] = "waiting"]
    /\ lockedKey' = [lockedKey EXCEPT ![c] = k]
    /\ previous' = [previous EXCEPT ![c] = queues[k]]
    /\ queues' = [queues EXCEPT ![k] = c]
    /\ line' = [line EXCEPT ![k] = Append(@, c)]

\* A tail resolves once its own slot and the chain before it are released; a slot
\* is released only by a call that awaited that chain.
Resolved(c) == c \in {NoCall} \cup {d \in Calls : slot[d] = "released"}

EnterAtOnce(c) ==
    /\ slot[c] = "waiting"
    /\ slot' = [slot EXCEPT ![c] = "inside"]
    /\ previous' = [previous EXCEPT ![c] = NoCall]
    /\ UNCHANGED <<queues, lockedKey, line>>

Enter(c) ==
    /\ slot[c] = "waiting"
    /\ Resolved(previous[c])
    /\ slot' = [slot EXCEPT ![c] = "inside"]
    /\ previous' = [previous EXCEPT ![c] = NoCall]
    /\ UNCHANGED <<queues, lockedKey, line>>

LeaveAndForget(c) ==
    /\ slot[c] = "inside"
    /\ slot' = [slot EXCEPT ![c] = "released"]
    /\ queues' = [queues EXCEPT ![lockedKey[c]] = NoCall]
    /\ lockedKey' = [lockedKey EXCEPT ![c] = NoCall]
    /\ line' = [line EXCEPT ![lockedKey[c]] = Tail(@)]
    /\ UNCHANGED previous

\* `finally`: whether fn returned or threw.
Leave(c) ==
    /\ slot[c] = "inside"
    /\ slot' = [slot EXCEPT ![c] = "released"]
    /\ queues' = [queues EXCEPT ![lockedKey[c]] = IF @ = c THEN NoCall ELSE @]
    /\ lockedKey' = [lockedKey EXCEPT ![c] = NoCall]
    /\ line' = [line EXCEPT ![lockedKey[c]] = Tail(@)]
    /\ UNCHANGED previous

LockNext ==
    \E c \in Calls : Enter(c) \/ Leave(c) \/ \E k \in Keys : withPathLock(c, k)

LockSpec == LockInit /\ [][LockNext]_lockVars

-----------------------------------------------------------------------------
(* Properties.                                                             *)

LockTypeOK ==
    /\ queues \in [Keys -> Calls \cup {NoCall}]
    /\ previous \in [Calls -> Calls \cup {NoCall}]
    /\ slot \in [Calls -> {"none", "waiting", "inside", "released"}]
    /\ lockedKey \in [Calls -> Keys \cup {NoCall}]
    /\ line \in [Keys -> Seq(Calls)]

\* Two sections of one key never run at the same time.
MutualExclusion ==
    \A c, d \in Calls :
        slot[c] = "inside" /\ slot[d] = "inside" /\ lockedKey[c] = lockedKey[d] => c = d
=============================================================================
