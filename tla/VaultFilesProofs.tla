-------------------------- MODULE VaultFilesProofs --------------------------
(***************************************************************************)
(* Theorems about the per-path lock and the file service on it, for every  *)
(* number of requests, files and steps of `ob sync`.                       *)
(***************************************************************************)
EXTENDS VaultFiles, TLAPS

\* Of a call that has come and not left.
Here == {"waiting", "inside"}

\* What the chains of promises keep true of the history variable `line`: it
\* holds each call that has come and not left, once, under the key it named;
\* whoever is inside leads its line, and each other call awaits the one before
\* it; the map knows the end of the line.
Lined ==
    /\ \A k \in Keys : \A i \in DOMAIN line[k] :
           slot[line[k][i]] \in Here /\ lockedKey[line[k][i]] = k
    /\ \A c \in Calls : slot[c] \in Here =>
           lockedKey[c] \in Keys /\ \E i \in DOMAIN line[lockedKey[c]] : line[lockedKey[c]][i] = c
    /\ \A k \in Keys : \A i, j \in DOMAIN line[k] : line[k][i] = line[k][j] => i = j
Chained ==
    \A k \in Keys :
        /\ \A i \in DOMAIN line[k] : i > 1 =>
               slot[line[k][i]] = "waiting" /\ previous[line[k][i]] = line[k][i - 1]
        /\ line[k] = <<>> => queues[k] = NoCall
        /\ line[k] # <<>> => queues[k] = line[k][Len(line[k])]
LockInv == LockTypeOK /\ Lined /\ Chained

-----------------------------------------------------------------------------
(* The lock.                                                               *)

LEMMA LockInitOK == LockInit => LockInv
<1> SUFFICES ASSUME LockInit PROVE LockInv
  OBVIOUS
<1>1. \A k \in Keys : line[k] = <<>> /\ DOMAIN line[k] = {} /\ queues[k] = NoCall
  BY DEF LockInit
<1>2. \A c \in Calls : slot[c] \notin Here
  BY DEF LockInit, Here
<1>3. LockTypeOK
  BY DEF LockInit, LockTypeOK
<1> QED
  BY <1>1, <1>2, <1>3 DEF LockInv, Lined, Chained

LEMMA ArriveOK ==
    ASSUME LockInv, NEW c \in Calls, NEW k \in Keys, withPathLock(c, k)
    PROVE  LockInv'
<1>1. /\ slot[c] = "none"
      /\ slot' = [slot EXCEPT ![c] = "waiting"] /\ lockedKey' = [lockedKey EXCEPT ![c] = k]
      /\ previous' = [previous EXCEPT ![c] = queues[k]] /\ queues' = [queues EXCEPT ![k] = c]
      /\ line' = [line EXCEPT ![k] = Append(@, c)]
  BY DEF withPathLock
<1>2. LockTypeOK'
  BY <1>1 DEF LockInv, LockTypeOK
<1>3. \A j \in Keys : line[j] \in Seq(Calls)
  BY DEF LockInv, LockTypeOK
<1>4. \A j \in Keys : \A i \in DOMAIN line[j] : line[j][i] \in Calls /\ line[j][i] # c
  BY <1>1, <1>3 DEF LockInv, Lined, Here
<1>5. /\ line'[k] = Append(line[k], c)
      /\ Len(line'[k]) = Len(line[k]) + 1 /\ Len(line[k]) \in Nat
      /\ DOMAIN line'[k] = 1..Len(line[k]) + 1 /\ DOMAIN line[k] = 1..Len(line[k])
      /\ \A i \in DOMAIN line[k] : line'[k][i] = line[k][i]
      /\ line'[k][Len(line[k]) + 1] = c
  BY <1>1, <1>3 DEF LockInv, LockTypeOK
<1>6. \A j \in Keys \ {k} : line'[j] = line[j] /\ queues'[j] = queues[j]
  BY <1>1 DEF LockInv, LockTypeOK
<1>7. /\ slot'[c] \in Here /\ slot'[c] = "waiting" /\ lockedKey'[c] = k
      /\ previous'[c] = queues[k] /\ queues'[k] = c
  BY <1>1 DEF LockInv, LockTypeOK, Here
<1>8. \A d \in Calls \ {c} : /\ slot'[d] = slot[d]
                             /\ lockedKey'[d] = lockedKey[d] /\ previous'[d] = previous[d]
  BY <1>1 DEF LockInv, LockTypeOK, Here
<1>9. Lined'
  <2>1. ASSUME NEW j \in Keys, NEW i \in DOMAIN line'[j]
        PROVE  slot'[line'[j][i]] \in Here /\ lockedKey'[line'[j][i]] = j
    <3>1. CASE j = k /\ i = Len(line[k]) + 1
      BY <1>5, <1>7, <3>1
    <3>2. CASE ~(j = k /\ i = Len(line[k]) + 1)
      <4>1. i \in DOMAIN line[j] /\ line'[j][i] = line[j][i]
        BY <1>5, <1>6, <3>2
      <4>2. slot[line[j][i]] \in Here /\ lockedKey[line[j][i]] = j
        BY <4>1 DEF LockInv, Lined
      <4> QED
        BY <1>4, <1>8, <4>1, <4>2
    <3> QED
      BY <3>1, <3>2
  <2>2. ASSUME NEW d \in Calls, slot'[d] \in Here
        PROVE  /\ lockedKey'[d] \in Keys
               /\ \E i \in DOMAIN line'[lockedKey'[d]] : line'[lockedKey'[d]][i] = d
    <3>1. CASE d = c
      BY <1>5, <1>7, <3>1
    <3>2. CASE d # c
      <4>1. slot[d] \in Here /\ lockedKey'[d] = lockedKey[d]
        BY <1>8, <2>2, <3>2
      <4>2. /\ lockedKey[d] \in Keys
            /\ \E i \in DOMAIN line[lockedKey[d]] : line[lockedKey[d]][i] = d
        BY <4>1 DEF LockInv, Lined
      <4> QED
        BY <1>5, <1>6, <4>1, <4>2
    <3> QED
      BY <3>1, <3>2
  <2>3. ASSUME NEW j \in Keys, NEW m \in DOMAIN line'[j], NEW n \in DOMAIN line'[j],
               line'[j][m] = line'[j][n]
        PROVE  m = n
    <3>1. \A i, l \in DOMAIN line[j] : line[j][i] = line[j][l] => i = l
      BY DEF LockInv, Lined
    <3>2. CASE j = k
      <4>1. \A l \in DOMAIN line'[k] : l = Len(line[k]) + 1 \/ l \in DOMAIN line[k]
        BY <1>5
      <4>2. \A l \in DOMAIN line[k] : line'[k][l] = line[k][l] /\ line'[k][l] # c
        BY <1>4, <1>5
      <4>3. line'[k][Len(line[k]) + 1] = c
        BY <1>5
      <4> QED
        BY <2>3, <3>1, <3>2, <4>1, <4>2, <4>3
    <3>3. CASE j # k
      BY <1>6, <2>3, <3>1, <3>3
    <3> QED
      BY <3>2, <3>3
  <2> QED
    BY <2>1, <2>2, <2>3 DEF Lined
<1>10. Chained'
  <2>1. ASSUME NEW j \in Keys, NEW i \in DOMAIN line'[j], i > 1
        PROVE  slot'[line'[j][i]] = "waiting" /\ previous'[line'[j][i]] = line'[j][i - 1]
    <3>1. CASE j = k /\ i = Len(line[k]) + 1
      <4>1. line[k] # <<>> /\ queues[k] = line[k][Len(line[k])]
        BY <2>1, <3>1, <1>5 DEF LockInv, Chained
      <4> QED
        BY <2>1, <3>1, <4>1, <1>5, <1>7
    <3>2. CASE j = k /\ i # Len(line[k]) + 1
      <4>1. i \in DOMAIN line[k] /\ i - 1 \in DOMAIN line[k]
        BY <2>1, <3>2, <1>5
      <4> QED
        BY <2>1, <3>2, <4>1, <1>4, <1>5, <1>8 DEF LockInv, Chained
    <3>3. CASE j # k
      BY <2>1, <3>3, <1>4, <1>6, <1>8 DEF LockInv, Chained
    <3> QED
      BY <3>1, <3>2, <3>3
  <2>2. ASSUME NEW j \in Keys
        PROVE  /\ line'[j] = <<>> => queues'[j] = NoCall
               /\ line'[j] # <<>> => queues'[j] = line'[j][Len(line'[j])]
    BY <1>5, <1>6, <1>7 DEF LockInv, Chained
  <2> QED
    BY <2>1, <2>2 DEF Chained
<1> QED
  BY <1>2, <1>9, <1>10 DEF LockInv

\* Whoever may enter leads its line: no other call is before it.
LEMMA EntersAsFirst ==
    ASSUME LockInv, NEW c \in Calls, slot[c] = "waiting", Resolved(previous[c])
    PROVE  /\ lockedKey[c] \in Keys /\ line[lockedKey[c]] # <<>>
           /\ line[lockedKey[c]][1] = c
<1>1. /\ lockedKey[c] \in Keys
      /\ \E i \in DOMAIN line[lockedKey[c]] : line[lockedKey[c]][i] = c
  BY DEF LockInv, Lined, Here
<1>2. PICK i \in DOMAIN line[lockedKey[c]] : line[lockedKey[c]][i] = c
  BY <1>1
<1> DEFINE l == line[lockedKey[c]]
<1>3. l \in Seq(Calls) /\ i \in 1..Len(l)
  BY <1>1 DEF LockInv, LockTypeOK
<1>4. i = 1
  <2> SUFFICES ASSUME i > 1 PROVE FALSE
    BY <1>3
  <2>1. i - 1 \in DOMAIN l /\ l[i - 1] \in Calls /\ previous[c] = l[i - 1]
    BY <1>1, <1>2, <1>3 DEF LockInv, Chained
  <2>2. slot[l[i - 1]] \in {"waiting", "inside"}
    BY <1>1, <2>1 DEF LockInv, Lined, Here
  <2> QED
    BY <2>1, <2>2, LockAssumption DEF Resolved
<1> QED
  BY <1>1, <1>2, <1>3, <1>4

LEMMA EnterOK ==
    ASSUME LockInv, NEW c \in Calls, Enter(c)
    PROVE  LockInv'
<1>1. /\ slot[c] = "waiting" /\ Resolved(previous[c])
      /\ slot' = [slot EXCEPT ![c] = "inside"] /\ previous' = [previous EXCEPT ![c] = NoCall]
      /\ UNCHANGED <<queues, lockedKey, line>>
  BY DEF Enter
<1>2. LockTypeOK'
  BY <1>1 DEF LockInv, LockTypeOK
<1>3. /\ lockedKey[c] \in Keys /\ line[lockedKey[c]][1] = c
      /\ line[lockedKey[c]] # <<>>
  BY <1>1, EntersAsFirst
<1>4. \A d \in Calls : slot'[d] \in Here <=> slot[d] \in Here
  BY <1>1 DEF LockInv, LockTypeOK, Here
<1>5. \A k \in Keys : \A i \in DOMAIN line[k] : i \in Nat \ {0} /\ line[k][i] \in Calls
  BY DEF LockInv, LockTypeOK
<1>6. Lined'
  BY <1>1, <1>4, <1>5 DEF LockInv, Lined
<1>7. \A k \in Keys : \A i \in DOMAIN line[k] : i > 1 => line[k][i] # c
  <2> SUFFICES ASSUME NEW k \in Keys, NEW i \in DOMAIN line[k], i > 1, line[k][i] = c
               PROVE  FALSE
    OBVIOUS
  <2>1. k = lockedKey[c]
    BY DEF LockInv, Lined
  <2>2. 1 \in DOMAIN line[k]
    BY <1>3, <2>1 DEF LockInv, LockTypeOK
  <2> QED
    BY <1>3, <2>1, <2>2 DEF LockInv, Lined
<1>8. Chained'
  BY <1>1, <1>5, <1>7 DEF LockInv, Chained, LockTypeOK
<1> QED
  BY <1>2, <1>6, <1>8 DEF LockInv

\* Whoever is inside leads its line.
LEMMA InsideIsFirst ==
    ASSUME LockInv, NEW c \in Calls, slot[c] = "inside"
    PROVE  /\ lockedKey[c] \in Keys /\ line[lockedKey[c]] # <<>>
           /\ line[lockedKey[c]][1] = c
<1>1. /\ lockedKey[c] \in Keys
      /\ \E i \in DOMAIN line[lockedKey[c]] : line[lockedKey[c]][i] = c
  BY DEF LockInv, Lined, Here
<1>2. PICK i \in DOMAIN line[lockedKey[c]] : line[lockedKey[c]][i] = c
  BY <1>1
<1>3. line[lockedKey[c]] \in Seq(Calls) /\ i \in 1..Len(line[lockedKey[c]])
  BY <1>1 DEF LockInv, LockTypeOK
<1>4. i = 1
  BY <1>1, <1>2, <1>3 DEF LockInv, Chained
<1> QED
  BY <1>1, <1>2, <1>3, <1>4

LEMMA LeaveOK ==
    ASSUME LockInv, NEW c \in Calls, Leave(c)
    PROVE  LockInv'
<1> DEFINE k == lockedKey[c]
<1>1. /\ slot[c] = "inside" /\ slot' = [slot EXCEPT ![c] = "released"]
      /\ queues' = [queues EXCEPT ![k] = IF @ = c THEN NoCall ELSE @]
      /\ lockedKey' = [lockedKey EXCEPT ![c] = NoCall]
      /\ line' = [line EXCEPT ![k] = Tail(@)] /\ previous' = previous
  BY DEF Leave
<1>2. k \in Keys /\ line[k] # <<>> /\ line[k][1] = c
  BY <1>1, InsideIsFirst
<1>3. line[k] \in Seq(Calls)
  BY <1>2 DEF LockInv, LockTypeOK
<1> HIDE DEF k
<1>4. LockTypeOK'
  BY <1>1, <1>2, <1>3 DEF LockInv, LockTypeOK
<1>5. /\ line'[k] = Tail(line[k]) /\ Len(line[k]) \in Nat \ {0}
      /\ DOMAIN line[k] = 1..Len(line[k]) /\ DOMAIN line'[k] = 1..Len(line[k]) - 1
      /\ Len(line'[k]) = Len(line[k]) - 1
      /\ \A i \in DOMAIN line'[k] : i + 1 \in DOMAIN line[k] /\ line'[k][i] = line[k][i + 1]
  BY <1>1, <1>2, <1>3 DEF LockInv, LockTypeOK
<1>6. \A j \in Keys \ {k} : line'[j] = line[j] /\ queues'[j] = queues[j]
  BY <1>1 DEF LockInv, LockTypeOK
<1>7. slot'[c] \notin Here
  BY <1>1 DEF LockInv, LockTypeOK, Here
<1>8. \A d \in Calls \ {c} : /\ slot'[d] = slot[d]
                             /\ lockedKey'[d] = lockedKey[d] /\ previous'[d] = previous[d]
  BY <1>1 DEF LockInv, LockTypeOK, Here
<1>9. \A j \in Keys : \A i \in DOMAIN line[j] :
          /\ i \in Nat \ {0} /\ line[j][i] \in Calls
          /\ line[j][i] = c => j = k /\ i = 1
  <2> TAKE j \in Keys
  <2> TAKE i \in DOMAIN line[j]
  <2>1. i \in Nat \ {0} /\ line[j][i] \in Calls
    BY DEF LockInv, LockTypeOK
  <2>2. line[j][i] = c => j = k
    BY DEF LockInv, Lined, k
  <2>3. line[j][i] = c => i = 1
    BY <1>2, <1>5, <2>2 DEF LockInv, Lined
  <2> QED
    BY <2>1, <2>2, <2>3
<1>10. \A j \in Keys : \A i \in DOMAIN line'[j] : line'[j][i] \in Calls \ {c}
  <2> SUFFICES ASSUME NEW j \in Keys, NEW i \in DOMAIN line'[j]
               PROVE  line'[j][i] \in Calls \ {c}
    OBVIOUS
  <2>1. CASE j = k
    <3>1. /\ i \in 1..Len(line[k]) - 1 /\ i + 1 # 1
          /\ i + 1 \in DOMAIN line[k] /\ line'[k][i] = line[k][i + 1]
      BY <2>1, <1>5
    <3> QED
      BY <2>1, <3>1, <1>2, <1>9
  <2>2. CASE j # k
    BY <2>2, <1>6, <1>9
  <2> QED
    BY <2>1, <2>2
<1>11. Lined'
  <2>1. ASSUME NEW j \in Keys, NEW i \in DOMAIN line'[j]
        PROVE  slot'[line'[j][i]] \in Here /\ lockedKey'[line'[j][i]] = j
    <3>1. line'[j][i] \in Calls \ {c}
      BY <1>10
    <3>2. slot[line'[j][i]] \in Here /\ lockedKey[line'[j][i]] = j
      <4>1. CASE j = k
        <5>1. i + 1 \in DOMAIN line[k] /\ line'[k][i] = line[k][i + 1]
          BY <4>1, <1>5
        <5> QED
          BY <4>1, <5>1, <1>2 DEF LockInv, Lined
      <4>2. CASE j # k
        BY <4>2, <1>6 DEF LockInv, Lined
      <4> QED
        BY <4>1, <4>2
    <3> QED
      BY <3>1, <3>2, <1>8
  <2>2. ASSUME NEW d \in Calls, slot'[d] \in Here
        PROVE  /\ lockedKey'[d] \in Keys
               /\ \E i \in DOMAIN line'[lockedKey'[d]] : line'[lockedKey'[d]][i] = d
    <3>1. d # c /\ slot[d] \in Here /\ lockedKey'[d] = lockedKey[d]
      BY <2>2, <1>7, <1>8
    <3>2. PICK i \in DOMAIN line[lockedKey[d]] : line[lockedKey[d]][i] = d
      BY <3>1 DEF LockInv, Lined
    <3>3. lockedKey[d] \in Keys
      BY <3>1 DEF LockInv, Lined
    <3>4. CASE lockedKey[d] = k
      <4>1. i # 1 /\ i \in 1..Len(line[k])
        BY <3>1, <3>2, <3>4, <1>2, <1>5
      <4>2. i - 1 \in DOMAIN line'[k] /\ (i - 1) + 1 = i
        BY <4>1, <1>5
      <4>3. line'[k][i - 1] = d
        BY <3>2, <3>4, <4>2, <1>5
      <4> QED
        BY <3>1, <3>3, <3>4, <4>2, <4>3
    <3>5. CASE lockedKey[d] # k
      BY <3>1, <3>2, <3>3, <3>5, <1>6
    <3> QED
      BY <3>4, <3>5
  <2>3. ASSUME NEW j \in Keys, NEW m \in DOMAIN line'[j], NEW n \in DOMAIN line'[j],
               line'[j][m] = line'[j][n]
        PROVE  m = n
    <3>1. CASE j = k
      <4>1. m + 1 = n + 1
        BY <2>3, <3>1, <1>2, <1>5 DEF LockInv, Lined
      <4> QED
        BY <2>3, <3>1, <4>1, <1>5
    <3>2. CASE j # k
      BY <2>3, <3>2, <1>6 DEF LockInv, Lined
    <3> QED
      BY <3>1, <3>2
  <2> QED
    BY <2>1, <2>2, <2>3 DEF Lined
<1>12. Chained'
  <2>1. ASSUME NEW j \in Keys, NEW i \in DOMAIN line'[j], i > 1
        PROVE  slot'[line'[j][i]] = "waiting" /\ previous'[line'[j][i]] = line'[j][i - 1]
    <3>1. CASE j = k
      <4>1. /\ i \in Nat /\ i + 1 > 1 /\ i + 1 \in DOMAIN line[k] /\ line'[k][i] = line[k][i + 1]
            /\ i - 1 \in DOMAIN line'[k] /\ (i + 1) - 1 = i /\ (i - 1) + 1 = i
        BY <2>1, <3>1, <1>5
      <4>2. line'[k][i - 1] = line[k][i]
        BY <4>1, <1>5
      <4>3. slot[line[k][i + 1]] = "waiting" /\ previous[line[k][i + 1]] = line[k][i]
        BY <4>1, <1>2 DEF LockInv, Chained
      <4> QED
        BY <2>1, <3>1, <4>1, <4>2, <4>3, <1>2, <1>8, <1>10
    <3>2. CASE j # k
      BY <2>1, <3>2, <1>6, <1>8, <1>10 DEF LockInv, Chained
    <3> QED
      BY <3>1, <3>2
  <2>2. ASSUME NEW j \in Keys
        PROVE  /\ line'[j] = <<>> => queues'[j] = NoCall
               /\ line'[j] # <<>> => queues'[j] = line'[j][Len(line'[j])]
    <3>1. CASE j # k
      BY <3>1, <1>6 DEF LockInv, Chained
    <3>2. CASE j = k
      <4>1. queues[k] = line[k][Len(line[k])] /\ Len(line[k]) \in DOMAIN line[k]
        BY <1>2, <1>5 DEF LockInv, Chained
      <4>2. queues'[k] = IF queues[k] = c THEN NoCall ELSE queues[k]
        BY <1>1, <1>2 DEF LockInv, LockTypeOK
      <4>3. queues[k] = c <=> Len(line[k]) = 1
        BY <4>1, <1>2, <1>5, <1>9
      <4>4. line'[k] = <<>> <=> Len(line[k]) = 1
        <5>1. line'[k] \in Seq(Calls)
          BY <1>1, <1>2, <1>3 DEF LockInv, LockTypeOK
        <5>2. line'[k] = <<>> <=> Len(line'[k]) = 0
          BY <5>1
        <5> QED
          BY <5>2, <1>5
      <4>5. CASE Len(line[k]) = 1
        BY <3>2, <4>2, <4>3, <4>4, <4>5
      <4>6. CASE Len(line[k]) # 1
        <5>1. Len(line'[k]) \in DOMAIN line'[k] /\ Len(line'[k]) + 1 = Len(line[k])
          <6>1. Len(line[k]) \in Nat /\ Len(line[k]) # 0 /\ Len(line[k]) # 1
            BY <4>6, <1>5
          <6>2. Len(line[k]) - 1 \in 1..Len(line[k]) - 1 /\ (Len(line[k]) - 1) + 1 = Len(line[k])
            <7>1. \A n \in Nat : n # 0 /\ n # 1 => n - 1 \in 1..n - 1 /\ (n - 1) + 1 = n
              OBVIOUS
            <7> QED
              BY <6>1, <7>1
          <6>3. Len(line'[k]) = Len(line[k]) - 1 /\ DOMAIN line'[k] = 1..Len(line[k]) - 1
            BY <1>5
          <6> QED
            BY <6>2, <6>3
        <5>2. line'[k][Len(line'[k])] = line[k][Len(line[k])]
          BY <5>1, <1>5
        <5> QED
          BY <3>2, <4>1, <4>2, <4>3, <4>4, <4>6, <5>2
      <4> QED
        BY <4>5, <4>6
    <3> QED
      BY <3>1, <3>2
  <2> QED
    BY <2>1, <2>2 DEF Chained
<1> QED
  BY <1>4, <1>11, <1>12 DEF LockInv

LEMMA LockStepOK == LockInv /\ [LockNext]_lockVars => LockInv'
<1> SUFFICES ASSUME LockInv, [LockNext]_lockVars PROVE LockInv'
  OBVIOUS
<1>1. ASSUME NEW c \in Calls, NEW k \in Keys, withPathLock(c, k) PROVE LockInv'
  BY <1>1, ArriveOK
<1>2. ASSUME NEW c \in Calls, Enter(c) PROVE LockInv'
  BY <1>2, EnterOK
<1>3. ASSUME NEW c \in Calls, Leave(c) PROVE LockInv'
  BY <1>3, LeaveOK
<1>4. CASE UNCHANGED lockVars
  BY <1>4 DEF lockVars, LockInv, LockTypeOK, Lined, Chained, Here
<1> QED
  BY <1>1, <1>2, <1>3, <1>4 DEF LockNext

\* The invariant of the chains of promises (lock.ts): the tail the map holds is the
\* last call of its line, and each call awaits the one that came before it.
THEOREM LockSafe == LockSpec => []LockInv
<1> QED
  BY LockInitOK, LockStepOK, PTL DEF LockSpec

\* Two sections of one key never run at the same time.
THEOREM LockExcludes == LockSpec => []MutualExclusion
<1>1. LockInv => MutualExclusion
  <2> SUFFICES ASSUME LockInv, NEW c \in Calls, NEW d \in Calls, slot[c] = "inside",
                      slot[d] = "inside", lockedKey[c] = lockedKey[d]
               PROVE  c = d
    BY DEF MutualExclusion
  <2> QED
    BY InsideIsFirst
<1> QED
  BY <1>1, LockSafe, PTL
-----------------------------------------------------------------------------
(* The chains of promises implement the mutex of PathMutex.                *)

LEMMA MutexInitOK == LockInit => Mutex!Init
  BY DEF LockInit, Mutex!Init

LEMMA MutexArrives ==
    ASSUME LockInv, NEW c \in Calls, NEW k \in Keys, withPathLock(c, k)
    PROVE  Mutex!Arrive(c, k)
<1>1. /\ slot[c] = "none" /\ slot' = [slot EXCEPT ![c] = "waiting"]
      /\ line' = [line EXCEPT ![k] = Append(@, c)]
  BY DEF withPathLock
<1>2. Mutex!Absent(c)
  BY <1>1 DEF LockInv, Lined, Here, Mutex!Absent
<1>3. {r \in Calls : slot'[r] = "inside"} = {r \in Calls : slot[r] = "inside"}
  BY <1>1 DEF LockInv, LockTypeOK
<1> QED
  BY <1>1, <1>2, <1>3 DEF Mutex!Arrive

LEMMA MutexEnters ==
    ASSUME LockInv, NEW c \in Calls, NEW k \in Keys, lockedKey[c] = k, Enter(c)
    PROVE  Mutex!Enter(c, k)
<1>1. /\ slot[c] = "waiting" /\ Resolved(previous[c]) /\ line' = line
      /\ slot' = [slot EXCEPT ![c] = "inside"]
  BY DEF Enter
<1>2. line[k] # <<>> /\ Head(line[k]) = c
  BY <1>1, EntersAsFirst DEF LockInv, LockTypeOK
<1>3. {r \in Calls : slot'[r] = "inside"} = {r \in Calls : slot[r] = "inside"} \cup {c}
  BY <1>1 DEF LockInv, LockTypeOK
<1> QED
  BY <1>1, <1>2, <1>3 DEF Mutex!Enter

LEMMA MutexLeaves ==
    ASSUME LockInv, NEW c \in Calls, NEW k \in Keys, lockedKey[c] = k, Leave(c)
    PROVE  Mutex!Leave(c, k)
<1>1. /\ slot[c] = "inside" /\ slot' = [slot EXCEPT ![c] = "released"]
      /\ line' = [line EXCEPT ![k] = Tail(@)]
  BY DEF Leave
<1>2. line[k] # <<>> /\ Head(line[k]) = c
  BY <1>1, InsideIsFirst DEF LockInv, LockTypeOK
<1>3. {r \in Calls : slot'[r] = "inside"} = {r \in Calls : slot[r] = "inside"} \ {c}
  BY <1>1 DEF LockInv, LockTypeOK
<1> QED
  BY <1>1, <1>2, <1>3 DEF Mutex!Leave

LEMMA MutexSteps == LockInv /\ [LockNext]_lockVars => [Mutex!Next]_(Mutex!vars)
<1> SUFFICES ASSUME LockInv, [LockNext]_lockVars PROVE [Mutex!Next]_(Mutex!vars)
  OBVIOUS
<1>1. ASSUME NEW c \in Calls, NEW k \in Keys, withPathLock(c, k) PROVE Mutex!Next
  BY <1>1, MutexArrives DEF Mutex!Next
<1>2. ASSUME NEW c \in Calls, Enter(c) PROVE Mutex!Next
  <2>1. PICK k \in Keys : lockedKey[c] = k
    BY <1>2, EntersAsFirst DEF Enter
  <2> QED
    BY <1>2, <2>1, MutexEnters DEF Mutex!Next
<1>3. ASSUME NEW c \in Calls, Leave(c) PROVE Mutex!Next
  <2>1. PICK k \in Keys : lockedKey[c] = k
    BY <1>3, InsideIsFirst DEF Leave
  <2> QED
    BY <1>3, <2>1, MutexLeaves DEF Mutex!Next
<1>4. CASE UNCHANGED lockVars
  BY <1>4 DEF lockVars, Mutex!vars
<1> QED
  BY <1>1, <1>2, <1>3, <1>4 DEF LockNext

\* The lock alone: first come, first served, for any number of calls and keys.
THEOREM LockImplementsMutex == LockSpec => ImplementsMutex
<1> QED
  BY MutexInitOK, MutexSteps, LockSafe, PTL DEF LockSpec, ImplementsMutex, Mutex!Spec

-----------------------------------------------------------------------------
(* The file service uses the lock as its clients must: every step of it is *)
(* one of the lock or leaves the lock alone.                               *)

LEMMA FinishLocks ==
    ASSUME NEW r \in Calls, Finish(r)
    PROVE  LockNext
  BY DEF Finish, LockNext

LEMMA FileStepsLock ==
    ASSUME NEW r \in Calls, FileSteps(r)
    PROVE  [LockNext]_lockVars
<1>1. CASE Acquire(r)
  BY <1>1 DEF Acquire, LockNext
<1>2. CASE Read(r)
  BY <1>2, FinishLocks DEF Read
<1>3. CASE WriteTmp(r)
  BY <1>3, FinishLocks DEF WriteTmp
<1>4. CASE Rename(r)
  BY <1>4, FinishLocks DEF Rename
<1>5. CASE Reindex(r)
  BY <1>5 DEF Reindex
<1>6. CASE Stat(r)
  BY <1>6, FinishLocks DEF Stat
<1>7. CASE Probe(r)
  BY <1>7, FinishLocks DEF Probe
<1>8. CASE DropFirst(r)
  BY <1>8 DEF DropFirst
<1>9. CASE Unlink(r)
  BY <1>9, FinishLocks DEF Unlink
<1> QED
  BY <1>1, <1>2, <1>3, <1>4, <1>5, <1>6, <1>7, <1>8, <1>9 DEF FileSteps, DropThenUnlink

LEMMA FolderStepsNoLock ==
    ASSUME NEW r \in Calls, FolderSteps(r)
    PROVE  UNCHANGED lockVars
  BY DEF FolderSteps, Lstat, Mkdir, Readdir, Rmdir, Collect, RemoveTree, DropTree, TreeDropped

LEMMA FilesLockSteps == [Next]_vars => [LockNext]_lockVars
<1> SUFFICES ASSUME [Next]_vars PROVE [LockNext]_lockVars
  OBVIOUS
<1>1. ASSUME NEW r \in Calls, NEW o \in Ops, NEW f \in Files, NEW m \in Mounts,
             Begin(r, o, f, m)
      PROVE  [LockNext]_lockVars
  <2>1. <<m, f>> \in Keys
    BY FilesAssumption
  <2>2. withPathLock(r, <<m, f>>) \/ UNCHANGED lockVars
    BY <1>1 DEF Begin
  <2> QED
    BY <2>1, <2>2 DEF LockNext
<1>2. ASSUME NEW r \in Calls, FileSteps(r) PROVE [LockNext]_lockVars
  BY <1>2, FileStepsLock
<1>3. ASSUME NEW r \in Calls, FolderSteps(r) PROVE [LockNext]_lockVars
  BY <1>3, FolderStepsNoLock
<1>4. ASSUME NEW f \in Files, SyncWrites(f) \/ SyncRemoves(f) \/ WatcherFires(f)
      PROVE  [LockNext]_lockVars
  BY <1>4 DEF SyncWrites, SyncRemoves, WatcherFires
<1>5. CASE UNCHANGED vars
  BY <1>5 DEF vars
<1> QED
  BY <1>1, <1>2, <1>3, <1>4, <1>5 DEF Next

\* The requests use the lock as withPathLock allows: every step of the file and
\* folder services, of `ob sync` and of the watcher is a step of the lock or none.
THEOREM FilesUseTheLock == Spec => LockSpec
<1>1. Init => LockInit
  BY DEF Init
<1> QED
  BY <1>1, FilesLockSteps, PTL DEF Spec, LockSpec

\* The file service sees a first come, first served mutex.
THEOREM FilesImplementMutex == Spec => ImplementsMutex
<1> QED
  BY FilesUseTheLock, LockImplementsMutex, PTL
-----------------------------------------------------------------------------
(* Where a request stands, in its handler and in the lock.                 *)

Stages == {"new", "done", "queued", "lstat", "mkdir", "readdir", "rmdir", "walk", "rmtree",
           "dropTree"} \cup Working
Updates == Calls \cup {Base, Sync}
Requests == [at : Stages, op : Ops, file : Files \cup {Answered.file},
             base : SUBSET Updates, collected : SUBSET Files]

Typed ==
    /\ req \in [Calls -> Requests]
    /\ content \in [Files -> SUBSET Updates] /\ owed \in [Files -> SUBSET Updates]

Sound(r) ==
    /\ req[r].at = "new" => slot[r] = "none"
    /\ req[r].at = "queued" <=> slot[r] = "waiting"
    /\ req[r].at \in Working <=> slot[r] = "inside"
    /\ req[r].at \in Working \cup {"queued"} =>
           req[r].file \in Files /\ \E m \in Mounts : lockedKey[r] = <<m, req[r].file>>

StandInv == Typed /\ \A r \in Calls : Sound(r)

LEMMA Blank ==
    /\ Answered \in Requests /\ Answered.at = "done"
    /\ \A s \in Stages : /\ [Answered EXCEPT !.at = s] \in Requests
                         /\ [Answered EXCEPT !.at = s].at = s
  BY DEF Answered, Requests, Stages, Ops, FolderOps, Working, Updates

LEMMA GotoMoves ==
    ASSUME Typed, NEW r \in Calls, NEW here \in Stages, Goto(r, here)
    PROVE  /\ req' \in [Calls -> Requests]
           /\ req'[r].at = here /\ req'[r].file = req[r].file /\ req'[r].op = req[r].op
           /\ req'[r].base = req[r].base
           /\ \A s \in Calls \ {r} : req'[s] = req[s]
<1>1. req' = [req EXCEPT ![r] = [req[r] EXCEPT !.at = here]]
  BY DEF Goto, Typed, Requests
<1>2. req[r] \in Requests
  BY DEF Typed
<1>3. [req[r] EXCEPT !.at = here] \in Requests
  BY <1>2 DEF Requests
<1> QED
  BY <1>1, <1>2, <1>3 DEF Typed, Requests

LEMMA DoneMoves ==
    ASSUME Typed, NEW r \in Calls, Done(r)
    PROVE  /\ req' \in [Calls -> Requests] /\ req'[r].at = "done"
           /\ \A s \in Calls \ {r} : req'[s] = req[s]
  BY Blank DEF Done, Typed

\* A step that leaves the lock alone, within a section or out of one.
LEMMA StaysSound ==
    ASSUME Typed, \A s \in Calls : Sound(s), NEW r \in Calls, UNCHANGED lockVars,
           \A s \in Calls \ {r} : req'[s] = req[s],
           req[r].at # "queued", req'[r].at \notin {"new", "queued"},
           req'[r].at \in Working <=> req[r].at \in Working,
           req'[r].at \in Working => req'[r].file = req[r].file
    PROVE  \A s \in Calls : Sound(s)'
<1> SUFFICES ASSUME NEW s \in Calls PROVE Sound(s)'
  OBVIOUS
<1>1. slot' = slot /\ lockedKey' = lockedKey
  BY DEF lockVars
<1>2. CASE s = r
  BY <1>1, <1>2 DEF Sound
<1>3. CASE s # r
  BY <1>1, <1>3 DEF Sound
<1> QED
  BY <1>2, <1>3

\* The end of a section.
LEMMA FinishSound ==
    ASSUME LockTypeOK, Typed, \A s \in Calls : Sound(s), NEW r \in Calls, Finish(r)
    PROVE  (\A s \in Calls : Sound(s)') /\ req' \in [Calls -> Requests]
<1>1. /\ req' \in [Calls -> Requests] /\ req'[r].at = "done"
      /\ \A s \in Calls \ {r} : req'[s] = req[s]
  BY DoneMoves DEF Finish
<1>2. /\ slot'[r] = "released"
      /\ \A s \in Calls \ {r} : slot'[s] = slot[s] /\ lockedKey'[s] = lockedKey[s]
  BY DEF Finish, Leave, LockTypeOK
<1>3. ASSUME NEW s \in Calls PROVE Sound(s)'
  <2>1. CASE s = r
    BY <1>1, <1>2, <2>1 DEF Sound, Working
  <2>2. CASE s # r
    BY <1>1, <1>2, <2>2 DEF Sound
  <2> QED
    BY <2>1, <2>2
<1> QED
  BY <1>1, <1>3

LEMMA BeginSound ==
    ASSUME LockTypeOK, Typed, \A s \in Calls : Sound(s), NEW r \in Calls, NEW o \in Ops,
           NEW f \in Files, NEW m \in Mounts, Begin(r, o, f, m)
    PROVE  (\A s \in Calls : Sound(s)') /\ req' \in [Calls -> Requests]
<1>1. req[r].at = "new" /\ slot[r] = "none"
  BY DEF Begin, Sound
<1>2. CASE /\ req' = [req EXCEPT ![r] = [Answered EXCEPT !.at = "lstat", !.op = o]]
           /\ UNCHANGED lockVars
  <2>1. /\ [Answered EXCEPT !.at = "lstat", !.op = o] \in Requests
        /\ [Answered EXCEPT !.at = "lstat", !.op = o].at = "lstat"
    BY Blank DEF Answered, Requests, Stages
  <2>2. /\ req' \in [Calls -> Requests] /\ req'[r].at = "lstat"
        /\ \A s \in Calls \ {r} : req'[s] = req[s]
    BY <1>2, <2>1 DEF Typed
  <2> QED
    BY <1>1, <1>2, <2>2, StaysSound DEF Working
<1>3. CASE /\ withPathLock(r, <<m, f>>)
           /\ req' = [req EXCEPT ![r] = [Answered EXCEPT !.at = "queued", !.op = o, !.file = f]]
  <2> DEFINE new == [Answered EXCEPT !.at = "queued", !.op = o, !.file = f]
  <2>1. new \in Requests /\ new.at = "queued" /\ new.file = f
    BY Blank DEF Answered, Requests, Stages
  <2> HIDE DEF new
  <2>2. /\ req' \in [Calls -> Requests] /\ req'[r] = new
        /\ \A s \in Calls \ {r} : req'[s] = req[s]
    BY <1>3, <2>1 DEF Typed, new
  <2>3. /\ slot'[r] = "waiting" /\ lockedKey'[r] = <<m, f>>
        /\ \A s \in Calls \ {r} : slot'[s] = slot[s] /\ lockedKey'[s] = lockedKey[s]
    BY <1>3 DEF withPathLock, LockTypeOK
  <2>4. ASSUME NEW s \in Calls PROVE Sound(s)'
    <3>1. CASE s = r
      BY <2>1, <2>2, <2>3, <3>1 DEF Sound, Working
    <3>2. CASE s # r
      BY <2>2, <2>3, <3>2 DEF Sound
    <3> QED
      BY <3>1, <3>2
  <2> QED
    BY <2>2, <2>4
<1>4. CASE Done(r) /\ UNCHANGED lockVars
  <2>1. /\ req' \in [Calls -> Requests] /\ req'[r].at = "done"
        /\ \A s \in Calls \ {r} : req'[s] = req[s]
    BY <1>4, DoneMoves
  <2> QED
    BY <1>1, <1>4, <2>1, StaysSound DEF Working
<1> QED
  BY <1>2, <1>3, <1>4 DEF Begin

LEMMA AcquireSound ==
    ASSUME LockTypeOK, Typed, \A s \in Calls : Sound(s), NEW r \in Calls, Acquire(r)
    PROVE  (\A s \in Calls : Sound(s)') /\ req' \in [Calls -> Requests]
<1>1. PICK here \in {"ready", "probe", "read"} : Goto(r, here)
  BY DEF Acquire
<1>2. here \in Working /\ here \in Stages /\ here \notin {"new", "queued"}
  BY DEF Working, Stages
<1>3. /\ req' \in [Calls -> Requests] /\ req'[r].at = here /\ req'[r].file = req[r].file
      /\ \A s \in Calls \ {r} : req'[s] = req[s]
  BY <1>1, <1>2, GotoMoves
<1>4. /\ slot'[r] = "inside" /\ lockedKey' = lockedKey
      /\ \A s \in Calls \ {r} : slot'[s] = slot[s]
  BY DEF Acquire, Enter, LockTypeOK
<1>5. req[r].at = "queued"
  BY DEF Acquire
<1>6. ASSUME NEW s \in Calls PROVE Sound(s)'
  <2>1. CASE s = r
    BY <1>2, <1>3, <1>4, <1>5, <2>1 DEF Sound
  <2>2. CASE s # r
    BY <1>3, <1>4, <2>2 DEF Sound
  <2> QED
    BY <2>1, <2>2
<1> QED
  BY <1>3, <1>6

\* A step to another await of the same section, or of a folder request.
LEMMA GotoSound ==
    ASSUME Typed, \A s \in Calls : Sound(s), NEW r \in Calls, NEW here \in Stages,
           Goto(r, here), UNCHANGED lockVars, req[r].at # "queued",
           here \notin {"new", "queued"}, here \in Working <=> req[r].at \in Working
    PROVE  (\A s \in Calls : Sound(s)') /\ req' \in [Calls -> Requests]
<1>1. /\ req' \in [Calls -> Requests] /\ req'[r].at = here /\ req'[r].file = req[r].file
      /\ \A s \in Calls \ {r} : req'[s] = req[s]
  BY GotoMoves
<1> QED
  BY <1>1, StaysSound

LEMMA DoneSound ==
    ASSUME Typed, \A s \in Calls : Sound(s), NEW r \in Calls, Done(r), UNCHANGED lockVars,
           req[r].at # "queued", req[r].at \notin Working
    PROVE  (\A s \in Calls : Sound(s)') /\ req' \in [Calls -> Requests]
<1>1. /\ req' \in [Calls -> Requests] /\ req'[r].at = "done"
      /\ \A s \in Calls \ {r} : req'[s] = req[s]
  BY DoneMoves
<1> QED
  BY <1>1, StaysSound DEF Working

\* The four ways in which a step treats the files.
LEMMA DiskSteps ==
    ASSUME StandInv, [Next]_vars
    PROVE  \/ UNCHANGED <<content, owed>>
           \/ \E S \in SUBSET Files : Removed(S)
           \/ \E r \in Calls : Rename(r)
           \/ \E f \in Files : SyncWrites(f)
<1> DEFINE OK == \/ UNCHANGED <<content, owed>>
                 \/ \E S \in SUBSET Files : Removed(S)
                 \/ \E r \in Calls : Rename(r)
                 \/ \E f \in Files : SyncWrites(f)
<1>1. ASSUME NEW f \in Files, SyncRemoves(f) PROVE OK
  BY <1>1 DEF SyncRemoves
<1>2. ASSUME NEW f \in Files, WatcherFires(f) PROVE OK
  BY <1>2 DEF WatcherFires, diskVars
<1>3. ASSUME NEW r \in Calls, NEW o \in Ops, NEW f \in Files, NEW m \in Mounts,
             Begin(r, o, f, m)
      PROVE  OK
  BY <1>3 DEF Begin, diskVars, history
<1>4. ASSUME NEW r \in Calls, FileSteps(r) PROVE OK
  <2>1. CASE Unlink(r)
    <3>1. req[r].file \in Files
      BY <2>1 DEF Unlink, StandInv, Sound, Working
    <3> QED
      BY <2>1, <3>1 DEF Unlink
  <2>2. CASE Acquire(r) \/ Read(r) \/ Stat(r) \/ Probe(r)
    BY <2>2 DEF Acquire, Read, Stat, Probe, diskVars, history
  <2>3. CASE WriteTmp(r) \/ Reindex(r) \/ DropFirst(r)
    BY <2>3 DEF WriteTmp, Reindex, DropFirst, diskVars, history
  <2> QED
    BY <1>4, <2>1, <2>2, <2>3 DEF FileSteps, DropThenUnlink
<1>5. ASSUME NEW r \in Calls, FolderSteps(r) PROVE OK
  <2>1. CASE RemoveTree(r)
    <3>1. ASSUME NEW S \in SUBSET Present, Removed(S) PROVE OK
      BY <3>1 DEF Present
    <3>2. CASE Removed(Files)
      BY <3>2
    <3> QED
      BY <2>1, <3>1, <3>2 DEF RemoveTree, diskVars
  <2>2. CASE Lstat(r) \/ Mkdir(r) \/ Readdir(r) \/ Rmdir(r) \/ Collect(r) \/ DropTree(r)
             \/ TreeDropped(r)
    BY <2>2 DEF Lstat, Mkdir, Readdir, Rmdir, Collect, DropTree, TreeDropped, diskVars, history
  <2> QED
    BY <1>5, <2>1, <2>2 DEF FolderSteps
<1>6. CASE UNCHANGED vars
  BY <1>6 DEF vars, diskVars, history
<1> QED
  BY <1>1, <1>2, <1>3, <1>4, <1>5, <1>6 DEF Next

\* What is written of a file, whoever writes it, is made of updates.
LEMMA ContentTyped ==
    ASSUME StandInv, [Next]_vars
    PROVE  content' \in [Files -> SUBSET Updates] /\ owed' \in [Files -> SUBSET Updates]
<1>0. Typed
  BY DEF StandInv
<1>1. CASE UNCHANGED <<content, owed>>
  BY <1>0, <1>1 DEF Typed
<1>2. ASSUME NEW S \in SUBSET Files, Removed(S)
      PROVE  content' \in [Files -> SUBSET Updates] /\ owed' \in [Files -> SUBSET Updates]
  BY <1>0, <1>2 DEF Removed, Typed
<1>3. ASSUME NEW r \in Calls, Rename(r)
      PROVE  content' \in [Files -> SUBSET Updates] /\ owed' \in [Files -> SUBSET Updates]
  <2>1. \A old \in SUBSET Updates : Written(r, old) \in SUBSET Updates
    BY DEF Written, Updates
  <2>2. req[r].base \in SUBSET Updates
    BY <1>0 DEF Typed, Requests
  <2>3. Written(r, req[r].base) \in SUBSET Updates
    BY <2>1, <2>2
  <2>4. \A f \in Files : Written(r, owed[f]) \in SUBSET Updates
    BY <1>0, <2>1 DEF Typed
  <2> QED
    BY <1>0, <1>3, <2>3, <2>4 DEF Rename, Typed
<1>4. ASSUME NEW f \in Files, SyncWrites(f)
      PROVE  content' \in [Files -> SUBSET Updates] /\ owed' \in [Files -> SUBSET Updates]
  BY <1>0, <1>4 DEF SyncWrites, Typed, Updates
<1> QED
  BY <1>1, <1>2, <1>3, <1>4, DiskSteps

LEMMA FileStepsSound ==
    ASSUME LockTypeOK, StandInv, NEW r \in Calls, FileSteps(r)
    PROVE  (\A s \in Calls : Sound(s)') /\ req' \in [Calls -> Requests]
<1> DEFINE OK == (\A s \in Calls : Sound(s)') /\ req' \in [Calls -> Requests]
<1>0. Typed /\ \A s \in Calls : Sound(s)
  BY DEF StandInv
<1>1. CASE Acquire(r)
  BY <1>0, <1>1, AcquireSound
<1>2. CASE Finish(r)
  BY <1>0, <1>2, FinishSound
<1>3. ASSUME NEW here \in Stages, Goto(r, here), UNCHANGED lockVars, here \in Working,
             req[r].at \in Working
      PROVE  OK
  BY <1>0, <1>3, GotoSound DEF Working
<1>4. /\ Working \subseteq Stages
      /\ {"ready", "renaming", "written", "stat", "dropping", "unlinking"} \subseteq Working
  BY DEF Working, Stages
<1>5. CASE Read(r)
  <2>1. CASE /\ UNCHANGED lockVars
             /\ req' = [req EXCEPT ![r].at = "ready", ![r].base = content[req[r].file]]
    <3>1. req[r].at = "read" /\ req[r].at \in Working
      BY <1>5 DEF Read, Working
    <3>2. content[req[r].file] \in SUBSET Updates
      BY <1>0, <3>1 DEF Sound, Typed
    <3>3. /\ req' \in [Calls -> Requests] /\ req'[r].at = "ready"
          /\ req'[r].file = req[r].file /\ \A s \in Calls \ {r} : req'[s] = req[s]
      BY <1>0, <1>4, <2>1, <3>2 DEF Typed, Requests
    <3> QED
      BY <1>0, <1>4, <2>1, <3>1, <3>3, StaysSound
  <2> QED
    BY <1>2, <1>5, <2>1 DEF Read
<1>6. CASE WriteTmp(r)
  BY <1>2, <1>3, <1>4, <1>6 DEF WriteTmp
<1>7. CASE Rename(r)
  <2>1. (IF req[r].file \in Markdown THEN "written" ELSE "stat") \in {"written", "stat"}
    OBVIOUS
  <2> QED
    BY <1>2, <1>3, <1>4, <1>7, <2>1 DEF Rename
<1>8. CASE Reindex(r)
  BY <1>3, <1>4, <1>8 DEF Reindex
<1>9. CASE Stat(r)
  BY <1>2, <1>9 DEF Stat
<1>10. CASE Probe(r)
  <2>1. req[r].at \in Working
    BY <1>10 DEF Probe, Working
  <2>2. (IF req[r].file \in Markdown THEN "dropping" ELSE "unlinking")
           \in {"dropping", "unlinking"}
    OBVIOUS
  <2> QED
    BY <1>2, <1>3, <1>4, <1>10, <2>1, <2>2 DEF Probe
<1>11. CASE DropFirst(r)
  BY <1>3, <1>4, <1>11 DEF DropFirst
<1>12. CASE Unlink(r)
  BY <1>2, <1>12 DEF Unlink
<1> QED
  BY <1>1, <1>5, <1>6, <1>7, <1>8, <1>9, <1>10, <1>11, <1>12 DEF FileSteps, DropThenUnlink

LEMMA FolderStepsSound ==
    ASSUME LockTypeOK, StandInv, NEW r \in Calls, FolderSteps(r)
    PROVE  (\A s \in Calls : Sound(s)') /\ req' \in [Calls -> Requests]
<1> DEFINE OK == (\A s \in Calls : Sound(s)') /\ req' \in [Calls -> Requests]
           Outside == {"lstat", "mkdir", "readdir", "rmdir", "walk", "rmtree", "dropTree"}
<1>0. Typed /\ \A s \in Calls : Sound(s)
  BY DEF StandInv
<1>1. /\ Outside \subseteq Stages
      /\ \A at \in Outside : at \notin Working /\ at \notin {"new", "queued"}
  BY DEF Stages, Working
<1>2. req[r].at \in Outside /\ UNCHANGED lockVars
  BY FolderStepsNoLock DEF FolderSteps, Lstat, Mkdir, Readdir, Rmdir, Collect, RemoveTree,
                           DropTree, TreeDropped
<1>3. ASSUME NEW here \in Outside, Goto(r, here) PROVE OK
  BY <1>0, <1>1, <1>2, <1>3, GotoSound
<1>4. CASE Done(r)
  BY <1>0, <1>1, <1>2, <1>4, DoneSound
<1>5. ASSUME NEW x \in Requests, req' = [req EXCEPT ![r] = x], x.at \in Outside PROVE OK
  <2>1. /\ req' \in [Calls -> Requests] /\ req'[r] = x
        /\ \A s \in Calls \ {r} : req'[s] = req[s]
    BY <1>0, <1>5 DEF Typed
  <2> QED
    BY <1>0, <1>1, <1>2, <1>5, <2>1, StaysSound
<1>6. CASE Collect(r)
  <2> DEFINE x == [req[r] EXCEPT !.at = "rmtree", !.collected = Present \cap Markdown]
  <2>1. x \in Requests /\ x.at = "rmtree"
    BY <1>0, <1>1 DEF Typed, Requests, Present
  <2>2. req' = [req EXCEPT ![r] = x]
    BY <1>0, <1>6 DEF Collect, Typed, Requests
  <2> QED
    BY <1>5, <2>1, <2>2
<1>7. CASE DropTree(r)
  <2>1. PICK f \in req[r].collected : req' = [req EXCEPT ![r].collected = @ \ {f}]
    BY <1>7 DEF DropTree
  <2> DEFINE x == [req[r] EXCEPT !.collected = @ \ {f}]
  <2>2. x \in Requests /\ x.at = req[r].at
    BY <1>0 DEF Typed, Requests
  <2>3. req' = [req EXCEPT ![r] = x]
    BY <1>0, <2>1 DEF Typed, Requests
  <2> QED
    BY <1>2, <1>5, <2>2, <2>3
<1> QED
  BY <1>3, <1>4, <1>6, <1>7 DEF FolderSteps, Lstat, Mkdir, Readdir, Rmdir, RemoveTree, TreeDropped

LEMMA StandInitOK == Init => StandInv
<1> SUFFICES ASSUME Init PROVE StandInv
  OBVIOUS
<1>1. Typed
  <2>1. [Answered EXCEPT !.at = "new"] \in Requests
    BY Blank DEF Stages
  <2> QED
    BY <2>1 DEF Init, Typed, Updates
<1>2. \A r \in Calls : req[r].at = "new" /\ slot[r] = "none"
  BY Blank DEF Init, LockInit, Stages
<1>3. \A r \in Calls : Sound(r)
  BY <1>2 DEF Sound, Working
<1> QED
  BY <1>1, <1>3 DEF StandInv

LEMMA StandStepOK == LockTypeOK /\ StandInv /\ [Next]_vars => StandInv'
<1> SUFFICES ASSUME LockTypeOK, StandInv, [Next]_vars PROVE StandInv'
  OBVIOUS
<1> DEFINE OK == (\A s \in Calls : Sound(s)') /\ req' \in [Calls -> Requests]
<1>0. Typed /\ \A s \in Calls : Sound(s)
  BY DEF StandInv
<1>1. ASSUME NEW r \in Calls, NEW o \in Ops, NEW f \in Files, NEW m \in Mounts,
             Begin(r, o, f, m)
      PROVE  OK
  BY <1>0, <1>1, BeginSound
<1>2. ASSUME NEW r \in Calls, FileSteps(r) \/ FolderSteps(r) PROVE OK
  BY <1>2, FileStepsSound, FolderStepsSound
<1>3. ASSUME UNCHANGED <<lockVars, req>> PROVE OK
  BY <1>0, <1>3 DEF lockVars, Sound, Typed
<1>4. ASSUME NEW f \in Files, SyncWrites(f) \/ SyncRemoves(f) \/ WatcherFires(f) PROVE OK
  BY <1>3, <1>4 DEF SyncWrites, SyncRemoves, WatcherFires
<1>5. ASSUME UNCHANGED vars PROVE OK
  BY <1>3, <1>5 DEF vars
<1>6. OK
  BY <1>1, <1>2, <1>4, <1>5 DEF Next
<1>7. Typed'
  BY <1>0, <1>6, ContentTyped DEF Typed
<1> QED
  BY <1>6, <1>7 DEF StandInv

\* A request is on the queue of its own file exactly while it waits, and inside its
\* section exactly while it works on the file, at every await of every request.
THEOREM Stand == Spec => [](LockInv /\ StandInv)
<1>1. LockInv => LockTypeOK
  BY DEF LockInv
<1> QED
  BY <1>1, FilesUseTheLock, LockSafe, StandInitOK, StandStepOK, PTL DEF Spec

\* However a section ends, its lock is released then and not before.
THEOREM SectionsEndTheirLock == Spec => []HeldWhileWorking
<1>1. StandInv => HeldWhileWorking
  BY DEF StandInv, Sound, HeldWhileWorking
<1> QED
  BY <1>1, Stand, PTL

-----------------------------------------------------------------------------
(* Updates.                                                                *)

\* What PATCH and append have read stays up to date until they write it back.
FreshBases ==
    \A r \in Calls :
        req[r].at \in {"ready", "renaming"} /\ req[r].op # "put" =>
            owed[req[r].file] \subseteq req[r].base

OneMount == \A m, n \in Mounts : m = n

LEMMA OneSectionPerFile ==
    ASSUME OneMount, LockInv, StandInv, NEW r \in Calls, NEW s \in Calls,
           req[r].at \in Working, req[s].at \in Working, req[r].file = req[s].file
    PROVE  r = s
<1>1. slot[r] = "inside" /\ slot[s] = "inside"
  BY DEF StandInv, Sound
<1>2. lockedKey[r] = lockedKey[s]
  BY DEF StandInv, Sound, OneMount
<1> QED
  BY <1>1, <1>2, InsideIsFirst

\* A step that takes updates away from files, or leaves them as they are.
LEMMA LessOwed ==
    ASSUME StandInv, FreshBases, NEW r \in Calls, \A s \in Calls \ {r} : req'[s] = req[s],
           req'[r].at \in {"ready", "renaming"} /\ req'[r].op # "put" =>
               /\ req[r].at \in {"ready", "renaming"} /\ req'[r].file = req[r].file
               /\ req'[r].op = req[r].op /\ req'[r].base = req[r].base,
           \A f \in Files : owed'[f] \subseteq owed[f]
    PROVE  FreshBases'
<1> SUFFICES ASSUME NEW s \in Calls, req'[s].at \in {"ready", "renaming"}, req'[s].op # "put"
             PROVE  owed'[req'[s].file] \subseteq req'[s].base
  BY DEF FreshBases
<1>1. /\ req[s].at \in {"ready", "renaming"} /\ req'[s].file = req[s].file
      /\ req'[s].op = req[s].op /\ req'[s].base = req[s].base
  OBVIOUS
<1>2. req[s].file \in Files
  BY <1>1 DEF StandInv, Sound, Working
<1> QED
  BY <1>1, <1>2 DEF FreshBases

LEMMA RenameFresh ==
    ASSUME OneMount, LockInv, StandInv, NoLostUpdate, FreshBases, NEW r \in Calls, Rename(r)
    PROVE  NoLostUpdate' /\ FreshBases'
<1>1. req[r].at = "renaming" /\ req[r].at \in Working /\ Typed
  BY DEF Rename, Working, StandInv
<1> DEFINE f == req[r].file
<1>2. f \in Files
  BY <1>1 DEF StandInv, Sound
<1>3. CASE Finish(r) /\ UNCHANGED <<content, owed>>
  <2>1. req'[r].at = "done" /\ \A s \in Calls \ {r} : req'[s] = req[s]
    BY <1>1, <1>3, DoneMoves DEF Finish
  <2> QED
    BY <1>3, <2>1, LessOwed DEF NoLostUpdate
<1>4. CASE /\ content' = [content EXCEPT ![f] = Written(r, req[r].base)]
           /\ owed' = [owed EXCEPT ![f] = Written(r, @)]
           /\ Goto(r, IF f \in Markdown THEN "written" ELSE "stat")
  <2>1. /\ content'[f] = Written(r, req[r].base) /\ owed'[f] = Written(r, owed[f])
        /\ \A g \in Files \ {f} : content'[g] = content[g] /\ owed'[g] = owed[g]
    BY <1>1, <1>2, <1>4 DEF Typed
  <2>2. req'[r].at \in {"written", "stat"} /\ \A s \in Calls \ {r} : req'[s] = req[s]
    <3>1. (IF f \in Markdown THEN "written" ELSE "stat") \in {"written", "stat"}
      OBVIOUS
    <3>2. {"written", "stat"} \subseteq Stages
      BY DEF Stages, Working
    <3> QED
      BY <1>1, <1>4, <3>1, <3>2, GotoMoves
  <2>3. Written(r, owed[f]) \subseteq Written(r, req[r].base)
    BY <1>1 DEF Written, FreshBases
  <2>4. NoLostUpdate'
    BY <2>1, <2>3 DEF NoLostUpdate
  <2>5. FreshBases'
    <3> SUFFICES ASSUME NEW s \in Calls, req'[s].at \in {"ready", "renaming"},
                        req'[s].op # "put"
                 PROVE  owed'[req'[s].file] \subseteq req'[s].base
      BY DEF FreshBases
    <3>1. s # r /\ req'[s] = req[s] /\ req[s].at \in Working
      BY <2>2 DEF Working
    <3>2. req[s].file \in Files /\ req[s].file # f
      BY <1>1, <3>1, OneSectionPerFile DEF StandInv, Sound
    <3> QED
      BY <2>1, <3>1, <3>2 DEF FreshBases
  <2> QED
    BY <2>4, <2>5
<1> QED
  BY <1>3, <1>4 DEF Rename

LEMMA ReadFresh ==
    ASSUME StandInv, NoLostUpdate, FreshBases, NEW r \in Calls, Read(r)
    PROVE  FreshBases'
<1>1. req[r].at = "read" /\ req[r].file \in Files /\ Typed /\ owed' = owed
  BY DEF Read, StandInv, Sound, Working, history
<1>2. CASE Finish(r)
  <2>1. req'[r].at = "done" /\ \A s \in Calls \ {r} : req'[s] = req[s]
    BY <1>1, <1>2, DoneMoves DEF Finish
  <2> QED
    BY <1>1, <2>1, LessOwed
<1>3. CASE req' = [req EXCEPT ![r].at = "ready", ![r].base = content[req[r].file]]
  <2>1. /\ req'[r].file = req[r].file /\ req'[r].base = content[req[r].file]
        /\ \A s \in Calls \ {r} : req'[s] = req[s]
    BY <1>1, <1>3 DEF Typed, Requests
  <2> SUFFICES ASSUME NEW s \in Calls, req'[s].at \in {"ready", "renaming"},
                      req'[s].op # "put"
               PROVE  owed'[req'[s].file] \subseteq req'[s].base
    BY DEF FreshBases
  <2>2. CASE s = r
    BY <1>1, <2>1, <2>2 DEF NoLostUpdate
  <2>3. CASE s # r
    BY <1>1, <2>1, <2>3 DEF FreshBases
  <2> QED
    BY <2>2, <2>3
<1> QED
  BY <1>2, <1>3 DEF Read

\* Of all steps only a rename adds to what is owed.
LEMMA OnlyRenameOwes ==
    ASSUME StandInv, NoLostUpdate, [Next]_vars, \A r \in Calls : ~Rename(r)
    PROVE  NoLostUpdate' /\ \A f \in Files : owed'[f] \subseteq owed[f]
<1>0. Typed
  BY DEF StandInv
<1>1. CASE UNCHANGED <<content, owed>>
  BY <1>1 DEF NoLostUpdate
<1>2. CASE \E S \in SUBSET Files : Removed(S)
  BY <1>0, <1>2 DEF NoLostUpdate, Removed, Typed
<1>3. CASE \E f \in Files : SyncWrites(f)
  BY <1>0, <1>3 DEF NoLostUpdate, SyncWrites, Typed
<1> QED
  BY <1>1, <1>2, <1>3, DiskSteps

\* Nor does any but a read make a base of what was none.
LEMMA OnlyReadMakesABase ==
    ASSUME StandInv, NEW r \in Calls, FileSteps(r) \/ FolderSteps(r), ~Read(r), ~Rename(r)
    PROVE  /\ \A s \in Calls \ {r} : req'[s] = req[s]
           /\ req'[r].at \in {"ready", "renaming"} /\ req'[r].op # "put" =>
                  /\ req[r].at \in {"ready", "renaming"} /\ req'[r].file = req[r].file
                  /\ req'[r].op = req[r].op /\ req'[r].base = req[r].base
<1> DEFINE OK ==
           /\ \A s \in Calls \ {r} : req'[s] = req[s]
           /\ req'[r].at \in {"ready", "renaming"} /\ req'[r].op # "put" =>
                  /\ req[r].at \in {"ready", "renaming"} /\ req'[r].file = req[r].file
                  /\ req'[r].op = req[r].op /\ req'[r].base = req[r].base
<1>0. Typed
  BY DEF StandInv
<1>1. CASE Done(r)
  BY <1>0, <1>1, DoneMoves
<1>2. ASSUME NEW here \in Stages \ {"ready", "renaming"}, Goto(r, here) PROVE OK
  BY <1>0, <1>2, GotoMoves
<1>3. {"written", "stat", "probe", "read", "dropping", "unlinking", "mkdir", "readdir", "rmdir",
       "walk", "dropTree"} \subseteq Stages \ {"ready", "renaming"}
  BY DEF Stages, Working
<1>4. CASE Acquire(r)
  <2>1. CASE req[r].op = "put"
    <3>1. Goto(r, "ready") /\ "ready" \in Stages
      BY <1>4, <2>1 DEF Acquire, Stages, Working
    <3> QED
      BY <1>0, <2>1, <3>1, GotoMoves
  <2>2. CASE req[r].op # "put"
    <3>1. PICK here \in {"probe", "read"} : Goto(r, here)
      BY <1>4, <2>2 DEF Acquire
    <3> QED
      BY <1>2, <1>3, <3>1
  <2> QED
    BY <2>1, <2>2
<1>5. CASE WriteTmp(r)
  <2>1. CASE Goto(r, "renaming")
    <3>1. req[r].at = "ready" /\ "renaming" \in Stages
      BY <1>5 DEF WriteTmp, Stages, Working
    <3> QED
      BY <1>0, <2>1, <3>1, GotoMoves
  <2> QED
    BY <1>1, <1>5, <2>1 DEF WriteTmp, Finish
<1>6. CASE Reindex(r)
  BY <1>2, <1>3, <1>6 DEF Reindex
<1>7. CASE Stat(r)
  BY <1>1, <1>7 DEF Stat, Finish
<1>8. CASE Probe(r)
  <2>1. (IF req[r].file \in Markdown THEN "dropping" ELSE "unlinking")
           \in {"dropping", "unlinking"}
    OBVIOUS
  <2> QED
    BY <1>1, <1>2, <1>3, <1>8, <2>1 DEF Probe, Finish
<1>9. CASE DropThenUnlink(r)
  BY <1>1, <1>2, <1>3, <1>9 DEF DropThenUnlink, DropFirst, Unlink, Finish
<1>10. CASE Lstat(r) \/ Mkdir(r) \/ Readdir(r) \/ Rmdir(r) \/ RemoveTree(r) \/ TreeDropped(r)
  BY <1>1, <1>2, <1>3, <1>10 DEF Lstat, Mkdir, Readdir, Rmdir, RemoveTree, TreeDropped
<1>11. CASE Collect(r) \/ DropTree(r)
  <2>1. /\ \A s \in Calls \ {r} : req'[s] = req[s]
        /\ req'[r].at \in {"rmtree", "dropTree"}
    BY <1>0, <1>11 DEF Collect, DropTree, Typed, Requests
  <2> QED
    BY <2>1
<1> QED
  BY <1>4, <1>5, <1>6, <1>7, <1>8, <1>9, <1>10, <1>11 DEF FileSteps, FolderSteps

LEMMA UpdatesStepOK ==
    ASSUME OneMount, LockInv, StandInv, NoLostUpdate, FreshBases, [Next]_vars
    PROVE  NoLostUpdate' /\ FreshBases'
<1>1. CASE \E r \in Calls : Rename(r)
  BY <1>1, RenameFresh
<1>2. CASE \A r \in Calls : ~Rename(r)
  <2>1. NoLostUpdate' /\ \A f \in Files : owed'[f] \subseteq owed[f]
    BY <1>2, OnlyRenameOwes
  <2>2. ASSUME NEW r \in Calls, FileSteps(r) \/ FolderSteps(r) PROVE FreshBases'
    <3>1. CASE Read(r)
      BY <3>1, ReadFresh
    <3>2. CASE ~Read(r)
      BY <1>2, <2>1, <2>2, <3>2, OnlyReadMakesABase, LessOwed
    <3> QED
      BY <3>1, <3>2
  <2>3. ASSUME NEW r \in Calls, NEW o \in Ops, NEW f \in Files, NEW m \in Mounts,
               Begin(r, o, f, m)
        PROVE  FreshBases'
    <3>1. /\ \A s \in Calls \ {r} : req'[s] = req[s]
          /\ req'[r].at \in {"lstat", "queued", "done"}
      <4> DEFINE came == [Answered EXCEPT !.at = "lstat", !.op = o]
                 queued == [Answered EXCEPT !.at = "queued", !.op = o, !.file = f]
      <4>1. came.at = "lstat" /\ queued.at = "queued" /\ Answered.at = "done"
        BY DEF Answered
      <4>2. \/ req' = [req EXCEPT ![r] = came]
            \/ req' = [req EXCEPT ![r] = queued]
            \/ req' = [req EXCEPT ![r] = Answered]
        BY <2>3, Zenon DEF Begin, Done
      <4>3. req \in [Calls -> Requests]
        BY DEF StandInv, Typed
      <4> HIDE DEF came, queued
      <4>4. CASE req' = [req EXCEPT ![r] = came]
        BY <4>1, <4>3, <4>4
      <4>5. CASE req' = [req EXCEPT ![r] = queued]
        BY <4>1, <4>3, <4>5
      <4>6. CASE req' = [req EXCEPT ![r] = Answered]
        BY <4>1, <4>3, <4>6
      <4> QED
        BY <4>2, <4>4, <4>5, <4>6
    <3> QED
      BY <2>1, <3>1, LessOwed
  <2>4. ASSUME req' = req PROVE FreshBases'
    <3> SUFFICES ASSUME NEW r \in Calls, req[r].at \in {"ready", "renaming"},
                        req[r].op # "put"
                 PROVE  owed'[req[r].file] \subseteq req[r].base
      BY <2>4 DEF FreshBases
    <3>1. req[r].file \in Files
      BY DEF StandInv, Sound, Working
    <3> QED
      BY <2>1, <3>1 DEF FreshBases
  <2>5. ASSUME NEW f \in Files, SyncWrites(f) \/ SyncRemoves(f) \/ WatcherFires(f)
        PROVE  FreshBases'
    BY <2>4, <2>5 DEF SyncWrites, SyncRemoves, WatcherFires
  <2>6. CASE UNCHANGED vars
    BY <2>1, <2>4, <2>6 DEF vars
  <2> QED
    BY <2>1, <2>2, <2>3, <2>5, <2>6 DEF Next
<1> QED
  BY <1>1, <1>2

\* Where a file has one name, no acknowledged update is lost.
THEOREM NoUpdateIsLost ==
    ASSUME OneMount
    PROVE  Spec => []NoLostUpdate
<1>1. Init => NoLostUpdate /\ FreshBases
  <2> SUFFICES ASSUME Init PROVE NoLostUpdate /\ FreshBases
    OBVIOUS
  <2>1. \A r \in Calls : req[r].at = "new"
    BY Blank DEF Init, Stages
  <2> QED
    BY <2>1 DEF Init, NoLostUpdate, FreshBases
<1>2. LockInv /\ StandInv /\ NoLostUpdate /\ FreshBases /\ [Next]_vars
         => NoLostUpdate' /\ FreshBases'
  BY UpdatesStepOK
<1> QED
  BY <1>1, <1>2, Stand, PTL DEF Spec

-----------------------------------------------------------------------------
(* The index follows the files.                                            *)

IndexTyped ==
    /\ rows \in [Files -> SUBSET Updates]
    /\ event \in [Files -> {"none", "upsert", "remove"}]
    /\ missed \in [Files -> BOOLEAN] /\ late \in [Files -> BOOLEAN]

Unlinking(f) == \E r \in Calls : req[r].at = "unlinking" /\ req[r].file = f

\* An event that waits tells what became of the file; without one the rows are
\* right, or known to be wrong, or dropped by a request about to unlink the file.
Followed(f) ==
    /\ event[f] = "upsert" => content[f] # {}
    /\ event[f] = "remove" => content[f] = {}
    /\ event[f] = "none" /\ content[f] = {} => rows[f] = {} \/ missed[f]
    /\ event[f] = "none" /\ content[f] # {} =>
           rows[f] = content[f] \/ missed[f] \/ late[f] \/ Unlinking(f)

IndexInv == IndexTyped /\ \A f \in Markdown : Followed(f)

\* The rows and what is known of them stay, and so does the file.
LEMMA NothingToFollow ==
    ASSUME IndexInv, UNCHANGED <<content, rows, event, missed, late>>,
           \A f \in Markdown : Unlinking(f) => Unlinking(f)'
    PROVE  IndexInv'
  BY DEF IndexInv, IndexTyped, Followed

LEMMA UnlinkingStays ==
    ASSUME NEW r \in Calls, req[r].at # "unlinking", \A s \in Calls \ {r} : req'[s] = req[s],
           NEW f
    PROVE  Unlinking(f) => Unlinking(f)'
  BY DEF Unlinking

LEMMA RemovedFollowed ==
    ASSUME StandInv, IndexInv, NEW S \in SUBSET Files, Removed(S), UNCHANGED <<rows, missed, late>>,
           \A f \in Markdown \ S : Unlinking(f) => Unlinking(f)'
    PROVE  IndexInv'
<1>1. /\ \A f \in Files : content'[f] = IF f \in S THEN {} ELSE content[f]
      /\ \A f \in Files : event'[f] = IF f \in S \cap Markdown /\ content[f] # {}
                                      THEN "remove" ELSE event[f]
      /\ event' \in [Files -> {"none", "upsert", "remove"}]
  BY DEF Removed, IndexInv, IndexTyped
<1>2. ASSUME NEW f \in Markdown PROVE Followed(f)'
  <2>1. f \in Files /\ Followed(f)
    BY FilesAssumption DEF IndexInv
  <2>2. CASE f \in S
    BY <1>1, <2>1, <2>2 DEF Followed
  <2>3. CASE f \notin S
    BY <1>1, <2>1, <2>3 DEF Followed
  <2> QED
    BY <2>2, <2>3
<1> QED
  BY <1>1, <1>2 DEF IndexInv, IndexTyped

\* upsert, of a request or of the watcher.
LEMMA UpsertFollowed ==
    ASSUME StandInv, IndexInv, NEW g \in Files, Upsert(g), content' = content,
           \/ event' = event
           \/ (event[g] = "upsert" /\ event' = [event EXCEPT ![g] = "none"]),
           \A f \in Markdown : Unlinking(f) => Unlinking(f)'
    PROVE  IndexInv'
<1>1. /\ IndexTyped'
      /\ \A f \in Files \ {g} : /\ rows'[f] = rows[f] /\ event'[f] = event[f]
                                /\ missed'[f] = missed[f] /\ late'[f] = late[f]
      /\ (event'[g] = event[g] \/ (event[g] = "upsert" /\ event'[g] = "none"))
      /\ \/ rows'[g] = content[g]
         \/ content[g] = {} /\ rows'[g] = rows[g] /\ missed'[g] = missed[g]
         \/ missed'[g] = TRUE
  <2>1. content[g] \in SUBSET Updates
    BY DEF StandInv, Typed
  <2>2. /\ event' \in [Files -> {"none", "upsert", "remove"}]
        /\ \A f \in Files \ {g} : event'[f] = event[f]
        /\ (event'[g] = event[g] \/ (event[g] = "upsert" /\ event'[g] = "none"))
    BY DEF IndexInv, IndexTyped
  <2>3. CASE /\ rows' = [rows EXCEPT ![g] = content[g]]
             /\ missed' = [missed EXCEPT ![g] = FALSE] /\ late' = [late EXCEPT ![g] = FALSE]
    BY <2>1, <2>2, <2>3 DEF IndexInv, IndexTyped
  <2>4. CASE content[g] = {} /\ UNCHANGED <<rows, missed, late>>
    BY <2>2, <2>4 DEF IndexInv, IndexTyped
  <2>5. CASE missed' = [missed EXCEPT ![g] = TRUE] /\ UNCHANGED <<rows, late>>
    BY <2>2, <2>5 DEF IndexInv, IndexTyped
  <2> QED
    BY <2>3, <2>4, <2>5 DEF Upsert
<1>2. ASSUME NEW f \in Markdown PROVE Followed(f)'
  <2>1. f \in Files /\ Followed(f)
    BY FilesAssumption DEF IndexInv
  <2>2. CASE f = g
    BY <1>1, <2>1, <2>2 DEF Followed
  <2>3. CASE f # g
    BY <1>1, <2>1, <2>3 DEF Followed
  <2> QED
    BY <2>2, <2>3
<1> QED
  BY <1>1, <1>2 DEF IndexInv

\* remove, of a file that is gone, or about to be, or known to be there again.
LEMMA DropFollowed ==
    ASSUME IndexInv, NEW g \in Files, Drop(g), content' = content,
           \/ event' = event
           \/ (event[g] = "remove" /\ event' = [event EXCEPT ![g] = "none"]),
           late' \in [Files -> BOOLEAN], \A f \in Files \ {g} : late'[f] = late[f],
           g \in Markdown /\ content[g] # {} => late'[g] \/ Unlinking(g)',
           \A f \in Markdown : Unlinking(f) => Unlinking(f)'
    PROVE  IndexInv'
<1>1. /\ IndexTyped'
      /\ \A f \in Files \ {g} : /\ rows'[f] = rows[f] /\ event'[f] = event[f]
                                /\ missed'[f] = missed[f] /\ late'[f] = late[f]
      /\ (event'[g] = event[g] \/ (event[g] = "remove" /\ event'[g] = "none"))
      /\ rows'[g] = {} \/ missed'[g] = TRUE
  <2>1. /\ event' \in [Files -> {"none", "upsert", "remove"}]
        /\ \A f \in Files \ {g} : event'[f] = event[f]
        /\ (event'[g] = event[g] \/ (event[g] = "remove" /\ event'[g] = "none"))
    BY DEF IndexInv, IndexTyped
  <2>2. CASE /\ rows' = [rows EXCEPT ![g] = {}]
             /\ missed' = [missed EXCEPT ![g] = FALSE]
    BY <2>1, <2>2 DEF IndexInv, IndexTyped
  <2>3. CASE missed' = [missed EXCEPT ![g] = TRUE] /\ UNCHANGED rows
    BY <2>1, <2>3 DEF IndexInv, IndexTyped
  <2> QED
    BY <2>2, <2>3 DEF Drop
<1>2. ASSUME NEW f \in Markdown PROVE Followed(f)'
  <2>1. f \in Files /\ Followed(f)
    BY FilesAssumption DEF IndexInv
  <2>2. CASE f = g
    BY <1>1, <2>1, <2>2 DEF Followed
  <2>3. CASE f # g
    BY <1>1, <2>1, <2>3 DEF Followed
  <2> QED
    BY <2>2, <2>3
<1> QED
  BY <1>1, <1>2 DEF IndexInv

LEMMA RenameFollowed ==
    ASSUME StandInv, IndexInv, NEW r \in Calls, Rename(r)
    PROVE  IndexInv'
<1>1. req[r].at = "renaming" /\ req[r].file \in Files /\ Typed
  BY DEF Rename, StandInv, Sound, Working
<1>2. CASE Finish(r) /\ UNCHANGED <<content, event>>
  <2>1. \A f \in Markdown : Unlinking(f) => Unlinking(f)'
    BY <1>1, <1>2, DoneMoves, UnlinkingStays DEF Finish
  <2> QED
    BY <1>2, <2>1, NothingToFollow DEF Rename
<1>3. CASE /\ content' = [content EXCEPT ![req[r].file] = Written(r, req[r].base)]
           /\ Seen(req[r].file, "upsert")
           /\ Goto(r, IF req[r].file \in Markdown THEN "written" ELSE "stat")
  <2>1. \A f \in Markdown : Unlinking(f) => Unlinking(f)'
    <3>1. (IF req[r].file \in Markdown THEN "written" ELSE "stat") \in Stages
      BY DEF Stages, Working
    <3>2. \A s \in Calls \ {r} : req'[s] = req[s]
      BY <1>1, <1>3, <3>1, GotoMoves
    <3> QED
      BY <1>1, <3>2, UnlinkingStays
  <2>2. Written(r, req[r].base) # {}
    BY DEF Written
  <2>3. UNCHANGED <<rows, missed, late>>
    BY DEF Rename
  <2>4. /\ content'[req[r].file] # {}
        /\ \A f \in Files \ {req[r].file} : content'[f] = content[f] /\ event'[f] = event[f]
        /\ event'[req[r].file] = "upsert" \/ req[r].file \notin Markdown
        /\ event' \in [Files -> {"none", "upsert", "remove"}]
    BY <1>1, <1>3, <2>2 DEF Typed, Seen, IndexInv, IndexTyped
  <2>5. ASSUME NEW f \in Markdown PROVE Followed(f)'
    <3>1. f \in Files /\ Followed(f)
      BY FilesAssumption DEF IndexInv
    <3>2. CASE f = req[r].file
      BY <2>4, <3>2 DEF Followed
    <3>3. CASE f # req[r].file
      BY <2>1, <2>3, <2>4, <3>1, <3>3 DEF Followed
    <3> QED
      BY <3>2, <3>3
  <2> QED
    BY <2>3, <2>4, <2>5 DEF IndexInv, IndexTyped
<1> QED
  BY <1>2, <1>3 DEF Rename

\* From the drop to the unlink the request is known to be unlinking.
LEMMA DeleteFollowed ==
    ASSUME StandInv, IndexInv, NEW r \in Calls, DropThenUnlink(r)
    PROVE  IndexInv'
<1>0. Typed /\ req[r].file \in Files
  BY DEF StandInv, Sound, Working, DropThenUnlink, DropFirst, Unlink
<1>1. CASE DropFirst(r)
  <2>1. /\ req'[r].at = "unlinking" /\ req'[r].file = req[r].file
        /\ \A s \in Calls \ {r} : req'[s] = req[s]
    <3>1. Goto(r, "unlinking") /\ "unlinking" \in Stages
      BY <1>1 DEF DropFirst, Stages, Working
    <3> QED
      BY <1>0, <3>1, GotoMoves
  <2>2. PICK g \in Files : g = req[r].file
    BY <1>0
  <2>3. Unlinking(g)' /\ \A f \in Markdown : Unlinking(f) => Unlinking(f)'
    BY <2>1, <2>2 DEF Unlinking
  <2>4. /\ Drop(g) /\ content' = content /\ event' = event
        /\ late' \in [Files -> BOOLEAN] /\ \A f \in Files \ {g} : late'[f] = late[f]
    BY <1>1, <2>2 DEF DropFirst, diskVars, IndexInv, IndexTyped
  <2> QED
    BY <2>3, <2>4, DropFollowed
<1>2. CASE Unlink(r)
  <2>1. /\ req'[r].at = "done" /\ \A s \in Calls \ {r} : req'[s] = req[s]
    BY <1>0, <1>2, DoneMoves DEF Unlink, Finish
  <2>2. \A f \in Markdown \ {req[r].file} : Unlinking(f) => Unlinking(f)'
    BY <2>1 DEF Unlinking
  <2>3. CASE Removed({req[r].file}) /\ late' = late
    BY <1>0, <1>2, <2>2, <2>3, RemovedFollowed DEF Unlink
  <2>4. CASE /\ late' = [late EXCEPT ![req[r].file] = TRUE]
             /\ UNCHANGED <<content, event>>
    <3>1. UNCHANGED <<content, event, rows, missed>>
      BY <1>2, <2>4 DEF Unlink
    <3>2. /\ late' \in [Files -> BOOLEAN] /\ late'[req[r].file] = TRUE
          /\ \A f \in Files \ {req[r].file} : late'[f] = late[f]
      BY <1>0, <2>4 DEF IndexInv, IndexTyped
    <3>3. ASSUME NEW f \in Markdown PROVE Followed(f)'
      <4>1. f \in Files /\ Followed(f)
        BY FilesAssumption DEF IndexInv
      <4>2. CASE f = req[r].file
        BY <3>1, <3>2, <4>1, <4>2 DEF Followed
      <4>3. CASE f # req[r].file
        BY <2>2, <3>1, <3>2, <4>1, <4>3 DEF Followed
      <4> QED
        BY <4>2, <4>3
    <3> QED
      BY <3>1, <3>2, <3>3 DEF IndexInv, IndexTyped
  <2> QED
    BY <1>2, <2>3, <2>4 DEF Unlink
<1> QED
  BY <1>1, <1>2 DEF DropThenUnlink

LEMMA TreeFollowed ==
    ASSUME StandInv, IndexInv, NEW r \in Calls, RemoveTree(r) \/ DropTree(r)
    PROVE  IndexInv'
<1>0. Typed
  BY DEF StandInv
<1>1. CASE RemoveTree(r)
  <2>1. \A s \in Calls \ {r} : req'[s] = req[s]
    <3>1. CASE Goto(r, "dropTree")
      BY <1>0, <3>1, GotoMoves DEF Stages
    <3>2. CASE Done(r)
      BY <1>0, <3>2, DoneMoves
    <3> QED
      BY <1>1, <3>1, <3>2 DEF RemoveTree
  <2>2. \A f \in Markdown : Unlinking(f) => Unlinking(f)'
    BY <1>1, <2>1, UnlinkingStays DEF RemoveTree
  <2>3. UNCHANGED <<rows, missed, late>>
    BY <1>1 DEF RemoveTree
  <2>4. ASSUME NEW S \in SUBSET Files, Removed(S) PROVE IndexInv'
    BY <2>2, <2>3, <2>4, RemovedFollowed
  <2>5. CASE UNCHANGED <<content, event>>
    BY <2>2, <2>3, <2>5, NothingToFollow
  <2>6. CASE Removed(Files)
    BY <2>4, <2>6
  <2>7. ASSUME NEW S \in SUBSET Present, Removed(S) PROVE IndexInv'
    BY <2>4, <2>7 DEF Present
  <2> QED
    BY <1>1, <2>5, <2>6, <2>7 DEF RemoveTree, diskVars
<1>2. CASE DropTree(r)
  <2>1. PICK f \in req[r].collected :
             /\ Drop(f) /\ req' = [req EXCEPT ![r].collected = @ \ {f}]
             /\ late' = [late EXCEPT ![f] = content[f] # {}]
    BY <1>2 DEF DropTree
  <2>2. f \in Files
    BY <1>0, <2>1 DEF Typed, Requests
  <2>3. \A s \in Calls \ {r} : req'[s] = req[s]
    BY <1>0, <2>1 DEF Typed
  <2>4. \A g \in Markdown : Unlinking(g) => Unlinking(g)'
    BY <1>2, <2>3, UnlinkingStays DEF DropTree
  <2>5. (content[f] # {}) \in BOOLEAN
    OBVIOUS
  <2>6. /\ late' \in [Files -> BOOLEAN] /\ late'[f] = (content[f] # {})
        /\ \A g \in Files \ {f} : late'[g] = late[g]
    BY <2>1, <2>2, <2>5 DEF IndexInv, IndexTyped
  <2>7. UNCHANGED <<content, event>>
    BY <1>2 DEF DropTree, diskVars
  <2> QED
    BY <2>1, <2>2, <2>4, <2>6, <2>7, DropFollowed
<1> QED
  BY <1>1, <1>2

LEMMA OthersFollowed ==
    ASSUME StandInv, IndexInv, NEW f \in Files,
           SyncWrites(f) \/ SyncRemoves(f) \/ WatcherFires(f)
    PROVE  IndexInv'
<1>0. Typed
  BY DEF StandInv
<1>1. \A g \in Markdown : Unlinking(g) => Unlinking(g)'
  BY DEF SyncWrites, SyncRemoves, WatcherFires, Unlinking
<1>2. CASE SyncWrites(f)
  <2>1. UNCHANGED <<rows, missed, late>>
    BY <1>2 DEF SyncWrites
  <2>2. /\ content'[f] # {}
        /\ \A g \in Files \ {f} : content'[g] = content[g] /\ event'[g] = event[g]
        /\ event'[f] = "upsert" \/ f \notin Markdown
        /\ event' \in [Files -> {"none", "upsert", "remove"}]
    BY <1>0, <1>2 DEF SyncWrites, Seen, Typed, IndexInv, IndexTyped
  <2>3. ASSUME NEW g \in Markdown PROVE Followed(g)'
    <3>1. g \in Files /\ Followed(g)
      BY FilesAssumption DEF IndexInv
    <3>2. CASE g = f
      BY <2>2, <3>2 DEF Followed
    <3>3. CASE g # f
      BY <1>1, <2>1, <2>2, <3>1, <3>3 DEF Followed
    <3> QED
      BY <3>2, <3>3
  <2> QED
    BY <2>1, <2>2, <2>3 DEF IndexInv, IndexTyped
<1>3. CASE SyncRemoves(f)
  BY <1>1, <1>3, RemovedFollowed DEF SyncRemoves
<1>4. CASE WatcherFires(f)
  <2>1. content' = content /\ event' = [event EXCEPT ![f] = "none"] /\ event[f] # "none"
    BY <1>4 DEF WatcherFires, diskVars
  <2>2. CASE event[f] = "upsert"
    BY <1>1, <1>4, <2>1, <2>2, UpsertFollowed DEF WatcherFires
  <2>3. CASE event[f] = "remove"
    <3>1. f \in Markdown => content[f] = {}
      BY <2>3 DEF IndexInv, Followed
    <3>2. /\ Drop(f) /\ late' \in [Files -> BOOLEAN]
          /\ \A g \in Files \ {f} : late'[g] = late[g]
      BY <1>4, <2>3 DEF WatcherFires, IndexInv, IndexTyped
    <3> QED
      BY <1>1, <2>1, <2>3, <3>1, <3>2, DropFollowed
  <2> QED
    BY <2>1, <2>2, <2>3 DEF IndexInv, IndexTyped
<1> QED
  BY <1>2, <1>3, <1>4

\* The steps that touch neither a file nor the index.
LEMMA IdleFollowed ==
    ASSUME StandInv, IndexInv, NEW r \in Calls,
           \/ \E o \in Ops, f \in Files, m \in Mounts : Begin(r, o, f, m)
           \/ Acquire(r) \/ Read(r) \/ WriteTmp(r) \/ Stat(r) \/ Probe(r)
           \/ Lstat(r) \/ Mkdir(r) \/ Readdir(r) \/ Rmdir(r) \/ Collect(r) \/ TreeDropped(r)
    PROVE  IndexInv'
<1>0. Typed
  BY DEF StandInv
<1>1. UNCHANGED <<content, rows, event, missed, late>>
  BY DEF Begin, Acquire, Read, WriteTmp, Stat, Probe, Lstat, Mkdir, Readdir, Rmdir, Collect,
         TreeDropped, diskVars, indexVars, history
<1>2. req[r].at # "unlinking"
  BY DEF Begin, Acquire, Read, WriteTmp, Stat, Probe, Lstat, Mkdir, Readdir, Rmdir, Collect,
         TreeDropped
<1>3. \A s \in Calls \ {r} : req'[s] = req[s]
  BY <1>0 DEF Begin, Acquire, Read, WriteTmp, Stat, Probe, Lstat, Mkdir, Readdir, Rmdir, Collect,
         TreeDropped, Goto, Finish, Done, Typed
<1> QED
  BY <1>1, <1>2, <1>3, UnlinkingStays, NothingToFollow

LEMMA IndexStepOK == StandInv /\ IndexInv /\ [Next]_vars => IndexInv'
<1> SUFFICES ASSUME StandInv, IndexInv, [Next]_vars PROVE IndexInv'
  OBVIOUS
<1>1. ASSUME NEW r \in Calls, NEW o \in Ops, NEW f \in Files, NEW m \in Mounts,
             Begin(r, o, f, m)
      PROVE  IndexInv'
  BY <1>1, IdleFollowed
<1>2. ASSUME NEW r \in Calls, FileSteps(r) PROVE IndexInv'
  <2>1. CASE Acquire(r) \/ Read(r) \/ WriteTmp(r) \/ Stat(r) \/ Probe(r)
    BY <2>1, IdleFollowed
  <2>2. CASE Reindex(r)
    <3>1. req[r].at = "written" /\ Typed /\ req[r].file \in Files
      BY <2>2 DEF Reindex, StandInv, Sound, Working
    <3>2. \A s \in Calls \ {r} : req'[s] = req[s]
      <4>1. Goto(r, "stat") /\ "stat" \in Stages
        BY <2>2 DEF Reindex, Stages, Working
      <4> QED
        BY <3>1, <4>1, GotoMoves
    <3>3. \A f \in Markdown : Unlinking(f) => Unlinking(f)'
      BY <3>1, <3>2, UnlinkingStays
    <3> QED
      BY <2>2, <3>1, <3>3, UpsertFollowed DEF Reindex, diskVars
  <2> QED
    BY <1>2, <2>1, <2>2, RenameFollowed, DeleteFollowed DEF FileSteps
<1>3. ASSUME NEW r \in Calls, FolderSteps(r) PROVE IndexInv'
  BY <1>3, IdleFollowed, TreeFollowed DEF FolderSteps
<1>4. ASSUME NEW f \in Files, SyncWrites(f) \/ SyncRemoves(f) \/ WatcherFires(f)
      PROVE  IndexInv'
  BY <1>4, OthersFollowed
<1>5. CASE UNCHANGED vars
  BY <1>5, NothingToFollow DEF vars, diskVars, indexVars, history, Unlinking
<1> QED
  BY <1>1, <1>2, <1>3, <1>4, <1>5 DEF Next

\* Once nothing runs and no event waits, the index holds what the file holds, but
\* for a call of the index that failed and the deletions that dropped too much.
THEOREM TheIndexFollows == Spec => []QuietMeansIndexed
<1>1. Init => IndexInv
  <2> SUFFICES ASSUME Init PROVE IndexInv
    OBVIOUS
  <2>1. IndexTyped
    BY DEF Init, IndexTyped, Updates
  <2>2. ASSUME NEW f \in Markdown PROVE Followed(f)
    <3>1. f \in Files
      BY FilesAssumption
    <3>2. content[f] = {Base} /\ rows[f] = {Base} /\ event[f] = "none"
      BY <3>1 DEF Init
    <3> QED
      BY <3>2 DEF Followed
  <2> QED
    BY <2>1, <2>2 DEF IndexInv
<1>2. StandInv /\ IndexInv /\ [Next]_vars => IndexInv'
  BY IndexStepOK
<1>3. StandInv /\ IndexInv => QuietMeansIndexed
  <2> SUFFICES ASSUME IndexInv, Quiet, NEW f \in Markdown, event[f] = "none"
               PROVE  rows[f] = content[f] \/ missed[f] \/ late[f]
    BY DEF QuietMeansIndexed
  <2>1. ~Unlinking(f)
    BY DEF Unlinking, Quiet
  <2> QED
    BY <2>1 DEF IndexInv, Followed
<1> QED
  BY <1>1, <1>2, <1>3, Stand, PTL DEF Spec
=============================================================================
