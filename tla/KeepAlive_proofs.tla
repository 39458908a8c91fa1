------------------------- MODULE KeepAlive_proofs -------------------------
(***************************************************************************)
(* Proofs about KeepAlive, for any number of peers: the slots and the      *)
(* vector of the pool agree, nobody is given more than three tries, and a  *)
(* tick passes over at most one peer for each that it drops.               *)
(*                                                                         *)
(* What is passed over is counted while the tick goes on: Missed are the   *)
(* peers before the index that the loop has not come to.                   *)
(***************************************************************************)
EXTENDS KeepAlive, FiniteSetTheorems, TLAPS

Missed == {p \in slots : p \notin visited /\ \E j \in DOMAIN allocated : j < i /\ p = allocated[j]}

MissedFew == i # 0 => Cardinality(Missed) <= dropped

IInv ==
  /\ TypeOK
  /\ PoolAgrees
  /\ MissedFew

LEMMA LimitPositive == PeersLimit \in Nat /\ PeersLimit > 0
  BY PeersAssumption DEF PeersAssumption

LEMMA MissedFinite ==
  ASSUME TypeOK
  PROVE  IsFiniteSet(Missed)
<1>1. IsFiniteSet(PeerID)
  <2>1. PeersLimit - 1 \in Int /\ 0 \in Int
    BY LimitPositive
  <2>. QED  BY <2>1, FS_Interval DEF PeerID
<1>2. Missed \subseteq PeerID
  BY DEF TypeOK, Missed
<1>. QED  BY <1>1, <1>2, FS_Subset, Zenon

(* Erasing the only entry of p leaves the others, in their order.          *)
LEMMA ErasedEntry ==
  ASSUME TypeOK, PoolAgrees, NEW k \in DOMAIN allocated
  PROVE  /\ Erased(allocated[k]) \in Seq(PeerID)
         /\ Len(Erased(allocated[k])) = Len(allocated) - 1
         /\ \A j \in 1 .. Len(allocated) - 1 :
              Erased(allocated[k])[j] = IF j < k THEN allocated[j] ELSE allocated[j + 1]
         /\ Range(Erased(allocated[k])) = slots \ {allocated[k]}
         /\ \A j, l \in DOMAIN Erased(allocated[k]) :
              Erased(allocated[k])[j] = Erased(allocated[k])[l] => j = l
<1>. DEFINE n == Len(allocated)
            e == Erased(allocated[k])
<1>1. allocated \in Seq(PeerID) /\ n \in Nat /\ k \in 1 .. n /\ DOMAIN allocated = 1 .. n
  BY DEF TypeOK
<1>2. (CHOOSE j \in DOMAIN allocated : allocated[j] = allocated[k]) = k
  BY DEF PoolAgrees
<1>3. e = [j \in 1 .. n - 1 |-> IF j < k THEN allocated[j] ELSE allocated[j + 1]]
  BY <1>2 DEF Erased
<1>4. \A j \in 1 .. n - 1 : j \in 1 .. n /\ j + 1 \in 1 .. n
  BY <1>1
<1>5. e \in [1 .. n - 1 -> PeerID]
  BY <1>1, <1>3, <1>4
<1>6. n - 1 \in Nat
  BY <1>1
<1>7. e \in Seq(PeerID) /\ Len(e) = n - 1 /\ DOMAIN e = 1 .. n - 1
  BY <1>5, <1>6
<1>8. Range(e) = slots \ {allocated[k]}
  <2>1. ASSUME NEW x \in Range(e)  PROVE x \in slots \ {allocated[k]}
    <3>1. PICK j \in 1 .. n - 1 : x = e[j]
      BY <2>1, <1>7 DEF Range
    <3>2. PICK l \in 1 .. n : l # k /\ x = allocated[l]
      BY <3>1, <1>1, <1>3, <1>4
    <3>. QED  BY <3>2, <1>1 DEF PoolAgrees, Range
  <2>2. ASSUME NEW x \in slots \ {allocated[k]}  PROVE x \in Range(e)
    <3>1. PICK l \in 1 .. n : x = allocated[l] /\ l # k
      BY <2>2, <1>1 DEF PoolAgrees, Range
    <3>2. CASE l < k
      <4>1. l \in 1 .. n - 1 /\ e[l] = x
        BY <3>1, <3>2, <1>1, <1>3
      <4>. QED  BY <4>1, <1>7 DEF Range
    <3>3. CASE l > k
      <4>1. l - 1 \in 1 .. n - 1 /\ e[l - 1] = x
        BY <3>1, <3>3, <1>1, <1>3
      <4>. QED  BY <4>1, <1>7 DEF Range
    <3>. QED  BY <3>1, <3>2, <3>3, <1>1
  <2>. QED  BY <2>1, <2>2
<1>9. ASSUME NEW j \in 1 .. n - 1, NEW l \in 1 .. n - 1, e[j] = e[l]  PROVE j = l
  <2>1. \A a, b \in 1 .. n : allocated[a] = allocated[b] => a = b
    BY <1>1 DEF PoolAgrees
  <2>. QED  BY <1>9, <2>1, <1>1, <1>3, <1>4
<1>. QED  BY <1>1, <1>3, <1>7, <1>8, <1>9

(* DropPeer, whoever calls it.                                             *)
LEMMA RemoveKeeps ==
  ASSUME TypeOK, PoolAgrees, NEW k \in DOMAIN allocated, Remove(allocated[k])
  PROVE  /\ PoolAgrees'
         /\ slots' = slots \ {allocated[k]} /\ slots' \subseteq PeerID
         /\ allocated' \in Seq(PeerID) /\ Len(allocated') = Len(allocated) - 1
         /\ \A j \in 1 .. Len(allocated) - 1 :
              allocated'[j] = IF j < k THEN allocated[j] ELSE allocated[j + 1]
         /\ PingTries' \in [slots' -> 0 .. 3]
         /\ together' \subseteq slots'
         /\ packet' \in {"Ping", "Notice"}
         /\ pinged' \cup answers' \subseteq slots'
<1>1. allocated' = Erased(allocated[k]) /\ slots' = slots \ {allocated[k]}
  BY DEF Remove
<1>2. PoolAgrees'
  BY <1>1, ErasedEntry DEF PoolAgrees
<1>3. PingTries' \in [slots' -> 0 .. 3]
  BY <1>1 DEF Remove, Restrict, TypeOK
<1>4. /\ together' \subseteq slots'
      /\ packet' \in {"Ping", "Notice"}
      /\ pinged' \cup answers' \subseteq slots'
  BY <1>1 DEF Remove, TypeOK
<1>. QED  BY <1>1, <1>2, <1>3, <1>4, ErasedEntry DEF TypeOK

LEMMA InitInvariant == Init => IInv
<1>. SUFFICES ASSUME Init  PROVE IInv
  OBVIOUS
<1>1. TypeOK /\ MissedFew
  BY DEF Init, TypeOK, MissedFew
<1>2. PoolAgrees
  BY DEF Init, PoolAgrees, Range
<1>. QED  BY <1>1, <1>2 DEF IInv

(* A newcomer gets a free slot, and the last entry.                        *)
LEMMA ConnectStep ==
  ASSUME IInv, NEW p \in PeerID, Connect(p)
  PROVE  IInv'
<1>1. /\ i = 0 /\ i' = 0 /\ p \notin slots
      /\ slots' = slots \cup {p} /\ allocated' = Append(allocated, p)
  BY DEF Connect, Polling
<1>2. allocated \in Seq(PeerID) /\ Len(allocated) \in Nat /\ DOMAIN allocated = 1 .. Len(allocated)
  BY DEF IInv, TypeOK
<1>3. /\ allocated' \in Seq(PeerID) /\ DOMAIN allocated' = 1 .. Len(allocated) + 1
      /\ allocated'[Len(allocated) + 1] = p
      /\ \A j \in 1 .. Len(allocated) : allocated'[j] = allocated[j]
  BY <1>1, <1>2
<1>4. TypeOK'
  <2>1. PingTries' \in [slots' -> 0 .. 3]
    BY <1>1 DEF Connect, IInv, TypeOK
  <2>. QED  BY <1>1, <1>3, <2>1 DEF Connect, IInv, TypeOK
<1>5. Range(allocated') = slots'
  BY <1>1, <1>2, <1>3 DEF IInv, PoolAgrees, Range
<1>6. \A j, k \in DOMAIN allocated' : allocated'[j] = allocated'[k] => j = k
  <2>1. \A j \in 1 .. Len(allocated) : allocated[j] \in slots
    BY <1>2 DEF IInv, PoolAgrees, Range
  <2>. QED  BY <1>1, <1>2, <1>3, <2>1 DEF IInv, PoolAgrees
<1>7. PoolAgrees'
  BY <1>5, <1>6 DEF PoolAgrees
<1>. QED  BY <1>1, <1>4, <1>7 DEF IInv, MissedFew

Quiet(p) == Join(p) \/ Leave(p) \/ PingReply(p) \/ Answer(p) \/ Tick \/ Finish

(* What leaves the vector alone between ticks, or begins or ends a tick.   *)
LEMMA QuietStep ==
  ASSUME IInv, NEW p \in PeerID, Quiet(p)
  PROVE  IInv'
<1>1. UNCHANGED <<slots, allocated>>
  BY DEF Quiet, Join, Leave, PingReply, Answer, Tick, Finish, pool
<1>2. PoolAgrees'
  BY <1>1 DEF IInv, PoolAgrees
<1>3. TypeOK'
  <2>1. CASE Join(p) \/ Leave(p) \/ Answer(p) \/ Tick \/ Finish
    BY <1>1, <2>1 DEF Join, Leave, Answer, Tick, Finish, IInv, TypeOK
  <2>2. CASE PingReply(p)
    <3>1. PingTries' \in [slots' -> 0 .. 3]
      BY <1>1, <2>2 DEF PingReply, IInv, TypeOK
    <3>. QED  BY <1>1, <2>2, <3>1 DEF PingReply, IInv, TypeOK
  <2>. QED  BY <2>1, <2>2 DEF Quiet
<1>4. MissedFew'
  <2>1. CASE i' = 0
    BY <2>1 DEF MissedFew
  <2>2. CASE i' # 0 /\ ~Tick
    <3>1. UNCHANGED <<slots, allocated, i, visited, dropped>>
      BY <1>1, <2>2 DEF Quiet, Join, Leave, PingReply, Answer, Finish
    <3>. QED  BY <3>1 DEF IInv, MissedFew, Missed
  <2>3. CASE Tick
    <3>1. Missed' = {}
      <4>1. \A j \in DOMAIN allocated' : ~(j < i')
        BY <1>1, <2>3 DEF Tick, IInv, TypeOK
      <4>. QED  BY <4>1 DEF Missed
    <3>2. Cardinality(Missed') = 0
      BY <3>1, FS_EmptySet
    <3>3. dropped' = 0
      BY <2>3 DEF Tick
    <3>4. Cardinality(Missed') <= dropped'
      BY <3>2, <3>3
    <3>. QED  BY <3>4 DEF MissedFew
  <2>. QED  BY <2>1, <2>2, <2>3
<1>. QED  BY <1>2, <1>3, <1>4 DEF IInv

LEMMA ClosedStep ==
  ASSUME IInv, NEW p \in PeerID, Closed(p)
  PROVE  IInv'
<1>1. PICK k \in DOMAIN allocated : p = allocated[k]
  BY DEF Closed, IInv, PoolAgrees, Range
<1>2. /\ i = 0 /\ i' = 0 /\ UNCHANGED <<visited, dropped>>
      /\ Remove(allocated[k])
  BY <1>1 DEF Closed, Polling
<1>3. TypeOK /\ PoolAgrees
  BY DEF IInv
<1>4. Len(allocated) \in Nat /\ Len(allocated) > 0
  BY <1>3 DEF TypeOK
<1>5. TypeOK'
  BY <1>2, <1>3, <1>4, RemoveKeeps DEF TypeOK
<1>. QED  BY <1>2, <1>3, <1>5, RemoveKeeps DEF IInv, MissedFew

(* A peer that stays is visited, and none is missed that was not before.   *)
LEMMA VisitKept ==
  ASSUME IInv, NEW p \in PeerID, Visit(p), ~TimedOut(p)
  PROVE  IInv'
<1>1. /\ i \in DOMAIN allocated /\ p = allocated[i] /\ i' = i + 1
      /\ visited' = visited \cup {p}
      /\ pinged' \subseteq pinged \cup {p}
      /\ PingTries' = [PingTries EXCEPT ![p] = @ + 1]
      /\ UNCHANGED <<slots, allocated, together, packet, answers, dropped>>
  BY DEF Visit, Step, Counted, pool
<1>2. allocated \in Seq(PeerID) /\ i \in 1 .. Len(allocated) /\ Len(allocated) \in Nat
  BY <1>1 DEF IInv, TypeOK
<1>3. p \in slots
  BY <1>1 DEF IInv, PoolAgrees, Range
<1>4. PingTries[p] \in 0 .. 2
  BY <1>3 DEF TimedOut, IInv, TypeOK
<1>5. PingTries' \in [slots' -> 0 .. 3]
  BY <1>1, <1>3, <1>4 DEF IInv, TypeOK
<1>6. TypeOK'
  BY <1>1, <1>2, <1>3, <1>5 DEF IInv, TypeOK
<1>7. Missed' \subseteq Missed
  BY <1>1, <1>2 DEF Missed
<1>8. Cardinality(Missed') <= Cardinality(Missed)
      /\ Cardinality(Missed') \in Nat /\ Cardinality(Missed) \in Nat
  <2>1. IsFiniteSet(Missed)
    BY MissedFinite DEF IInv
  <2>. QED  BY <2>1, <1>7, FS_Subset, FS_CardinalityType
<1>9. MissedFew'
  BY <1>1, <1>2, <1>8 DEF IInv, TypeOK, MissedFew
<1>. QED  BY <1>1, <1>6, <1>9 DEF IInv, PoolAgrees

(* Of those that move up when a peer is dropped, one is missed: the next.  *)
LEMMA VisitDropped ==
  ASSUME IInv, NEW p \in PeerID, Visit(p), TimedOut(p)
  PROVE  IInv'
<1>1. /\ i \in DOMAIN allocated /\ p = allocated[i] /\ i' = i + 1
      /\ visited' = visited \cup {p}
      /\ Remove(allocated[i])
      /\ dropped' = dropped + 1
  BY DEF Visit, Step
<1>2. TypeOK /\ PoolAgrees
  BY DEF IInv
<1>3. i \in 1 .. Len(allocated) /\ Len(allocated) \in Nat
  BY <1>1, <1>2 DEF TypeOK
<1>4. TypeOK' /\ PoolAgrees'
  BY <1>1, <1>2, <1>3, RemoveKeeps DEF TypeOK
<1>5. \A j \in 1 .. Len(allocated) - 1 :
        allocated'[j] = IF j < i THEN allocated[j] ELSE allocated[j + 1]
  BY <1>1, <1>2, RemoveKeeps
<1>6. Missed' \subseteq Missed \cup {allocated'[i]}
  <2>. SUFFICES ASSUME NEW q \in Missed', q # allocated'[i]  PROVE q \in Missed
    OBVIOUS
  <2>1. slots' \subseteq slots /\ Len(allocated') = Len(allocated) - 1 /\ allocated' \in Seq(PeerID)
    BY <1>1, <1>2, RemoveKeeps
  <2>2. PICK j \in DOMAIN allocated' : j < i + 1 /\ q = allocated'[j]
    BY <1>1 DEF Missed
  <2>3. j \in 1 .. Len(allocated) - 1 /\ j < i
    BY <2>1, <2>2, <1>3
  <2>4. q = allocated[j] /\ j \in DOMAIN allocated
    BY <2>2, <2>3, <1>2, <1>3, <1>5 DEF TypeOK
  <2>. QED  BY <1>1, <2>1, <2>3, <2>4 DEF Missed
<1>7. IsFiniteSet(Missed) /\ Cardinality(Missed) \in Nat
  BY <1>2, MissedFinite, FS_CardinalityType
<1>8. /\ IsFiniteSet(Missed \cup {allocated'[i]})
      /\ Cardinality(Missed \cup {allocated'[i]}) <= Cardinality(Missed) + 1
  <2>1. Cardinality(Missed \cup {allocated'[i]})
          = IF allocated'[i] \in Missed THEN Cardinality(Missed) ELSE Cardinality(Missed) + 1
    BY <1>7, FS_AddElement, Zenon
  <2>2. IsFiniteSet(Missed \cup {allocated'[i]})
    BY <1>7, FS_AddElement, Zenon
  <2>. DEFINE c == Cardinality(Missed)  d == Cardinality(Missed \cup {allocated'[i]})
  <2>3. c \in Nat /\ (d = c \/ d = c + 1)
    BY <2>1, <1>7, Zenon
  <2>. HIDE DEF c, d
  <2>4. d <= c + 1
    BY <2>3
  <2>. QED  BY <2>2, <2>4, Zenon DEF c, d
<1>9. /\ Cardinality(Missed') <= Cardinality(Missed \cup {allocated'[i]})
      /\ Cardinality(Missed') \in Nat
      /\ Cardinality(Missed \cup {allocated'[i]}) \in Nat
  BY <1>6, <1>8, FS_Subset, FS_CardinalityType
<1>10. MissedFew'
  BY <1>1, <1>2, <1>3, <1>7, <1>8, <1>9 DEF IInv, TypeOK, MissedFew
<1>. QED  BY <1>4, <1>10 DEF IInv

LEMMA NextInvariant == IInv /\ [Next]_vars => IInv'
<1>. SUFFICES ASSUME IInv, [Next]_vars  PROVE IInv'
  OBVIOUS
<1>1. ASSUME NEW p \in PeerID, Connect(p)  PROVE IInv'
  BY <1>1, ConnectStep
<1>2. ASSUME NEW p \in PeerID, Quiet(p)  PROVE IInv'
  BY <1>2, QuietStep, Zenon
<1>3. ASSUME NEW p \in PeerID, Closed(p)  PROVE IInv'
  BY <1>3, ClosedStep
<1>4. ASSUME NEW p \in PeerID, Visit(p)  PROVE IInv'
  BY <1>4, VisitKept, VisitDropped
<1>5. CASE Tick \/ Finish
  <2>1. 0 \in PeerID
    BY LimitPositive DEF PeerID
  <2>2. Quiet(0)
    BY <1>5 DEF Quiet
  <2>. QED  BY <2>1, <2>2, QuietStep, Zenon
<1>6. CASE UNCHANGED vars
  BY <1>6 DEF vars, IInv, TypeOK, PoolAgrees, MissedFew, Missed
<1>. QED  BY <1>1, <1>2, <1>3, <1>4, <1>5, <1>6 DEF Next, Quiet

LEMMA Invariant == Spec => []IInv
  BY InitInvariant, NextInvariant, PTL DEF Spec

-----------------------------------------------------------------------------
(* Nobody is given more than three tries, and pings, answers and counters  *)
(* are those of peers that are there (Start, HandleTCP and DropPeer).      *)
THEOREM TypesAgree == Spec => []TypeOK
<1>1. IInv => TypeOK
  BY DEF IInv
<1>. QED  BY <1>1, Invariant, PTL

(* IndexedPool: Allocate and Deallocate keep the slots and the vector of   *)
(* allocated elements in agreement.                                        *)
THEOREM PoolsAgree == Spec => []PoolAgrees
<1>1. IInv => PoolAgrees
  BY DEF IInv
<1>. QED  BY <1>1, Invariant, PTL

(* A tick's walk over the vector that DropPeer shortens passes over at     *)
(* most one peer for each that it drops.                                   *)
THEOREM FewPassedOver == Spec => []PassedOver
<1>1. IInv => PassedOver
  <2>. SUFFICES ASSUME IInv, i > Len(allocated)
                PROVE  Cardinality(slots \ visited) <= dropped
    BY DEF PassedOver
  <2>1. slots \ visited \subseteq Missed
    <3>1. allocated \in Seq(PeerID) /\ Len(allocated) \in Nat /\ i \in Nat
      BY DEF IInv, TypeOK
    <3>2. \A j \in DOMAIN allocated : j < i
      BY <3>1
    <3>. QED  BY <3>1, <3>2 DEF IInv, TypeOK, PoolAgrees, Range, Missed
  <2>2. IsFiniteSet(Missed)
    BY MissedFinite DEF IInv
  <2>3. /\ Cardinality(slots \ visited) <= Cardinality(Missed)
        /\ Cardinality(slots \ visited) \in Nat /\ Cardinality(Missed) \in Nat
    BY <2>1, <2>2, FS_Subset, FS_CardinalityType
  <2>4. i # 0
    BY DEF IInv, TypeOK
  <2>. QED  BY <2>3, <2>4 DEF IInv, TypeOK, MissedFew
<1>. QED  BY <1>1, Invariant, PTL
=============================================================================
