----------------------------- MODULE LotsProofs -----------------------------
(***************************************************************************)
(* Theorems about Lots, for all Sessions, priorities, lot sizes and        *)
(* bounds: the dispatch lot size is respected, nothing of a paused Unit is *)
(* leased, and no two lots hold the same slot.                             *)
(***************************************************************************)
EXTENDS Lots, FiniteSetTheorems, SequenceTheorems, WellFoundedInduction, TLAPS

-----------------------------------------------------------------------------
(***************************************************************************)
(* The dispatch lot size.                                                  *)
(***************************************************************************)
(* The first room members of a finite set of numbers are at most room many:*)
(* each is told from the others by how many come before it.                *)
LEMMA FirstOnes ==
  ASSUME NEW F \in SUBSET Nat, IsFiniteSet(F), NEW room \in Nat
  PROVE  LET S == {l \in F : Cardinality({k \in F : k < l}) < room}
         IN IsFiniteSet(S) /\ Cardinality(S) <= room
  <1> DEFINE before(l) == {k \in F : k < l}
             S == {l \in F : Cardinality(before(l)) < room}
             f == [l \in S |-> Cardinality(before(l))]
  <1>1. \A l \in F : IsFiniteSet(before(l)) /\ Cardinality(before(l)) \in Nat
    <2> TAKE l \in F
    <2>1. before(l) \in SUBSET F
      OBVIOUS
    <2>2. IsFiniteSet(before(l))
      BY <2>1, FS_Subset
    <2> QED
      BY <2>2, FS_CardinalityType
  <1>2. ASSUME NEW k \in F, NEW l \in F, k < l
        PROVE  Cardinality(before(k)) # Cardinality(before(l))
    <2>1. before(k) \in SUBSET before(l) /\ k \in before(l) /\ k \notin before(k)
      <3>1. k \in Nat /\ l \in Nat /\ \A x \in F : x \in Nat
        OBVIOUS
      <3>2. \A x \in F : x < k => x < l
        BY <1>2, <3>1
      <3>3. before(k) \subseteq before(l)
        BY <3>2
      <3>4. k \in before(l)
        BY <1>2
      <3>5. k \notin before(k)
        BY <3>1
      <3> QED
        BY <3>3, <3>4, <3>5
    <2>2. Cardinality(before(l)) = Cardinality(before(k)) => before(l) = before(k)
      BY <1>1, <2>1, FS_Subset
    <2> HIDE DEF before
    <2> QED
      BY <2>1, <2>2
  <1>3. f \in Injection(S, 0..(room - 1))
    <2>1. f \in [S -> 0..(room - 1)]
      <3>1. \A l \in S : Cardinality(before(l)) \in Nat /\ Cardinality(before(l)) < room
        BY <1>1
      <3>2. \A n \in Nat : n < room => n \in 0..(room - 1)
        OBVIOUS
      <3>3. \A l \in S : Cardinality(before(l)) \in 0..(room - 1)
        BY <3>1, <3>2
      <3> HIDE DEF before, S
      <3> QED
        BY <3>3
    <2>2. ASSUME NEW k \in S, NEW l \in S, f[k] = f[l] PROVE k = l
      <3>1. k \in F /\ l \in F /\ Cardinality(before(k)) = Cardinality(before(l))
        BY <2>2
      <3>2. ~(k < l) /\ ~(l < k)
        BY <1>2, <3>1
      <3>3. k \in Nat /\ l \in Nat
        BY <3>1
      <3> QED
        BY <3>2, <3>3
    <2> QED
      BY <2>1, <2>2 DEF Injection, IsInjective
  <1>4. IsFiniteSet(0..(room - 1)) /\ Cardinality(0..(room - 1)) = room
    BY FS_Interval
  <1> HIDE DEF f
  <1>5. IsFiniteSet(S) /\ Cardinality(S) <= Cardinality(0..(room - 1))
    BY <1>3, <1>4, FS_Injection
  <1> QED
    BY <1>4, <1>5

(* The size is at least one: set_dispatch_lot_size refuses anything less. *)
SizeInv == size \in Nat \ {0}

LEMMA SizeInit == Init => SizeInv
  BY DEF Init, SizeInv

LEMMA SizeNext == SizeInv /\ [Next]_vars => SizeInv'
  BY LotsAssumption
  DEF SizeInv, Next, vars, entries, leases, settings, EntryStep, DispatchOnce, DaemonStep, WorkerStep,
      AdminStep, Ready, Refreshed, Withdrawn, Tick, Lease, LeaseRaises, NothingToLease, LeaseLapses,
      Commit, CommitViolation, LotRaises, Cycle, DaemonEnds, DaemonDrained, DaemonCrashes, DaemonStarts,
      Discard, WorkerStarts, WorkerRepeats, WorkerEnds, SetSchedulingPolicy, SetDispatchLotSize,
      SetUnitActive

(* What one cycle of the daemon submits. *)
LEMMA CycleRespectsSize ==
  ASSUME SizeInv, Cycle
  PROVE  \/ Cardinality(ActiveLots(lot')) <= size
         \/ ActiveLots(lot') \subseteq ActiveLots(Collected)
  <1> DEFINE target == TargetLots
             free == {l \in 1..target : l \in Finished \/ lot[l] = "free"}
             active == ActiveLots(Collected)
             room == target - Cardinality(active)
  <1>1. target \in Nat /\ target <= size /\ target <= LotCap /\ size \in Nat /\ LotCap \in Nat
    BY LotsAssumption DEF SizeInv, TargetLots
  <1>2. Submitted = {l \in free : Cardinality({k \in free : k < l}) < room}
    BY DEF Submitted
  <1> HIDE DEF target
  <1>3. free \in SUBSET (1..target) /\ free \in SUBSET Nat /\ free \subseteq DaemonLots
    BY <1>1 DEF DaemonLots
  <1>4. IsFiniteSet(free) /\ \A l : Cardinality({k \in free : k < l}) \in Nat
    <2>1. IsFiniteSet(1..target)
      BY <1>1, FS_Interval
    <2>2. IsFiniteSet(free)
      BY <1>3, <2>1, FS_Subset
    <2>3. \A l : {k \in free : k < l} \in SUBSET free
      OBVIOUS
    <2>4. \A l : IsFiniteSet({k \in free : k < l})
      BY <2>2, <2>3, FS_Subset
    <2> QED
      BY <2>2, <2>4, FS_CardinalityType
  <1>5. active \in SUBSET DaemonLots /\ IsFiniteSet(active) /\ Cardinality(active) \in Nat
    <2>1. IsFiniteSet(DaemonLots)
      BY <1>1, FS_Interval DEF DaemonLots
    <2>2. active \in SUBSET DaemonLots
      BY DEF ActiveLots
    <2>3. IsFiniteSet(active)
      BY <2>1, <2>2, FS_Subset
    <2> QED
      BY <2>2, <2>3, FS_CardinalityType
  <1>6. \A l \in free : l \notin active
    BY <1>3 DEF ActiveLots, Collected, AllLots
  <1>7. ActiveLots(lot') = active \cup Submitted
    <2>1. lot' = [l \in AllLots |-> IF l \in Submitted THEN "submitted" ELSE Collected[l]]
      BY DEF Cycle
    <2>2. Submitted \subseteq DaemonLots
      BY <1>2, <1>3
    <2> QED
      BY <2>1, <2>2 DEF ActiveLots, AllLots
  <1> HIDE DEF free, active
  <1>8. CASE Cardinality(active) >= target
    <2>1. room \in Int /\ room <= 0
      BY <1>1, <1>5, <1>8
    <2> HIDE DEF room
    <2>2. \A n \in Nat : ~(n < room)
      BY <2>1
    <2>3. Submitted = {}
      BY <1>2, <1>4, <2>2
    <2> QED
      BY <1>7, <2>3 DEF active
  <1>9. CASE Cardinality(active) < target
    <2>1. room \in Nat
      BY <1>1, <1>5, <1>9
    <2> HIDE DEF room
    <2>2. IsFiniteSet(Submitted) /\ Cardinality(Submitted) <= room
      BY <1>2, <1>3, <1>4, <2>1, FirstOnes
    <2>3. active \cap Submitted = {}
      BY <1>2, <1>6
    <2>4. Cardinality(active \cup Submitted) =
            Cardinality(active) + Cardinality(Submitted) - Cardinality(active \cap Submitted)
      BY <1>5, <2>2, FS_Union
    <2>5. Cardinality(active \cap Submitted) = 0 /\ Cardinality(Submitted) \in Nat
      BY <2>2, <2>3, FS_EmptySet, FS_CardinalityType
    <2>6. Cardinality(active \cup Submitted) <= target
      BY <1>1, <1>5, <2>1, <2>2, <2>4, <2>5 DEF room
    <2>7. Cardinality(active \cup Submitted) \in Nat
      BY <1>5, <2>2, FS_Union, FS_CardinalityType
    <2> QED
      BY <1>1, <1>7, <2>6, <2>7
  <1> QED
    BY <1>1, <1>5, <1>8, <1>9

(* However the size is changed and whichever lots are active, a cycle      *)
(* submits no lot beyond the dispatch lot size (_submit_available_lots).   *)
THEOREM LotSizeKept == Spec => LotSizeRespected
  <1>1. SizeInv /\ [Next]_vars =>
          [Cycle => \/ Cardinality(ActiveLots(lot')) <= size
                    \/ ActiveLots(lot') \subseteq ActiveLots(Collected)]_vars
    BY CycleRespectsSize
  <1> QED
    BY <1>1, SizeInit, SizeNext, PTL DEF Spec, LotSizeRespected

-----------------------------------------------------------------------------
(***************************************************************************)
(* Paused Units.                                                           *)
(***************************************************************************)
(* Only a lease adds to the leased slots, and it looks at the Unit of the  *)
(* slot it adds.                                                           *)
LEMMA OnlyLeasesAdd ==
  ASSUME [Next]_vars, NEW s \in Slots, s \in leased' \ leased
  PROVE  SessionOf[s] \notin paused
  <1>1. ASSUME NEW l \in AllLots, Lease(l) PROVE SessionOf[s] \notin paused
    <2>1. Leasable(Selected(Scope(l))) /\ leased' = Acquired \cup {Selected(Scope(l))}
      BY <1>1 DEF Lease
    <2>2. s = Selected(Scope(l))
      BY <2>1 DEF Acquired
    <2> QED
      BY <2>1, <2>2 DEF Leasable
  <1>2. ASSUME leased' \subseteq leased PROVE FALSE
    BY <1>2
  <1>3. CASE UNCHANGED vars
    BY <1>2, <1>3 DEF vars, leases
  <1>4. ASSUME NEW l \in AllLots, DispatchOnce(l) \/ LotRaises(l) PROVE SessionOf[s] \notin paused
    BY <1>1, <1>2, <1>4
    DEF DispatchOnce, LeaseRaises, NothingToLease, Commit, CommitViolation, LotRaises, leases, Acquired
  <1>5. CASE EntryStep
    BY <1>2, <1>5 DEF EntryStep, Ready, Refreshed, Withdrawn, Tick, leases
  <1>6. CASE DaemonStep
    BY <1>2, <1>6 DEF DaemonStep, Cycle, DaemonEnds, DaemonDrained, DaemonCrashes, DaemonStarts, leases
  <1>7. CASE WorkerStep
    BY <1>2, <1>7 DEF WorkerStep, Discard, WorkerStarts, WorkerRepeats, WorkerEnds, leases
  <1>8. CASE AdminStep
    BY <1>2, <1>8 DEF AdminStep, SetSchedulingPolicy, SetDispatchLotSize, SetUnitActive, leases
  <1>9. ASSUME NEW x \in Slots, LeaseLapses(x) PROVE FALSE
    BY <1>2, <1>9 DEF LeaseLapses
  <1> QED
    BY <1>3, <1>4, <1>5, <1>6, <1>7, <1>8, <1>9 DEF Next

(* Whatever its priority and age, and whatever was recovered or has lapsed,*)
(* no entry of a Session whose Unit is paused is leased (dispatch_once).   *)
THEOREM PausedUnitsNotLeased == Spec => PausedNotLeased
  <1>1. [Next]_vars =>
          [\A s \in Slots : s \in leased' \ leased => SessionOf[s] \notin paused]_vars
    BY OnlyLeasesAdd
  <1> QED
    BY <1>1, PTL DEF Spec, PausedNotLeased

-----------------------------------------------------------------------------
(***************************************************************************)
(* Numbers, and the sequences that a queue is made of.                     *)
(***************************************************************************)
(* Among finite subsets of a set there is one that has no other of them as *)
(* a strict subset.                                                        *)
LEMMA SmallestSubset ==
  ASSUME NEW C, NEW T, T # {}, \A x \in T : x \in SUBSET C /\ IsFiniteSet(x)
  PROVE  \E x \in T : \A y \in T : y \subseteq x => y = x
  <1>1. T \subseteq FiniteSubsetsOf(C)
    BY DEF FiniteSubsetsOf
  <1>2. IsWellFoundedOn(StrictSubsetOrdering(C), FiniteSubsetsOf(C))
    BY FS_StrictSubsetOrderingWellFounded
  <1>3. PICK x \in T : \A y \in T : ~(<<y, x>> \in StrictSubsetOrdering(C))
    BY <1>1, <1>2, WFMin
  <1> QED
    BY <1>3 DEF StrictSubsetOrdering

(* A set of numbers has a least one, and Min is a member of it. *)
LEMMA MinMember ==
  ASSUME NEW N \in SUBSET Nat, N # {}
  PROVE  Min(N) \in N /\ \A k \in N : Min(N) <= k
  <1> DEFINE upTo(n) == 0..(n - 1)
             T == {upTo(n) : n \in N}
  <1>1. \A n \in N : n \in Nat /\ upTo(n) \in SUBSET Nat /\ IsFiniteSet(upTo(n))
    BY FS_Interval
  <1>2. PICK x \in T : \A y \in T : y \subseteq x => y = x
    <2>1. T # {} /\ \A x \in T : x \in SUBSET Nat /\ IsFiniteSet(x)
      BY <1>1
    <2> HIDE DEF T
    <2> QED
      BY <2>1, SmallestSubset
  <1>3. PICK m \in N : x = upTo(m)
    BY <1>2
  <1>4. ASSUME NEW k \in N, k < m PROVE FALSE
    <2>1. k \in Nat /\ m \in Nat
      OBVIOUS
    <2>2. upTo(k) \subseteq upTo(m) /\ k \in upTo(m) /\ k \notin upTo(k)
      BY <1>4, <2>1
    <2> QED
      BY <1>2, <1>3, <2>2
  <1>5. \A k \in N : m <= k
    BY <1>4
  <1> QED
    BY <1>5 DEF Min

(* A finite set of numbers can be put in order.  The place of a number is  *)
(* how many come no later.                                                 *)
LEMMA Ordered ==
  ASSUME NEW S \in SUBSET Nat, IsFiniteSet(S)
  PROVE  /\ InOrder(S) \in Seq(S) /\ IsInjective(InOrder(S))
         /\ DOMAIN InOrder(S) = 1..Cardinality(S)
  <1> DEFINE card == Cardinality(S)
             upTo(x) == {y \in S : y <= x}
             place == [x \in S |-> Cardinality(upTo(x))]
  <1>0. card = Cardinality(S)
    OBVIOUS
  <1>1. card \in Nat /\ \A x \in S : x \in Nat
    BY FS_CardinalityType
  <1>2. \A x \in S : /\ IsFiniteSet(upTo(x)) /\ Cardinality(upTo(x)) \in 1..card
    <2> TAKE x \in S
    <2>1. upTo(x) \in SUBSET S /\ x \in upTo(x)
      BY <1>1
    <2>2. IsFiniteSet(upTo(x)) /\ Cardinality(upTo(x)) \in Nat /\ Cardinality(upTo(x)) <= card
      BY <2>1, FS_Subset, FS_CardinalityType
    <2>3. Cardinality(upTo(x)) # 0
      BY <2>1, <2>2, FS_EmptySet
    <2> QED
      BY <1>1, <2>2, <2>3
  <1>3. \A x, y \in S : x < y => place[x] < place[y]
    <2> SUFFICES ASSUME NEW x \in S, NEW y \in S, x < y PROVE place[x] < place[y]
      OBVIOUS
    <2>0. x \in Nat /\ y \in Nat /\ \A z \in S : z \in Nat
      BY <1>1
    <2>1. upTo(x) \in SUBSET upTo(y)
      <3>1. \A z \in S : z <= x => z <= y
        BY <2>0
      <3> QED
        BY <3>1
    <2>2. y \in upTo(y) /\ y \notin upTo(x)
      BY <1>1
    <2>3. Cardinality(upTo(x)) <= Cardinality(upTo(y))
      BY <1>2, <2>1, FS_Subset
    <2>4. Cardinality(upTo(x)) # Cardinality(upTo(y))
      BY <1>2, <2>1, <2>2, FS_Subset
    <2>5. Cardinality(upTo(x)) \in Nat /\ Cardinality(upTo(y)) \in Nat
      BY <1>2, FS_CardinalityType
    <2> HIDE DEF upTo
    <2> QED
      BY <2>3, <2>4, <2>5
  <1>4. place \in [S -> 1..card]
    BY <1>2
  <1> HIDE DEF place, upTo, card
  <1>5. \A x, y \in S : place[x] = place[y] => x = y
    <2> TAKE x, y \in S
    <2>1. place[x] \in Nat /\ place[y] \in Nat /\ x \in Nat /\ y \in Nat
      BY <1>1, <1>4
    <2> QED
      BY <1>3, <2>1
  <1>6. \A n \in 1..card : \E x \in S : place[x] = n
    <2> DEFINE image == {place[x] : x \in S}
    <2>1. image \in SUBSET (1..card)
      BY <1>4
    <2>2. place \in Bijection(S, image)
      BY <1>4, <1>5 DEF Bijection, Injection, Surjection, IsInjective
    <2>3. IsFiniteSet(image) /\ Cardinality(image) = Cardinality(S)
      <3> HIDE DEF image
      <3>1. ExistsBijection(S, image)
        BY <2>2 DEF ExistsBijection
      <3> QED
        BY <3>1, FS_Bijection
    <2>4. IsFiniteSet(1..card) /\ Cardinality(1..card) = card
      BY <1>1, FS_Interval
    <2>5. image = 1..card
      BY <1>0, <2>1, <2>3, <2>4, FS_Subset
    <2> QED
      BY <2>5
  <1> DEFINE q == [n \in 1..card |-> CHOOSE x \in S : place[x] = n]
  <1>7. \A n \in 1..card : q[n] \in S /\ place[q[n]] = n
    BY <1>6
  <1>8. q \in [1..card -> S]
    BY <1>7
  <1> HIDE DEF q
  <1>9. \A m, n \in 1..card : m < n => q[m] < q[n]
    <2> SUFFICES ASSUME NEW m \in 1..card, NEW n \in 1..card, m < n PROVE q[m] < q[n]
      OBVIOUS
    <2>1. q[m] \in S /\ q[n] \in S /\ place[q[m]] = m /\ place[q[n]] = n
      BY <1>7
    <2>2. m \in Nat /\ n \in Nat
      BY <1>1
    <2>3. q[n] < q[m] => n < m
      BY <1>3, <2>1
    <2>4. q[n] = q[m] => n = m
      BY <2>1
    <2>5. \A x, y \in S : x < y \/ y < x \/ x = y
      BY <1>1
    <2>6. ~(n < m) /\ n # m
      BY <2>2
    <2> QED
      BY <2>1, <2>3, <2>4, <2>5, <2>6
  <1>10. \E p \in [1..card -> S] : \A m, n \in 1..card : m < n => p[m] < p[n]
    BY <1>8, <1>9
  <1>11. /\ InOrder(S) \in [1..card -> S]
         /\ \A m, n \in 1..card : m < n => InOrder(S)[m] < InOrder(S)[n]
    BY <1>0, <1>10 DEF InOrder
  <1>12. \A m, n \in 1..card : InOrder(S)[m] = InOrder(S)[n] => m = n
    <2> TAKE m, n \in 1..card
    <2>1. InOrder(S)[m] \in S /\ InOrder(S)[n] \in S
      BY <1>11
    <2>2. m \in Nat /\ n \in Nat
      BY <1>1
    <2>3. \A x \in S : ~(x < x)
      BY <1>1
    <2>4. ~(m < n) /\ ~(n < m) => m = n
      BY <2>2
    <2>5. InOrder(S)[m] = InOrder(S)[n] => ~(m < n)
      BY <1>11, <2>1, <2>3
    <2>6. InOrder(S)[m] = InOrder(S)[n] => ~(n < m)
      BY <1>11, <2>1, <2>3
    <2> QED
      BY <2>4, <2>5, <2>6
  <1> QED
    BY <1>0, <1>1, <1>11, <1>12 DEF IsInjective

(* Two sequences without repetitions that share nothing make one. *)
LEMMA JoinedOnce ==
  ASSUME NEW S, NEW p \in Seq(S), NEW q \in Seq(S), IsInjective(p), IsInjective(q),
         \A m \in DOMAIN p, n \in DOMAIN q : p[m] # q[n]
  PROVE  p \o q \in Seq(S) /\ IsInjective(p \o q)
  <1>1. /\ p \o q \in Seq(S) /\ DOMAIN (p \o q) = 1..(Len(p) + Len(q))
        /\ DOMAIN p = 1..Len(p) /\ DOMAIN q = 1..Len(q) /\ Len(p) \in Nat /\ Len(q) \in Nat
        /\ \A k \in 1..(Len(p) + Len(q)) : (p \o q)[k] = IF k <= Len(p) THEN p[k] ELSE q[k - Len(p)]
    OBVIOUS
  <1> DEFINE j == p \o q
  <1> SUFFICES ASSUME NEW a \in DOMAIN j, NEW b \in DOMAIN j, j[a] = j[b] PROVE a = b
    BY <1>1 DEF IsInjective
  <1>2. a \in 1..(Len(p) + Len(q)) /\ b \in 1..(Len(p) + Len(q))
    BY <1>1
  <1>3. \A k \in 1..(Len(p) + Len(q)) :
          \/ k \in DOMAIN p /\ j[k] = p[k]
          \/ k > Len(p) /\ k - Len(p) \in DOMAIN q /\ j[k] = q[k - Len(p)]
    BY <1>1
  <1> HIDE DEF j
  <1>4. a - Len(p) = b - Len(p) => a = b
    BY <1>1, <1>2
  <1> QED
    BY <1>2, <1>3, <1>4 DEF IsInjective

(* A part of a sequence without repetitions has none either. *)
LEMMA PartOnce ==
  ASSUME NEW S, NEW q \in Seq(S), IsInjective(q), NEW m \in 1..(Len(q) + 1), NEW n \in 0..Len(q)
  PROVE  /\ SubSeq(q, m, n) \in Seq(S) /\ IsInjective(SubSeq(q, m, n))
         /\ \A k \in DOMAIN SubSeq(q, m, n) : \E i \in m..n : SubSeq(q, m, n)[k] = q[i]
  <1> DEFINE p == SubSeq(q, m, n)
  <1>1. /\ p \in Seq(S) /\ m \in Nat /\ n \in Nat /\ Len(q) \in Nat /\ DOMAIN q = 1..Len(q)
        /\ \A k \in DOMAIN p : k \in Nat /\ m + k - 1 \in m..n /\ p[k] = q[m + k - 1]
    BY SubSeqProperties
  <1> HIDE DEF p
  <1>2. \A k \in m..n : k \in DOMAIN q
    BY <1>1
  <1>3. ASSUME NEW a \in DOMAIN p, NEW b \in DOMAIN p, p[a] = p[b] PROVE a = b
    <2>1. m + a - 1 = m + b - 1
      BY <1>1, <1>2, <1>3 DEF IsInjective
    <2> QED
      BY <1>1, <2>1
  <1>4. IsInjective(p)
    BY <1>3 DEF IsInjective
  <1> QED
    BY <1>1, <1>4 DEF p

(* What is removed is gone, and nothing else is said of it. *)
LEMMA RemovedOnce ==
  ASSUME NEW S, NEW q \in Seq(S), IsInjective(q), NEW s
  PROVE  RemoveFirst(q, s) \in Seq(S) /\ IsInjective(RemoveFirst(q, s))
  <1> DEFINE places == {i \in 1..Len(q) : q[i] = s}
  <1>1. CASE ~ \E i \in 1..Len(q) : q[i] = s
    BY <1>1 DEF RemoveFirst
  <1>2. CASE \E i \in 1..Len(q) : q[i] = s
    <2>1. RemoveFirst(q, s) = RemoveAt(q, Min(places))
      BY <1>2 DEF RemoveFirst, SelectInSeq
    <2>2. places \in SUBSET Nat /\ places # {}
      BY <1>2
    <2>3. Min(places) \in 1..Len(q)
      BY <2>2, MinMember
    <2> HIDE DEF places
    <2>4. PICK i \in 1..Len(q) : i = Min(places)
      BY <2>3
    <2> DEFINE front == SubSeq(q, 1, i - 1)
               back == SubSeq(q, i + 1, Len(q))
    <2>5. /\ 1 \in 1..(Len(q) + 1) /\ i - 1 \in 0..Len(q) /\ i + 1 \in 1..(Len(q) + 1)
          /\ Len(q) \in 0..Len(q)
      BY <2>4
    <2>6. /\ front \in Seq(S) /\ IsInjective(front)
          /\ \A k \in DOMAIN front : \E j \in 1..(i - 1) : front[k] = q[j]
      BY <2>5, PartOnce
    <2>7. /\ back \in Seq(S) /\ IsInjective(back)
          /\ \A k \in DOMAIN back : \E j \in (i + 1)..Len(q) : back[k] = q[j]
      <3>1. ASSUME NEW m \in 1..(Len(q) + 1)
            PROVE  /\ SubSeq(q, m, Len(q)) \in Seq(S) /\ IsInjective(SubSeq(q, m, Len(q)))
                   /\ \A k \in DOMAIN SubSeq(q, m, Len(q)) :
                        \E j \in m..Len(q) : SubSeq(q, m, Len(q))[k] = q[j]
        BY <2>5, PartOnce
      <3> QED
        BY <2>5, <3>1
    <2>8. \A k \in 1..(i - 1), j \in (i + 1)..Len(q) : k \in DOMAIN q /\ j \in DOMAIN q /\ k # j
      BY <2>4
    <2>9. \A k \in 1..(i - 1), j \in (i + 1)..Len(q) : q[k] # q[j]
      BY <2>8 DEF IsInjective
    <2> HIDE DEF front, back
    <2>10. \A m \in DOMAIN front, n \in DOMAIN back : front[m] # back[n]
      BY <2>6, <2>7, <2>9
    <2>11. RemoveAt(q, i) = front \o back
      BY DEF RemoveAt, front, back
    <2> QED
      BY <2>1, <2>4, <2>6, <2>7, <2>10, <2>11, JoinedOnce
  <1> QED
    BY <1>1, <1>2

-----------------------------------------------------------------------------
(***************************************************************************)
(* The choice of an entry.                                                 *)
(***************************************************************************)
EntriesTyped ==
  /\ queue \in Seq(Slots) /\ IsInjective(queue)
  /\ age \in [Slots -> 0..StarvationWait] /\ held \subseteq Slots
SettingsTyped ==
  /\ policy \in Policies \cup {DefaultPolicy} /\ paused \subseteq Pausable
  /\ size \in LotSizes \cup {1} /\ idle \in BOOLEAN
  /\ daemon \in {"up", "draining", "down"}
  /\ filter \subseteq Sessions /\ events \in 0..MaxEvents

(* Scores are numbers. *)
LEMMA ScoreTyped ==
  ASSUME EntriesTyped, SettingsTyped, NEW s \in Slots
  PROVE  Score(s) \in Int
  <1>1. policy \in [Sessions -> Int] /\ SessionOf[s] \in Sessions
    BY LotsAssumption DEF SettingsTyped, DefaultPolicy
  <1>2. age[s] \in Nat /\ AgingLimit \in Nat
    BY LotsAssumption DEF EntriesTyped
  <1>3. policy[SessionOf[s]] \in Int
    BY <1>1
  <1> QED
    BY <1>2, <1>3 DEF Score

(* Some candidate has the highest score: the one with the fewest better    *)
(* ones has none.                                                          *)
LEMMA BestThereIs ==
  ASSUME EntriesTyped, SettingsTyped, NEW scope, Candidates(scope) # {}
  PROVE  Best(scope) # {}
  <1> DEFINE C == Candidates(scope)
             better(c) == {t \in C : Score(t) > Score(c)}
             T == {better(c) : c \in C}
  <1>1. C \in SUBSET Slots /\ IsFiniteSet(C)
    BY LotsAssumption, FS_Subset DEF Candidates
  <1>2. \A t \in C : Score(t) \in Int
    BY <1>1, ScoreTyped
  <1> HIDE DEF C
  <1>3. \A c \in C : better(c) \in SUBSET C /\ IsFiniteSet(better(c))
    BY <1>1, FS_Subset
  <1>4. PICK x \in T : \A y \in T : y \subseteq x => y = x
    <2>1. T # {} /\ \A x \in T : x \in SUBSET C /\ IsFiniteSet(x)
      BY <1>3 DEF C
    <2> HIDE DEF T
    <2> QED
      BY <2>1, SmallestSubset
  <1>5. PICK c \in C : x = better(c)
    BY <1>4
  <1>6. ASSUME NEW t \in C, Score(t) > Score(c) PROVE FALSE
    <2>1. Score(t) \in Int /\ Score(c) \in Int
      BY <1>2
    <2>2. \A u \in C : Score(u) > Score(t) => Score(u) > Score(c)
      BY <1>2, <1>6, <2>1
    <2>3. better(t) \subseteq better(c) /\ t \in better(c) /\ t \notin better(t)
      BY <1>6, <2>1, <2>2
    <2> QED
      BY <1>4, <1>5, <2>3
  <1>7. \A t \in C : Score(t) <= Score(c)
    BY <1>2, <1>6
  <1> QED
    BY <1>7 DEF Best, C

(* What is selected is a candidate: it waits in the queue or has lapsed,   *)
(* and no run of its role is acquired.                                     *)
LEMMA SelectedIsCandidate ==
  ASSUME EntriesTyped, SettingsTyped, NEW scope, Candidates(scope) # {}
  PROVE  Selected(scope) \in Candidates(scope)
  <1>1. ASSUME NEW S, S # {}, S \subseteq Candidates(scope)
        PROVE  Oldest(S) \in S
    <2> DEFINE places == {n \in DOMAIN queue : queue[n] \in S}
    <2>1. places \in SUBSET Nat
      BY DEF EntriesTyped
    <2>2. S \in SUBSET Nat
      BY <1>1, LotsAssumption DEF Candidates
    <2>3. CASE places # {}
      <3>1. Min(places) \in places
        BY <2>1, <2>3, MinMember
      <3> QED
        BY <2>3, <3>1 DEF Oldest
    <2>4. CASE places = {}
      BY <1>1, <2>2, <2>4, MinMember DEF Oldest
    <2> QED
      BY <2>3, <2>4
  <1>2. Starved(scope) \subseteq Candidates(scope) /\ Best(scope) \subseteq Candidates(scope)
    BY DEF Starved, Best
  <1> QED
    BY <1>1, <1>2, BestThereIs DEF Selected


(* A sequence of members of a subset. *)
LEMMA Widened ==
  ASSUME NEW T, NEW S \in SUBSET T, NEW q \in Seq(S)
  PROVE  q \in Seq(T) /\ \A n \in DOMAIN q : q[n] \in S
  <1>1. q \in [1..Len(q) -> S] /\ Len(q) \in Nat /\ DOMAIN q = 1..Len(q)
    OBVIOUS
  <1>2. q \in [1..Len(q) -> T]
    BY <1>1
  <1> QED
    BY <1>1, <1>2

(* A set of places of a sequence has at most as many as there are. *)
LEMMA PlacesBound ==
  ASSUME NEW n \in Nat, NEW P \in SUBSET (1..n)
  PROVE  Cardinality(P) \in 0..n
  <1>1. IsFiniteSet(1..n) /\ Cardinality(1..n) = n
    BY FS_Interval
  <1>2. IsFiniteSet(P) /\ Cardinality(P) <= n
    BY <1>1, FS_Subset
  <1>3. Cardinality(P) \in Nat
    BY <1>2, FS_CardinalityType
  <1> QED
    BY <1>2, <1>3

(* Something that is not in a sequence may be put in anywhere. *)
LEMMA InsertedOnce ==
  ASSUME NEW S, NEW q \in Seq(S), IsInjective(q), NEW k \in 0..Len(q),
         NEW middle \in Seq(S), IsInjective(middle),
         \A i \in DOMAIN q, j \in DOMAIN middle : q[i] # middle[j]
  PROVE  /\ SubSeq(q, 1, k) \o middle \o SubSeq(q, k + 1, Len(q)) \in Seq(S)
         /\ IsInjective(SubSeq(q, 1, k) \o middle \o SubSeq(q, k + 1, Len(q)))
  <1> DEFINE front == SubSeq(q, 1, k)
             back == SubSeq(q, k + 1, Len(q))
  <1>1. Len(q) \in Nat /\ DOMAIN q = 1..Len(q) /\ k \in Nat
    OBVIOUS
  <1>2. /\ 1 \in 1..(Len(q) + 1) /\ k + 1 \in 1..(Len(q) + 1) /\ Len(q) \in 0..Len(q)
    BY <1>1
  <1>3. ASSUME NEW m \in 1..(Len(q) + 1), NEW n \in 0..Len(q)
        PROVE  /\ SubSeq(q, m, n) \in Seq(S) /\ IsInjective(SubSeq(q, m, n))
               /\ \A i \in DOMAIN SubSeq(q, m, n) : \E j \in m..n : SubSeq(q, m, n)[i] = q[j]
    BY PartOnce
  <1>4. /\ front \in Seq(S) /\ IsInjective(front)
        /\ \A i \in DOMAIN front : \E j \in 1..k : front[i] = q[j]
    BY <1>2, <1>3
  <1>5. /\ back \in Seq(S) /\ IsInjective(back)
        /\ \A i \in DOMAIN back : \E j \in (k + 1)..Len(q) : back[i] = q[j]
    BY <1>2, <1>3
  <1> HIDE DEF front, back
  <1>6. \A i \in 1..k, j \in (k + 1)..Len(q) : i \in DOMAIN q /\ j \in DOMAIN q /\ i # j
    BY <1>1
  <1>7. \A i \in 1..k, j \in (k + 1)..Len(q) : q[i] # q[j]
    BY <1>6 DEF IsInjective
  <1>8. /\ \A i \in 1..k : i \in DOMAIN q
        /\ \A j \in (k + 1)..Len(q) : j \in DOMAIN q
    BY <1>1
  <1>9. front \o middle \in Seq(S) /\ IsInjective(front \o middle)
    <2>1. \A i \in DOMAIN front, j \in DOMAIN middle : front[i] # middle[j]
      BY <1>4, <1>8
    <2> QED
      BY <1>4, <2>1, JoinedOnce
  <1>10. \A i \in DOMAIN (front \o middle), j \in DOMAIN back : (front \o middle)[i] # back[j]
    <2> TAKE i \in DOMAIN (front \o middle), j \in DOMAIN back
    <2>1. \/ i \in DOMAIN front /\ (front \o middle)[i] = front[i]
          \/ i - Len(front) \in DOMAIN middle /\ (front \o middle)[i] = middle[i - Len(front)]
      BY <1>4
    <2>2. \A n \in DOMAIN front : front[n] # back[j]
      BY <1>4, <1>5, <1>7
    <2>3. \A n \in DOMAIN middle : middle[n] # back[j]
      BY <1>5, <1>8
    <2> QED
      BY <2>1, <2>2, <2>3
  <1>11. (front \o middle) \o back \in Seq(S) /\ IsInjective((front \o middle) \o back)
    BY <1>5, <1>9, <1>10, JoinedOnce
  <1> QED
    BY <1>11 DEF front, back

-----------------------------------------------------------------------------
(***************************************************************************)
(* Leases.                                                                 *)
(***************************************************************************)
LeasesTyped ==
  /\ leased \subseteq Slots /\ lapsed \subseteq Abandoned
  /\ lot \in [AllLots -> LotStates] /\ slot \in [AllLots -> Slots \cup {NoSlot}]
  /\ \A l \in AllLots : IF Running(l) THEN slot[l] \in leased ELSE slot[l] = NoSlot
(* No two running lots have the same slot. *)
Exclusive ==
  \A k, l \in AllLots : Running(k) /\ Running(l) /\ slot[k] = slot[l] => k = l
(* The inductive invariant. *)
LotsInv == EntriesTyped /\ SettingsTyped /\ LeasesTyped /\ Exclusive

LEMMA TypesTogether == TypeOK <=> EntriesTyped /\ SettingsTyped /\ LeasesTyped
  BY DEF TypeOK, EntriesTyped, SettingsTyped, LeasesTyped

(* Making slots ready keeps the queue well formed. *)
LEMMA EnqueuedOnce ==
  ASSUME EntriesTyped, NEW S \in SUBSET Slots
  PROVE  Enqueued(S) \in Seq(Slots) /\ IsInjective(Enqueued(S))
  <1> DEFINE new == {s \in S : ~Queued(s)}
  <1>1. new \in SUBSET Slots /\ new \in SUBSET Nat /\ IsFiniteSet(new)
    BY LotsAssumption, FS_Subset
  <1>2. \A m \in DOMAIN queue : queue[m] \notin new
    BY DEF EntriesTyped, Queued, Contains
  <1> HIDE DEF new
  <1>3. InOrder(new) \in Seq(new) /\ IsInjective(InOrder(new))
    BY <1>1, Ordered
  <1>4. InOrder(new) \in Seq(Slots) /\ \A n \in DOMAIN InOrder(new) : InOrder(new)[n] \in new
    BY <1>1, <1>3, Widened
  <1>5. \A m \in DOMAIN queue, n \in DOMAIN InOrder(new) : queue[m] # InOrder(new)[n]
    BY <1>2, <1>4
  <1>6. queue \o InOrder(new) \in Seq(Slots) /\ IsInjective(queue \o InOrder(new))
    BY <1>3, <1>4, <1>5, JoinedOnce DEF EntriesTyped
  <1> QED
    BY <1>6 DEF Enqueued, new

(* The queue a daemon starts with: what was recovered comes between the    *)
(* older and the newer entries.                                            *)
LEMMA RecoveredOnce ==
  ASSUME EntriesTyped, LeasesTyped, NEW n \in LotSizes, NEW a \in 0..StarvationWait,
         DaemonStarts(n, a)
  PROVE  queue' \in Seq(Slots) /\ IsInjective(queue')
  <1> DEFINE recovered == {s \in leased : ~Queued(s)}
             places == {k \in DOMAIN queue : age[queue[k]] > a}
             older == Cardinality(places)
  <1>1. queue' = SubSeq(queue, 1, older) \o InOrder(recovered) \o SubSeq(queue, older + 1, Len(queue))
    BY DEF DaemonStarts
  <1>2. queue \in Seq(Slots) /\ IsInjective(queue) /\ Len(queue) \in Nat /\ DOMAIN queue = 1..Len(queue)
    BY DEF EntriesTyped
  <1>3. older \in 0..Len(queue)
    <2>1. places \in SUBSET (1..Len(queue))
      BY <1>2
    <2> HIDE DEF places
    <2> QED
      BY <1>2, <2>1, PlacesBound
  <1> HIDE DEF older
  <1>4. recovered \in SUBSET Slots /\ recovered \in SUBSET Nat /\ IsFiniteSet(recovered)
    BY LotsAssumption, FS_Subset DEF LeasesTyped
  <1>5. \A j \in DOMAIN queue : queue[j] \notin recovered
    BY <1>2 DEF Queued, Contains
  <1> HIDE DEF recovered
  <1>6. InOrder(recovered) \in Seq(recovered) /\ IsInjective(InOrder(recovered))
    BY <1>4, Ordered
  <1>7. InOrder(recovered) \in Seq(Slots)
        /\ \A j \in DOMAIN InOrder(recovered) : InOrder(recovered)[j] \in recovered
    BY <1>4, <1>6, Widened
  <1>8. \A i \in DOMAIN queue, j \in DOMAIN InOrder(recovered) : queue[i] # InOrder(recovered)[j]
    BY <1>5, <1>7
  <1> QED
    BY <1>1, <1>2, <1>3, <1>6, <1>7, <1>8, InsertedOnce

(* Of a running lot, its slot is leased and has not lapsed. *)
LEMMA RunningLots ==
  ASSUME LotsInv
  PROVE  /\ \A l \in AllLots : Running(l) => slot[l] \in Acquired /\ slot[l] \in Slots
         /\ \A l \in AllLots : ~Running(l) => slot[l] = NoSlot
         /\ lapsed \subseteq leased /\ leased \subseteq Slots /\ NoSlot \notin Slots
  BY LotsAssumption DEF LotsInv, LeasesTyped, Abandoned, LotsOf, Acquired, NoSlot

(* A step in which no run begins: those that go on keep their slots, and   *)
(* those slots stay acquired.                                              *)
LEMMA NoRunBegins ==
  ASSUME LotsInv, lot' \in [AllLots -> LotStates], slot' \in [AllLots -> Slots \cup {NoSlot}],
         leased' \subseteq Slots, lapsed' \subseteq leased',
         \A l \in AllLots : IF lot'[l] = "running"
                            THEN Running(l) /\ slot'[l] = slot[l] /\ slot[l] \in leased' \ lapsed'
                            ELSE slot'[l] = NoSlot
  PROVE  LeasesTyped' /\ Exclusive'
  <1>1. \A l \in AllLots : Running(l)' => slot'[l] \in leased' \ lapsed'
    BY DEF Running
  <1>2. lapsed' \subseteq Abandoned'
    BY <1>1 DEF Abandoned, LotsOf
  <1>3. \A l \in AllLots : IF Running(l)' THEN slot'[l] \in leased' ELSE slot'[l] = NoSlot
    BY DEF Running
  <1>4. LeasesTyped'
    BY <1>2, <1>3 DEF LeasesTyped
  <1>5. Exclusive'
    BY DEF LotsInv, Exclusive, Running
  <1> QED
    BY <1>4, <1>5

(* A lease takes a slot that is not acquired. *)
LEMMA LeaseKeeps ==
  ASSUME LotsInv, NEW l \in AllLots, Lease(l)
  PROVE  EntriesTyped' /\ LeasesTyped' /\ Exclusive'
  <1> DEFINE s == Selected(Scope(l))
  <1>1. s \in Slots /\ s \notin Acquired
    <2>1. s \in Candidates(Scope(l))
      BY SelectedIsCandidate DEF Lease, LotsInv
    <2> QED
      BY <2>1 DEF Candidates, Available
  <1>2. /\ queue' = RemoveFirst(Enqueued(lapsed), s) /\ age' = [age EXCEPT ![s] = 0] /\ held' = held
        /\ leased' = Acquired \cup {s} /\ lapsed' = {}
        /\ slot' = [slot EXCEPT ![l] = s] /\ lot' = [lot EXCEPT ![l] = "running"]
    BY DEF Lease
  <1> HIDE DEF s
  <1>3. /\ lot \in [AllLots -> LotStates] /\ slot \in [AllLots -> Slots \cup {NoSlot}]
        /\ lapsed \in SUBSET Slots /\ Acquired \subseteq Slots
    BY RunningLots DEF LotsInv, LeasesTyped, Acquired
  <1>4. EntriesTyped'
    <2>1. Enqueued(lapsed) \in Seq(Slots) /\ IsInjective(Enqueued(lapsed))
      BY <1>3, EnqueuedOnce DEF LotsInv
    <2>2. queue' \in Seq(Slots) /\ IsInjective(queue')
      BY <1>2, <2>1, RemovedOnce
    <2>3. 0 \in 0..StarvationWait
      BY LotsAssumption
    <2>4. age' \in [Slots -> 0..StarvationWait] /\ held' \subseteq Slots
      BY <1>2, <2>3 DEF LotsInv, EntriesTyped
    <2> QED
      BY <2>2, <2>4 DEF EntriesTyped
  <1>5. /\ slot'[l] = s /\ lot'[l] = "running"
        /\ \A k \in AllLots : k # l => slot'[k] = slot[k] /\ lot'[k] = lot[k]
    BY <1>2, <1>3
  <1>6. \A k \in AllLots : k # l /\ Running(k)' => slot'[k] \in Acquired /\ slot'[k] # s
    BY <1>1, <1>5, RunningLots DEF Running
  <1>7. \A k \in AllLots : IF Running(k)' THEN slot'[k] \in leased' ELSE slot'[k] = NoSlot
    BY <1>2, <1>5, <1>6, RunningLots DEF Running
  <1>8. LeasesTyped'
    <2>1. leased' \subseteq Slots /\ lapsed' \subseteq Abandoned'
      BY <1>1, <1>2, <1>3
    <2>2. lot' \in [AllLots -> LotStates] /\ slot' \in [AllLots -> Slots \cup {NoSlot}]
      BY <1>1, <1>2, <1>3 DEF LotStates
    <2> QED
      BY <1>7, <2>1, <2>2 DEF LeasesTyped
  <1>9. Exclusive'
    <2> SUFFICES ASSUME NEW j \in AllLots, NEW k \in AllLots, Running(j)', Running(k)',
                        slot'[j] = slot'[k]
                 PROVE  j = k
      BY DEF Exclusive
    <2>1. CASE j = l \/ k = l
      BY <1>5, <1>6, <2>1
    <2>2. CASE j # l /\ k # l
      BY <1>5, <2>2 DEF LotsInv, Exclusive, Running
    <2> QED
      BY <2>1, <2>2
  <1> QED
    BY <1>4, <1>8, <1>9

(* A run that ends, in whichever way, gives its own slot back and no       *)
(* other's.                                                                *)
LEMMA EndKeeps ==
  ASSUME LotsInv, NEW l \in AllLots, Running(l), NEW state \in LotStates \ {"running"},
         lot' = [lot EXCEPT ![l] = state], slot' = [slot EXCEPT ![l] = NoSlot],
         leased' \in {leased, leased \ {slot[l]}}, lapsed' = lapsed
  PROVE  LeasesTyped' /\ Exclusive'
  <1>1. lot \in [AllLots -> LotStates] /\ slot \in [AllLots -> Slots \cup {NoSlot}]
    BY DEF LotsInv, LeasesTyped
  <1>2. lot' \in [AllLots -> LotStates] /\ slot' \in [AllLots -> Slots \cup {NoSlot}]
    BY <1>1
  <1>3. /\ lot'[l] = state /\ slot'[l] = NoSlot
        /\ \A k \in AllLots : k # l => slot'[k] = slot[k] /\ lot'[k] = lot[k]
    BY <1>1
  <1>4. leased' \subseteq Slots /\ lapsed' \subseteq leased'
    BY RunningLots DEF Acquired
  <1>5. \A k \in AllLots : k # l /\ Running(k) => slot[k] \in leased' \ lapsed'
    BY RunningLots DEF Acquired, LotsInv, Exclusive
  <1>6. \A k \in AllLots : IF lot'[k] = "running"
                           THEN Running(k) /\ slot'[k] = slot[k] /\ slot[k] \in leased' \ lapsed'
                           ELSE slot'[k] = NoSlot
    BY <1>3, <1>5, RunningLots DEF Running
  <1> QED
    BY <1>2, <1>4, <1>6, NoRunBegins

(* A step that changes only what lots that do not run are doing. *)
LEMMA OthersKeep ==
  ASSUME LotsInv, UNCHANGED <<leases, slot>>, lot' \in [AllLots -> LotStates],
         \A l \in AllLots : lot'[l] = "running" <=> lot[l] = "running"
  PROVE  LeasesTyped' /\ Exclusive'
  <1>1. leased' = leased /\ lapsed' = lapsed /\ slot' = slot
    BY DEF leases
  <1>2. \A l \in AllLots : IF lot'[l] = "running"
                           THEN Running(l) /\ slot'[l] = slot[l] /\ slot[l] \in leased' \ lapsed'
                           ELSE slot'[l] = NoSlot
    BY <1>1, RunningLots DEF Running, Acquired
  <1> QED
    BY <1>1, <1>2, RunningLots, NoRunBegins DEF LotsInv, LeasesTyped

(* Everything begins empty and idle. *)
LEMMA LotsInit == Init => LotsInv
  <1> SUFFICES ASSUME Init PROVE LotsInv
    OBVIOUS
  <1>1. EntriesTyped
    <2>1. 0 \in 0..StarvationWait
      BY LotsAssumption
    <2>2. age = [s \in Slots |-> 0] /\ queue = <<>> /\ held = {}
      BY DEF Init
    <2> QED
      BY <2>1, <2>2 DEF EntriesTyped, IsInjective
  <1>2. SettingsTyped
    <2>1. 0 \in 0..MaxEvents
      BY LotsAssumption
    <2> QED
      BY <2>1 DEF Init, SettingsTyped
  <1>3. LeasesTyped /\ Exclusive
    BY DEF Init, LeasesTyped, Exclusive, Running, LotStates
  <1> QED
    BY <1>1, <1>2, <1>3 DEF LotsInv

(* Every step keeps the settings typed. *)
LEMMA SettingsNext == LotsInv /\ [Next]_vars => SettingsTyped'
  <1> SUFFICES ASSUME LotsInv, [Next]_vars PROVE SettingsTyped'
    OBVIOUS
  <1> USE LotsAssumption DEF LotsInv, SettingsTyped
  <1>0. \A n \in 0..MaxEvents : n < MaxEvents => n + 1 \in 0..MaxEvents
    OBVIOUS
  <1>1. CASE UNCHANGED vars
    BY <1>1 DEF vars, settings
  <1>2. CASE EntryStep
    BY <1>0, <1>2 DEF EntryStep, Ready, Refreshed, Withdrawn, Tick, settings, Spend
  <1>3. ASSUME NEW l \in AllLots, DispatchOnce(l) PROVE SettingsTyped'
    BY <1>3 DEF DispatchOnce, Lease, LeaseRaises, NothingToLease, Commit, CommitViolation, settings
  <1>4. ASSUME NEW l \in AllLots, LotRaises(l) PROVE SettingsTyped'
    BY <1>0, <1>4 DEF LotRaises, settings, Spend
  <1>5. ASSUME NEW s \in Slots, LeaseLapses(s) PROVE SettingsTyped'
    BY <1>5 DEF LeaseLapses, settings
  <1>6. CASE DaemonStep
    <2>1. idle' \in BOOLEAN
      BY <1>6, Zenon DEF DaemonStep, Cycle, DaemonEnds, DaemonDrained, DaemonCrashes, DaemonStarts, Progress
    <2> QED
      BY <1>0, <1>6, <2>1 DEF DaemonStep, Cycle, DaemonEnds, DaemonDrained, DaemonCrashes, DaemonStarts,
                              settings, Spend
  <1>7. CASE WorkerStep
    BY <1>0, <1>7 DEF WorkerStep, Discard, WorkerStarts, WorkerRepeats, WorkerEnds, settings, Spend
  <1>8. CASE AdminStep
    BY <1>0, <1>8 DEF AdminStep, SetSchedulingPolicy, SetDispatchLotSize, SetUnitActive, Spend
  <1> QED
    BY <1>1, <1>2, <1>3, <1>4, <1>5, <1>6, <1>7, <1>8 DEF Next

(* So it does the entries: one for each slot at most. *)
LEMMA EntriesNext == LotsInv /\ [Next]_vars => EntriesTyped'
  <1> SUFFICES ASSUME LotsInv, [Next]_vars PROVE EntriesTyped'
    OBVIOUS
  <1>0. /\ queue \in Seq(Slots) /\ IsInjective(queue)
        /\ age \in [Slots -> 0..StarvationWait] /\ held \subseteq Slots
        /\ lapsed \in SUBSET Slots /\ 0 \in 0..StarvationWait
    BY RunningLots, LotsAssumption DEF LotsInv, EntriesTyped
  <1>1. ASSUME UNCHANGED entries PROVE EntriesTyped'
    BY <1>0, <1>1 DEF entries, EntriesTyped
  <1>2. CASE UNCHANGED vars
    BY <1>1, <1>2 DEF vars
  <1>3. CASE EntryStep
    <2>1. ASSUME NEW s \in Slots, Ready(s) PROVE EntriesTyped'
      <3> DEFINE one == <<s>>
      <3>1. queue' = queue \o one /\ age' = age /\ held' = held
        BY <1>0, <2>1 DEF Ready
      <3>2. one \in Seq(Slots) /\ IsInjective(one) /\ \A n \in DOMAIN one : one[n] = s
        BY DEF IsInjective
      <3>3. \A m \in DOMAIN queue : queue[m] # s
        BY <1>0, <2>1 DEF Ready, Queued, Contains
      <3> HIDE DEF one
      <3>4. queue' \in Seq(Slots) /\ IsInjective(queue')
        BY <1>0, <3>1, <3>2, <3>3, JoinedOnce
      <3> QED
        BY <1>0, <3>1, <3>4 DEF EntriesTyped
    <2>2. ASSUME NEW s \in Slots, Refreshed(s) PROVE EntriesTyped'
      BY <1>0, <2>2 DEF Refreshed, EntriesTyped
    <2>3. ASSUME NEW s \in Slots, Withdrawn(s) PROVE EntriesTyped'
      <3>1. queue' \in Seq(Slots) /\ IsInjective(queue')
        BY <1>0, <2>3, RemovedOnce DEF Withdrawn
      <3> QED
        BY <1>0, <2>3, <3>1 DEF Withdrawn, EntriesTyped
    <2>4. ASSUME Tick PROVE EntriesTyped'
      <3>1. \A s \in Slots : age[s] < StarvationWait => age[s] + 1 \in 0..StarvationWait
        BY <1>0, LotsAssumption
      <3>2. age' \in [Slots -> 0..StarvationWait]
        BY <1>0, <2>4, <3>1 DEF Tick
      <3> QED
        BY <1>0, <2>4, <3>2 DEF Tick, EntriesTyped
    <2> QED
      BY <1>3, <2>1, <2>2, <2>3, <2>4 DEF EntryStep
  <1>4. ASSUME NEW l \in AllLots, DispatchOnce(l) PROVE EntriesTyped'
    <2>1. CASE Lease(l)
      BY <2>1, LeaseKeeps
    <2>2. CASE LeaseRaises(l) \/ Commit(l)
      BY <1>1, <2>2 DEF LeaseRaises, Commit
    <2>3. CASE NothingToLease(l)
      <3>1. queue' = Enqueued(lapsed) /\ age' = age /\ held' = held
        BY <2>3 DEF NothingToLease
      <3>2. queue' \in Seq(Slots) /\ IsInjective(queue')
        BY <1>0, <3>1, EnqueuedOnce DEF LotsInv
      <3> QED
        BY <1>0, <3>1, <3>2 DEF EntriesTyped
    <2>4. ASSUME NEW g \in Slots, CommitViolation(l, g) PROVE EntriesTyped'
      <3>1. queue' = Enqueued({g}) /\ age' = age /\ held' \subseteq Slots
        BY <1>0, <2>4 DEF CommitViolation
      <3>2. {g} \in SUBSET Slots
        OBVIOUS
      <3>3. queue' \in Seq(Slots) /\ IsInjective(queue')
        BY <3>1, <3>2, EnqueuedOnce DEF LotsInv
      <3> QED
        BY <1>0, <3>1, <3>3 DEF EntriesTyped
    <2> QED
      BY <1>4, <2>1, <2>2, <2>3, <2>4 DEF DispatchOnce
  <1>5. ASSUME NEW l \in AllLots, LotRaises(l) PROVE EntriesTyped'
    BY <1>1, <1>5 DEF LotRaises
  <1>6. ASSUME NEW s \in Slots, LeaseLapses(s) PROVE EntriesTyped'
    BY <1>1, <1>6 DEF LeaseLapses
  <1>7. CASE DaemonStep
    <2>1. CASE Cycle \/ DaemonEnds \/ DaemonDrained \/ DaemonCrashes
      BY <1>1, <2>1 DEF Cycle, DaemonEnds, DaemonDrained, DaemonCrashes
    <2>2. ASSUME NEW n \in LotSizes, NEW a \in 0..StarvationWait, DaemonStarts(n, a)
          PROVE  EntriesTyped'
      <3>1. queue' \in Seq(Slots) /\ IsInjective(queue')
        BY <2>2, RecoveredOnce DEF LotsInv
      <3>2. age' \in [Slots -> 0..StarvationWait] /\ held' = held
        BY <1>0, <2>2 DEF DaemonStarts
      <3> QED
        BY <1>0, <3>1, <3>2 DEF EntriesTyped
    <2> QED
      BY <1>7, <2>1, <2>2 DEF DaemonStep
  <1>8. CASE WorkerStep
    BY <1>1, <1>8 DEF WorkerStep, Discard, WorkerStarts, WorkerRepeats, WorkerEnds
  <1>9. CASE AdminStep
    BY <1>1, <1>9 DEF AdminStep, SetSchedulingPolicy, SetDispatchLotSize, SetUnitActive
  <1> QED
    BY <1>2, <1>3, <1>4, <1>5, <1>6, <1>7, <1>8, <1>9 DEF Next

(* And the leases: a running lot has one, and no other lot has the same. *)
LEMMA LeasesNext == LotsInv /\ [Next]_vars => LeasesTyped' /\ Exclusive'
  <1> SUFFICES ASSUME LotsInv, [Next]_vars PROVE LeasesTyped' /\ Exclusive'
    OBVIOUS
  <1>0. /\ lot \in [AllLots -> LotStates] /\ slot \in [AllLots -> Slots \cup {NoSlot}]
        /\ Worker \in AllLots
    BY DEF LotsInv, LeasesTyped, AllLots
  <1>1. ASSUME UNCHANGED <<leases, lot, slot>> PROVE LeasesTyped' /\ Exclusive'
    <2>1. UNCHANGED <<leases, slot>> /\ lot' = lot
      BY <1>1
    <2> QED
      BY <1>0, <2>1, OthersKeep
  <1>2. CASE UNCHANGED vars
    BY <1>1, <1>2 DEF vars
  <1>3. CASE EntryStep
    BY <1>1, <1>3 DEF EntryStep, Ready, Refreshed, Withdrawn, Tick
  <1>4. ASSUME NEW l \in AllLots, DispatchOnce(l) PROVE LeasesTyped' /\ Exclusive'
    <2>1. CASE Lease(l)
      BY <2>1, LeaseKeeps
    <2>2. CASE LeaseRaises(l)
      BY <1>0, <2>2, OthersKeep DEF LeaseRaises, LotStates
    <2>3. CASE NothingToLease(l)
      <3>1. /\ lot' = [lot EXCEPT ![l] = "nothing"] /\ lot[l] = "submitted" /\ slot' = slot
            /\ leased' = Acquired /\ lapsed' = {}
        BY <2>3 DEF NothingToLease
      <3>2. lot' \in [AllLots -> LotStates] /\ Acquired \subseteq Slots
        BY <1>0, <3>1, RunningLots DEF LotStates, Acquired
      <3>3. \A k \in AllLots : lot'[k] = "running" <=> Running(k)
        BY <1>0, <3>1 DEF Running
      <3>4. \A k \in AllLots : IF lot'[k] = "running"
                               THEN Running(k) /\ slot'[k] = slot[k] /\ slot[k] \in leased' \ lapsed'
                               ELSE slot'[k] = NoSlot
        BY <3>1, <3>3, RunningLots
      <3> QED
        BY <1>0, <3>1, <3>2, <3>4, NoRunBegins
    <2>4. CASE Commit(l)
      BY <2>4, EndKeeps DEF Commit, LotStates
    <2>5. ASSUME NEW g \in Slots, CommitViolation(l, g) PROVE LeasesTyped' /\ Exclusive'
      BY <2>5, EndKeeps DEF CommitViolation, LotStates
    <2> QED
      BY <1>4, <2>1, <2>2, <2>3, <2>4, <2>5 DEF DispatchOnce
  <1>5. ASSUME NEW l \in AllLots, LotRaises(l) PROVE LeasesTyped' /\ Exclusive'
    BY <1>5, EndKeeps DEF LotRaises, LotStates, leases
  <1>6. ASSUME NEW s \in Slots, LeaseLapses(s) PROVE LeasesTyped' /\ Exclusive'
    <2>1. lapsed' = lapsed \cup {s} /\ leased' = leased /\ lot' = lot /\ slot' = slot
      BY <1>6 DEF LeaseLapses
    <2>2. s \in leased /\ \A l \in AllLots : Running(l) => slot[l] # s
      BY <1>6 DEF LeaseLapses, Abandoned, LotsOf
    <2>3. \A l \in AllLots : IF lot'[l] = "running"
                             THEN Running(l) /\ slot'[l] = slot[l] /\ slot[l] \in leased' \ lapsed'
                             ELSE slot'[l] = NoSlot
      BY <2>1, <2>2, RunningLots DEF Running, Acquired
    <2> QED
      BY <1>0, <2>1, <2>2, <2>3, RunningLots, NoRunBegins
  <1>7. CASE DaemonStep
    <2>0. /\ Collected \in [AllLots -> LotStates]
          /\ \A l \in AllLots : Collected[l] = "running" <=> lot[l] = "running"
      BY <1>0 DEF Collected, Finished, LotStates
    <2>1. CASE Cycle
      <3>1. \A l \in Submitted : l \in DaemonLots => lot[l] # "running"
        BY DEF Submitted, Finished
      <3>2. Submitted \subseteq DaemonLots
        <4>1. TargetLots \in Int /\ TargetLots <= LotCap /\ LotCap \in Nat
          BY LotsAssumption DEF TargetLots, LotsInv, SettingsTyped
        <4>2. 1..TargetLots \subseteq 1..LotCap
          BY <4>1
        <4> QED
          BY <4>2 DEF Submitted, DaemonLots
      <3>3. lot' = [l \in AllLots |-> IF l \in Submitted THEN "submitted" ELSE Collected[l]]
            /\ UNCHANGED <<leases, slot>>
        BY <2>1 DEF Cycle
      <3>4. lot' \in [AllLots -> LotStates]
        BY <2>0, <3>3 DEF LotStates
      <3>5. \A l \in AllLots : lot'[l] = "running" <=> lot[l] = "running"
        BY <2>0, <3>1, <3>2, <3>3
      <3> QED
        BY <3>3, <3>4, <3>5, OthersKeep
    <2>2. CASE DaemonEnds
      BY <1>1, <2>2 DEF DaemonEnds
    <2>3. CASE DaemonDrained
      BY <2>0, <2>3, OthersKeep DEF DaemonDrained
    <2>4. CASE DaemonCrashes
      <3>1. /\ lot' = [l \in AllLots |-> IF l = Worker THEN lot[l] ELSE "free"]
            /\ slot' = [l \in AllLots |-> IF l = Worker THEN slot[l] ELSE NoSlot]
            /\ leased' = leased /\ lapsed' = lapsed
        BY <2>4 DEF DaemonCrashes, leases
      <3>2. lot' \in [AllLots -> LotStates] /\ slot' \in [AllLots -> Slots \cup {NoSlot}]
        BY <1>0, <3>1 DEF LotStates
      <3>3. \A k \in AllLots : IF lot'[k] = "running"
                               THEN Running(k) /\ slot'[k] = slot[k] /\ slot[k] \in leased' \ lapsed'
                               ELSE slot'[k] = NoSlot
        BY <3>1, RunningLots DEF Running, Acquired
      <3> QED
        BY <3>1, <3>2, <3>3, RunningLots, NoRunBegins
    <2>5. ASSUME NEW n \in LotSizes, NEW a \in 0..StarvationWait, DaemonStarts(n, a)
          PROVE  LeasesTyped' /\ Exclusive'
      <3>1. /\ lot' = [l \in AllLots |-> IF Running(l) THEN "superseded" ELSE lot[l]]
            /\ slot' = [l \in AllLots |-> NoSlot] /\ leased' = {} /\ lapsed' = {}
        BY <2>5 DEF DaemonStarts
      <3>2. /\ lot' \in [AllLots -> LotStates] /\ slot' \in [AllLots -> Slots \cup {NoSlot}]
            /\ \A l \in AllLots : lot'[l] # "running" /\ slot'[l] = NoSlot
        BY <1>0, <3>1 DEF LotStates, Running
      <3> QED
        BY <3>1, <3>2, NoRunBegins
    <2> QED
      BY <1>7, <2>1, <2>2, <2>3, <2>4, <2>5 DEF DaemonStep
  <1>8. CASE WorkerStep
    <2>1. UNCHANGED <<leases, slot>> /\ \E x \in LotStates \ {"running"} : lot' = [lot EXCEPT ![Worker] = x]
      BY <1>8 DEF WorkerStep, Discard, WorkerStarts, WorkerRepeats, WorkerEnds, LotStates
    <2>2. lot[Worker] # "running"
      BY <1>8 DEF WorkerStep, Discard, WorkerStarts, WorkerRepeats, WorkerEnds
    <2>3. /\ lot' \in [AllLots -> LotStates]
          /\ \A l \in AllLots : lot'[l] = "running" <=> lot[l] = "running"
      BY <1>0, <2>1, <2>2
    <2> QED
      BY <2>1, <2>3, OthersKeep
  <1>9. CASE AdminStep
    BY <1>1, <1>9 DEF AdminStep, SetSchedulingPolicy, SetDispatchLotSize, SetUnitActive
  <1> QED
    BY <1>2, <1>3, <1>4, <1>5, <1>6, <1>7, <1>8, <1>9 DEF Next

LEMMA LotsNext == LotsInv /\ [Next]_vars => LotsInv'
  BY EntriesNext, SettingsNext, LeasesNext DEF LotsInv

(* Reconciliation keeps one ready entry for each slot, whatever is made    *)
(* ready, withdrawn, leased and recovered, and a running lot holds the     *)
(* lease of its slot.                                                      *)
THEOREM LotsTyped == Spec => []TypeOK
  <1>1. LotsInv => TypeOK
    BY TypesTogether DEF LotsInv
  <1> QED
    BY <1>1, LotsInit, LotsNext, PTL DEF Spec

(* Two lots, or a lot and a command line worker, never hold the same slot: *)
(* _acquire_dispatch_lease_locked leases none that is acquired, and a      *)
(* lease lapses only when its lot is gone.                                 *)
THEOREM SlotsHeldByOne == Spec => []OneLotPerSlot
  <1>1. ASSUME LotsInv, NEW s \in Slots PROVE Cardinality(LotsOf(s)) <= 1
    <2>1. CASE LotsOf(s) = {}
      BY <2>1, FS_EmptySet
    <2>2. CASE LotsOf(s) # {}
      <3>1. PICK l \in AllLots : LotsOf(s) = {l}
        BY <1>1, <2>2 DEF LotsOf, LotsInv, Exclusive
      <3> QED
        BY <3>1, FS_Singleton
    <2> QED
      BY <2>1, <2>2
  <1>2. LotsInv => OneLotPerSlot
    BY <1>1 DEF OneLotPerSlot
  <1> QED
    BY <1>2, LotsInit, LotsNext, PTL DEF Spec
=============================================================================
