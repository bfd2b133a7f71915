----------------------- MODULE SessionLogStoreProofs -----------------------
(***************************************************************************)
(* Theorems about SessionLogStore, for every set of Sessions and every     *)
(* bound, when Store.init runs before the first writer after a crash       *)
(* (InitFirst).  Without it they do not hold: the run stale_index shows a  *)
(* writer that trusts the index a crash left behind.                       *)
(***************************************************************************)
EXTENDS SessionLogStore, FunctionTheorems, SequenceTheorems, FiniteSetTheorems,
  WellFoundedInduction, TLAPS

-----------------------------------------------------------------------------
(***************************************************************************)
(* One log, as a value: d holds the segments of a Session.                 *)
(***************************************************************************)
PlacesIn(d) == UNION {{<<x, n>> : n \in DOMAIN Whole(d[x])} : x \in DOMAIN d}
FrameIn(d, p) == d[p[1]][p[2]]
Size(d) == Cardinality(PlacesIn(d))
Scan(d) ==
  [n \in 1..Size(d) |-> FrameIn(d, CHOOSE p \in PlacesIn(d) : FrameIn(d, p).seq = n)]
Recs(d) == {FrameIn(d, p).rec : p \in PlacesIn(d)}
IndexOf(d) ==
  [latest |-> Size(d), sizes |-> [x \in DOMAIN d |-> Len(Whole(d[x]))]]

(* The seq after the last whole frame of segment x. *)
After(d, x) == x + Len(Whole(d[x]))

(* The whole frames are numbered from 1 to L, segment after segment, each  *)
(* from the number in its name.                                            *)
Layout(d, L) ==
  /\ d \in [DOMAIN d -> Seq(Frame)]
  /\ DOMAIN d \subseteq Nat \ {0}
  /\ \A x \in DOMAIN d : After(d, x) <= L + 1
  /\ \A x \in DOMAIN d : \A n \in DOMAIN Whole(d[x]) : d[x][n].seq = x + n - 1
  /\ \A x, y \in DOMAIN d : x < y => After(d, x) <= y
  /\ \A k \in 1..L : \E x \in DOMAIN d : x <= k /\ k < After(d, x)

(* No segment ends in a torn frame. *)
Clean(d) == \A x \in DOMAIN d : Whole(d[x]) = d[x]

(* A batch of the last j of L persisted entries and of k new ones, whose   *)
(* records are the last k of top.                                          *)
Numbers(b, L, j, k) == Len(b) = j + k /\ \A n \in 1..(j + k) : b[n].seq = L - j + n
Carries(b, j, k, top) == \A n \in 1..k : b[j + n].rec = top - k + n

(* The entries that a writer holds for a log it did not write yet: the     *)
(* persisted ones, all or none, and new ones, whose records are own.       *)
Queue(b, own, d, top) ==
  \E j \in {0, Size(d)}, k \in 0..MaxBatch :
    /\ b # <<>> /\ Numbers(b, Size(d), j, k) /\ Carries(b, j, k, top)
    /\ own = (top - k + 1)..top
    /\ Size(d) + k <= top /\ Recs(d) \subseteq 1..(top - k)

(* Those of a log it wrote, or does not touch. *)
Saved(b, own, d) ==
  /\ b # <<>> => b[Len(b)].seq = Size(d)
  /\ own \subseteq Recs(d)

-----------------------------------------------------------------------------
(***************************************************************************)
(* The inductive invariant.                                                *)
(***************************************************************************)
OverSessions(f) == f = [s \in Sessions |-> f[s]]
StateTyped ==
  /\ OverSessions(disk) /\ OverSessions(index) /\ OverSessions(state)
  /\ OverSessions(issued) /\ OverSessions(acked)
TxTyped ==
  /\ tx \in [batch : [Sessions -> Seq(Frame)], own : [Sessions -> SUBSET Nat],
             left : SUBSET Sessions, at : {"none"} \cup Sessions, staged : {tx.staged},
             items : SUBSET Sessions]
  /\ pc \in {"idle", "log", "frames", "index", "files"}
  /\ unrecovered \subseteq Sessions /\ crashes \in 0..MaxCrashes

Opened(s) == pc = "frames" /\ tx.at = s
Staged(s) == pc = "index" /\ tx.at = s
Unwritten(s) == s \in tx.left \/ Opened(s)

(* What is on disk, whatever happened. *)
LaidOut(s) ==
  /\ issued[s] \in 0..MaxRecords
  /\ Size(disk[s]) \in Nat /\ Layout(disk[s], Size(disk[s]))
  /\ DOMAIN disk[s] \subseteq 1..issued[s]
  /\ Size(disk[s]) <= issued[s] /\ Recs(disk[s]) \subseteq 1..issued[s]
  /\ state[s] \in 0..Size(disk[s])
  /\ acked[s] \subseteq Recs(disk[s])
  /\ index[s].latest \in 0..MaxRecords /\ DOMAIN index[s].sizes \subseteq DOMAIN disk[s]

(* The index describes a recovered log, but between the write of frames    *)
(* and that of the index: then the staged one does.                        *)
Indexed(s) ==
  /\ s \notin unrecovered => Clean(disk[s])
  /\ s \notin unrecovered /\ ~Staged(s) => index[s] = IndexOf(disk[s])
  /\ Staged(s) => tx.staged = IndexOf(disk[s])

(* What the holder of the lock has in memory fits what is on disk. *)
Held(s) ==
  /\ Unwritten(s) => Queue(tx.batch[s], tx.own[s], disk[s], issued[s])
  /\ ~Unwritten(s) => Saved(tx.batch[s], tx.own[s], disk[s])

(* A writer runs only after recovery, opens each log once, and saves items *)
(* after all logs.                                                         *)
Phases ==
  /\ pc # "idle" => unrecovered = {}
  /\ pc \in {"frames", "index"} => tx.at \notin tx.left
  /\ pc = "files" => tx.left = {}

StoreInv ==
  /\ StateTyped /\ TxTyped /\ Phases
  /\ \A s \in Sessions : LaidOut(s) /\ Indexed(s) /\ Held(s)

(***************************************************************************)
(* Least and greatest numbers.                                             *)
(***************************************************************************)
LEMMA SmallestSubset ==
  ASSUME NEW T, T # {}, \A x \in T : IsFiniteSet(x)
  PROVE  \E x \in T : \A y \in T : y \subseteq x => y = x
  <1> DEFINE C == UNION T
  <1>1. T \subseteq FiniteSubsetsOf(C)
    BY DEF FiniteSubsetsOf
  <1> HIDE DEF C
  <1>2. IsWellFoundedOn(StrictSubsetOrdering(C), FiniteSubsetsOf(C))
    BY FS_StrictSubsetOrderingWellFounded
  <1>3. PICK x \in T : \A y \in T : ~(<<y, x>> \in StrictSubsetOrdering(C))
    BY <1>1, <1>2, WFMin
  <1>4. \A y \in T : y \in SUBSET C
    BY DEF C
  <1> QED
    BY <1>3, <1>4 DEF StrictSubsetOrdering

LEMMA MinMember ==
  ASSUME NEW N \in SUBSET Nat, N # {}
  PROVE  Min(N) \in N /\ \A k \in N : Min(N) <= k
  <1> DEFINE below(n) == 0..(n - 1)
             T == {below(n) : n \in N}
  <1>1. T # {} /\ \A x \in T : IsFiniteSet(x)
    <2>1. \A n \in N : IsFiniteSet(below(n))
      BY FS_Interval
    <2> QED
      BY <2>1
  <1>2. PICK x \in T : \A y \in T : y \subseteq x => y = x
    <2> HIDE DEF T
    <2> QED
      BY <1>1, SmallestSubset
  <1>3. PICK m \in N : x = below(m)
    BY <1>2
  <1>4. ASSUME NEW k \in N, k < m PROVE FALSE
    <2>1. k \in Nat /\ m \in Nat
      OBVIOUS
    <2>2. below(k) \subseteq below(m) /\ k \in below(m) /\ k \notin below(k)
      BY <1>4, <2>1
    <2> QED
      BY <1>2, <1>3, <2>2
  <1>5. \A k \in N : m <= k
    BY <1>4
  <1> QED
    BY <1>5 DEF Min

LEMMA MaxOf ==
  ASSUME NEW N \in SUBSET Nat, NEW m \in N, \A k \in N : k <= m
  PROVE  Max(N) = m
  <1>1. \A k \in N : m >= k
    OBVIOUS
  <1>2. ASSUME NEW n \in N, \A k \in N : n >= k PROVE n = m
    BY <1>1, <1>2
  <1> QED
    BY <1>1, <1>2 DEF Max

LEMMA MaxMember ==
  ASSUME NEW N \in SUBSET Nat, N # {}, NEW top \in Nat, \A k \in N : k <= top
  PROVE  Max(N) \in N /\ \A k \in N : k <= Max(N)
  <1> DEFINE D == {n \in Nat : \E k \in N : n = top - k}
  <1>1. D \in SUBSET Nat /\ D # {}
    <2>1. PICK k \in N : TRUE
      OBVIOUS
    <2>2. k \in Nat /\ k <= top
      OBVIOUS
    <2>3. top - k \in D
      BY <2>2
    <2> QED
      BY <2>3
  <1>2. Min(D) \in D /\ \A n \in D : Min(D) <= n
    <2> HIDE DEF D
    <2> QED
      BY <1>1, MinMember
  <1>3. PICK m \in N : Min(D) = top - m
    BY <1>2
  <1>4. \A k \in N : k <= m
    <2> SUFFICES ASSUME NEW k \in N PROVE k <= m
      OBVIOUS
    <2>1. top - k \in D
      OBVIOUS
    <2>2. top - m <= top - k
      BY <1>2, <1>3, <2>1
    <2> QED
      BY <2>2
  <1> QED
    BY <1>4, MaxOf

-----------------------------------------------------------------------------
(***************************************************************************)
(* The whole part of a segment.                                            *)
(***************************************************************************)
LEMMA WholePart ==
  ASSUME NEW f \in Seq(Frame)
  PROVE  /\ Whole(f) \in Seq(Frame) /\ Len(Whole(f)) \in 0..Len(f)
         /\ \A n \in DOMAIN Whole(f) : n \in DOMAIN f /\ Whole(f)[n] = f[n]
  <1> DEFINE cuts == {n \in DOMAIN f : f[n] = Torn}
  <1>1. CASE cuts = {}
    BY <1>1 DEF Whole
  <1>2. CASE cuts # {}
    <2>1. cuts \in SUBSET Nat
      OBVIOUS
    <2>2. Min(cuts) \in cuts
      <3> HIDE DEF cuts
      <3> QED
        BY <1>2, <2>1, MinMember
    <2>3. Whole(f) = SubSeq(f, 1, Min(cuts) - 1)
      BY <1>2 DEF Whole
    <2>4. Min(cuts) \in 1..Len(f)
      BY <2>2
    <2>5. PICK m \in 1..Len(f) : m = Min(cuts)
      BY <2>4
    <2> HIDE DEF cuts
    <2> QED
      BY <2>3, <2>5, SubSeqProperties
  <1> QED
    BY <1>1, <1>2

LEMMA WholeOfSound ==
  ASSUME NEW f \in Seq(Frame), \A n \in DOMAIN f : f[n].seq # 0
  PROVE  Whole(f) = f /\ Whole(f \o <<Torn>>) = f
  <1>1. \A n \in DOMAIN f : f[n] # Torn
    BY DEF Torn
  <1>2. Whole(f) = f
    BY <1>1 DEF Whole
  <1> DEFINE g == f \o <<Torn>>
             cuts == {n \in DOMAIN g : g[n] = Torn}
  <1>3. cuts = {Len(f) + 1}
    BY <1>1
  <1>4. Min(cuts) = Len(f) + 1
    BY <1>3 DEF Min
  <1>5. Whole(g) = SubSeq(g, 1, Len(f))
    <2>1. Whole(g) = SubSeq(g, 1, Min(cuts) - 1)
      BY <1>3 DEF Whole
    <2>2. Len(f) \in Nat
      OBVIOUS
    <2> HIDE DEF g, cuts
    <2>3. Min(cuts) - 1 = Len(f)
      BY <1>4, <2>2
    <2> QED
      BY <2>1, <2>3
  <1>6. SubSeq(g, 1, Len(f)) = f
    OBVIOUS
  <1> QED
    BY <1>2, <1>5, <1>6

-----------------------------------------------------------------------------
(***************************************************************************)
(* A log laid out as it should be: the scan meets the frames 1 to L.       *)
(***************************************************************************)
LEMMA PlaceForm ==
  ASSUME NEW d, NEW L \in Nat, Layout(d, L), NEW p \in PlacesIn(d)
  PROVE  /\ p = <<p[1], p[2]>> /\ p[1] \in DOMAIN d /\ p[2] \in DOMAIN Whole(d[p[1]])
         /\ p[1] \in Nat \ {0} /\ p[2] \in 1..Len(Whole(d[p[1]]))
         /\ Len(Whole(d[p[1]])) \in Nat
  <1>1. PICK x \in DOMAIN d : \E n \in DOMAIN Whole(d[x]) : p = <<x, n>>
    BY DEF PlacesIn
  <1>2. PICK n \in DOMAIN Whole(d[x]) : p = <<x, n>>
    BY <1>1
  <1>3. d[x] \in Seq(Frame) /\ x \in Nat \ {0}
    BY DEF Layout
  <1>4. Whole(d[x]) \in Seq(Frame)
    BY <1>3, WholePart
  <1> QED
    BY <1>2, <1>3, <1>4

LEMMA PlaceMade ==
  ASSUME NEW d, NEW x \in DOMAIN d, NEW n \in DOMAIN Whole(d[x])
  PROVE  <<x, n>> \in PlacesIn(d) /\ FrameIn(d, <<x, n>>) = d[x][n]
  BY DEF PlacesIn, FrameIn

LEMMA Numbered ==
  ASSUME NEW d, NEW L \in Nat, Layout(d, L), NEW p \in PlacesIn(d)
  PROVE  /\ FrameIn(d, p) \in Frame
         /\ FrameIn(d, p).seq = p[1] + p[2] - 1 /\ FrameIn(d, p).seq \in 1..L
         /\ p[1] <= FrameIn(d, p).seq /\ FrameIn(d, p).seq < After(d, p[1])
  <1> DEFINE x == p[1]
             n == p[2]
  <1>1. /\ x \in DOMAIN d /\ n \in DOMAIN Whole(d[x]) /\ x \in Nat \ {0}
        /\ n \in 1..Len(Whole(d[x])) /\ Len(Whole(d[x])) \in Nat
    BY PlaceForm
  <1>2. d[x] \in Seq(Frame) /\ d[x][n].seq = x + n - 1 /\ After(d, x) <= L + 1
    BY <1>1 DEF Layout
  <1>3. n \in DOMAIN d[x] /\ d[x][n] \in Frame
    BY <1>1, <1>2, WholePart
  <1>4. FrameIn(d, p) = d[x][n]
    BY DEF FrameIn
  <1> HIDE DEF x, n
  <1>5. FrameIn(d, p) \in Frame /\ FrameIn(d, p).seq = x + n - 1 /\ FrameIn(d, p).seq \in 1..L
    BY <1>1, <1>2, <1>3, <1>4 DEF After
  <1>6. x <= FrameIn(d, p).seq /\ FrameIn(d, p).seq < After(d, x)
    BY <1>1, <1>5 DEF After
  <1> QED
    BY <1>5, <1>6 DEF x, n

LEMMA Between ==
  ASSUME NEW i \in Nat, NEW a \in Nat, NEW y \in Nat, NEW j \in Nat, i < a, a <= y, y <= j
  PROVE  i < j
  OBVIOUS

LEMMA NumberedOnce ==
  ASSUME NEW d, NEW L \in Nat, Layout(d, L), NEW p \in PlacesIn(d), NEW q \in PlacesIn(d)
  PROVE  /\ FrameIn(d, p).seq = FrameIn(d, q).seq => p = q
         /\ FrameIn(d, q).seq <= FrameIn(d, p).seq
              <=> q[1] < p[1] \/ (q[1] = p[1] /\ q[2] <= p[2])
  <1> DEFINE x == p[1]
             y == q[1]
             m == p[2]
             n == q[2]
             i == FrameIn(d, p).seq
             j == FrameIn(d, q).seq
  <1>1. /\ p = <<x, m>> /\ x \in DOMAIN d /\ x \in Nat /\ m \in Nat
        /\ q = <<y, n>> /\ y \in DOMAIN d /\ y \in Nat /\ n \in Nat
        /\ Len(Whole(d[x])) \in Nat /\ Len(Whole(d[y])) \in Nat
    BY PlaceForm
  <1>2. /\ i = x + m - 1 /\ x <= i /\ i < After(d, x) /\ i \in Nat
        /\ j = y + n - 1 /\ y <= j /\ j < After(d, y) /\ j \in Nat
    BY Numbered
  <1>3. (x < y => After(d, x) <= y) /\ (y < x => After(d, y) <= x)
    BY <1>1 DEF Layout
  <1>4. After(d, x) \in Nat /\ After(d, y) \in Nat
    BY <1>1 DEF After
  <1> HIDE DEF x, y, m, n, i, j
  <1>5. (x < y => i < j) /\ (y < x => j < i)
    <2>1. ASSUME x < y PROVE i < j
      <3>1. i < After(d, x) /\ After(d, x) <= y /\ y <= j
        BY <1>2, <1>3, <2>1
      <3>2. /\ i \in Nat /\ After(d, x) \in Nat /\ y \in Nat /\ j \in Nat
        BY <1>1, <1>2, <1>4
      <3> QED
        BY <3>1, <3>2, Between
    <2>2. ASSUME y < x PROVE j < i
      <3>1. j < After(d, y) /\ After(d, y) <= x /\ x <= i
        BY <1>2, <1>3, <2>2
      <3>2. /\ j \in Nat /\ After(d, y) \in Nat /\ x \in Nat /\ i \in Nat
        BY <1>1, <1>2, <1>4
      <3> QED
        BY <3>1, <3>2, Between
    <2> QED
      BY <2>1, <2>2
  <1>6. i = j => p = q
    BY <1>1, <1>2, <1>5
  <1>7. j <= i <=> y < x \/ (y = x /\ n <= m)
    BY <1>1, <1>2, <1>5
  <1> QED
    BY <1>6, <1>7 DEF x, y, m, n, i, j

LEMMA NumberFound ==
  ASSUME NEW d, NEW L \in Nat, Layout(d, L), NEW k \in 1..L
  PROVE  \E p \in PlacesIn(d) : FrameIn(d, p).seq = k
  <1>1. PICK x \in DOMAIN d : x <= k /\ k < After(d, x)
    BY DEF Layout
  <1>2. d[x] \in Seq(Frame) /\ x \in Nat \ {0}
    BY DEF Layout
  <1>3. Whole(d[x]) \in Seq(Frame) /\ Len(Whole(d[x])) \in Nat
    BY <1>2, WholePart
  <1>4. k - x + 1 \in 1..Len(Whole(d[x]))
    BY <1>1, <1>2, <1>3 DEF After
  <1>5. k - x + 1 \in DOMAIN Whole(d[x])
    BY <1>3, <1>4
  <1>6. d[x][k - x + 1].seq = x + (k - x + 1) - 1
    BY <1>5 DEF Layout
  <1>7. d[x][k - x + 1].seq = k
    BY <1>2, <1>6
  <1>8. PICK n \in DOMAIN Whole(d[x]) : d[x][n].seq = k
    BY <1>5, <1>7
  <1>9. <<x, n>> \in PlacesIn(d) /\ FrameIn(d, <<x, n>>).seq = k
    BY <1>8, PlaceMade
  <1> QED
    BY <1>9

(* Numbers that run from 1 to K count what they number. *)
LEMMA CountedBy ==
  ASSUME NEW P, NEW K \in Nat, NEW f \in [P -> 1..K],
         \A p, q \in P : f[p] = f[q] => p = q, \A k \in 1..K : \E p \in P : f[p] = k
  PROVE  IsFiniteSet(P) /\ Cardinality(P) = K
  <1>1. f \in Bijection(P, 1..K)
    BY DEF Bijection, Injection, IsInjective, Surjection
  <1>2. ExistsBijection(1..K, P)
    BY <1>1, Fun_ExistsBijSymmetric DEF ExistsBijection
  <1>3. IsFiniteSet(1..K) /\ Cardinality(1..K) = K
    BY FS_Interval
  <1> QED
    BY <1>2, <1>3, FS_Bijection

LEMMA CountedUpTo ==
  ASSUME NEW d, NEW L \in Nat, Layout(d, L), NEW K \in 0..L
  PROVE  Cardinality({p \in PlacesIn(d) : FrameIn(d, p).seq <= K}) = K
  <1> DEFINE P == {p \in PlacesIn(d) : FrameIn(d, p).seq <= K}
             f == [p \in P |-> FrameIn(d, p).seq]
  <1>1. f \in [P -> 1..K]
    BY Numbered
  <1>2. \A p, q \in P : f[p] = f[q] => p = q
    BY NumberedOnce
  <1>3. \A k \in 1..K : \E p \in P : f[p] = k
    <2> SUFFICES ASSUME NEW k \in 1..K PROVE \E p \in P : f[p] = k
      OBVIOUS
    <2>1. k \in 1..L /\ k <= K
      OBVIOUS
    <2>2. PICK p \in PlacesIn(d) : FrameIn(d, p).seq = k
      BY <2>1, NumberFound
    <2> QED
      BY <2>1, <2>2
  <1>4. K \in Nat
    OBVIOUS
  <1> HIDE DEF P, f
  <1>5. Cardinality(P) = K
    BY <1>1, <1>2, <1>3, <1>4, CountedBy
  <1> QED
    BY <1>5 DEF P

LEMMA Scanning ==
  ASSUME NEW d, NEW L \in Nat, Layout(d, L)
  PROVE  /\ Size(d) = L
         /\ \A p \in PlacesIn(d) :
              FrameIn(d, p).seq =
                Cardinality({q \in PlacesIn(d) : q[1] < p[1] \/ (q[1] = p[1] /\ q[2] <= p[2])})
  <1>1. Size(d) = L
    <2>1. \A p \in PlacesIn(d) : FrameIn(d, p).seq <= L
      BY Numbered
    <2>2. PlacesIn(d) = {p \in PlacesIn(d) : FrameIn(d, p).seq <= L}
      BY <2>1
    <2>3. L \in 0..L
      OBVIOUS
    <2> QED
      BY <2>2, <2>3, CountedUpTo DEF Size
  <1>2. SUFFICES ASSUME NEW p \in PlacesIn(d)
                 PROVE FrameIn(d, p).seq =
                   Cardinality({q \in PlacesIn(d) :
                                  q[1] < p[1] \/ (q[1] = p[1] /\ q[2] <= p[2])})
    BY <1>1
  <1>3. {q \in PlacesIn(d) : q[1] < p[1] \/ (q[1] = p[1] /\ q[2] <= p[2])}
          = {q \in PlacesIn(d) : FrameIn(d, q).seq <= FrameIn(d, p).seq}
    BY NumberedOnce
  <1>4. FrameIn(d, p).seq \in 0..L
    BY Numbered
  <1> QED
    BY <1>3, <1>4, CountedUpTo

LEMMA ScanFound ==
  ASSUME NEW d, NEW L \in Nat, Layout(d, L)
  PROVE  /\ Scan(d) \in Seq(Frame) /\ Len(Scan(d)) = L
         /\ \A p \in PlacesIn(d) : Scan(d)[FrameIn(d, p).seq] = FrameIn(d, p)
         /\ \A k \in 1..L : \E p \in PlacesIn(d) :
              FrameIn(d, p).seq = k /\ Scan(d)[k] = FrameIn(d, p)
  <1> DEFINE at(k) == CHOOSE p \in PlacesIn(d) : FrameIn(d, p).seq = k
  <1>1. \A k \in 1..L : at(k) \in PlacesIn(d) /\ FrameIn(d, at(k)).seq = k
    BY NumberFound
  <1>2. Scan(d) = [k \in 1..L |-> FrameIn(d, at(k))]
    BY Scanning DEF Scan
  <1> HIDE DEF at
  <1>3. Scan(d) \in [1..L -> Frame]
    BY <1>1, <1>2, Numbered
  <1>4. \A k \in 1..L : Scan(d)[k] = FrameIn(d, at(k))
    BY <1>2
  <1>5. ASSUME NEW p \in PlacesIn(d) PROVE Scan(d)[FrameIn(d, p).seq] = FrameIn(d, p)
    <2>1. FrameIn(d, p).seq \in 1..L
      BY Numbered
    <2>2. at(FrameIn(d, p).seq) = p
      BY <1>1, <2>1, NumberedOnce
    <2> QED
      BY <1>4, <2>1, <2>2
  <1> QED
    BY <1>1, <1>3, <1>4, <1>5

LEMMA ScanRecs ==
  ASSUME NEW d, NEW L \in Nat, Layout(d, L)
  PROVE  Recs(d) = {Scan(d)[k].rec : k \in 1..L}
  <1>1. \A p \in PlacesIn(d) : \E k \in 1..L : FrameIn(d, p).rec = Scan(d)[k].rec
    BY ScanFound, Numbered
  <1>2. \A k \in 1..L : \E p \in PlacesIn(d) : FrameIn(d, p).rec = Scan(d)[k].rec
    BY ScanFound
  <1> QED
    BY <1>1, <1>2 DEF Recs

-----------------------------------------------------------------------------
(***************************************************************************)
(* Cutting off what is torn, and writing at the end.                       *)
(***************************************************************************)
LEMMA SoundFrames ==
  ASSUME NEW d, NEW L \in Nat, Layout(d, L), NEW x \in DOMAIN d
  PROVE  /\ x \in Nat \ {0} /\ d[x] \in Seq(Frame)
         /\ Whole(d[x]) \in Seq(Frame) /\ Len(Whole(d[x])) \in Nat
         /\ \A n \in DOMAIN Whole(d[x]) :
              Whole(d[x])[n] = d[x][n] /\ Whole(d[x])[n].seq = x + n - 1
         /\ Whole(Whole(d[x])) = Whole(d[x])
  <1>1. x \in Nat \ {0} /\ d[x] \in Seq(Frame)
    BY DEF Layout
  <1>2. /\ Whole(d[x]) \in Seq(Frame) /\ Len(Whole(d[x])) \in Nat
        /\ \A n \in DOMAIN Whole(d[x]) : Whole(d[x])[n] = d[x][n]
    BY <1>1, WholePart
  <1>3. \A n \in DOMAIN Whole(d[x]) : Whole(d[x])[n].seq = x + n - 1
    BY <1>2 DEF Layout
  <1>4. \A n \in DOMAIN Whole(d[x]) : Whole(d[x])[n].seq # 0
    BY <1>1, <1>2, <1>3
  <1>5. Whole(Whole(d[x])) = Whole(d[x])
    BY <1>2, <1>4, WholeOfSound
  <1> QED
    BY <1>1, <1>2, <1>3, <1>5

(* Two logs whose places and frames are the same are scanned the same. *)
LEMMA SameScan ==
  ASSUME NEW d, NEW w, NEW L \in Nat, Layout(d, L), Layout(w, L),
         \A p \in PlacesIn(d) : p \in PlacesIn(w) /\ FrameIn(w, p) = FrameIn(d, p)
  PROVE  Scan(w) = Scan(d)
  <1>1. /\ Scan(w) \in Seq(Frame) /\ Len(Scan(w)) = L
        /\ Scan(d) \in Seq(Frame) /\ Len(Scan(d)) = L
    BY ScanFound
  <1>2. ASSUME NEW k \in 1..L PROVE Scan(w)[k] = Scan(d)[k]
    <2>1. PICK p \in PlacesIn(d) : FrameIn(d, p).seq = k /\ Scan(d)[k] = FrameIn(d, p)
      BY ScanFound
    <2>2. p \in PlacesIn(w) /\ FrameIn(w, p) = FrameIn(d, p)
      OBVIOUS
    <2>3. Scan(w)[FrameIn(w, p).seq] = FrameIn(w, p)
      BY <2>2, ScanFound
    <2> QED
      BY <2>1, <2>2, <2>3
  <1> QED
    BY <1>1, <1>2

LEMMA Cleaned ==
  ASSUME NEW d, NEW L \in Nat, Layout(d, L),
         NEW w, w = [x \in DOMAIN d |-> Whole(d[x])]
  PROVE  /\ Layout(w, L) /\ Clean(w) /\ DOMAIN w = DOMAIN d
         /\ Scan(w) = Scan(d) /\ IndexOf(w) = IndexOf(d)
         /\ Clean(d) => w = d
  <1>1. DOMAIN w = DOMAIN d /\ \A x \in DOMAIN d : w[x] = Whole(d[x])
    OBVIOUS
  <1>2. \A x \in DOMAIN d : Whole(w[x]) = w[x] /\ w[x] \in Seq(Frame)
    BY <1>1, SoundFrames
  <1>3. \A x \in DOMAIN d : After(w, x) = After(d, x)
    BY <1>1, <1>2 DEF After
  <1>4. \A x \in DOMAIN w : \A n \in DOMAIN Whole(w[x]) : w[x][n].seq = x + n - 1
    BY <1>1, <1>2, SoundFrames
  <1>5. w \in [DOMAIN w -> Seq(Frame)]
    BY <1>1, <1>2
  <1>6. Layout(w, L)
    BY <1>1, <1>3, <1>4, <1>5 DEF Layout
  <1>7. PlacesIn(w) = PlacesIn(d)
    BY <1>1, <1>2 DEF PlacesIn
  <1>8. \A p \in PlacesIn(d) : FrameIn(w, p) = FrameIn(d, p)
    BY <1>1, PlaceForm, SoundFrames DEF FrameIn
  <1>9. Scan(w) = Scan(d)
    BY <1>6, <1>7, <1>8, SameScan
  <1>10. IndexOf(w) = IndexOf(d)
    <2>1. [x \in DOMAIN w |-> Len(Whole(w[x]))] = [x \in DOMAIN d |-> Len(Whole(d[x]))]
      BY <1>1, <1>2
    <2> QED
      BY <1>7, <2>1 DEF IndexOf, Size
  <1>11. Clean(d) => w = d
    <2> SUFFICES ASSUME Clean(d) PROVE w = d
      OBVIOUS
    <2>1. d = [x \in DOMAIN d |-> d[x]]
      BY DEF Layout
    <2> QED
      BY <2>1 DEF Clean
  <1> QED
    BY <1>1, <1>2, <1>6, <1>9, <1>10, <1>11 DEF Clean

(* Where the next frame goes: into the last segment, or into a new one.    *)
Old(d, t) == IF t \in DOMAIN d THEN d[t] ELSE <<>>
Slot(d, L, t) ==
  /\ t \in Nat \ {0} /\ \A x \in DOMAIN d : x <= t
  /\ t + Len(Old(d, t)) = L + 1
Wrote(d, t, f) == [y \in DOMAIN d \cup {t} |-> IF y = t THEN Old(d, t) \o f ELSE d[y]]

LEMMA Joined ==
  ASSUME NEW a \in Seq(Frame), NEW b \in Seq(Frame), NEW c \in Seq(Frame)
  PROVE  a \o (b \o c) = (a \o b) \o c
  BY ConcatAssociative

(* Frames numbered upwards, the first of them i + 1. *)
From(f, i) == f \in Seq(Frame) /\ \A n \in 1..Len(f) : f[n].seq = i + n

LEMMA Continued ==
  ASSUME NEW i \in Nat, NEW a, From(a, i), NEW f, From(f, i + Len(a))
  PROVE  From(a \o f, i) /\ Len(a \o f) = Len(a) + Len(f)
  <1>1. a \in Seq(Frame) /\ f \in Seq(Frame)
    BY DEF From
  <1>2. a \o f \in Seq(Frame) /\ Len(a \o f) = Len(a) + Len(f) /\ Len(a) \in Nat
    BY <1>1
  <1>3. ASSUME NEW n \in 1..Len(a \o f) PROVE (a \o f)[n].seq = i + n
    <2>1. CASE n <= Len(a)
      BY <1>1, <1>2, <2>1 DEF From
    <2>2. CASE n > Len(a)
      <3>1. (a \o f)[n] = f[n - Len(a)] /\ n - Len(a) \in 1..Len(f)
        BY <1>1, <1>2, <2>2
      <3>2. f[n - Len(a)].seq = i + Len(a) + (n - Len(a))
        BY <3>1 DEF From
      <3>3. i + Len(a) + (n - Len(a)) = i + n
        BY <1>2
      <3> QED
        BY <3>1, <3>2, <3>3
    <2> QED
      BY <1>2, <2>1, <2>2
  <1> QED
    BY <1>2, <1>3 DEF From

Tails == {<<>>, <<Torn>>}
Continues(w, d, t, f, tail) == w = Wrote(d, t, f \o tail)

(* Frames written at the end, the last of them perhaps torn, continue the  *)
(* log, and the scan stops before the torn one.                            *)
LEMMA WroteSegment ==
  ASSUME NEW d, NEW L \in Nat, Layout(d, L), Clean(d), NEW t, Slot(d, L, t),
         NEW f, From(f, L),
         NEW tail \in Tails, NEW w, Continues(w, d, t, f, tail)
  PROVE  /\ From(Old(d, t), t - 1) /\ t + Len(Old(d, t)) = L + 1
         /\ From(Old(d, t) \o f, t - 1) /\ Len(Old(d, t) \o f) = Len(Old(d, t)) + Len(f)
         /\ w[t] \in Seq(Frame) /\ Whole(w[t]) = Old(d, t) \o f
         /\ tail = <<>> => w[t] = Old(d, t) \o f
         /\ \A n \in 1..Len(Old(d, t) \o f) : w[t][n] = (Old(d, t) \o f)[n]
  <1>1. Old(d, t) \in Seq(Frame) /\ t + Len(Old(d, t)) = L + 1 /\ t \in Nat \ {0} /\ Len(Old(d, t)) \in Nat
    BY SoundFrames DEF Slot, Old
  <1>2. From(Old(d, t), t - 1)
    BY <1>1, SoundFrames DEF Clean, From, Old
  <1>3. t - 1 \in Nat /\ t - 1 + Len(Old(d, t)) = L
    BY <1>1
  <1>4. From(Old(d, t) \o f, t - 1) /\ Len(Old(d, t) \o f) = Len(Old(d, t)) + Len(f)
    BY <1>2, <1>3, Continued
  <1>5. w[t] = Old(d, t) \o (f \o tail)
    BY DEF Wrote, Continues
  <1>6. Torn \in Frame
    BY DEF Torn, Frame
  <1>7. tail \in Seq(Frame)
    <2>1. <<Torn>> \in Seq(Frame) /\ <<>> \in Seq(Frame)
      BY <1>6
    <2> QED
      BY <2>1 DEF Tails
  <1>8. w[t] = (Old(d, t) \o f) \o tail
    <2>1. Old(d, t) \o (f \o tail) = (Old(d, t) \o f) \o tail
      BY <1>1, <1>7, Joined DEF From
    <2> QED
      BY <1>5, <2>1
  <1>9. Old(d, t) \o f \in Seq(Frame)
    BY <1>4 DEF From
  <1>10. tail = <<>> => w[t] = Old(d, t) \o f
    BY <1>8, <1>9, ConcatEmptySeq
  <1>11. \A n \in DOMAIN (Old(d, t) \o f) : (Old(d, t) \o f)[n].seq # 0
    BY <1>3, <1>4, <1>9 DEF From
  <1>12. Whole(w[t]) = Old(d, t) \o f
    BY <1>8, <1>9, <1>10, <1>11, WholeOfSound DEF Tails
  <1>13. w[t] \in Seq(Frame)
    BY <1>7, <1>8, <1>9
  <1>14. \A n \in 1..Len(Old(d, t) \o f) : w[t][n] = (Old(d, t) \o f)[n]
    BY <1>7, <1>8, <1>9
  <1> QED
    BY <1>1, <1>2, <1>4, <1>10, <1>12, <1>13, <1>14

LEMMA SplitSeq ==
  ASSUME NEW a \in Seq(Frame), NEW b \in Seq(Frame), NEW c \in Seq(Frame),
         Len(c) = Len(a) + Len(b), \A k \in 1..Len(a) : c[k] = a[k],
         \A n \in 1..Len(b) : c[Len(a) + n] = b[n]
  PROVE  c = a \o b
  <1>1. Len(a) \in Nat /\ Len(b) \in Nat
    OBVIOUS
  <1>2. a \o b \in Seq(Frame) /\ Len(a \o b) = Len(a) + Len(b)
    OBVIOUS
  <1>3. ASSUME NEW k \in 1..Len(c) PROVE c[k] = (a \o b)[k]
    <2>1. CASE k <= Len(a)
      BY <1>1, <2>1
    <2>2. CASE k > Len(a)
      <3>1. k - Len(a) \in 1..Len(b) /\ Len(a) + (k - Len(a)) = k
        BY <1>1, <2>2
      <3>2. c[k] = b[k - Len(a)]
        BY <3>1
      <3>3. (a \o b)[k] = b[k - Len(a)]
        BY <1>1, <1>2, <2>2
      <3> QED
        BY <3>2, <3>3
    <2> QED
      BY <1>1, <2>1, <2>2
  <1> QED
    BY <1>2, <1>3

(* The log w continues the log d of L frames with those of f. *)
Extended(w, d, L, t, f) ==
  /\ Layout(w, L + Len(f)) /\ DOMAIN w = DOMAIN d \cup {t}
  /\ Scan(w) = Scan(d) \o f
  /\ Len(Whole(w[t])) = Len(Old(d, t)) + Len(f)

LEMMA WroteLog ==
  ASSUME NEW d, NEW L \in Nat, Layout(d, L), Clean(d), NEW t, Slot(d, L, t), NEW f, From(f, L),
         NEW tail \in Tails, NEW w, Continues(w, d, t, f, tail)
  PROVE  Extended(w, d, L, t, f) /\ (tail = <<>> => Clean(w))
  <1>0. PICK old : old = Old(d, t)
    OBVIOUS
  <1>f. PICK full : full = old \o f
    OBVIOUS
  <1>1. /\ From(old, t - 1) /\ t + Len(old) = L + 1 /\ From(full, t - 1)
        /\ Len(full) = Len(old) + Len(f)
        /\ w[t] \in Seq(Frame) /\ Whole(w[t]) = full
        /\ tail = <<>> => w[t] = full
        /\ \A n \in 1..Len(full) : w[t][n] = full[n]
    <2>1. /\ From(Old(d, t), t - 1) /\ t + Len(Old(d, t)) = L + 1
          /\ From(Old(d, t) \o f, t - 1) /\ Len(Old(d, t) \o f) = Len(Old(d, t)) + Len(f)
          /\ w[t] \in Seq(Frame) /\ Whole(w[t]) = Old(d, t) \o f
          /\ tail = <<>> => w[t] = Old(d, t) \o f
          /\ \A n \in 1..Len(Old(d, t) \o f) : w[t][n] = (Old(d, t) \o f)[n]
      BY WroteSegment
    <2> QED
      BY <1>0, <1>f, <2>1
  <1> DEFINE M == L + Len(f)
  <1>m. M = L + Len(f)
    OBVIOUS
  <1> HIDE DEF M
  <1>2. /\ t \in Nat \ {0} /\ \A x \in DOMAIN d : x <= t /\ x \in Nat \ {0}
        /\ Len(old) \in Nat /\ Len(f) \in Nat /\ Len(full) \in Nat /\ M \in Nat
        /\ f \in Seq(Frame) /\ full \in Seq(Frame) /\ old \in Seq(Frame)
    BY <1>1, <1>m DEF Slot, From, Layout
  <1>3. DOMAIN w = DOMAIN d \cup {t} /\ \A y \in DOMAIN d : y # t => w[y] = d[y]
    BY DEF Wrote, Continues
  <1>4. t \in DOMAIN d => old = d[t]
    BY <1>0 DEF Old
  <1>n. t + Len(old) = L + 1 /\ t \in Int /\ Len(old) \in Int /\ Len(f) \in Int /\ L \in Int
    BY <1>1, <1>2
  <1>5. /\ \A y \in DOMAIN d : y # t => After(w, y) = After(d, y)
        /\ After(w, t) = M + 1
        /\ t \in DOMAIN d => After(d, t) = L + 1
        /\ \A y \in DOMAIN d : After(d, y) <= L + 1 /\ After(d, y) \in Nat
    <2>1. \A y \in DOMAIN d : y # t => After(w, y) = After(d, y)
      BY <1>3 DEF After
    <2>2. After(w, t) = M + 1
      <3>1. t + (Len(old) + Len(f)) = M + 1
        BY <1>n, <1>m
      <3> QED
        BY <1>1, <3>1 DEF After
    <2>3. t \in DOMAIN d => After(d, t) = L + 1
      BY <1>1, <1>4 DEF After, Clean
    <2>4. \A y \in DOMAIN d : After(d, y) <= L + 1 /\ After(d, y) \in Nat
      BY SoundFrames DEF After, Layout
    <2> QED
      BY <2>1, <2>2, <2>3, <2>4
  <1>6. \A y \in DOMAIN d : y < t => After(d, y) <= t
    <2>1. CASE t \in DOMAIN d
      BY <2>1 DEF Layout
    <2>2. CASE t \notin DOMAIN d
      BY <1>n, <1>5, <2>2, <1>0 DEF Old
    <2> QED
      BY <2>1, <2>2
  <1>7. w \in [DOMAIN w -> Seq(Frame)]
    <2>1. \A y \in DOMAIN w : w[y] \in Seq(Frame)
      BY <1>1, <1>3, SoundFrames
    <2>2. w = [y \in DOMAIN w |-> w[y]]
      BY DEF Wrote, Continues
    <2> QED
      BY <2>1, <2>2
  <1>8. \A y \in DOMAIN w : \A n \in DOMAIN Whole(w[y]) : w[y][n].seq = y + n - 1
    <2>1. \A n \in DOMAIN full : w[t][n].seq = t + n - 1
      <3>1. \A n \in DOMAIN full : n \in 1..Len(full) /\ full[n].seq = t - 1 + n
        BY <1>1 DEF From
      <3>2. SUFFICES ASSUME NEW n \in DOMAIN full PROVE w[t][n].seq = t + n - 1
        OBVIOUS
      <3>3. t - 1 + n = t + n - 1
        BY <1>n, <3>1
      <3> QED
        BY <1>1, <3>1, <3>3
    <2>2. \A y \in DOMAIN d : y # t => \A n \in DOMAIN Whole(w[y]) : w[y][n].seq = y + n - 1
      BY <1>3 DEF Layout
    <2> QED
      BY <1>1, <1>3, <2>1, <2>2
  <1>9. \A x, y \in DOMAIN w : x < y => After(w, x) <= y
    <2> SUFFICES ASSUME NEW x \in DOMAIN w, NEW y \in DOMAIN w, x < y PROVE After(w, x) <= y
      OBVIOUS
    <2>1. x # t /\ x \in DOMAIN d
      BY <1>2, <1>3
    <2>2. CASE y = t
      BY <1>5, <1>6, <2>1, <2>2
    <2>3. CASE y # t
      BY <1>3, <1>5, <2>1, <2>3 DEF Layout
    <2> QED
      BY <2>2, <2>3
  <1>10. \A y \in DOMAIN w : After(w, y) <= M + 1
    <2>1. L + 1 <= M + 1 /\ L + 1 \in Int /\ M + 1 \in Int
      BY <1>2, <1>m
    <2>2. SUFFICES ASSUME NEW y \in DOMAIN w PROVE After(w, y) <= M + 1
      OBVIOUS
    <2>3. CASE y = t
      BY <1>5, <2>1, <2>3
    <2>4. CASE y # t
      <3>1. After(w, y) <= L + 1 /\ After(w, y) \in Int
        BY <1>3, <1>5, <2>4
      <3> QED
        BY <2>1, <3>1
    <2> QED
      BY <2>3, <2>4
  <1>11. \A k \in 1..M : \E x \in DOMAIN w : x <= k /\ k < After(w, x)
    <2> SUFFICES ASSUME NEW k \in 1..M PROVE \E x \in DOMAIN w : x <= k /\ k < After(w, x)
      OBVIOUS
    <2>1. t \in DOMAIN w /\ k < After(w, t)
      BY <1>2, <1>3, <1>5
    <2>2. CASE k <= L
      <3>1. PICK x \in DOMAIN d : x <= k /\ k < After(d, x)
        BY <2>2 DEF Layout
      <3> QED
        BY <1>3, <1>5, <2>1, <3>1
    <2>3. CASE ~(k <= L)
      BY <1>1, <1>2, <2>1, <2>3
    <2> QED
      BY <2>2, <2>3
  <1>12. DOMAIN w \subseteq Nat \ {0}
    BY <1>2, <1>3
  <1>13. Layout(w, M)
    BY <1>7, <1>8, <1>9, <1>10, <1>11, <1>12 DEF Layout
  <1>14. tail = <<>> => Clean(w)
    BY <1>1, <1>3 DEF Clean
  <1>15. \A k \in 1..L : Scan(w)[k] = Scan(d)[k]
    <2> SUFFICES ASSUME NEW k \in 1..L PROVE Scan(w)[k] = Scan(d)[k]
      OBVIOUS
    <2>1. PICK p \in PlacesIn(d) : FrameIn(d, p).seq = k /\ Scan(d)[k] = FrameIn(d, p)
      BY ScanFound
    <2> DEFINE x == p[1]
               n == p[2]
    <2>2. p = <<x, n>> /\ x \in DOMAIN d /\ n \in 1..Len(Whole(d[x]))
      BY PlaceForm
    <2> HIDE DEF x, n
    <2>3. n \in DOMAIN Whole(w[x]) /\ w[x][n] = d[x][n]
      <3>1. CASE x = t
        <4>1. d[x] \in Seq(Frame) /\ Whole(d[x]) = d[x] /\ old = d[x]
          BY <1>4, <2>2, <3>1, SoundFrames DEF Clean
        <4>2. n \in 1..Len(old) /\ n \in 1..Len(full)
          BY <1>1, <1>2, <2>2, <4>1
        <4>3. full[n] = old[n]
          BY <1>2, <1>f, <4>1, <4>2
        <4>4. w[x][n] = d[x][n]
          BY <1>1, <3>1, <4>1, <4>2, <4>3
        <4> QED
          BY <1>1, <1>2, <3>1, <4>2, <4>4
      <3>2. CASE x # t
        BY <1>3, <2>2, <3>2, SoundFrames
      <3> QED
        BY <3>1, <3>2
    <2>4. x \in DOMAIN w
      BY <1>3, <2>2
    <2>5. <<x, n>> \in PlacesIn(w) /\ FrameIn(w, <<x, n>>) = FrameIn(d, p)
      BY <2>2, <2>3, <2>4, PlaceMade DEF FrameIn, x, n
    <2>6. Scan(w)[FrameIn(w, <<x, n>>).seq] = FrameIn(w, <<x, n>>)
      BY <1>2, <1>13, <2>5, ScanFound
    <2> QED
      BY <2>1, <2>5, <2>6
  <1>16. \A n \in 1..Len(f) : Scan(w)[L + n] = f[n]
    <2> SUFFICES ASSUME NEW n \in 1..Len(f) PROVE Scan(w)[L + n] = f[n]
      OBVIOUS
    <2> DEFINE m == Len(old) + n
    <2>1. m \in 1..Len(full) /\ t \in DOMAIN w
      BY <1>1, <1>2, <1>3
    <2>2. full[m] = f[n]
      <3>1. old \in Seq(Frame) /\ n \in Int /\ m > Len(old)
        BY <1>1, <1>2 DEF From
      <3>2. full[m] = f[m - Len(old)]
        BY <1>2, <1>f, <2>1, <3>1
      <3>3. m - Len(old) = n
        BY <1>2, <3>1
      <3> QED
        BY <3>2, <3>3
    <2>3. m \in DOMAIN Whole(w[t]) /\ w[t][m] = f[n]
      BY <1>1, <1>2, <2>1, <2>2
    <2>4. <<t, m>> \in PlacesIn(w) /\ FrameIn(w, <<t, m>>) = f[n]
      BY <2>1, <2>3, PlaceMade
    <2>5. Scan(w)[FrameIn(w, <<t, m>>).seq] = FrameIn(w, <<t, m>>)
      BY <1>2, <1>13, <2>4, ScanFound
    <2>6. f[n].seq = L + n
      BY DEF From
    <2> QED
      BY <2>4, <2>5, <2>6
  <1>17. Scan(w) = Scan(d) \o f
    <2>1. /\ Scan(w) \in Seq(Frame) /\ Len(Scan(w)) = M
          /\ Scan(d) \in Seq(Frame) /\ Len(Scan(d)) = L
      BY <1>2, <1>13, ScanFound
    <2>2. Len(Scan(w)) = Len(Scan(d)) + Len(f)
      BY <1>m, <2>1
    <2>3. /\ \A k \in 1..Len(Scan(d)) : Scan(w)[k] = Scan(d)[k]
          /\ \A n \in 1..Len(f) : Scan(w)[Len(Scan(d)) + n] = f[n]
      BY <1>15, <1>16, <2>1
    <2> QED
      BY <1>2, <2>1, <2>2, <2>3, SplitSeq
  <1> QED
    BY <1>0, <1>1, <1>3, <1>m, <1>13, <1>14, <1>17 DEF Extended

(* The index that is staged with the frames. *)
IndexAfter(d, L, t, f) ==
  [latest |-> L + Len(f),
   sizes |-> [y \in DOMAIN d \cup {t} |->
                IF y = t THEN Len(Old(d, t)) + Len(f) ELSE Len(Whole(d[y]))]]

LEMMA WroteIndex ==
  ASSUME NEW d, NEW L \in Nat, Layout(d, L), Clean(d), NEW t, Slot(d, L, t), NEW f, From(f, L)
  PROVE  IndexOf(Wrote(d, t, f)) = IndexAfter(d, L, t, f)
  <1>0. PICK w : w = Wrote(d, t, f)
    OBVIOUS
  <1>1. f \o <<>> = f /\ <<>> \in Tails
    BY ConcatEmptySeq DEF From, Tails
  <1>2. PICK tail \in Tails : tail = <<>>
    BY <1>1
  <1>3. Continues(w, d, t, f, tail)
    BY <1>0, <1>1, <1>2 DEF Continues
  <1>4. /\ Layout(w, L + Len(f)) /\ DOMAIN w = DOMAIN d \cup {t}
        /\ Len(Whole(w[t])) = Len(Old(d, t)) + Len(f)
    <2>1. Extended(w, d, L, t, f)
      BY <1>3, WroteLog
    <2> QED
      BY <2>1 DEF Extended
  <1>5. L + Len(f) \in Nat
    BY DEF From
  <1>6. Size(w) = L + Len(f)
    BY <1>4, <1>5, Scanning
  <1>7. \A y \in DOMAIN d : y # t => w[y] = d[y]
    BY <1>0 DEF Wrote
  <1>8. [x \in DOMAIN w |-> Len(Whole(w[x]))]
          = [y \in DOMAIN d \cup {t} |->
               IF y = t THEN Len(Old(d, t)) + Len(f) ELSE Len(Whole(d[y]))]
    BY <1>4, <1>7
  <1> QED
    BY <1>0, <1>6, <1>8 DEF IndexOf, IndexAfter

(* The last segment ends where the log does. *)
LEMMA LastSegment ==
  ASSUME NEW d, NEW L \in Nat, Layout(d, L), DOMAIN d # {}
  PROVE  /\ Max(DOMAIN d) \in DOMAIN d /\ \A x \in DOMAIN d : x <= Max(DOMAIN d)
         /\ After(d, Max(DOMAIN d)) = L + 1
  <1>1. \A x \in DOMAIN d : x \in Nat \ {0} /\ x <= L + 1 /\ After(d, x) \in Nat /\ x <= After(d, x)
    <2> SUFFICES ASSUME NEW x \in DOMAIN d
                 PROVE x \in Nat \ {0} /\ x <= L + 1 /\ After(d, x) \in Nat /\ x <= After(d, x)
      OBVIOUS
    <2>1. x \in Nat \ {0} /\ Len(Whole(d[x])) \in Nat
      BY SoundFrames
    <2>2. After(d, x) <= L + 1
      BY DEF Layout
    <2> QED
      BY <2>1, <2>2 DEF After
  <1>2. Max(DOMAIN d) \in DOMAIN d /\ \A x \in DOMAIN d : x <= Max(DOMAIN d)
    <2>1. DOMAIN d \in SUBSET Nat /\ L + 1 \in Nat /\ \A x \in DOMAIN d : x <= L + 1
      BY <1>1
    <2> QED
      BY <2>1, MaxMember
  <1>3. PICK m \in DOMAIN d : m = Max(DOMAIN d) /\ \A x \in DOMAIN d : x <= m
    BY <1>2
  <1>4. /\ m \in Nat \ {0} /\ m <= L + 1 /\ After(d, m) \in Nat /\ m <= After(d, m)
        /\ After(d, m) <= L + 1
    BY <1>1 DEF Layout
  <1>5. CASE L = 0
    BY <1>3, <1>4, <1>5
  <1>6. CASE L # 0
    <2>1. PICK x \in DOMAIN d : x <= L /\ L < After(d, x)
      BY <1>6 DEF Layout
    <2>2. CASE x = m
      BY <1>3, <1>4, <2>1, <2>2
    <2>3. CASE x # m
      <3>1. x < m
        BY <1>1, <1>3, <2>3
      <3>2. After(d, x) <= m /\ After(d, x) \in Nat
        BY <1>1, <3>1 DEF Layout
      <3> QED
        BY <1>3, <1>4, <2>1, <3>2
    <2> QED
      BY <2>2, <2>3
  <1> QED
    BY <1>2, <1>5, <1>6

LEMMA SlotFound ==
  ASSUME NEW d, NEW L \in Nat, Layout(d, L), Clean(d), NEW act, NEW t,
         act = IF DOMAIN d = {} THEN L + 1 ELSE Max(DOMAIN d),
         t = act \/ (Len(Old(d, act)) > 0 /\ t = L + 1)
  PROVE  /\ Slot(d, L, t) /\ t \in 1..(L + 1)
         /\ Len(Old(d, act)) > 0 /\ t = L + 1 => Len(Old(d, t)) = 0
  <1>1. CASE DOMAIN d = {}
    <2>1. act = L + 1 /\ \A x : Old(d, x) = <<>>
      BY <1>1 DEF Old
    <2>2. t = L + 1
      BY <2>1
    <2> QED
      BY <1>1, <2>1, <2>2 DEF Slot
  <1>2. CASE DOMAIN d # {}
    <2>1. /\ act \in DOMAIN d /\ \A x \in DOMAIN d : x <= act
          /\ After(d, act) = L + 1
      BY <1>2, LastSegment
    <2>2. /\ act \in Nat \ {0} /\ Len(d[act]) \in Nat /\ act + Len(d[act]) = L + 1
          /\ \A x \in DOMAIN d : x \in Nat
      BY <2>1, SoundFrames DEF After, Clean
    <2>3. Old(d, act) = d[act]
      BY <2>1 DEF Old
    <2>4. Slot(d, L, act) /\ act \in 1..(L + 1)
      BY <2>1, <2>2, <2>3 DEF Slot
    <2>5. CASE Len(d[act]) > 0 /\ t = L + 1
      <3>1. act < t
        BY <2>2, <2>5
      <3>2. t \notin DOMAIN d /\ \A x \in DOMAIN d : x <= t
        BY <2>1, <2>2, <2>5, <3>1
      <3>3. Old(d, t) = <<>>
        BY <3>2 DEF Old
      <3> QED
        BY <2>5, <3>2, <3>3 DEF Slot
    <2>6. CASE ~(Len(d[act]) > 0 /\ t = L + 1)
      BY <2>3, <2>4, <2>6
    <2> QED
      BY <2>5, <2>6
  <1> QED
    BY <1>1, <1>2

LEMMA Suffix ==
  ASSUME NEW b \in Seq(Frame), NEW m \in 1..(Len(b) + 1)
  PROVE  /\ SubSeq(b, m, Len(b)) \in Seq(Frame)
         /\ Len(SubSeq(b, m, Len(b))) = Len(b) - m + 1
         /\ \A n \in 1..(Len(b) - m + 1) : SubSeq(b, m, Len(b))[n] = b[m + n - 1]
  <1>1. \A n \in m..Len(b) : b[n] \in Frame
    OBVIOUS
  <1> QED
    BY <1>1, SubSeqProperties

(* What of a batch is not persisted yet. *)
PendingOf(b, L) == SubSeq(b, Cardinality({n \in DOMAIN b : b[n].seq <= L}) + 1, Len(b))

LEMMA PendingPart ==
  ASSUME NEW L \in Nat, NEW j \in 0..L, NEW k \in Nat, NEW b \in Seq(Frame), Numbers(b, L, j, k)
  PROVE  /\ From(PendingOf(b, L), L) /\ Len(PendingOf(b, L)) = k
         /\ \A n \in 1..k : PendingOf(b, L)[n] = b[j + n]
  <1>0. Len(b) = j + k
    BY DEF Numbers
  <1>b. \A n \in 1..(j + k) : b[n].seq = L - j + n
    BY DEF Numbers
  <1>a. PICK c : c = PendingOf(b, L)
    OBVIOUS
  <1>1. {n \in DOMAIN b : b[n].seq <= L} = 1..j
    <2>1. DOMAIN b = 1..(j + k)
      BY <1>0
    <2>2. \A n \in 1..(j + k) : b[n].seq <= L <=> n <= j
      BY <1>b
    <2> QED
      BY <2>1, <2>2
  <1>2. Cardinality(1..j) = j
    BY FS_Interval
  <1>3. c = SubSeq(b, j + 1, Len(b))
    BY <1>a, <1>1, <1>2 DEF PendingOf
  <1>4. c \in Seq(Frame) /\ Len(c) = k /\ \A n \in 1..k : c[n] = b[j + n]
    <2>1. PICK m \in Nat : m = j + 1
      OBVIOUS
    <2>2. m \in 1..(Len(b) + 1) /\ Len(b) - m + 1 = k
      BY <1>0, <2>1
    <2>3. c = SubSeq(b, m, Len(b))
      BY <1>3, <2>1
    <2>4. c \in Seq(Frame) /\ Len(c) = k /\ \A n \in 1..k : c[n] = b[m + n - 1]
      BY <2>2, <2>3, Suffix
    <2>5. \A n \in 1..k : m + n - 1 = j + n
      BY <2>1
    <2> QED
      BY <2>4, <2>5
  <1>5. \A n \in 1..k : c[n].seq = L + n
    <2> SUFFICES ASSUME NEW n \in 1..k PROVE c[n].seq = L + n
      OBVIOUS
    <2>1. j + n \in 1..(j + k) /\ L - j + (j + n) = L + n
      OBVIOUS
    <2> QED
      BY <1>b, <1>4, <2>1
  <1> QED
    BY <1>a, <1>4, <1>5 DEF From

(* What that adds to it. *)
Grown(w, d, L, f) ==
  /\ Size(w) = L + Len(f) /\ L + Len(f) \in Nat
  /\ Recs(d) \subseteq Recs(w)
  /\ \A n \in 1..Len(f) : f[n].rec \in Recs(w)
  /\ \A r \in Recs(w) : r \in Recs(d) \/ \E n \in 1..Len(f) : r = f[n].rec

LEMMA WroteRecs ==
  ASSUME NEW d, NEW L \in Nat, Layout(d, L), NEW t, NEW f, From(f, L), NEW w, Extended(w, d, L, t, f)
  PROVE  Grown(w, d, L, f)
  <1>1. /\ Layout(w, L + Len(f)) /\ Scan(w) = Scan(d) \o f /\ f \in Seq(Frame)
        /\ Len(f) \in Nat /\ L + Len(f) \in Nat
    BY DEF Extended, From
  <1>2. Size(w) = L + Len(f)
    BY <1>1, Scanning
  <1>3. /\ Recs(d) = {Scan(d)[k].rec : k \in 1..L} /\ Recs(w) = {Scan(w)[k].rec : k \in 1..(L + Len(f))}
        /\ Scan(d) \in Seq(Frame) /\ Len(Scan(d)) = L
    <2>1. Recs(d) = {Scan(d)[k].rec : k \in 1..L}
      BY ScanRecs
    <2>2. Recs(w) = {Scan(w)[k].rec : k \in 1..(L + Len(f))}
      BY <1>1, ScanRecs
    <2>3. Scan(d) \in Seq(Frame) /\ Len(Scan(d)) = L
      BY ScanFound
    <2> QED
      BY <2>1, <2>2, <2>3
  <1>4. \A k \in 1..L : k \in 1..(L + Len(f)) /\ Scan(w)[k] = Scan(d)[k]
    BY <1>1, <1>3
  <1>5. \A n \in 1..Len(f) : L + n \in 1..(L + Len(f)) /\ Scan(w)[L + n] = f[n]
    BY <1>1, <1>3
  <1>6. \A k \in 1..(L + Len(f)) : k \in 1..L \/ \E n \in 1..Len(f) : k = L + n
    <2> SUFFICES ASSUME NEW k \in 1..(L + Len(f)), k \notin 1..L
                 PROVE \E n \in 1..Len(f) : k = L + n
      OBVIOUS
    <2>1. k - L \in 1..Len(f) /\ k = L + (k - L)
      BY <1>1
    <2> QED
      BY <2>1
  <1>7. Recs(d) \subseteq Recs(w)
    BY <1>3, <1>4
  <1>8. \A n \in 1..Len(f) : f[n].rec \in Recs(w)
    BY <1>3, <1>5
  <1>9. ASSUME NEW r \in Recs(w) PROVE r \in Recs(d) \/ \E n \in 1..Len(f) : r = f[n].rec
    <2>1. PICK k \in 1..(L + Len(f)) : r = Scan(w)[k].rec
      BY <1>3
    <2> QED
      BY <1>3, <1>4, <1>5, <1>6, <2>1
  <1> QED
    BY <1>1, <1>2, <1>7, <1>8, <1>9 DEF Grown

-----------------------------------------------------------------------------
(***************************************************************************)
(* The same, in terms of the state.                                        *)
(***************************************************************************)
LEMMA LogFacts ==
  ASSUME NEW s \in Sessions, LaidOut(s)
  PROVE  /\ Places(s) = PlacesIn(disk[s]) /\ Size(disk[s]) \in Nat /\ Layout(disk[s], Size(disk[s]))
         /\ Scanned(s) = Scan(disk[s]) /\ RebuiltIndex(s) = IndexOf(disk[s])
         /\ InOrder(s)
         /\ {FrameAt(s, p).rec : p \in Places(s)} = Recs(disk[s])
  <1>1. Places(s) = PlacesIn(disk[s])
    BY DEF Places, PlacesIn
  <1>2. Size(disk[s]) \in Nat /\ Layout(disk[s], Size(disk[s]))
    BY DEF LaidOut
  <1>3. Scanned(s) = Scan(disk[s]) /\ RebuiltIndex(s) = IndexOf(disk[s])
    BY DEF Places, PlacesIn, Scanned, Scan, RebuiltIndex, IndexOf, FrameAt, FrameIn, Size
  <1>4. InOrder(s)
    <2>1. \A p \in PlacesIn(disk[s]) :
            FrameIn(disk[s], p).seq =
              Cardinality({q \in PlacesIn(disk[s]) :
                             q[1] < p[1] \/ (q[1] = p[1] /\ q[2] <= p[2])})
      BY <1>2, Scanning
    <2> QED
      BY <1>1, <2>1 DEF InOrder, UpTo, FrameAt, FrameIn
  <1>5. {FrameAt(s, p).rec : p \in Places(s)} = Recs(disk[s])
    BY <1>1 DEF FrameAt, FrameIn, Recs
  <1> QED
    BY <1>1, <1>2, <1>3, <1>4, <1>5

Updates(g, f, s, v) == g = [f EXCEPT ![s] = v]

LEMMA Updated ==
  ASSUME NEW f, OverSessions(f), NEW s \in Sessions, NEW v, NEW g, Updates(g, f, s, v)
  PROVE  OverSessions(g) /\ g[s] = v /\ \A u \in Sessions : u # s => g[u] = f[u]
  <1>1. DOMAIN f = Sessions
    BY DEF OverSessions
  <1> QED
    BY <1>1 DEF OverSessions, Updates

(* Recovery leaves the frames of a log where they are, and a clean log     *)
(* as it is.                                                               *)
LEMMA RebuiltLog ==
  ASSUME StateTyped, NEW s \in Sessions, LaidOut(s), Rebuild(s)
  PROVE  /\ OverSessions(disk') /\ OverSessions(index')
         /\ \A u \in Sessions : u # s => disk'[u] = disk[u] /\ index'[u] = index[u]
         /\ Layout(disk'[s], Size(disk[s])) /\ Clean(disk'[s])
         /\ DOMAIN disk'[s] = DOMAIN disk[s] /\ Size(disk'[s]) = Size(disk[s])
         /\ Scan(disk'[s]) = Scan(disk[s]) /\ Recs(disk'[s]) = Recs(disk[s])
         /\ index'[s] = IndexOf(disk'[s])
         /\ Clean(disk[s]) => disk'[s] = disk[s]
  <1> DEFINE d == disk[s]
             w == [x \in DOMAIN d |-> Whole(d[x])]
  <1>1. Layout(d, Size(d)) /\ Size(d) \in Nat
    BY LogFacts
  <1>2. /\ Layout(w, Size(d)) /\ Clean(w) /\ DOMAIN w = DOMAIN d /\ Scan(w) = Scan(d)
        /\ IndexOf(w) = IndexOf(d) /\ (Clean(d) => w = d)
    BY <1>1, Cleaned
  <1>3. Size(w) = Size(d)
    BY <1>1, <1>2, Scanning
  <1>4. Recs(w) = Recs(d)
    <2> HIDE DEF w, d
    <2>1. Recs(w) = {Scan(w)[k].rec : k \in 1..Size(d)}
      BY <1>1, <1>2, ScanRecs
    <2>2. Recs(d) = {Scan(d)[k].rec : k \in 1..Size(d)}
      BY <1>1, ScanRecs
    <2> QED
      BY <1>2, <2>1, <2>2
  <1>5. Updates(disk', disk, s, w) /\ Updates(index', index, s, IndexOf(d))
    BY LogFacts DEF Rebuild, Updates, StateTyped, OverSessions
  <1> HIDE DEF w
  <1>6. OverSessions(disk) /\ OverSessions(index)
    BY DEF StateTyped
  <1>7. OverSessions(disk') /\ disk'[s] = w /\ \A u \in Sessions : u # s => disk'[u] = disk[u]
    BY <1>5, <1>6, Updated
  <1>8. /\ OverSessions(index') /\ index'[s] = IndexOf(d)
        /\ \A u \in Sessions : u # s => index'[u] = index[u]
    BY <1>5, <1>6, Updated
  <1> QED
    BY <1>2, <1>3, <1>4, <1>7, <1>8

(* What a writer whose log was opened has left to write: k frames c.       *)
Ready(s, c, k) ==
  /\ k \in 0..MaxBatch /\ From(c, Size(disk[s])) /\ Len(c) = k
  /\ \A n \in 1..k : c[n].rec = issued[s] - k + n
  /\ tx.own[s] = (issued[s] - k + 1)..issued[s]
  /\ Size(disk[s]) + k <= issued[s] /\ Recs(disk[s]) \subseteq 1..(issued[s] - k)
  /\ tx.batch[s] # <<>> /\ tx.batch[s][Len(tx.batch[s])].seq = Size(disk[s]) + k

LEMMA OpenedFacts ==
  ASSUME StoreInv, NEW s \in Sessions, Opened(s)
  PROVE  /\ Size(disk[s]) \in Nat /\ Layout(disk[s], Size(disk[s])) /\ Clean(disk[s])
         /\ index[s] = IndexOf(disk[s]) /\ index[s].latest = Size(disk[s])
         /\ index[s].sizes = [x \in DOMAIN disk[s] |-> Len(Whole(disk[s][x]))]
         /\ \E k \in 0..MaxBatch : Ready(s, Pending(s), k)
  <1> DEFINE d == disk[s]
             b == tx.batch[s]
             L == Size(disk[s])
  <1>1. LaidOut(s) /\ Indexed(s) /\ Held(s) /\ unrecovered = {} /\ TxTyped
    BY DEF StoreInv, Phases, Opened
  <1>2. L \in Nat /\ Layout(d, L)
    BY <1>1, LogFacts
  <1>3. Clean(d) /\ index[s] = IndexOf(d)
    BY <1>1 DEF Indexed, Staged, Opened
  <1>4. index[s].latest = L /\ index[s].sizes = [x \in DOMAIN d |-> Len(Whole(d[x]))]
    BY <1>3 DEF IndexOf
  <1>5. Queue(b, tx.own[s], d, issued[s]) /\ b \in Seq(Frame) /\ issued[s] \in Nat
    BY <1>1 DEF Held, Unwritten, TxTyped, LaidOut
  <1> HIDE DEF b
  <1>6. PICK j \in {0, L}, k \in 0..MaxBatch :
          /\ b # <<>> /\ Numbers(b, L, j, k) /\ Carries(b, j, k, issued[s])
          /\ tx.own[s] = (issued[s] - k + 1)..issued[s]
          /\ L + k <= issued[s] /\ Recs(d) \subseteq 1..(issued[s] - k)
    BY <1>5 DEF Queue
  <1>7. j \in 0..L /\ k \in Nat
    BY <1>2, StoreAssumption
  <1>8. Pending(s) = PendingOf(b, L) /\ Numbers(b, L, j, k)
    BY <1>4, <1>6 DEF Pending, b, PendingOf
  <1>9. /\ From(Pending(s), L) /\ Len(Pending(s)) = k
        /\ \A n \in 1..k : Pending(s)[n] = b[j + n]
    <2>1. /\ From(PendingOf(b, L), L) /\ Len(PendingOf(b, L)) = k
          /\ \A n \in 1..k : PendingOf(b, L)[n] = b[j + n]
      <3> HIDE DEF L
      <3> QED
        BY <1>2, <1>5, <1>7, <1>8, PendingPart
    <2> QED
      BY <1>8, <2>1
  <1>10. b[Len(b)].seq = L + k
    <2>1. Len(b) = j + k /\ Len(b) # 0
      BY <1>5, <1>6 DEF Numbers
    <2>2. Len(b) \in 1..(j + k) /\ L - j + Len(b) = L + k
      BY <1>2, <1>7, <2>1
    <2> QED
      BY <1>6, <2>2 DEF Numbers
  <1>11. Ready(s, Pending(s), k)
    BY <1>6, <1>9, <1>10 DEF Ready, b, Carries
  <1> QED
    BY <1>2, <1>3, <1>4, <1>11

LEMMA TargetFacts ==
  ASSUME StoreInv, NEW s \in Sessions, Opened(s), Pending(s) # <<>>
  PROVE  /\ Slot(disk[s], Size(disk[s]), Target(s)) /\ Target(s) \in 1..(Size(disk[s]) + 1)
         /\ \A f : Appended(s, Target(s), f) = Wrote(disk[s], Target(s), f)
         /\ StagedIndex(s) = IndexOf(Appended(s, Target(s), Pending(s)))
  <1> DEFINE d == disk[s]
             c == Pending(s)
             L == Size(disk[s])
             act == ActiveSegment(s)
             t == Target(s)
  <1>1. /\ L \in Nat /\ Layout(d, L) /\ Clean(d)
        /\ index[s].sizes = [x \in DOMAIN d |-> Len(Whole(d[x]))] /\ From(c, L)
    BY OpenedFacts DEF Ready
  <1>2. Len(c) \in 1..Len(c) /\ Len(c) \in Nat /\ 1 \in 1..Len(c) /\ c[1].seq = L + 1
        /\ c[Len(c)].seq = L + Len(c)
    BY <1>1 DEF From
  <1>3. DOMAIN index[s].sizes = DOMAIN d
    BY <1>1
  <1>4. act = IF DOMAIN d = {} THEN L + 1 ELSE Max(DOMAIN d)
    BY <1>2, <1>3 DEF ActiveSegment
  <1>5. \A x : SizeOf(s, x) = Len(Old(d, x))
    BY DEF SizeOf, Old
  <1>6. t = IF Rotates(s) THEN L + 1 ELSE act
    BY <1>2 DEF Target
  <1>7. Rotates(s) => Len(Old(d, act)) > 0
    BY <1>5 DEF Rotates
  <1> HIDE DEF t, act
  <1>8. /\ Slot(d, L, t) /\ t \in 1..(L + 1)
        /\ Len(Old(d, act)) > 0 /\ t = L + 1 => Len(Old(d, t)) = 0
    BY <1>1, <1>4, <1>6, <1>7, SlotFound
  <1>9. \A f : Appended(s, t, f) = Wrote(d, t, f)
    BY DEF Appended, Wrote, Old
  <1>10. StagedIndex(s) = IndexOf(Wrote(d, t, c))
    <2>1. IndexOf(Wrote(d, t, c)) = IndexAfter(d, L, t, c)
      BY <1>1, <1>8, WroteIndex
    <2>2. (IF Rotates(s) THEN 0 ELSE SizeOf(s, t)) = Len(Old(d, t))
      BY <1>5, <1>6, <1>7, <1>8
    <2>3. StagedIndex(s) =
            [latest |-> L + Len(c),
             sizes |-> [y \in DOMAIN d \cup {t} |->
                          IF y = t THEN Len(Old(d, t)) + Len(c) ELSE index[s].sizes[y]]]
      BY <1>2, <1>3, <2>2 DEF StagedIndex, t
    <2>4. [y \in DOMAIN d \cup {t} |->
             IF y = t THEN Len(Old(d, t)) + Len(c) ELSE index[s].sizes[y]]
          = [y \in DOMAIN d \cup {t} |->
               IF y = t THEN Len(Old(d, t)) + Len(c) ELSE Len(Whole(d[y]))]
      BY <1>1
    <2> QED
      BY <2>1, <2>3, <2>4 DEF IndexAfter
  <1> QED
    BY <1>8, <1>9, <1>10 DEF t

-----------------------------------------------------------------------------
(***************************************************************************)
(* What a step leaves alone.                                               *)
(***************************************************************************)
LEMMA KeepsLog ==
  ASSUME NEW u \in Sessions, LaidOut(u), disk'[u] = disk[u], index'[u] = index[u],
         state'[u] = state[u], issued'[u] = issued[u], acked'[u] = acked[u]
  PROVE  LaidOut(u)'
  BY DEF LaidOut

LEMMA KeepsIndex ==
  ASSUME NEW u \in Sessions, Indexed(u), disk'[u] = disk[u], index'[u] = index[u],
         u \in unrecovered => u \in unrecovered', Staged(u)' <=> Staged(u),
         Staged(u) => tx'.staged = tx.staged
  PROVE  Indexed(u)'
  BY DEF Indexed

LEMMA KeepsHeld ==
  ASSUME NEW u \in Sessions, Held(u), disk'[u] = disk[u], issued'[u] = issued[u],
         tx'.batch[u] = tx.batch[u], tx'.own[u] = tx.own[u], Unwritten(u)' <=> Unwritten(u)
  PROVE  Held(u)'
  BY DEF Held

LEMMA TxMade ==
  ASSUME NEW b \in [Sessions -> Seq(Frame)], NEW o \in [Sessions -> SUBSET Nat],
         NEW l \in SUBSET Sessions, NEW a \in {"none"} \cup Sessions, NEW st,
         NEW i \in SUBSET Sessions, NEW r,
         r = [batch |-> b, own |-> o, left |-> l, at |-> a, staged |-> st, items |-> i]
  PROVE  r \in [batch : [Sessions -> Seq(Frame)], own : [Sessions -> SUBSET Nat],
                left : SUBSET Sessions, at : {"none"} \cup Sessions, staged : {r.staged},
                items : SUBSET Sessions]
  OBVIOUS

LEMMA NoTxTyped ==
  /\ NoTx \in [batch : [Sessions -> Seq(Frame)], own : [Sessions -> SUBSET Nat],
               left : SUBSET Sessions, at : {"none"} \cup Sessions, staged : {NoTx.staged},
               items : SUBSET Sessions]
  /\ NoTx.left = {} /\ \A s \in Sessions : NoTx.batch[s] = <<>> /\ NoTx.own[s] = {}
  <1>1. /\ [s \in Sessions |-> <<>>] \in [Sessions -> Seq(Frame)]
        /\ [s \in Sessions |-> {}] \in [Sessions -> SUBSET Nat]
    OBVIOUS
  <1> QED
    BY <1>1 DEF NoTx

LEMMA EmptyLog ==
  ASSUME NEW d, d = <<>>
  PROVE  /\ Layout(d, 0) /\ Size(d) = 0 /\ Clean(d) /\ Recs(d) = {} /\ IndexOf(d) = NoIndex
         /\ DOMAIN d = {}
  <1>1. DOMAIN d = {}
    OBVIOUS
  <1>2. d \in [DOMAIN d -> Seq(Frame)]
    OBVIOUS
  <1>3. Layout(d, 0)
    BY <1>1, <1>2 DEF Layout
  <1>4. Size(d) = 0
    BY <1>3, Scanning
  <1>5. Recs(d) = {}
    BY <1>1 DEF Recs, PlacesIn
  <1>6. [x \in DOMAIN d |-> Len(Whole(d[x]))] = <<>>
    BY <1>1
  <1> QED
    BY <1>1, <1>3, <1>4, <1>5, <1>6 DEF Clean, IndexOf, NoIndex

LEMMA InitInv == Init => StoreInv
  <1> SUFFICES ASSUME Init PROVE StoreInv
    OBVIOUS
  <1>1. StateTyped
    BY DEF Init, StateTyped, OverSessions
  <1>2. TxTyped
    BY NoTxTyped, StoreAssumption DEF Init, TxTyped
  <1>3. Phases
    BY DEF Init, Phases
  <1>4. ASSUME NEW s \in Sessions PROVE LaidOut(s) /\ Indexed(s) /\ Held(s)
    <2>1. disk[s] = <<>> /\ index[s] = NoIndex /\ state[s] = 0 /\ issued[s] = 0 /\ acked[s] = {}
      BY DEF Init
    <2>2. /\ Layout(disk[s], 0) /\ Size(disk[s]) = 0 /\ Clean(disk[s]) /\ Recs(disk[s]) = {}
          /\ IndexOf(disk[s]) = NoIndex /\ DOMAIN disk[s] = {}
      BY <2>1, EmptyLog
    <2>3. NoIndex.latest = 0 /\ DOMAIN NoIndex.sizes = {}
      BY DEF NoIndex
    <2>4. LaidOut(s)
      BY <2>1, <2>2, <2>3, StoreAssumption DEF LaidOut
    <2>5. Indexed(s)
      BY <2>1, <2>2 DEF Indexed, Staged, Init
    <2>6. Held(s)
      BY <2>2, NoTxTyped DEF Held, Unwritten, Opened, Saved, Init
    <2> QED
      BY <2>4, <2>5, <2>6
  <1> QED
    BY <1>1, <1>2, <1>3, <1>4 DEF StoreInv

-----------------------------------------------------------------------------
(***************************************************************************)
(* A transaction begins.                                                   *)
(***************************************************************************)
Fresh(f, L, k, top) == From(f, L) /\ Len(f) = k /\ \A n \in 1..k : f[n].rec = top + n

LEMMA FreshEntries ==
  ASSUME NEW L \in Nat, NEW k \in Nat, NEW top \in Nat
  PROVE  Fresh([n \in 1..k |-> [seq |-> L + 1 + n - 1, rec |-> top + n]], L, k, top)
  <1> DEFINE f == [n \in 1..k |-> [seq |-> L + 1 + n - 1, rec |-> top + n]]
  <1>1. \A n \in 1..k : /\ L + 1 + n - 1 = L + n /\ L + n \in Nat /\ top + n \in Nat
    OBVIOUS
  <1>2. \A n \in 1..k : f[n] = [seq |-> L + n, rec |-> top + n]
    BY <1>1
  <1>3. f \in Seq(Frame) /\ Len(f) = k
    <2>1. f \in [1..k -> Frame]
      BY <1>1 DEF Frame
    <2> HIDE DEF f
    <2> QED
      BY <2>1
  <1> QED
    BY <1>2, <1>3 DEF From, Fresh

(* The entries a transaction has of a log: those it read, all or none, and *)
(* its own.                                                                *)
Read(d, L, a, j) == (j = 0 /\ a = <<>>) \/ (j = L /\ a = Scan(d))

LEMMA CarriesMade ==
  ASSUME NEW b, NEW j, NEW k, NEW top, \A n \in 1..k : b[j + n].rec = top - k + n
  PROVE  Carries(b, j, k, top)
  BY DEF Carries

LEMMA QueueMade ==
  ASSUME NEW d, NEW b, b # <<>>, NEW own, NEW top, NEW j, NEW k \in 0..MaxBatch,
         j = 0 \/ j = Size(d), Numbers(b, Size(d), j, k), Carries(b, j, k, top),
         own = (top - k + 1)..top, Size(d) + k <= top, Recs(d) \subseteq 1..(top - k)
  PROVE  Queue(b, own, d, top)
  BY DEF Queue

LEMMA NewEntries ==
  ASSUME NEW d, NEW L \in Nat, Layout(d, L), NEW a, NEW j, Read(d, L, a, j),
         NEW k \in Nat, NEW top \in Nat, NEW f, Fresh(f, L, k, top)
  PROVE  /\ a \o f \in Seq(Frame) /\ Numbers(a \o f, L, j, k)
         /\ Carries(a \o f, j, k, top + k)
  <1>1. From(f, L) /\ Len(f) = k /\ \A n \in 1..k : f[n].rec = top + n
    BY DEF Fresh
  <1>2. j \in 0..L /\ From(a, L - j) /\ Len(a) = j
    <2>1. CASE j = 0 /\ a = <<>>
      BY <2>1 DEF From
    <2>2. CASE j = L /\ a = Scan(d)
      <3>1. Scan(d) \in Seq(Frame) /\ Len(Scan(d)) = L /\ \A n \in 1..L : Scan(d)[n].seq = n
        BY ScanFound
      <3>2. L - j = 0
        BY <2>2
      <3> QED
        BY <2>2, <3>1, <3>2 DEF From
    <2> QED
      BY <2>1, <2>2 DEF Read
  <1>3. PICK i \in Nat : i = L - j /\ i + Len(a) = L
    BY <1>2
  <1>4. From(a \o f, i) /\ Len(a \o f) = j + k
    <2>1. From(a, i) /\ From(f, i + Len(a))
      BY <1>1, <1>2, <1>3
    <2>2. From(a \o f, i) /\ Len(a \o f) = Len(a) + Len(f)
      BY <1>3, <2>1, Continued
    <2> QED
      BY <1>1, <1>2, <2>2
  <1>5. Numbers(a \o f, L, j, k)
    BY <1>3, <1>4 DEF From, Numbers
  <1>6. PICK sum \in Nat : sum = top + k
    OBVIOUS
  <1>7. ASSUME NEW n \in 1..k PROVE (a \o f)[j + n].rec = sum - k + n
    <2>1. a \in Seq(Frame) /\ f \in Seq(Frame) /\ j \in Nat
      BY <1>1, <1>2 DEF From
    <2>2. (a \o f)[Len(a) + n] = f[n]
      BY <1>1, <2>1
    <2>3. sum - k + n = top + n
      BY <1>6
    <2> QED
      BY <1>1, <1>2, <2>2, <2>3
  <1>8. Carries(a \o f, j, k, sum)
    BY <1>7, CarriesMade
  <1>9. a \o f \in Seq(Frame)
    BY <1>4 DEF From
  <1> QED
    BY <1>5, <1>6, <1>8, <1>9

LEMMA BeginStep ==
  ASSUME InitFirst, StoreInv, NEW count \in [Sessions -> 0..MaxBatch], NEW full \in SUBSET Sessions,
         Begin(count, full)
  PROVE  StoreInv'
  <1> DEFINE batch == [s \in Sessions |-> Entries(s, count[s], s \in full)]
             own == [s \in Sessions |-> (issued[s] + 1)..(issued[s] + count[s])]
             left == {s \in Sessions : Entries(s, count[s], s \in full) # <<>>}
  <1>1. pc = "idle" /\ unrecovered = {} /\ pc' = "log"
        /\ UNCHANGED <<disk, index, state, unrecovered, acked, crashes>>
    BY DEF Begin, logs
  <1>2. tx' = [batch |-> batch, own |-> own, left |-> left, at |-> "none", staged |-> NoIndex,
               items |-> Sessions]
    BY DEF Begin, NoTx
  <1>3. /\ issued' = [s \in Sessions |-> issued[s] + count[s]]
        /\ \A s \in Sessions : issued[s] + count[s] <= MaxRecords
    BY DEF Begin
  <1>4. ASSUME NEW s \in Sessions
        PROVE  /\ batch[s] \in Seq(Frame) /\ own[s] \in SUBSET Nat
               /\ batch[s] # <<>> =>
                    Queue(batch[s], own[s], disk[s], issued[s] + count[s])
               /\ batch[s] = <<>> => own[s] = {}
    <2> DEFINE d == disk[s]
               L == Size(disk[s])
               k == count[s]
               a == IF s \in full THEN Scan(d) ELSE <<>>
               j == IF s \in full THEN L ELSE 0
               f == [n \in 1..k |-> [seq |-> L + 1 + n - 1, rec |-> issued[s] + n]]
    <2>1. LaidOut(s) /\ Indexed(s) /\ L \in Nat /\ Layout(d, L) /\ issued[s] \in Nat
      BY DEF StoreInv, LaidOut
    <2>2. k \in 0..MaxBatch /\ k \in Nat
      BY StoreAssumption
    <2>3. index[s].latest = L
      BY <1>1, <2>1 DEF Indexed, Staged, IndexOf
    <2>4. Cardinality(Places(s)) = L /\ Scanned(s) = Scan(d)
      BY <2>1, LogFacts DEF Size
    <2>5. NextSeq(s, s \in full) = L + 1
      <3>1. Max({L, IF s \in full THEN L ELSE 0}) = L
        BY <2>1, MaxOf
      <3> QED
        BY <2>3, <2>4, <3>1 DEF NextSeq
    <2>6. batch[s] = a \o f
      BY <2>4, <2>5 DEF Entries
    <2>7. Read(d, L, a, j) /\ Fresh(f, L, k, issued[s])
      BY <2>1, <2>2, FreshEntries DEF Read
    <2>8. /\ a \o f \in Seq(Frame) /\ Numbers(a \o f, L, j, k)
          /\ Carries(a \o f, j, k, issued[s] + k)
      <3> HIDE DEF a, j, d, L, k, f
      <3> QED
        BY <2>1, <2>2, <2>7, NewEntries
    <2>9. PICK sum \in Nat : sum = issued[s] + k
      BY <2>1, <2>2
    <2>10. own[s] = (sum - k + 1)..sum /\ own[s] \in SUBSET Nat
      BY <2>1, <2>2, <2>9
    <2>11. Recs(d) \subseteq 1..(sum - k) /\ L + k <= sum
      BY <2>1, <2>2, <2>9 DEF LaidOut
    <2>12. batch[s] # <<>> => Queue(batch[s], own[s], d, issued[s] + k)
      <3> HIDE DEF batch, own, a, f, j, k, L, d
      <3>1. Numbers(batch[s], L, j, k) /\ Carries(batch[s], j, k, sum)
        BY <2>6, <2>8, <2>9
      <3>2. L = Size(d) /\ (j = 0 \/ j = L)
        BY DEF L, d, j
      <3>3. batch[s] # <<>> => Queue(batch[s], own[s], d, sum)
        BY <2>2, <2>10, <2>11, <3>1, <3>2, QueueMade
      <3> QED
        BY <2>9, <3>3
    <2>13. batch[s] = <<>> => own[s] = {}
      <3> SUFFICES ASSUME batch[s] = <<>> PROVE own[s] = {}
        OBVIOUS
      <3>1. Len(a \o f) = 0 /\ Len(a \o f) = j + k /\ j \in Nat
        BY <2>1, <2>6, <2>8 DEF Numbers
      <3>2. k = 0
        BY <2>2, <3>1
      <3> QED
        BY <2>1, <3>2
    <2> QED
      BY <2>6, <2>8, <2>10, <2>12, <2>13
  <1> HIDE DEF batch, own
  <1>5. batch \in [Sessions -> Seq(Frame)] /\ own \in [Sessions -> SUBSET Nat]
    BY <1>4 DEF batch, own
  <1>6. TxTyped'
    <2>1. tx' \in [batch : [Sessions -> Seq(Frame)], own : [Sessions -> SUBSET Nat],
                   left : SUBSET Sessions, at : {"none"} \cup Sessions, staged : {tx'.staged},
                   items : SUBSET Sessions]
      BY <1>2, <1>5, TxMade
    <2> QED
      BY <1>1, <2>1 DEF StoreInv, TxTyped
  <1>7. StateTyped' /\ Phases'
    BY <1>1, <1>3 DEF StoreInv, StateTyped, OverSessions, Phases
  <1>8. ASSUME NEW s \in Sessions PROVE LaidOut(s)' /\ Indexed(s)' /\ Held(s)'
    <2>1. LaidOut(s) /\ Indexed(s) /\ count[s] \in Nat
      BY StoreAssumption DEF StoreInv
    <2>2. issued'[s] = issued[s] + count[s] /\ issued[s] \in Nat /\ issued[s] <= issued'[s]
          /\ issued'[s] \in 0..MaxRecords
      BY <1>3, <2>1, StoreAssumption DEF LaidOut
    <2>3. LaidOut(s)'
      BY <1>1, <2>1, <2>2 DEF LaidOut
    <2>4. Indexed(s)'
      BY <1>1, <2>1 DEF Indexed, Staged
    <2>5. tx'.batch[s] = batch[s] /\ tx'.own[s] = own[s] /\ (Unwritten(s)' <=> batch[s] # <<>>)
      BY <1>1, <1>2 DEF Unwritten, Opened, batch
    <2>6. Held(s)'
      BY <1>1, <1>4, <2>2, <2>5 DEF Held, Saved
    <2> QED
      BY <2>3, <2>4, <2>6
  <1> QED
    BY <1>6, <1>7, <1>8 DEF StoreInv

-----------------------------------------------------------------------------
(***************************************************************************)
(* A save, step by step.                                                   *)
(***************************************************************************)
LEMMA TxFields ==
  ASSUME TxTyped
  PROVE  /\ tx = [batch |-> tx.batch, own |-> tx.own, left |-> tx.left, at |-> tx.at,
                  staged |-> tx.staged, items |-> tx.items]
         /\ tx.batch \in [Sessions -> Seq(Frame)] /\ tx.own \in [Sessions -> SUBSET Nat]
         /\ tx.left \in SUBSET Sessions /\ tx.at \in {"none"} \cup Sessions
         /\ tx.items \in SUBSET Sessions
  BY DEF TxTyped

(* What OpenLog finds: a log that is clean and indexed already.            *)
LEMMA OpensCurrent ==
  ASSUME StoreInv, NEW s \in Sessions, OpenLog(s)
  PROVE  UNCHANGED <<disk, index>>
  <1>1. CASE Trusted(s)
    BY <1>1 DEF OpenLog, logs
  <1>2. CASE ~Trusted(s)
    <2>1. StateTyped /\ LaidOut(s) /\ Rebuild(s) /\ Clean(disk[s]) /\ index[s] = IndexOf(disk[s])
      BY <1>2 DEF OpenLog, StoreInv, Phases, Indexed, Staged
    <2>2. /\ OverSessions(disk') /\ OverSessions(index')
          /\ \A u \in Sessions : u # s => disk'[u] = disk[u] /\ index'[u] = index[u]
          /\ disk'[s] = disk[s] /\ index'[s] = IndexOf(disk'[s])
      BY <2>1, RebuiltLog
    <2>3. /\ OverSessions(disk) /\ OverSessions(index)
          /\ \A u \in Sessions : disk'[u] = disk[u] /\ index'[u] = index[u]
      BY <2>1, <2>2 DEF StateTyped
    <2>4. disk' = [u \in Sessions |-> disk[u]] /\ index' = [u \in Sessions |-> index[u]]
      BY <2>2, <2>3 DEF OverSessions
    <2> QED
      BY <2>3, <2>4 DEF OverSessions
  <1> QED
    BY <1>1, <1>2

LEMMA OpenLogStep ==
  ASSUME StoreInv, NEW s \in Sessions, OpenLog(s)
  PROVE  StoreInv'
  <1>1. /\ UNCHANGED <<disk, index, state, unrecovered, issued, acked, crashes>>
        /\ pc = "log" /\ pc' = "frames" /\ s \in tx.left /\ unrecovered = {}
    BY OpensCurrent DEF OpenLog, counters, StoreInv, Phases
  <1>2. TxTyped /\ StateTyped
    BY DEF StoreInv
  <1>3. tx' = [batch |-> tx.batch, own |-> tx.own, left |-> tx.left \ {s}, at |-> s,
               staged |-> tx.staged, items |-> tx.items]
    BY <1>2, TxFields DEF OpenLog
  <1>4. TxTyped'
    <2>1. tx' \in [batch : [Sessions -> Seq(Frame)], own : [Sessions -> SUBSET Nat],
                   left : SUBSET Sessions, at : {"none"} \cup Sessions, staged : {tx'.staged},
                   items : SUBSET Sessions]
      BY <1>2, <1>3, TxFields, TxMade
    <2> QED
      BY <1>1, <1>2, <2>1 DEF TxTyped
  <1>5. StateTyped' /\ Phases'
    BY <1>1, <1>2, <1>3 DEF StateTyped, OverSessions, Phases
  <1>6. ASSUME NEW u \in Sessions PROVE LaidOut(u)' /\ Indexed(u)' /\ Held(u)'
    <2>1. LaidOut(u) /\ Indexed(u) /\ Held(u)
      BY DEF StoreInv
    <2>2. LaidOut(u)'
      BY <1>1, <2>1, KeepsLog
    <2>3. Indexed(u)'
      BY <1>1, <2>1 DEF Indexed, Staged
    <2>4. Unwritten(u)' <=> Unwritten(u)
      BY <1>1, <1>3 DEF Unwritten, Opened
    <2>5. Held(u)'
      BY <1>1, <1>3, <2>1, <2>4, KeepsHeld
    <2> QED
      BY <2>2, <2>3, <2>5
  <1> QED
    BY <1>4, <1>5, <1>6 DEF StoreInv

LEMMA NothingPendingStep ==
  ASSUME StoreInv, NEW s \in Sessions, NothingPending(s)
  PROVE  StoreInv'
  <1>1. /\ UNCHANGED <<disk, index, state, unrecovered, issued, acked, crashes>>
        /\ pc = "frames" /\ tx.at = s /\ pc' \in {"files", "log"} /\ (pc' = "files" => tx.left = {})
        /\ unrecovered = {} /\ Opened(s) /\ Pending(s) = <<>>
    BY DEF NothingPending, logs, counters, StoreInv, Phases, Opened
  <1>2. TxTyped /\ StateTyped
    BY DEF StoreInv
  <1>3. tx' = [batch |-> tx.batch, own |-> tx.own, left |-> tx.left, at |-> "none",
               staged |-> tx.staged, items |-> tx.items]
    BY <1>2, TxFields DEF NothingPending
  <1>4. TxTyped'
    <2>1. tx' \in [batch : [Sessions -> Seq(Frame)], own : [Sessions -> SUBSET Nat],
                   left : SUBSET Sessions, at : {"none"} \cup Sessions, staged : {tx'.staged},
                   items : SUBSET Sessions]
      BY <1>2, <1>3, TxFields, TxMade
    <2> QED
      BY <1>1, <1>2, <2>1 DEF TxTyped
  <1>5. StateTyped' /\ Phases'
    BY <1>1, <1>2, <1>3 DEF StateTyped, OverSessions, Phases
  <1>6. Saved(tx.batch[s], tx.own[s], disk[s])
    <2>1. PICK k \in 0..MaxBatch : Ready(s, Pending(s), k)
      BY <1>1, OpenedFacts
    <2>2. k = 0 /\ Size(disk[s]) \in Nat /\ issued[s] \in Nat
      BY <1>1, <2>1 DEF Ready, StoreInv, LaidOut
    <2>3. tx.own[s] = {} /\ tx.batch[s][Len(tx.batch[s])].seq = Size(disk[s])
      BY <2>1, <2>2 DEF Ready
    <2> QED
      BY <2>3 DEF Saved
  <1>7. ASSUME NEW u \in Sessions PROVE LaidOut(u)' /\ Indexed(u)' /\ Held(u)'
    <2>1. LaidOut(u) /\ Indexed(u) /\ Held(u)
      BY DEF StoreInv
    <2>2. LaidOut(u)'
      BY <1>1, <2>1, KeepsLog
    <2>3. Indexed(u)'
      BY <1>1, <2>1 DEF Indexed, Staged
    <2>4. Unwritten(u)' <=> u \in tx.left
      BY <1>1, <1>3 DEF Unwritten, Opened
    <2>5. Held(u)'
      <3>1. CASE u \in tx.left \/ u # s
        BY <1>1, <1>3, <2>1, <2>4, <3>1 DEF Held, Unwritten, Opened
      <3>2. CASE u \notin tx.left /\ u = s
        BY <1>1, <1>3, <1>6, <2>4, <3>2 DEF Held
      <3> QED
        BY <3>1, <3>2
    <2> QED
      BY <2>2, <2>3, <2>5
  <1> QED
    BY <1>4, <1>5, <1>7 DEF StoreInv

LEMMA WriteIndexStep ==
  ASSUME StoreInv, NEW s \in Sessions, WriteIndex(s)
  PROVE  StoreInv'
  <1>1. /\ UNCHANGED <<disk, state, unrecovered, issued, acked, crashes>>
        /\ pc = "index" /\ tx.at = s /\ pc' \in {"files", "log"} /\ (pc' = "files" => tx.left = {})
        /\ unrecovered = {} /\ Staged(s)
    BY DEF WriteIndex, counters, StoreInv, Phases, Staged
  <1>2. TxTyped /\ StateTyped
    BY DEF StoreInv
  <1>3. tx' = [batch |-> tx.batch, own |-> tx.own, left |-> tx.left, at |-> "none",
               staged |-> NoIndex, items |-> tx.items]
    BY <1>2, TxFields DEF WriteIndex
  <1>4. TxTyped'
    <2>1. tx' \in [batch : [Sessions -> Seq(Frame)], own : [Sessions -> SUBSET Nat],
                   left : SUBSET Sessions, at : {"none"} \cup Sessions, staged : {tx'.staged},
                   items : SUBSET Sessions]
      BY <1>2, <1>3, TxFields, TxMade
    <2> QED
      BY <1>1, <1>2, <2>1 DEF TxTyped
  <1>5. /\ OverSessions(index') /\ index'[s] = tx.staged
        /\ \A u \in Sessions : u # s => index'[u] = index[u]
    <2>1. OverSessions(index) /\ Updates(index', index, s, tx.staged)
      BY <1>2 DEF StateTyped, WriteIndex, Updates
    <2> QED
      BY <2>1, Updated
  <1>6. StateTyped' /\ Phases'
    BY <1>1, <1>2, <1>3, <1>5 DEF StateTyped, OverSessions, Phases
  <1>7. ASSUME NEW u \in Sessions PROVE LaidOut(u)' /\ Indexed(u)' /\ Held(u)'
    <2>1. LaidOut(u) /\ Indexed(u) /\ Held(u)
      BY DEF StoreInv
    <2>2. Clean(disk[u]) /\ index'[u] = IndexOf(disk[u])
      BY <1>1, <1>5, <2>1 DEF Indexed, Staged
    <2>3. index'[u].latest \in 0..MaxRecords /\ DOMAIN index'[u].sizes \subseteq DOMAIN disk[u]
      <3>1. Size(disk[u]) \in 0..MaxRecords
        BY <2>1, StoreAssumption DEF LaidOut
      <3> QED
        BY <2>2, <3>1 DEF IndexOf
    <2>4. LaidOut(u)'
      BY <1>1, <2>1, <2>3 DEF LaidOut
    <2>5. Indexed(u)'
      BY <1>1, <2>2 DEF Indexed, Staged
    <2>6. Unwritten(u)' <=> Unwritten(u)
      BY <1>1, <1>3 DEF Unwritten, Opened
    <2>7. Held(u)'
      BY <1>1, <1>3, <2>1, <2>6, KeepsHeld
    <2> QED
      BY <2>4, <2>5, <2>7
  <1> QED
    BY <1>4, <1>6, <1>7 DEF StoreInv

LEMMA WriteItemStep ==
  ASSUME StoreInv, NEW s \in Sessions, WriteItem(s)
  PROVE  StoreInv'
  <1>1. /\ UNCHANGED <<disk, index, pc, unrecovered, issued, acked, crashes>>
        /\ pc = "files" /\ tx.left = {} /\ unrecovered = {}
    BY DEF WriteItem, Saving, logs, counters, StoreInv, Phases
  <1>2. TxTyped /\ StateTyped
    BY DEF StoreInv
  <1>3. tx' = [batch |-> tx.batch, own |-> tx.own, left |-> tx.left, at |-> tx.at,
               staged |-> tx.staged, items |-> tx.items \ {s}]
    BY <1>2, TxFields DEF WriteItem
  <1>4. TxTyped'
    <2>1. tx' \in [batch : [Sessions -> Seq(Frame)], own : [Sessions -> SUBSET Nat],
                   left : SUBSET Sessions, at : {"none"} \cup Sessions, staged : {tx'.staged},
                   items : SUBSET Sessions]
      BY <1>2, <1>3, TxFields, TxMade
    <2> QED
      BY <1>1, <1>2, <2>1 DEF TxTyped
  <1>5. /\ OverSessions(state') /\ state'[s] = Reached(s)
        /\ \A u \in Sessions : u # s => state'[u] = state[u]
    <2>1. OverSessions(state) /\ Updates(state', state, s, Reached(s))
      BY <1>2 DEF StateTyped, WriteItem, Updates
    <2> QED
      BY <2>1, Updated
  <1>6. StateTyped' /\ Phases'
    BY <1>1, <1>2, <1>3, <1>5 DEF StateTyped, OverSessions, Phases
  <1>7. Reached(s) = Size(disk[s])
    <2>1. LaidOut(s) /\ Indexed(s) /\ Held(s)
      BY DEF StoreInv
    <2>2. index[s].latest = Size(disk[s])
      BY <1>1, <2>1 DEF Indexed, Staged, IndexOf
    <2>3. Saved(tx.batch[s], tx.own[s], disk[s])
      BY <1>1, <2>1 DEF Held, Unwritten, Opened
    <2> QED
      BY <2>2, <2>3 DEF Reached, Saved
  <1>8. ASSUME NEW u \in Sessions PROVE LaidOut(u)' /\ Indexed(u)' /\ Held(u)'
    <2>1. LaidOut(u) /\ Indexed(u) /\ Held(u)
      BY DEF StoreInv
    <2>2. state'[u] \in 0..Size(disk[u])
      BY <1>5, <1>7, <2>1 DEF LaidOut
    <2>3. LaidOut(u)'
      BY <1>1, <2>1, <2>2 DEF LaidOut
    <2>4. Indexed(u)'
      BY <1>1, <2>1 DEF Indexed, Staged
    <2>5. Unwritten(u)' <=> Unwritten(u)
      BY <1>1, <1>3 DEF Unwritten, Opened
    <2>6. Held(u)'
      BY <1>1, <1>3, <2>1, <2>5, KeepsHeld
    <2> QED
      BY <2>3, <2>4, <2>6
  <1> QED
    BY <1>4, <1>6, <1>8 DEF StoreInv

LEMMA ReturnStep ==
  ASSUME StoreInv, Return
  PROVE  StoreInv'
  <1>1. /\ UNCHANGED <<disk, index, state, unrecovered, issued, crashes>>
        /\ pc = "files" /\ pc' = "idle" /\ tx.left = {} /\ unrecovered = {} /\ tx' = NoTx
        /\ acked' = [s \in Sessions |-> acked[s] \cup tx.own[s]]
    BY DEF Return, logs, StoreInv, Phases
  <1>2. TxTyped'
    BY <1>1, NoTxTyped DEF StoreInv, TxTyped
  <1>3. StateTyped' /\ Phases'
    BY <1>1 DEF StoreInv, StateTyped, OverSessions, Phases
  <1>4. ASSUME NEW u \in Sessions PROVE LaidOut(u)' /\ Indexed(u)' /\ Held(u)'
    <2>1. LaidOut(u) /\ Indexed(u) /\ Held(u)
      BY DEF StoreInv
    <2>2. tx.own[u] \subseteq Recs(disk[u])
      BY <1>1, <2>1 DEF Held, Unwritten, Opened, Saved
    <2>3. acked'[u] \subseteq Recs(disk[u])
      BY <1>1, <2>1, <2>2 DEF LaidOut
    <2>4. LaidOut(u)'
      BY <1>1, <2>1, <2>3 DEF LaidOut
    <2>5. Indexed(u)'
      BY <1>1, <2>1 DEF Indexed, Staged
    <2>6. Held(u)'
      BY <1>1, NoTxTyped DEF Held, Unwritten, Opened, Saved
    <2> QED
      BY <2>4, <2>5, <2>6
  <1> QED
    BY <1>2, <1>3, <1>4 DEF StoreInv

(* After the death of the writer nothing is left of it but what is on disk. *)
LEMMA DeadStep ==
  ASSUME StoreInv, Dies, UNCHANGED index, OverSessions(disk'), \A u \in Sessions : LaidOut(u)'
  PROVE  StoreInv'
  <1>1. /\ UNCHANGED <<state, issued, acked>> /\ pc' = "idle" /\ tx' = NoTx
        /\ unrecovered' = Sessions /\ crashes < MaxCrashes /\ crashes' = crashes + 1
    BY DEF Dies
  <1>2. TxTyped'
    BY <1>1, NoTxTyped, StoreAssumption DEF StoreInv, TxTyped
  <1>3. StateTyped' /\ Phases'
    BY <1>1 DEF StoreInv, StateTyped, OverSessions, Phases
  <1>4. ASSUME NEW u \in Sessions PROVE Indexed(u)' /\ Held(u)'
    <2>1. Indexed(u)'
      BY <1>1 DEF Indexed, Staged
    <2>2. Held(u)'
      BY <1>1, NoTxTyped DEF Held, Unwritten, Opened, Saved
    <2> QED
      BY <2>1, <2>2
  <1> QED
    BY <1>2, <1>3, <1>4 DEF StoreInv

LEMMA CrashStep ==
  ASSUME StoreInv, Crash
  PROVE  StoreInv'
  <1>1. Dies /\ UNCHANGED <<disk, index, state, issued, acked>>
    BY DEF Crash, Dies, logs
  <1>2. ASSUME NEW u \in Sessions PROVE LaidOut(u)'
    <2>1. LaidOut(u)
      BY DEF StoreInv
    <2> QED
      BY <1>1, <2>1, KeepsLog
  <1>3. OverSessions(disk')
    BY <1>1 DEF StoreInv, StateTyped
  <1> QED
    BY <1>1, <1>2, <1>3, DeadStep

LEMMA RecoverStep ==
  ASSUME StoreInv, NEW s \in Sessions, Recover(s)
  PROVE  StoreInv'
  <1>1. /\ UNCHANGED <<state, pc, tx, issued, acked, crashes>> /\ pc = "idle"
        /\ Rebuild(s) /\ unrecovered' = unrecovered \ {s}
    BY DEF Recover, counters
  <1>2. LaidOut(s) /\ StateTyped /\ TxTyped
    BY DEF StoreInv
  <1>3. /\ OverSessions(disk') /\ OverSessions(index')
        /\ \A u \in Sessions : u # s => disk'[u] = disk[u] /\ index'[u] = index[u]
        /\ Layout(disk'[s], Size(disk[s])) /\ Clean(disk'[s])
        /\ DOMAIN disk'[s] = DOMAIN disk[s] /\ Size(disk'[s]) = Size(disk[s])
        /\ Recs(disk'[s]) = Recs(disk[s])
        /\ index'[s] = IndexOf(disk'[s])
        /\ Clean(disk[s]) => disk'[s] = disk[s]
    BY <1>1, <1>2, RebuiltLog
  <1>4. TxTyped' /\ StateTyped' /\ Phases'
    BY <1>1, <1>2, <1>3 DEF StateTyped, OverSessions, Phases, TxTyped, StoreInv
  <1>5. ASSUME NEW u \in Sessions, u # s PROVE LaidOut(u)' /\ Indexed(u)' /\ Held(u)'
    <2>1. LaidOut(u) /\ Indexed(u) /\ Held(u) /\ disk'[u] = disk[u] /\ index'[u] = index[u]
      BY <1>3, <1>5 DEF StoreInv
    <2>2. LaidOut(u)'
      BY <1>1, <2>1, KeepsLog
    <2>3. Indexed(u)'
      BY <1>1, <1>5, <2>1 DEF Indexed, Staged
    <2>4. Held(u)'
      BY <1>1, <2>1 DEF Held, Unwritten, Opened
    <2> QED
      BY <2>2, <2>3, <2>4
  <1>6. LaidOut(s)' /\ Indexed(s)' /\ Held(s)'
    <2>1. LaidOut(s) /\ Held(s)
      BY DEF StoreInv
    <2>2. index'[s].latest \in 0..MaxRecords /\ DOMAIN index'[s].sizes \subseteq DOMAIN disk'[s]
      <3>1. Size(disk'[s]) \in 0..MaxRecords
        BY <1>3, <2>1, StoreAssumption DEF LaidOut
      <3> QED
        BY <1>3, <3>1 DEF IndexOf
    <2>3. LaidOut(s)'
      BY <1>1, <1>3, <2>1, <2>2 DEF LaidOut
    <2>4. Indexed(s)'
      BY <1>1, <1>3 DEF Indexed, Staged
    <2>5. Held(s)'
      BY <1>1, <1>3, <2>1 DEF Held, Unwritten, Opened, Queue, Saved
    <2> QED
      BY <2>3, <2>4, <2>5
  <1> QED
    BY <1>4, <1>5, <1>6 DEF StoreInv

(* Frames reach a log: the first i of the pending ones, and perhaps a torn *)
(* one.                                                                    *)
Reach(s, i, fs, tail) ==
  /\ i \in 0..Len(Pending(s)) /\ tail \in Tails /\ fs = SubSeq(Pending(s), 1, i)
  /\ disk' = [disk EXCEPT ![s] = Appended(s, Target(s), fs \o tail)]

LEMMA Prefix ==
  ASSUME NEW b \in Seq(Frame), NEW i \in 0..Len(b)
  PROVE  /\ SubSeq(b, 1, i) \in Seq(Frame) /\ Len(SubSeq(b, 1, i)) = i
         /\ \A n \in 1..i : SubSeq(b, 1, i)[n] = b[n]
  OBVIOUS

LEMMA FramesReach ==
  ASSUME StoreInv, NEW s \in Sessions, Opened(s), Pending(s) # <<>>,
         NEW i, NEW fs, NEW tail, Reach(s, i, fs, tail)
  PROVE  /\ OverSessions(disk') /\ \A u \in Sessions : u # s => disk'[u] = disk[u]
         /\ Extended(disk'[s], disk[s], Size(disk[s]), Target(s), fs)
         /\ tail = <<>> => Clean(disk'[s])
         /\ From(fs, Size(disk[s])) /\ Len(fs) = i /\ i \in Nat
         /\ \A n \in 1..i : fs[n] = Pending(s)[n]
  <1>1. PICK k \in 0..MaxBatch : Ready(s, Pending(s), k)
    BY OpenedFacts
  <1>2. /\ Size(disk[s]) \in Nat /\ Layout(disk[s], Size(disk[s])) /\ Clean(disk[s])
        /\ From(Pending(s), Size(disk[s]))
    BY <1>1, OpenedFacts DEF Ready
  <1>3. /\ Slot(disk[s], Size(disk[s]), Target(s))
        /\ \A f : Appended(s, Target(s), f) = Wrote(disk[s], Target(s), f)
    BY TargetFacts
  <1>4. i \in 0..Len(Pending(s)) /\ fs = SubSeq(Pending(s), 1, i) /\ tail \in Tails
    BY DEF Reach
  <1>5. /\ From(fs, Size(disk[s])) /\ Len(fs) = i /\ i \in Nat
        /\ \A n \in 1..i : fs[n] = Pending(s)[n]
    <2>1. Pending(s) \in Seq(Frame) /\ Len(Pending(s)) \in Nat
      BY <1>2 DEF From
    <2>2. i \in Nat /\ \A n \in 1..i : n \in 1..Len(Pending(s))
      BY <1>4, <2>1
    <2>3. fs \in Seq(Frame) /\ Len(fs) = i /\ \A n \in 1..i : fs[n] = Pending(s)[n]
      BY <1>4, <2>1, <2>2, Prefix
    <2> QED
      BY <1>2, <2>2, <2>3 DEF From
  <1>6. OverSessions(disk) /\ Updates(disk', disk, s, Appended(s, Target(s), fs \o tail))
    BY DEF StoreInv, StateTyped, Reach, Updates
  <1>7. /\ OverSessions(disk') /\ \A u \in Sessions : u # s => disk'[u] = disk[u]
        /\ disk'[s] = Appended(s, Target(s), fs \o tail)
    BY <1>6, Updated
  <1>8. Continues(disk'[s], disk[s], Target(s), fs, tail)
    BY <1>3, <1>7 DEF Continues
  <1>9. /\ Extended(disk'[s], disk[s], Size(disk[s]), Target(s), fs)
        /\ tail = <<>> => Clean(disk'[s])
    BY <1>2, <1>3, <1>4, <1>5, <1>8, WroteLog
  <1> QED
    BY <1>5, <1>7, <1>9

LEMMA FramesLaidOut ==
  ASSUME StoreInv, NEW s \in Sessions, Opened(s), Pending(s) # <<>>,
         NEW i, NEW fs, NEW tail, Reach(s, i, fs, tail),
         UNCHANGED <<index, state, issued, acked>>
  PROVE  /\ \A u \in Sessions : LaidOut(u)'
         /\ Size(disk'[s]) = Size(disk[s]) + i
         /\ Recs(disk[s]) \subseteq Recs(disk'[s])
         /\ \A n \in 1..i : Pending(s)[n].rec \in Recs(disk'[s])
  <1> DEFINE d == disk[s]
             w == disk'[s]
             L == Size(disk[s])
             t == Target(s)
  <1>1. /\ \A u \in Sessions : u # s => disk'[u] = disk[u]
        /\ Extended(w, d, L, t, fs) /\ From(fs, L) /\ Len(fs) = i /\ i \in Nat
        /\ \A n \in 1..i : fs[n] = Pending(s)[n]
    BY FramesReach
  <1>2. PICK k \in 0..MaxBatch : Ready(s, Pending(s), k)
    BY OpenedFacts
  <1>3. L \in Nat /\ Layout(d, L) /\ t \in 1..(L + 1) /\ LaidOut(s)
    BY OpenedFacts, TargetFacts DEF StoreInv
  <1>4. /\ Len(Pending(s)) = k /\ Pending(s) \in Seq(Frame)
        /\ \A n \in 1..k : Pending(s)[n].rec = issued[s] - k + n
        /\ L + k <= issued[s] /\ issued[s] \in 0..MaxRecords
    BY <1>2, <1>3 DEF Ready, From, LaidOut
  <1>5. k \in Nat \ {0} /\ issued[s] \in Nat /\ i \in 0..k
    BY <1>2, <1>4, StoreAssumption DEF Reach
  <1>6. /\ Size(w) = L + i /\ L + i \in Nat /\ Recs(d) \subseteq Recs(w)
        /\ \A n \in 1..i : fs[n].rec \in Recs(w)
        /\ \A r \in Recs(w) : r \in Recs(d) \/ \E n \in 1..i : r = fs[n].rec
    <2>1. Grown(w, d, L, fs)
      <3>1. Layout(d, L) /\ From(fs, L) /\ Extended(w, d, L, t, fs) /\ L \in Nat
        BY <1>1, <1>3
      <3> HIDE DEF d, w, L, t
      <3> QED
        BY <3>1, WroteRecs
    <2> QED
      BY <1>1, <2>1 DEF Grown
  <1>7. Layout(w, L + i) /\ DOMAIN w = DOMAIN d \cup {t}
    BY <1>1 DEF Extended
  <1>8. DOMAIN w \subseteq 1..issued[s]
    <2>1. t \in 1..issued[s]
      BY <1>3, <1>4, <1>5
    <2> QED
      BY <1>3, <1>7, <2>1 DEF LaidOut
  <1>9. Recs(w) \subseteq 1..issued[s]
    <2>1. \A n \in 1..i : n \in 1..k /\ issued[s] - k + n \in 1..issued[s]
      BY <1>3, <1>4, <1>5
    <2>2. \A n \in 1..i : fs[n].rec \in 1..issued[s]
      BY <1>1, <1>4, <2>1
    <2>3. Recs(d) \subseteq 1..issued[s]
      BY <1>3 DEF LaidOut
    <2> QED
      BY <1>6, <2>2, <2>3
  <1>10. Size(w) <= issued[s] /\ state[s] \in 0..Size(w)
    <2>1. state[s] \in 0..L
      BY <1>3 DEF LaidOut
    <2> HIDE DEF L
    <2> QED
      BY <1>3, <1>4, <1>5, <1>6, <2>1
  <1>11. LaidOut(s)'
    BY <1>3, <1>6, <1>7, <1>8, <1>9, <1>10 DEF LaidOut
  <1>12. ASSUME NEW u \in Sessions, u # s PROVE LaidOut(u)'
    <2>1. LaidOut(u) /\ disk'[u] = disk[u]
      BY <1>1, <1>12 DEF StoreInv
    <2> QED
      BY <2>1, KeepsLog
  <1> QED
    BY <1>1, <1>6, <1>11, <1>12

LEMMA CrashInWriteStep ==
  ASSUME StoreInv, NEW s \in Sessions, CrashInWrite(s)
  PROVE  StoreInv'
  <1>1. /\ Opened(s) /\ Pending(s) # <<>> /\ Dies /\ UNCHANGED <<index, state, issued, acked>>
    BY DEF CrashInWrite, Opened, Dies
  <1>2. PICK i \in 0..(Len(Pending(s)) - 1), tail \in Tails :
          disk' = [disk EXCEPT ![s] = Appended(s, Target(s), SubSeq(Pending(s), 1, i) \o tail)]
    BY DEF CrashInWrite, Tails
  <1>3. i \in 0..Len(Pending(s))
    <2>1. Pending(s) \in Seq(Frame)
      BY <1>1, OpenedFacts DEF Ready, From
    <2> QED
      BY <1>2, <2>1
  <1>4. PICK fs : fs = SubSeq(Pending(s), 1, i)
    OBVIOUS
  <1>5. Reach(s, i, fs, tail)
    BY <1>2, <1>3, <1>4 DEF Reach
  <1>6. OverSessions(disk') /\ \A u \in Sessions : LaidOut(u)'
    BY <1>1, <1>5, FramesReach, FramesLaidOut
  <1> QED
    BY <1>1, <1>6, DeadStep

LEMMA WriteFramesStep ==
  ASSUME StoreInv, NEW s \in Sessions, WriteFrames(s)
  PROVE  StoreInv'
  <1>1. /\ Opened(s) /\ Pending(s) # <<>> /\ UNCHANGED <<index, state, unrecovered, issued, acked, crashes>>
        /\ pc = "frames" /\ pc' = "index" /\ tx.at = s /\ unrecovered = {}
        /\ disk' = [disk EXCEPT ![s] = Appended(s, Target(s), Pending(s))]
    BY DEF WriteFrames, Opened, counters, StoreInv, Phases
  <1>2. TxTyped /\ StateTyped
    BY DEF StoreInv
  <1>3. PICK k \in 0..MaxBatch : Ready(s, Pending(s), k)
    BY <1>1, OpenedFacts
  <1>4. Pending(s) \in Seq(Frame) /\ Len(Pending(s)) = k /\ k \in Nat
    BY <1>3, StoreAssumption DEF Ready, From
  <1>5. PICK fs : fs = SubSeq(Pending(s), 1, k)
    OBVIOUS
  <1>6. fs = Pending(s) /\ Pending(s) \o <<>> = Pending(s)
    BY <1>4, <1>5
  <1>7. Reach(s, k, fs, <<>>)
    <2>1. k \in 0..Len(Pending(s)) /\ <<>> \in Tails /\ fs \o <<>> = Pending(s)
      BY <1>4, <1>6 DEF Tails
    <2> QED
      BY <1>1, <1>5, <2>1 DEF Reach
  <1>8. /\ OverSessions(disk') /\ \A u \in Sessions : u # s => disk'[u] = disk[u]
        /\ Clean(disk'[s])
    BY <1>1, <1>7, FramesReach
  <1>9. /\ \A u \in Sessions : LaidOut(u)'
        /\ Size(disk'[s]) = Size(disk[s]) + k
        /\ \A n \in 1..k : Pending(s)[n].rec \in Recs(disk'[s])
    BY <1>1, <1>7, FramesLaidOut
  <1>10. StagedIndex(s) = IndexOf(disk'[s])
    <2>1. disk'[s] = Appended(s, Target(s), Pending(s))
      BY <1>1, <1>2 DEF StateTyped, OverSessions
    <2> QED
      BY <1>1, <2>1, TargetFacts
  <1>11. tx' = [batch |-> tx.batch, own |-> tx.own, left |-> tx.left, at |-> tx.at,
                staged |-> StagedIndex(s), items |-> tx.items]
    BY <1>2, TxFields DEF WriteFrames
  <1>12. TxTyped'
    <2>1. tx' \in [batch : [Sessions -> Seq(Frame)], own : [Sessions -> SUBSET Nat],
                   left : SUBSET Sessions, at : {"none"} \cup Sessions, staged : {tx'.staged},
                   items : SUBSET Sessions]
      BY <1>2, <1>11, TxFields, TxMade
    <2> QED
      BY <1>1, <1>2, <2>1 DEF TxTyped
  <1>13. StateTyped' /\ Phases'
    BY <1>1, <1>2, <1>8, <1>11 DEF StateTyped, OverSessions, Phases, StoreInv
  <1>14. Saved(tx.batch[s], tx.own[s], disk'[s])
    <2>1. /\ tx.batch[s][Len(tx.batch[s])].seq = Size(disk[s]) + k
          /\ tx.own[s] = (issued[s] - k + 1)..issued[s]
          /\ \A n \in 1..k : Pending(s)[n].rec = issued[s] - k + n
      BY <1>3 DEF Ready
    <2>2. issued[s] \in Nat
      BY <1>2 DEF StoreInv, LaidOut
    <2>3. ASSUME NEW r \in (issued[s] - k + 1)..issued[s] PROVE r \in Recs(disk'[s])
      <3>1. PICK n \in 1..k : r = issued[s] - k + n
        <4>1. r - (issued[s] - k) \in 1..k /\ r = issued[s] - k + (r - (issued[s] - k))
          BY <1>4, <2>2
        <4> QED
          BY <4>1
      <3> QED
        BY <1>9, <2>1, <3>1
    <2> QED
      BY <1>9, <2>1, <2>3 DEF Saved
  <1>15. s \notin tx.left
    BY <1>1 DEF StoreInv, Phases
  <1>16. ASSUME NEW u \in Sessions PROVE LaidOut(u)' /\ Indexed(u)' /\ Held(u)'
    <2>1. LaidOut(u) /\ Indexed(u) /\ Held(u)
      BY DEF StoreInv
    <2>2. Indexed(u)'
      <3>1. CASE u = s
        BY <1>1, <1>8, <1>10, <1>11, <3>1 DEF Indexed, Staged
      <3>2. CASE u # s
        BY <1>1, <1>8, <1>11, <2>1, <3>2 DEF Indexed, Staged
      <3> QED
        BY <3>1, <3>2
    <2>3. Held(u)'
      <3>1. CASE u = s /\ s \notin tx.left
        BY <1>1, <1>11, <1>14, <3>1 DEF Held, Unwritten, Opened
      <3>2. CASE u # s
        <4>1. Unwritten(u)' <=> Unwritten(u)
          BY <1>1, <1>11, <3>2 DEF Unwritten, Opened
        <4> QED
          BY <1>1, <1>8, <1>11, <2>1, <3>2, <4>1, KeepsHeld
      <3> QED
        BY <1>15, <3>1, <3>2
    <2> QED
      BY <1>9, <2>2, <2>3
  <1> QED
    BY <1>12, <1>13, <1>16 DEF StoreInv

-----------------------------------------------------------------------------
(***************************************************************************)
(* The invariant, and what it means for the log.                           *)
(***************************************************************************)
LEMMA StutterStep ==
  ASSUME StoreInv, UNCHANGED vars
  PROVE  StoreInv'
  <1>1. UNCHANGED <<disk, index, state, pc, tx, unrecovered, issued, acked, crashes>>
    BY DEF vars
  <1>2. StateTyped' /\ TxTyped' /\ Phases'
    BY <1>1 DEF StoreInv, StateTyped, OverSessions, TxTyped, Phases
  <1>3. ASSUME NEW u \in Sessions PROVE LaidOut(u)' /\ Indexed(u)' /\ Held(u)'
    <2>1. LaidOut(u) /\ Indexed(u) /\ Held(u)
      BY DEF StoreInv
    <2>2. LaidOut(u)'
      BY <1>1, <2>1, KeepsLog
    <2>3. Indexed(u)'
      BY <1>1, <2>1 DEF Indexed, Staged
    <2>4. Held(u)'
      BY <1>1, <2>1 DEF Held, Unwritten, Opened
    <2> QED
      BY <2>2, <2>3, <2>4
  <1> QED
    BY <1>2, <1>3 DEF StoreInv

LEMMA StoreInvStep ==
  ASSUME InitFirst, StoreInv, [Next]_vars
  PROVE  StoreInv'
  <1>1. ASSUME NEW count \in [Sessions -> 0..MaxBatch], NEW full \in SUBSET Sessions, Begin(count, full)
        PROVE  StoreInv'
    BY <1>1, BeginStep
  <1>2. ASSUME NEW s \in Sessions, OpenLog(s) PROVE StoreInv'
    BY <1>2, OpenLogStep
  <1>3. ASSUME NEW s \in Sessions, NothingPending(s) PROVE StoreInv'
    BY <1>3, NothingPendingStep
  <1>4. ASSUME NEW s \in Sessions, WriteFrames(s) PROVE StoreInv'
    BY <1>4, WriteFramesStep
  <1>5. ASSUME NEW s \in Sessions, WriteIndex(s) PROVE StoreInv'
    BY <1>5, WriteIndexStep
  <1>6. ASSUME NEW s \in Sessions, WriteItem(s) PROVE StoreInv'
    BY <1>6, WriteItemStep
  <1>7. CASE Return
    BY <1>7, ReturnStep
  <1>8. CASE Crash
    BY <1>8, CrashStep
  <1>9. ASSUME NEW s \in Sessions, CrashInWrite(s) PROVE StoreInv'
    BY <1>9, CrashInWriteStep
  <1>10. ASSUME NEW s \in Sessions, Recover(s) PROVE StoreInv'
    BY <1>10, RecoverStep
  <1>11. CASE UNCHANGED vars
    BY <1>11, StutterStep
  <1> QED
    BY <1>1, <1>2, <1>3, <1>4, <1>5, <1>6, <1>7, <1>8, <1>9, <1>10, <1>11 DEF Next

(* When Store.init runs before the first writer after a crash, the log of  *)
(* every Session is laid out in order on disk at any moment, its index     *)
(* describes it but between two writes, and what the holder of the lock    *)
(* has in memory continues it.                                             *)
THEOREM StoreInvariant ==
  ASSUME InitFirst
  PROVE  Spec => []StoreInv
  <1>1. StoreInv /\ [Next]_vars => StoreInv'
    BY StoreInvStep
  <1> QED
    BY <1>1, InitInv, PTL DEF Spec

LEMMA StoreInvMeans ==
  ASSUME StoreInv
  PROVE  TypeOK /\ GapFree /\ AckedDurable /\ IndexCurrent /\ StateBehindLog
  <1>1. \A s \in Sessions : LaidOut(s) /\ Indexed(s)
    BY DEF StoreInv
  <1>2. TypeOK
    <2>1. ASSUME NEW s \in Sessions
          PROVE  /\ DOMAIN disk[s] \subseteq 1..MaxRecords
                 /\ \A x \in DOMAIN disk[s] : disk[s][x] \in Seq(Frame)
                 /\ index[s].latest \in 0..MaxRecords
                 /\ DOMAIN index[s].sizes \subseteq DOMAIN disk[s]
                 /\ state[s] \in 0..MaxRecords
                 /\ acked[s] \subseteq 1..issued[s] /\ issued[s] \in 0..MaxRecords
      <3>1. /\ issued[s] \in 0..MaxRecords /\ Size(disk[s]) \in Nat
            /\ DOMAIN disk[s] \subseteq 1..issued[s]
            /\ Size(disk[s]) <= issued[s] /\ Recs(disk[s]) \subseteq 1..issued[s]
            /\ state[s] \in 0..Size(disk[s]) /\ acked[s] \subseteq Recs(disk[s])
            /\ index[s].latest \in 0..MaxRecords /\ DOMAIN index[s].sizes \subseteq DOMAIN disk[s]
            /\ Layout(disk[s], Size(disk[s]))
        BY <1>1 DEF LaidOut
      <3>2. \A x \in DOMAIN disk[s] : disk[s][x] \in Seq(Frame)
        BY <3>1 DEF Layout
      <3>3. DOMAIN disk[s] \subseteq 1..MaxRecords /\ state[s] \in 0..MaxRecords
        BY <3>1, StoreAssumption
      <3> QED
        BY <3>1, <3>2, <3>3
    <2>2. TxTyped
      BY DEF StoreInv
    <2> QED
      BY <2>1, <2>2, TxFields DEF TypeOK, TxTyped
  <1>3. GapFree
    BY <1>1, LogFacts DEF GapFree
  <1>4. AckedDurable
    <2>1. ASSUME NEW s \in Sessions PROVE acked[s] \subseteq {FrameAt(s, p).rec : p \in Places(s)}
      BY <1>1, LogFacts DEF LaidOut
    <2> QED
      BY <2>1 DEF AckedDurable
  <1>5. IndexCurrent
    BY <1>1, LogFacts DEF IndexCurrent, Indexed, Staged
  <1>6. StateBehindLog
    <2>1. ASSUME NEW s \in Sessions PROVE state[s] <= Cardinality(Places(s))
      BY <1>1, LogFacts DEF LaidOut, Size
    <2> QED
      BY <2>1 DEF StateBehindLog
  <1> QED
    BY <1>2, <1>3, <1>4, <1>5, <1>6

(* The files, the transaction in memory and the counters keep their types. *)
THEOREM StoreTyped ==
  ASSUME InitFirst
  PROVE  Spec => []TypeOK
  BY StoreInvariant, StoreInvMeans, PTL

(* A scan of the segments always yields the seqs 1, 2, ... without a gap,  *)
(* wherever a writer died and whatever torn frame it left: rotation, the   *)
(* scan up to the first invalid byte and the numbering after the index fit *)
(* together.                                                               *)
THEOREM LogGapFree ==
  ASSUME InitFirst
  PROVE  Spec => []GapFree
  BY StoreInvariant, StoreInvMeans, PTL

(* No crash, and no write after one, takes a record from the log whose     *)
(* transaction returned to its caller.                                     *)
THEOREM LogKeepsAcked ==
  ASSUME InitFirst
  PROVE  Spec => []AckedDurable
  BY StoreInvariant, StoreInvMeans, PTL

(* With the lock free and the recovery done, the index counts exactly what *)
(* the segments hold: the next writer numbers its records after them.      *)
THEOREM LogIndexCurrent ==
  ASSUME InitFirst
  PROVE  Spec => []IndexCurrent
  BY StoreInvariant, StoreInvMeans, PTL

(* save writes all logs before any item file, so no saved state has read   *)
(* further than its log reaches.                                           *)
THEOREM StateFollowsLog ==
  ASSUME InitFirst
  PROVE  Spec => []StateBehindLog
  BY StoreInvariant, StoreInvMeans, PTL

-----------------------------------------------------------------------------
(***************************************************************************)
(* The storage implements the durable log.                                 *)
(***************************************************************************)
Names(d) == [n \in 1..Size(d) |-> Scan(d)[n].rec]
RecsOf(f) == [n \in 1..Len(f) |-> f[n].rec]

LEMMA OrderNames ==
  /\ Order = [s \in Sessions |-> Names(disk[s])]
  /\ Order' = [s \in Sessions |-> Names(disk'[s])]
  <1>1. \A s \in Sessions : Places(s) = PlacesIn(disk[s]) /\ Places(s)' = PlacesIn(disk'[s])
    BY DEF Places, PlacesIn
  <1>2. \A s \in Sessions : Scanned(s) = Scan(disk[s]) /\ Scanned(s)' = Scan(disk'[s])
    BY DEF Places, PlacesIn, Scanned, Scan, FrameAt, FrameIn, Size
  <1>3. ASSUME NEW s \in Sessions
        PROVE  /\ [n \in 1..Cardinality(Places(s)) |-> Scanned(s)[n].rec] = Names(disk[s])
               /\ [n \in 1..Cardinality(Places(s)') |-> Scanned(s)'[n].rec] = Names(disk'[s])
    BY <1>1, <1>2 DEF Names, Size
  <1> QED
    BY <1>3 DEF Order

LEMMA RecOf ==
  ASSUME NEW f \in Seq(Frame), NEW n \in 1..Len(f)
  PROVE  f[n].rec \in Nat
  <1>1. f[n] \in Frame
    OBVIOUS
  <1> QED
    BY <1>1 DEF Frame

LEMMA NamesFacts ==
  ASSUME NEW d, NEW L \in Nat, Layout(d, L)
  PROVE  /\ Size(d) = L /\ Names(d) \in Seq(Nat) /\ Len(Names(d)) = L /\ DOMAIN Names(d) = 1..L
         /\ Recs(d) = {Names(d)[n] : n \in 1..L}
         /\ \A n \in 1..L : Names(d)[n] = Scan(d)[n].rec
  <1>1. Size(d) = L
    BY Scanning
  <1>2. Scan(d) \in Seq(Frame) /\ Len(Scan(d)) = L
    BY ScanFound
  <1>3. \A n \in 1..L : Scan(d)[n].rec \in Nat
    BY <1>2, RecOf
  <1>4. Names(d) = [n \in 1..L |-> Scan(d)[n].rec]
    BY <1>1 DEF Names
  <1>5. Names(d) \in [1..L -> Nat]
    BY <1>3, <1>4
  <1>6. Recs(d) = {Scan(d)[n].rec : n \in 1..L}
    BY ScanRecs
  <1> HIDE DEF Names
  <1>7. Names(d) \in Seq(Nat) /\ Len(Names(d)) = L
    BY <1>5
  <1> QED
    BY <1>1, <1>4, <1>5, <1>6, <1>7

LEMMA Parts ==
  ASSUME NEW a \in Seq(Nat), NEW b \in Seq(Nat), NEW c, c = a \o b
  PROVE  /\ c \in Seq(Nat) /\ Len(c) = Len(a) + Len(b)
         /\ \A n \in 1..(Len(a) + Len(b)) : c[n] = IF n <= Len(a) THEN a[n] ELSE b[n - Len(a)]
  BY ConcatProperties

Renamed(w, d, f) == Names(w) = Names(d) \o RecsOf(f)

LEMMA NamesGrow ==
  ASSUME NEW d, NEW L \in Nat, Layout(d, L), NEW t, NEW f, From(f, L), NEW w, Extended(w, d, L, t, f)
  PROVE  Renamed(w, d, f)
  <1>1. /\ Layout(w, L + Len(f)) /\ Scan(w) = Scan(d) \o f /\ f \in Seq(Frame)
        /\ Len(f) \in Nat /\ L + Len(f) \in Nat
    BY DEF Extended, From
  <1>2. Scan(d) \in Seq(Frame) /\ Len(Scan(d)) = L
    BY ScanFound
  <1>3. /\ Names(d) \in Seq(Nat) /\ Len(Names(d)) = L
        /\ \A n \in 1..L : Names(d)[n] = Scan(d)[n].rec
    BY NamesFacts
  <1>4. /\ Names(w) \in Seq(Nat) /\ Len(Names(w)) = L + Len(f)
        /\ \A n \in 1..(L + Len(f)) : Names(w)[n] = Scan(w)[n].rec
    BY <1>1, NamesFacts
  <1>5. RecsOf(f) \in Seq(Nat) /\ Len(RecsOf(f)) = Len(f) /\ \A n \in 1..Len(f) : RecsOf(f)[n] = f[n].rec
    <2>1. \A n \in 1..Len(f) : f[n].rec \in Nat
      BY <1>1, RecOf
    <2> QED
      BY <1>1, <2>1 DEF RecsOf
  <1>6. PICK c : c = Names(d) \o RecsOf(f)
    OBVIOUS
  <1>7. /\ c \in Seq(Nat) /\ Len(c) = L + Len(f)
        /\ \A n \in 1..(L + Len(f)) : c[n] = IF n <= L THEN Names(d)[n] ELSE RecsOf(f)[n - L]
    <2>1. PICK a : a = Names(d)
      OBVIOUS
    <2>2. PICK b : b = RecsOf(f)
      OBVIOUS
    <2>3. a \in Seq(Nat) /\ b \in Seq(Nat) /\ c = a \o b /\ Len(a) = L /\ Len(b) = Len(f)
      BY <1>3, <1>5, <1>6, <2>1, <2>2
    <2>4. /\ c \in Seq(Nat) /\ Len(c) = Len(a) + Len(b)
          /\ \A n \in 1..(Len(a) + Len(b)) : c[n] = IF n <= Len(a) THEN a[n] ELSE b[n - Len(a)]
      BY <2>3, Parts
    <2> QED
      BY <2>1, <2>2, <2>3, <2>4
  <1>8. \A n \in 1..(L + Len(f)) : Scan(w)[n] = IF n <= L THEN Scan(d)[n] ELSE f[n - L]
    BY <1>1, <1>2, ConcatProperties
  <1>9. ASSUME NEW n \in 1..(L + Len(f)) PROVE Names(w)[n] = c[n]
    <2>1. CASE n <= L
      <3>1. n \in 1..L /\ c[n] = Names(d)[n] /\ Scan(w)[n] = Scan(d)[n]
        BY <1>7, <1>8, <2>1
      <3>2. Names(w)[n] = Scan(w)[n].rec
        BY <1>4
      <3> QED
        BY <1>3, <3>1, <3>2
    <2>2. CASE ~(n <= L)
      <3>1. n - L \in 1..Len(f)
        BY <1>1, <2>2
      <3> QED
        BY <1>4, <1>5, <1>7, <1>8, <2>2, <3>1
    <2> QED
      BY <2>1, <2>2
  <1>10. Names(w) = c
    BY <1>4, <1>7, <1>9, SeqEqual
  <1> QED
    BY <1>6, <1>10 DEF Renamed

(* What the abstract log calls durable is what the segments hold.          *)
LEMMA DurableRecs ==
  ASSUME StoreInv, NEW s \in Sessions
  PROVE  Abstract!Durable(s) = Recs(disk[s])
  <1>1. Size(disk[s]) \in Nat /\ Layout(disk[s], Size(disk[s]))
    BY DEF StoreInv, LaidOut
  <1>2. /\ DOMAIN Names(disk[s]) = 1..Size(disk[s])
        /\ Recs(disk[s]) = {Names(disk[s])[n] : n \in 1..Size(disk[s])}
    BY <1>1, NamesFacts
  <1>3. Order[s] = Names(disk[s])
    BY OrderNames
  <1> QED
    BY <1>2, <1>3 DEF Abstract!Durable

LEMMA SameNames ==
  ASSUME \A u \in Sessions : Names(disk'[u]) = Names(disk[u])
  PROVE  Order' = Order
  BY OrderNames

LEMMA LastOf ==
  ASSUME NEW M \in Nat, NEW top \in 0..M, NEW L \in Nat, NEW k \in Nat, L + k <= top,
         NEW i \in 0..k, NEW n \in 1..i
  PROVE  top - k + n \in 1..M /\ top - k + n \notin 1..(top - k)
  OBVIOUS

(* Frames that reach a segment, one or more, are an abstract write.        *)
LEMMA ReachWrites ==
  ASSUME StoreInv, NEW s \in Sessions, Opened(s), Pending(s) # <<>>,
         NEW i, NEW fs, NEW tail, Reach(s, i, fs, tail), UNCHANGED acked
  PROVE  Abstract!Write(s) \/ UNCHANGED <<Order, acked>>
  <1>1. /\ \A u \in Sessions : u # s => disk'[u] = disk[u]
        /\ Extended(disk'[s], disk[s], Size(disk[s]), Target(s), fs)
        /\ From(fs, Size(disk[s])) /\ Len(fs) = i /\ i \in Nat
        /\ \A n \in 1..i : fs[n] = Pending(s)[n]
    BY FramesReach
  <1>2. PICK k \in 0..MaxBatch : Ready(s, Pending(s), k)
    BY OpenedFacts
  <1>3. Size(disk[s]) \in Nat /\ Layout(disk[s], Size(disk[s])) /\ issued[s] \in 0..MaxRecords
    BY OpenedFacts DEF StoreInv, LaidOut
  <1>4. /\ Len(Pending(s)) = k /\ \A n \in 1..k : Pending(s)[n].rec = issued[s] - k + n
        /\ Size(disk[s]) + k <= issued[s] /\ Recs(disk[s]) \subseteq 1..(issued[s] - k)
    BY <1>2 DEF Ready
  <1>5. i \in 0..k /\ k \in 0..MaxBatch /\ k \in Nat /\ MaxBatch \in Nat
    BY <1>2, <1>4, StoreAssumption DEF Reach
  <1>6. PICK new : new = RecsOf(fs)
    OBVIOUS
  <1>7. DOMAIN new = 1..i /\ \A n \in 1..i : new[n] = issued[s] - k + n
    BY <1>1, <1>4, <1>5, <1>6 DEF RecsOf
  <1>8. Names(disk'[s]) = Names(disk[s]) \o new
    <2>1. Renamed(disk'[s], disk[s], fs)
      <3>1. /\ Layout(disk[s], Size(disk[s])) /\ From(fs, Size(disk[s])) /\ Size(disk[s]) \in Nat
            /\ Extended(disk'[s], disk[s], Size(disk[s]), Target(s), fs)
        BY <1>1, <1>3
      <3> QED
        BY <3>1, NamesGrow
    <2> QED
      BY <1>6, <2>1 DEF Renamed
  <1>9. Order' = [Order EXCEPT ![s] = Order[s] \o new]
    <2>1. Order = [u \in Sessions |-> Names(disk[u])] /\ Order' = [u \in Sessions |-> Names(disk'[u])]
      BY OrderNames
    <2> QED
      BY <1>1, <1>8, <2>1
  <1>10. CASE i = 0
    <2>1. Names(disk[s]) \in Seq(Nat) /\ new = <<>>
      BY <1>3, <1>6, <1>7, <1>10, NamesFacts DEF RecsOf
    <2>2. Names(disk'[s]) = Names(disk[s])
      BY <1>8, <2>1
    <2>3. Order' = Order
      BY <1>1, <2>2, SameNames
    <2> QED
      BY <2>3
  <1>11. CASE i # 0
    <2>1. i \in 1..MaxBatch
      BY <1>5, <1>11
    <2>2. \A n \in 1..i : new[n] \in (1..MaxRecords) \ Recs(disk[s])
      <3>1. \A n \in 1..i : issued[s] - k + n \in 1..MaxRecords /\ issued[s] - k + n \notin 1..(issued[s] - k)
        BY <1>3, <1>4, <1>5, LastOf, StoreAssumption
      <3> QED
        BY <1>4, <1>7, <3>1
    <2>3. new \in [1..i -> (1..MaxRecords) \ Abstract!Durable(s)]
      <3>1. new = [n \in 1..i |-> new[n]]
        BY <1>1, <1>6 DEF RecsOf
      <3> QED
        BY <2>2, <3>1, DurableRecs
    <2>4. \A m, n \in 1..i : new[m] = new[n] => m = n
      BY <1>3, <1>5, <1>7
    <2> QED
      BY <1>9, <2>1, <2>3, <2>4 DEF Abstract!Write
  <1> QED
    BY <1>5, <1>10, <1>11

LEMMA Refines ==
  ASSUME InitFirst, StoreInv, [Next]_vars
  PROVE  [Abstract!Next]_<<Order, acked>>
  <1> USE DEF Abstract!Next
  <1>0. ASSUME UNCHANGED disk PROVE Order' = Order
    BY <1>0, SameNames
  <1>1. ASSUME NEW count \in [Sessions -> 0..MaxBatch], NEW full \in SUBSET Sessions, Begin(count, full)
        PROVE  UNCHANGED <<Order, acked>>
    <2>1. UNCHANGED <<disk, acked>>
      BY <1>1 DEF Begin, logs
    <2> QED
      BY <1>0, <2>1
  <1>2. ASSUME NEW s \in Sessions, OpenLog(s) PROVE UNCHANGED <<Order, acked>>
    <2>1. UNCHANGED <<disk, acked>>
      BY <1>2, OpensCurrent DEF OpenLog, counters
    <2> QED
      BY <1>0, <2>1
  <1>3. ASSUME NEW s \in Sessions, NothingPending(s) \/ WriteIndex(s) \/ WriteItem(s)
        PROVE  UNCHANGED <<Order, acked>>
    <2>1. UNCHANGED <<disk, acked>>
      BY <1>3 DEF NothingPending, WriteIndex, WriteItem, logs, counters
    <2> QED
      BY <1>0, <2>1
  <1>4. ASSUME NEW s \in Sessions, WriteFrames(s)
        PROVE  Abstract!Write(s) \/ UNCHANGED <<Order, acked>>
    <2>1. /\ Opened(s) /\ Pending(s) # <<>> /\ UNCHANGED acked
          /\ disk' = [disk EXCEPT ![s] = Appended(s, Target(s), Pending(s))]
      BY <1>4 DEF WriteFrames, Opened, counters
    <2>2. Pending(s) \in Seq(Frame) /\ Len(Pending(s)) \in Nat
      <3>1. Pending(s) \in Seq(Frame)
        BY <2>1, OpenedFacts DEF Ready, From
      <3> QED
        BY <3>1
    <2>3. PICK fs : fs = SubSeq(Pending(s), 1, Len(Pending(s)))
      OBVIOUS
    <2>4. Len(Pending(s)) \in 0..Len(Pending(s)) /\ <<>> \in Tails /\ fs \o <<>> = Pending(s)
      BY <2>2, <2>3 DEF Tails
    <2>5. Reach(s, Len(Pending(s)), fs, <<>>)
      BY <2>1, <2>3, <2>4 DEF Reach
    <2> QED
      BY <2>1, <2>5, ReachWrites
  <1>5. ASSUME NEW s \in Sessions, CrashInWrite(s)
        PROVE  Abstract!Write(s) \/ UNCHANGED <<Order, acked>>
    <2>1. Opened(s) /\ Pending(s) # <<>> /\ UNCHANGED acked
      BY <1>5 DEF CrashInWrite, Opened, Dies
    <2>2. PICK i \in 0..(Len(Pending(s)) - 1), tail \in Tails :
            disk' = [disk EXCEPT ![s] = Appended(s, Target(s), SubSeq(Pending(s), 1, i) \o tail)]
      BY <1>5 DEF CrashInWrite, Tails
    <2>3. i \in 0..Len(Pending(s))
      <3>1. Pending(s) \in Seq(Frame)
        BY <2>1, OpenedFacts DEF Ready, From
      <3> QED
        BY <2>2, <3>1
    <2>4. PICK fs : fs = SubSeq(Pending(s), 1, i)
      OBVIOUS
    <2>5. Reach(s, i, fs, tail)
      BY <2>2, <2>3, <2>4 DEF Reach
    <2> QED
      BY <2>1, <2>5, ReachWrites
  <1>6. CASE Return
    <2>1. /\ UNCHANGED disk /\ pc = "files" /\ tx.left = {}
          /\ acked' = [s \in Sessions |-> acked[s] \cup tx.own[s]]
      BY <1>6 DEF Return, logs, StoreInv, Phases
    <2>2. ASSUME NEW s \in Sessions
          PROVE  acked[s] \subseteq acked'[s] /\ acked'[s] \subseteq Abstract!Durable(s)
      <3>1. LaidOut(s) /\ Held(s)
        BY DEF StoreInv
      <3>2. tx.own[s] \subseteq Recs(disk[s]) /\ acked[s] \subseteq Recs(disk[s])
        BY <2>1, <3>1 DEF Held, Unwritten, Opened, Saved, LaidOut
      <3> QED
        BY <2>1, <3>2, DurableRecs
    <2>3. Abstract!Acknowledge
      BY <1>0, <2>1, <2>2 DEF Abstract!Acknowledge
    <2> QED
      BY <2>3
  <1>7. CASE Crash
    <2>1. UNCHANGED <<disk, acked>>
      BY <1>7 DEF Crash, Dies, logs
    <2> QED
      BY <1>0, <2>1
  <1>8. ASSUME NEW s \in Sessions, Recover(s) PROVE UNCHANGED <<Order, acked>>
    <2>1. UNCHANGED acked /\ Rebuild(s) /\ StateTyped /\ LaidOut(s)
      BY <1>8 DEF Recover, counters, StoreInv
    <2>2. /\ \A u \in Sessions : u # s => disk'[u] = disk[u]
          /\ Size(disk'[s]) = Size(disk[s]) /\ Scan(disk'[s]) = Scan(disk[s])
      BY <2>1, RebuiltLog
    <2>3. Names(disk'[s]) = Names(disk[s])
      BY <2>2 DEF Names
    <2>4. Order' = Order
      BY <2>2, <2>3, SameNames
    <2> QED
      BY <2>1, <2>4
  <1>9. CASE UNCHANGED vars
    <2>1. UNCHANGED <<disk, acked>>
      BY <1>9 DEF vars
    <2> QED
      BY <1>0, <2>1
  <1> QED
    BY <1>1, <1>2, <1>3, <1>4, <1>5, <1>6, <1>7, <1>8, <1>9 DEF Next

LEMMA RefinesInit ==
  ASSUME Init
  PROVE  Abstract!Init
  <1>1. ASSUME NEW s \in Sessions PROVE Names(disk[s]) = <<>>
    <2>1. disk[s] = <<>>
      BY DEF Init
    <2>2. Size(disk[s]) = 0
      BY <2>1, EmptyLog
    <2> QED
      BY <2>2 DEF Names
  <1>2. Order = [s \in Sessions |-> <<>>]
    BY <1>1, OrderNames
  <1> QED
    BY <1>2 DEF Init, Abstract!Init

(* Segments, rotation, torn frames, recovery and the index are one total   *)
(* order of records per Session that only grows at its end: every write of *)
(* frames, cut short or not, adds new records to it, recovery changes      *)
(* nothing of it, and a transaction returns only when its records are in.  *)
THEOREM StoreImplementsDurableLog ==
  ASSUME InitFirst
  PROVE  Spec => ImplementsDurableLog
  <1>1. Init => Abstract!Init
    BY RefinesInit
  <1>2. StoreInv /\ [Next]_vars => [Abstract!Next]_<<Order, acked>>
    BY Refines
  <1> QED
    BY <1>1, <1>2, StoreInvariant, PTL DEF Spec, ImplementsDurableLog, Abstract!Spec

=============================================================================
