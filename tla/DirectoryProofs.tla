--------------------------- MODULE DirectoryProofs ---------------------------
(***************************************************************************)
(* Theorems about Directory, for all users, Sessions and Units: a load     *)
(* never fails, what it yields has no cycle, every Session is below the    *)
(* root Session and under its owner's home, and no other link is lost.     *)
(***************************************************************************)
EXTENDS Directory, FiniteSetTheorems, WellFoundedInduction, TLAPS

Acyclic(E) == \A e \in E : ~HasPath(E, e[2], e[1])

-----------------------------------------------------------------------------
(***************************************************************************)
(* Paths.                                                                  *)
(***************************************************************************)
Graph == SUBSET (Sessions \X Sessions)

(* What a reaches, it reaches with every edge that leaves it. *)
LEMMA PathExtends ==
  ASSUME NEW E \in Graph, NEW a \in Sessions, NEW e \in E, HasPath(E, a, e[1])
  PROVE  HasPath(E, a, e[2])
  BY DEF HasPath

LEMMA PathsCompose ==
  ASSUME NEW E \in Graph, NEW a \in Sessions, NEW b \in Sessions, NEW c \in Sessions,
         HasPath(E, a, b), HasPath(E, b, c)
  PROVE  HasPath(E, a, c)
  BY DEF HasPath

LEMMA PathsStay ==
  ASSUME NEW E \in Graph, NEW F \in Graph, E \subseteq F, NEW a, NEW b, HasPath(E, a, b)
  PROVE  HasPath(F, a, b)
  BY DEF HasPath

LEMMA FewerEdges ==
  ASSUME NEW E \in Graph, NEW F \in Graph, E \subseteq F, Acyclic(F)
  PROVE  Acyclic(E)
  BY PathsStay DEF Acyclic

(* A Session without outgoing edges reaches nothing else. *)
LEMMA LeafReaches ==
  ASSUME NEW E \in Graph, NEW s \in Sessions, \A e \in E : e[1] # s, NEW b, HasPath(E, s, b)
  PROVE  b = s
  <1>1. {s} \in SUBSET Sessions /\ s \in {s} /\ \A e \in E : e[1] \in {s} => e[2] \in {s}
    OBVIOUS
  <1> QED
    BY <1>1 DEF HasPath

(* Links to Sessions that have no children close no cycle. *)
LEMMA LinksToLeaves ==
  ASSUME NEW E \in Graph, NEW L \in Graph, Acyclic(E),
         \A l \in L : l[1] # l[2] /\ \A e \in E \cup L : e[1] # l[2]
  PROVE  Acyclic(E \cup L)
  <1> SUFFICES ASSUME NEW e \in E \cup L, HasPath(E \cup L, e[2], e[1]) PROVE FALSE
    BY DEF Acyclic
  <1>1. E \cup L \in Graph /\ e[1] \in Sessions /\ e[2] \in Sessions
    BY DEF Graph
  <1>2. CASE e \in L
    <2>1. e[1] = e[2]
      BY <1>1, <1>2, LeafReaches
    <2> QED
      BY <1>2, <2>1
  <1>3. CASE e \in E
    <2>1. PICK S \in SUBSET Sessions :
            /\ e[2] \in S /\ e[1] \notin S
            /\ \A f \in E : f[1] \in S => f[2] \in S
      BY <1>3 DEF Acyclic, HasPath
    <2> DEFINE T == S \cup {l[2] : l \in L}
    <2>2. T \in SUBSET Sessions
      BY DEF Graph
    <2>3. \A f \in E \cup L : f[1] \in T => f[2] \in T
      BY <2>1
    <2>4. e[1] \in T
      <3> HIDE DEF T
      <3>1. e[2] \in T
        BY <2>1 DEF T
      <3> QED
        BY <2>2, <2>3, <3>1 DEF HasPath
    <2> QED
      BY <2>1, <2>4
  <1> QED
    BY <1>2, <1>3

(* A link whose child does not reach its parent closes no cycle. *)
LEMMA LinkedAcyclic ==
  ASSUME NEW E \in Graph, Acyclic(E), NEW p \in Sessions, NEW c \in Sessions,
         Linkable(E, p, c)
  PROVE  Acyclic(E \cup {<<p, c>>})
  <1>1. CASE <<p, c>> \in E
    <2>1. E \cup {<<p, c>>} = E
      BY <1>1
    <2> QED
      BY <2>1
  <1>2. CASE ~HasPath(E, c, p)
    <2> DEFINE F == E \cup {<<p, c>>}
    <2> SUFFICES ASSUME NEW e \in F, HasPath(F, e[2], e[1]) PROVE FALSE
      BY DEF Acyclic
    <2> DEFINE T == {x \in Sessions : HasPath(E, c, x)}
               S == {x \in Sessions : HasPath(E, e[2], x)}
    <2>1. e[1] \in Sessions /\ e[2] \in Sessions
      BY DEF Graph
    <2>2. c \in T /\ p \notin T /\ \A f \in E : f[1] \in T => f[2] \in T
      <3>1. c \in T /\ p \notin T
        BY <1>2 DEF HasPath
      <3>2. \A f \in E : f[1] \in T => f[2] \in T
        BY PathExtends DEF Graph
      <3> QED
        BY <3>1, <3>2
    <2>3. e[2] \in S /\ \A f \in E : f[1] \in S => f[2] \in S
      <3>1. e[2] \in S
        BY <2>1 DEF HasPath
      <3>2. \A f \in E : f[1] \in S => f[2] \in S
        BY <2>1, PathExtends DEF Graph
      <3> QED
        BY <3>1, <3>2
    <2>4. S \in SUBSET Sessions /\ T \in SUBSET Sessions
      OBVIOUS
    <2>5. e = <<p, c>> => FALSE
      <3> SUFFICES ASSUME e = <<p, c>> PROVE FALSE
        OBVIOUS
      <3>1. \A f \in F : f[1] \in T => f[2] \in T
        BY <2>2
      <3>2. e[2] = c /\ e[1] = p
        OBVIOUS
      <3> HIDE DEF T, F
      <3>3. p \in T
        BY <3>1, <3>2, <2>2, <2>4 DEF HasPath
      <3> QED
        BY <3>3, <2>2
    <2>6. e \in E
      BY <2>5
    <2>7. \A f \in F : f[1] \in S \cup T => f[2] \in S \cup T
      BY <2>2, <2>3
    <2>8. e[1] \in S \cup T
      <3> HIDE DEF S, T, F
      <3>1. S \cup T \in SUBSET Sessions /\ e[2] \in S \cup T
        BY <2>3, <2>4
      <3> QED
        BY <3>1, <2>7 DEF HasPath
    <2>9. e[1] \notin S
      BY <2>6 DEF Acyclic
    <2>10. HasPath(E, c, e[2])
      BY <2>6, <2>8, <2>9, PathExtends
    <2>11. p \in S
      <3> SUFFICES ASSUME p \notin S PROVE FALSE
        OBVIOUS
      <3>1. \A f \in F : f[1] \in S => f[2] \in S
        BY <2>3
      <3> HIDE DEF S, F
      <3>2. e[1] \in S
        BY <3>1, <2>3, <2>4 DEF HasPath
      <3> QED
        BY <3>2, <2>9
    <2>12. HasPath(E, c, p)
      BY <2>1, <2>10, <2>11, PathsCompose
    <2> QED
      BY <1>2, <2>12
  <1> QED
    BY <1>1, <1>2 DEF Linkable

(* A nonempty set of finite sets has a smallest member: taking strict      *)
(* subsets is well-founded.                                                *)
LEMMA SmallestSubset ==
  ASSUME NEW T, T # {}, \A x \in T : IsFiniteSet(x)
  PROVE  \E x \in T : \A y \in T : y \subseteq x => y = x
  <1> DEFINE C == UNION T
  <1>1. T \subseteq FiniteSubsetsOf(C)
    BY DEF FiniteSubsetsOf
  <1> HIDE DEF C
  <1>2. IsWellFoundedOn(StrictSubsetOrdering(C), FiniteSubsetsOf(C))
    BY FS_StrictSubsetOrderingWellFounded
  <1>3. PICK x \in T : \A y \in T : ~(<<y, x>> \in StrictSubsetOrdering(C))
    BY <1>1, <1>2, WFMin
  <1>4. \A y \in T : y \in SUBSET C
    BY DEF C
  <1> QED
    BY <1>3, <1>4 DEF StrictSubsetOrdering

LEMMA SmallestOf ==
  ASSUME NEW B, NEW b \in B, NEW f, \A s \in B : f[s] \in SUBSET Sessions
  PROVE  \E s \in B : \A t \in B : f[t] \subseteq f[s] => f[t] = f[s]
  <1> DEFINE T == {f[s] : s \in B}
  <1>1. \A x \in T : IsFiniteSet(x)
    BY DirectoryAssumption, FS_Subset
  <1>2. T # {}
    OBVIOUS
  <1>3. PICK x \in T : \A y \in T : y \subseteq x => y = x
    <2> HIDE DEF T
    <2> QED
      BY <1>1, <1>2, SmallestSubset
  <1> QED
    BY <1>3

(* In a finite graph without cycles, where every Session but the root one  *)
(* has a parent, all are below the root Session: going up from parent to   *)
(* parent, fewer and fewer Sessions are above, and it ends.                *)
LEMMA AllBelowRoot ==
  ASSUME NEW E \in Graph, NEW P \in SUBSET Sessions, E \subseteq P \X P, Acyclic(E),
         \A s \in P \ {Root} : \E p \in Sessions : <<p, s>> \in E,
         NEW b \in P
  PROVE  HasPath(E, Root, b)
  <1> SUFFICES ASSUME NEW S \in SUBSET Sessions, Root \in S,
                      \A e \in E : e[1] \in S => e[2] \in S, b \notin S
               PROVE  FALSE
    BY DEF HasPath
  <1> DEFINE Above(s) == {a \in Sessions : HasPath(E, a, s)}
             Bad == P \ S
             T == {Above(s) : s \in Bad}
  <1>1. PICK s \in Bad : \A t \in Bad : Above(t) \subseteq Above(s) => Above(t) = Above(s)
    <2> DEFINE f == [t \in Bad |-> Above(t)]
    <2>1. \A t \in Bad : f[t] \in SUBSET Sessions
      OBVIOUS
    <2>2. b \in Bad
      OBVIOUS
    <2>3. \A t \in Bad : f[t] = Above(t)
      OBVIOUS
    <2> HIDE DEF f, Bad, Above
    <2>4. \E s \in Bad : \A t \in Bad : f[t] \subseteq f[s] => f[t] = f[s]
      BY <2>1, <2>2, SmallestOf
    <2> QED
      BY <2>3, <2>4
  <1>2. PICK p \in Sessions : <<p, s>> \in E
    OBVIOUS
  <1>3. p \in Bad
    <2>1. p \in P
      BY <1>2
    <2>2. p \in S => s \in S
      BY <1>2
    <2> QED
      BY <2>1, <2>2
  <1>4. Above(p) \subseteq Above(s)
    <2> SUFFICES ASSUME NEW a \in Sessions, HasPath(E, a, p) PROVE HasPath(E, a, s)
      OBVIOUS
    <2> QED
      BY <1>2, PathExtends
  <1>5. s \in Above(s)
    BY DEF HasPath
  <1>6. ~HasPath(E, s, p)
    BY <1>2 DEF Acyclic
  <1> QED
    BY <1>1, <1>3, <1>4, <1>5, <1>6

-----------------------------------------------------------------------------
(***************************************************************************)
(* The inductive invariant, of a state g and the users there are.          *)
(***************************************************************************)
States == [owner : [Units -> Users \cup {None, Absent}],
           unitOf : [Sessions -> Units \cup {None, Absent}],
           edges : Graph,
           ok : BOOLEAN]
(* Every part of g has its type, and no repair has raised. *)
Proper(g) == g \in States /\ g.ok

(* Units belong to users there are.  A Session has no Unit, one that was   *)
(* created, or its own as the root Session or a home.                      *)
Placed(g, known) ==
  /\ known \subseteq Users
  /\ g.unitOf[Root] = Root /\ g.owner[Root] = None
  /\ \A u \in known : g.unitOf[HomeOf[u]] = HomeOf[u] /\ g.owner[HomeOf[u]] = u
  /\ \A x \in Units : g.owner[x] \in known \cup {None, Absent}
  /\ \A s \in Sessions :
       \/ g.unitOf[s] \in {None, Absent}
       \/ g.unitOf[s] \in UnitIds /\ g.owner[g.unitOf[s]] # Absent
       \/ g.unitOf[s] = s /\ (s = Root \/ \E u \in known : s = HomeOf[u])

(* The graph is one of the Sessions there are, without cycles, and every   *)
(* one of them but the root Session has a parent.                          *)
Present(g) == {s \in Sessions : g.unitOf[s] # Absent}
Rooted(g) ==
  /\ g.edges \subseteq Present(g) \X Present(g)
  /\ Acyclic(g.edges)
  /\ \A s \in Present(g) \ {Root} : \E p \in Sessions : <<p, s>> \in g.edges

(* An owned Session hangs under its owner's home, or was just created and  *)
(* has no children yet: the next load links it, and can close no cycle.    *)
HomeEdge(g, s) == <<HomeOf[OwnerOf(g, s)], s>>
HomeOrLeaf(g, known) ==
  \A s \in Sessions : Owned(g, s, known) =>
    \/ HomeEdge(g, s) \in g.edges
    \/ \A e \in g.edges : e[1] # s

Sound(g, known) ==
  Proper(g) /\ Placed(g, known) /\ Rooted(g) /\ HomeOrLeaf(g, known)

(* What the repairs make of it. *)
Settled(g, known) ==
  /\ Sound(g, known)
  /\ \A s \in Sessions : Owned(g, s, known) =>
       HomeEdge(g, s) \in g.edges /\ <<Root, s>> \notin g.edges

Now == [owner |-> owner, unitOf |-> unitOf, edges |-> edges, ok |-> TRUE]
DirectoryInv == Sound(Now, users) /\ events \in 0..MaxEvents

-----------------------------------------------------------------------------
(***************************************************************************)
(* The repairs.                                                            *)
(***************************************************************************)
LEMMA BelowRoot ==
  ASSUME NEW g, Proper(g), Rooted(g), NEW s \in Sessions, g.unitOf[s] # Absent
  PROVE  HasPath(g.edges, Root, s)
  <1>1. Present(g) \in SUBSET Sessions /\ s \in Present(g)
    BY DEF Present
  <1> QED
    BY <1>1, AllBelowRoot DEF Proper, States, Rooted

(* Homes and the root Session have no owner above them. *)
LEMMA OwnedSessions ==
  ASSUME NEW g, NEW known, Proper(g), Placed(g, known), NEW s \in Sessions,
         Owned(g, s, known)
  PROVE  /\ g.unitOf[s] \in UnitIds /\ OwnerOf(g, s) \in known
         /\ OwnerOf(g, s) = g.owner[g.unitOf[s]]
         /\ HomeOf[OwnerOf(g, s)] \in Sessions \ {s, Root}
         /\ s # Root /\ \A u \in known : HomeOf[u] # s
  <1>1. OwnerOf(g, s) \in known /\ HomeOf[OwnerOf(g, s)] # s /\ known \subseteq Users
    BY DEF Owned, Placed
  <1>2. None \notin Users /\ Absent \notin Users /\ None \notin Units /\ Absent \notin Units
    BY DirectoryAssumption
  <1>3. g.unitOf[s] \in Units /\ OwnerOf(g, s) = g.owner[g.unitOf[s]]
    BY <1>1, <1>2 DEF OwnerOf
  <1>4. g.unitOf[s] = s => FALSE
    <2> SUFFICES ASSUME g.unitOf[s] = s PROVE FALSE
      OBVIOUS
    <2>1. s \notin UnitIds /\ s \notin {None, Absent}
      BY DirectoryAssumption, <1>2, <1>3
    <2>2. s = Root \/ \E u \in known : s = HomeOf[u]
      BY <2>1 DEF Placed
    <2>3. s # Root
      BY <1>1, <1>2, <1>3 DEF Placed
    <2>4. PICK u \in known : s = HomeOf[u]
      BY <2>2, <2>3
    <2>5. g.owner[s] = u
      BY <2>4 DEF Placed
    <2> QED
      BY <1>1, <1>3, <2>4, <2>5
  <1>5. g.unitOf[s] \in UnitIds
    BY <1>2, <1>3, <1>4 DEF Placed
  <1>6. s # Root /\ \A u \in known : HomeOf[u] # s
    BY <1>4 DEF Placed
  <1>7. HomeOf[OwnerOf(g, s)] \in Sessions \ {s, Root}
    BY <1>1, DirectoryAssumption
  <1> QED
    BY <1>1, <1>3, <1>5, <1>6, <1>7

(* Nothing hangs in the air, and the last repair has nothing to do. *)
LEMMA RootRepaired ==
  ASSUME NEW g, Proper(g), Rooted(g)
  PROVE  UnderRoot(g) = g
  <1>1. {s \in Sessions \ {Root} : g.unitOf[s] # Absent /\ Detached(g.edges, s)} = {}
    BY BelowRoot DEF Detached
  <1>2. g.edges \cup ({Root} \X {}) = g.edges
    OBVIOUS
  <1>3. UnderRoot(g) = [g EXCEPT !.edges = g.edges]
    BY <1>1, <1>2 DEF UnderRoot
  <1> QED
    BY <1>3 DEF Proper, States

(* The homes of the users there are stand already. *)
LEMMA HomesRepaired ==
  ASSUME NEW g, NEW known, Proper(g), Placed(g, known), Rooted(g)
  PROVE  WithHomes(g, known) = g
  <1> DEFINE homes == {HomeOf[u] : u \in known}
  <1>1. \A u \in known : /\ HomeOf[u] \in Sessions /\ g.owner[HomeOf[u]] = u
                         /\ g.unitOf[HomeOf[u]] = HomeOf[u] /\ HomeOf[u] # Absent
    BY DirectoryAssumption DEF Placed, Units
  <1>2. {h \in homes : ~HasPath(g.edges, Root, h)} = {}
    BY <1>1, BelowRoot
  <1>3. [x \in Units |-> IF x \in homes THEN HomeOwner(x, known) ELSE g.owner[x]] = g.owner
    <2>1. \A x \in homes : HomeOwner(x, known) = g.owner[x]
      <3> TAKE x \in homes
      <3>1. PICK u \in known : x = HomeOf[u]
        OBVIOUS
      <3>2. \A v \in known : HomeOf[v] = x => v = u
        BY <3>1, DirectoryAssumption DEF Placed
      <3>3. HomeOwner(x, known) = u
        BY <3>1, <3>2 DEF HomeOwner
      <3> QED
        BY <1>1, <3>1, <3>3
    <2> HIDE DEF homes
    <2> QED
      BY <2>1 DEF Proper, States
  <1>4. [s \in Sessions |-> IF s \in homes THEN s ELSE g.unitOf[s]] = g.unitOf
    BY <1>1 DEF Proper, States
  <1> DEFINE new == {<<Root, h>> : h \in {h \in homes : ~HasPath(g.edges, Root, h)}}
  <1>5. new = {}
    BY <1>2
  <1>6. WithHomes(g, known) =
          [owner |-> [x \in Units |-> IF x \in homes THEN HomeOwner(x, known) ELSE g.owner[x]],
           unitOf |-> [s \in Sessions |-> IF s \in homes THEN s ELSE g.unitOf[s]],
           edges |-> g.edges \cup new,
           ok |-> g.ok /\ \A e \in new : Linkable(g.edges, e[1], e[2])]
    BY DEF WithHomes
  <1> HIDE DEF homes, new
  <1>7. g.ok = TRUE
    BY DEF Proper, States
  <1>8. (g.ok /\ \A e \in new : Linkable(g.edges, e[1], e[2])) = TRUE
    BY <1>5, <1>7
  <1>9. g.edges \cup new = g.edges
    BY <1>5
  <1> QED
    BY <1>3, <1>4, <1>6, <1>8, <1>9 DEF Proper, States

(* Linking the owned Sessions succeeds.  It takes away only edges from the *)
(* root Session to Sessions that now hang under a home.                    *)
LEMMA OwnersRepaired ==
  ASSUME NEW g, NEW known, Sound(g, known),
         NEW h, h = UnderOwners(g, known)
  PROVE  /\ Settled(h, known)
         /\ \A e \in g.edges \ h.edges :
              e[1] = Root /\ \E u \in known : <<HomeOf[u], e[2]>> \in h.edges
  <1> DEFINE owned == {s \in Sessions : Owned(g, s, known)}
             new == {<<HomeOf[OwnerOf(g, s)], s>> : s \in owned}
             all == g.edges \cup new
             kept == NotUnderRoot(all, new, owned)
  <1>1. Proper(g) /\ Placed(g, known) /\ Rooted(g) /\ HomeOrLeaf(g, known)
    BY DEF Sound
  <1>2. \A s \in owned :
          /\ g.unitOf[s] \in UnitIds /\ OwnerOf(g, s) \in known
          /\ HomeOf[OwnerOf(g, s)] \in Sessions \ {s, Root}
          /\ s # Root /\ \A u \in known : HomeOf[u] # s
    BY <1>1, OwnedSessions
  <1>3. new \subseteq Present(g) \X Present(g)
    <2> SUFFICES ASSUME NEW s \in owned
                 PROVE  HomeOf[OwnerOf(g, s)] \in Present(g) /\ s \in Present(g)
      OBVIOUS
    <2>1. g.unitOf[s] # Absent
      BY <1>2, DirectoryAssumption DEF Units
    <2>2. g.unitOf[HomeOf[OwnerOf(g, s)]] = HomeOf[OwnerOf(g, s)]
      BY <1>1, <1>2 DEF Placed
    <2>3. HomeOf[OwnerOf(g, s)] \in Sessions /\ HomeOf[OwnerOf(g, s)] # Absent
      BY <1>2, DirectoryAssumption DEF Units
    <2> QED
      BY <2>1, <2>2, <2>3 DEF Present
  <1>4. all \subseteq Present(g) \X Present(g) /\ all \in Graph /\ new \in Graph /\ g.edges \in Graph
    BY <1>1, <1>3 DEF Rooted, Proper, States, Present, Graph
  <1>5. \A l \in new \ g.edges : l[1] # l[2] /\ \A e \in all : e[1] # l[2]
    <2> SUFFICES ASSUME NEW s \in owned, <<HomeOf[OwnerOf(g, s)], s>> \notin g.edges
                 PROVE  HomeOf[OwnerOf(g, s)] # s /\ \A e \in all : e[1] # s
      OBVIOUS
    <2>1. \A e \in g.edges : e[1] # s
      BY <1>1 DEF HomeOrLeaf, HomeEdge
    <2>2. \A e \in new : e[1] # s
      BY <1>2
    <2> QED
      BY <1>2, <2>1, <2>2
  <1>6. Acyclic(all)
    <2> DEFINE L == new \ g.edges
    <2>1. Acyclic(g.edges) /\ L \in Graph /\ all = g.edges \cup L
      BY <1>1, <1>4 DEF Rooted, Graph
    <2> HIDE DEF all, new
    <2> QED
      BY <1>4, <1>5, <2>1, LinksToLeaves
  <1>7. \A e \in new \ g.edges : Linkable(all \ {e}, e[1], e[2])
    <2> SUFFICES ASSUME NEW e \in new \ g.edges PROVE Linkable(all \ {e}, e[1], e[2])
      OBVIOUS
    <2> HIDE DEF all, new
    <2>1. e[1] # e[2] /\ e[1] \in Sessions /\ e[2] \in Sessions
      BY <1>4, <1>5 DEF Graph
    <2>2. all \ {e} \in Graph /\ \A f \in all \ {e} : f[1] # e[2]
      BY <1>4, <1>5 DEF Graph
    <2>3. ~HasPath(all \ {e}, e[2], e[1])
      BY <2>1, <2>2, LeafReaches
    <2> QED
      BY <2>1, <2>3 DEF Linkable
  <1>8. h = [owner |-> g.owner, unitOf |-> g.unitOf, edges |-> kept, ok |-> TRUE]
    <2>1. UnderOwners(g, known) =
            [g EXCEPT !.edges = kept,
                      !.ok = @ /\ \A e \in new \ g.edges : Linkable(all \ {e}, e[1], e[2])]
      BY DEF UnderOwners
    <2> HIDE DEF kept, new, all
    <2>2. g.ok = TRUE
      BY <1>1 DEF Proper, States
    <2>3. (g.ok /\ \A e \in new \ g.edges : Linkable(all \ {e}, e[1], e[2])) = TRUE
      BY <1>7, <2>2
    <2> QED
      BY <1>1, <2>1, <2>3 DEF Proper, States
  <1>9. kept \subseteq all /\ \A e \in all \ kept : e[1] = Root /\ e[2] \in owned
    BY <1>4 DEF NotUnderRoot
  <1>10. \A s \in owned : <<HomeOf[OwnerOf(g, s)], s>> \in kept /\ <<Root, s>> \notin kept
    BY <1>2 DEF NotUnderRoot
  <1>11. h.owner = g.owner /\ h.unitOf = g.unitOf /\ h.edges = kept
    BY <1>8
  <1> HIDE DEF kept, all, new
  <1>12. Proper(h)
    BY <1>1, <1>4, <1>8, <1>9 DEF Proper, States, Graph
  <1>13. Placed(h, known) /\ Present(h) = Present(g)
    BY <1>1, <1>11 DEF Placed, Present
  <1>14. Rooted(h)
    <2>1. kept \in Graph /\ kept \subseteq Present(g) \X Present(g)
      BY <1>4, <1>9 DEF Graph
    <2>2. Acyclic(kept)
      BY <1>4, <1>6, <1>9, <2>1, FewerEdges
    <2>3. ASSUME NEW s \in Present(g) \ {Root} PROVE \E p \in Sessions : <<p, s>> \in kept
      <3>1. CASE s \in owned
        BY <1>2, <1>10, <3>1
      <3>2. CASE s \notin owned
        <4>1. PICK p \in Sessions : <<p, s>> \in g.edges
          BY <1>1 DEF Rooted
        <4>2. <<p, s>> \in all /\ <<p, s>>[2] = s
          BY <4>1 DEF all
        <4> QED
          BY <1>9, <3>2, <4>2
      <3> QED
        BY <3>1, <3>2
    <2> QED
      BY <1>11, <1>13, <2>1, <2>2, <2>3 DEF Rooted
  <1>15. \A s \in Sessions : Owned(h, s, known) =>
           HomeEdge(h, s) \in h.edges /\ <<Root, s>> \notin h.edges
    BY <1>10, <1>11 DEF Owned, OwnerOf, HomeEdge
  <1>16. \A e \in g.edges \ h.edges :
           e[1] = Root /\ \E u \in known : <<HomeOf[u], e[2]>> \in h.edges
    <2> SUFFICES ASSUME NEW e \in g.edges \ h.edges
                 PROVE  e[1] = Root /\ \E u \in known : <<HomeOf[u], e[2]>> \in h.edges
      OBVIOUS
    <2>1. e \in all \ kept
      BY <1>11 DEF all
    <2>2. e[1] = Root /\ e[2] \in owned
      BY <1>9, <2>1
    <2> QED
      BY <1>2, <1>10, <1>11, <2>2
  <1> QED
    BY <1>12, <1>13, <1>14, <1>15, <1>16 DEF Settled, Sound, HomeOrLeaf

LEMMA LoadSettles ==
  ASSUME NEW g, NEW known, Sound(g, known),
         NEW h, h = Repaired(g, known)
  PROVE  /\ Settled(h, known)
         /\ \A e \in g.edges \ h.edges :
              e[1] = Root /\ \E u \in known : <<HomeOf[u], e[2]>> \in h.edges
  <1> DEFINE k == UnderOwners(g, known)
  <1>1. WithHomes(g, known) = g
    BY HomesRepaired DEF Sound
  <1>2. /\ Settled(k, known)
        /\ \A e \in g.edges \ k.edges :
             e[1] = Root /\ \E u \in known : <<HomeOf[u], e[2]>> \in k.edges
    BY OwnersRepaired
  <1>3. UnderRoot(k) = k
    BY <1>2, RootRepaired DEF Settled, Sound
  <1>4. h = k
    BY <1>1, <1>3 DEF Repaired
  <1> QED
    BY <1>2, <1>4

LEMMA RecordMade ==
  ASSUME NEW A, NEW B, NEW C, NEW a \in A, NEW b \in B, NEW c \in C
  PROVE  [owner |-> a, unitOf |-> b, edges |-> c, ok |-> TRUE]
           \in [owner : A, unitOf : B, edges : C, ok : BOOLEAN]
  OBVIOUS

(* A new user gets a home: a new Session under the root Session, or one    *)
(* that is there under that id and becomes the home.                       *)
LEMMA HomeMade ==
  ASSUME NEW g, NEW known, Sound(g, known), NEW u \in Users, u \notin known,
         NEW h, h = WithHomes(g, known \cup {u})
  PROVE  Sound(h, known \cup {u}) /\ g.edges \subseteq h.edges
  <1> DEFINE all == known \cup {u}
             homes == {HomeOf[v] : v \in all}
             home == HomeOf[u]
             new == {<<Root, x>> : x \in {x \in homes : ~HasPath(g.edges, Root, x)}}
  <1>1. Proper(g) /\ Placed(g, known) /\ Rooted(g) /\ HomeOrLeaf(g, known)
    BY DEF Sound
  <1>2. all \subseteq Users /\ home \in Sessions \ {Root} /\ home \notin UnitIds
        /\ home # Absent /\ home # None /\ \A v \in known : HomeOf[v] # home
    BY <1>1, DirectoryAssumption DEF Placed, Units
  <1>3. \A v \in known : /\ HomeOf[v] \in Sessions /\ g.owner[HomeOf[v]] = v
                         /\ g.unitOf[HomeOf[v]] = HomeOf[v] /\ HomeOf[v] # Absent
    BY <1>1, DirectoryAssumption DEF Placed, Units
  <1>4. \A v \in all : HomeOwner(HomeOf[v], all) = v
    <2> TAKE v \in all
    <2>1. \A w \in all : HomeOf[w] = HomeOf[v] => w = v
      BY <1>2, DirectoryAssumption
    <2> HIDE DEF all
    <2> QED
      BY <2>1 DEF HomeOwner
  <1>5. new \subseteq {<<Root, home>>} /\ (<<Root, home>> \in new => g.unitOf[home] = Absent)
    BY <1>1, <1>2, <1>3, BelowRoot
  <1>6. (g.ok /\ \A e \in new : Linkable(g.edges, e[1], e[2])) = TRUE
    <2>1. ASSUME NEW e \in new PROVE Linkable(g.edges, e[1], e[2])
      <3>1. e[1] = Root /\ e[2] = home /\ g.unitOf[home] = Absent
        BY <1>5
      <3>2. g.edges \in Graph /\ \A f \in g.edges : f[1] # home
        BY <1>1, <3>1 DEF Proper, States, Rooted, Present
      <3>3. ~HasPath(g.edges, home, Root)
        BY <1>2, <3>2, LeafReaches
      <3> QED
        BY <1>2, <3>1, <3>3 DEF Linkable
    <2>2. g.ok = TRUE
      BY <1>1 DEF Proper, States
    <2> HIDE DEF new
    <2> QED
      BY <2>1, <2>2
  <1> DEFINE owners == [x \in Units |-> IF x \in homes THEN HomeOwner(x, all) ELSE g.owner[x]]
             units == [s \in Sessions |-> IF s \in homes THEN s ELSE g.unitOf[s]]
             links == g.edges \cup new
  <1>7. /\ h = [owner |-> owners, unitOf |-> units, edges |-> links, ok |-> TRUE]
        /\ h.owner = owners /\ h.unitOf = units /\ h.edges = links
    <2>1. h = [owner |-> owners, unitOf |-> units, edges |-> links,
               ok |-> g.ok /\ \A e \in new : Linkable(g.edges, e[1], e[2])]
      BY DEF WithHomes
    <2> HIDE DEF owners, units, links, new
    <2>2. h = [owner |-> owners, unitOf |-> units, edges |-> links, ok |-> TRUE]
      BY <1>6, <2>1
    <2>3. h.owner = owners
      BY <2>2
    <2>4. h.unitOf = units
      BY <2>2
    <2>5. h.edges = links
      BY <2>2
    <2> QED
      BY <2>2, <2>3, <2>4, <2>5
  <1>8. \A x \in Units : h.owner[x] = IF x = home THEN u ELSE g.owner[x]
    <2> TAKE x \in Units
    <2>1. h.owner[x] = IF x \in homes THEN HomeOwner(x, all) ELSE g.owner[x]
      <3> HIDE DEF homes, new, all
      <3> QED
        BY <1>7
    <2>2. CASE x \in homes
      <3>1. PICK v \in all : x = HomeOf[v]
        BY <2>2
      <3> HIDE DEF homes
      <3> QED
        BY <1>2, <1>3, <1>4, <2>1, <2>2, <3>1
    <2>3. CASE x \notin homes
      <3>1. x # home
        BY <2>3
      <3> QED
        BY <2>1, <2>3, <3>1
    <2> QED
      BY <2>2, <2>3
  <1>9. \A s \in Sessions : h.unitOf[s] = IF s = home THEN s ELSE g.unitOf[s]
    <2> TAKE s \in Sessions
    <2>1. h.unitOf[s] = IF s \in homes THEN s ELSE g.unitOf[s]
      <3> HIDE DEF homes, new, all
      <3> QED
        BY <1>7
    <2>2. s \in homes => s = home \/ g.unitOf[s] = s
      BY <1>3
    <2>3. home \in homes
      OBVIOUS
    <2> HIDE DEF homes, home
    <2> QED
      BY <2>1, <2>2, <2>3
  <1>10. h.edges = g.edges \cup new
    BY <1>7
  <1>11. Proper(h)
    <2>1. h.owner \in [Units -> Users \cup {None, Absent}]
      <3>1. h.owner = [x \in Units |-> h.owner[x]]
        <4> HIDE DEF homes, new, all
        <4> QED
          BY <1>7
      <3>2. \A x \in Units : h.owner[x] \in Users \cup {None, Absent}
        BY <1>1, <1>8 DEF Proper, States
      <3> QED
        BY <3>1, <3>2
    <2>2. h.unitOf \in [Sessions -> Units \cup {None, Absent}]
      <3>1. h.unitOf = [s \in Sessions |-> h.unitOf[s]]
        <4> HIDE DEF homes, new, all
        <4> QED
          BY <1>7
      <3>2. \A s \in Sessions : h.unitOf[s] \in Units \cup {None, Absent}
        BY <1>1, <1>9 DEF Proper, States, Units
      <3> QED
        BY <3>1, <3>2
    <2>3. h.edges \in Graph
      <3>1. g.edges \in Graph
        BY <1>1 DEF Proper, States
      <3>2. new \subseteq Sessions \X Sessions
        BY <1>2, <1>5, DirectoryAssumption
      <3> HIDE DEF new
      <3> QED
        BY <1>10, <3>1, <3>2 DEF Graph
    <2>4. h = [owner |-> owners, unitOf |-> units, edges |-> links, ok |-> TRUE]
      BY <1>7
    <2>5. /\ owners \in [Units -> Users \cup {None, Absent}]
          /\ units \in [Sessions -> Units \cup {None, Absent}] /\ links \in Graph
      BY <1>7, <2>1, <2>2, <2>3
    <2> HIDE DEF owners, units, links
    <2>6. h.ok
      BY <2>4
    <2>7. h \in States
      <3>1. [owner |-> owners, unitOf |-> units, edges |-> links, ok |-> TRUE] \in States
        BY <2>5, RecordMade, Zenon DEF States
      <3> QED
        BY <2>4, <3>1
    <2> QED
      BY <2>6, <2>7 DEF Proper
  <1>12. Placed(h, all)
    <2>1. h.unitOf[Root] = Root /\ h.owner[Root] = None
      BY <1>1, <1>2, <1>8, <1>9, DirectoryAssumption DEF Placed, Units
    <2>2. \A v \in all : h.unitOf[HomeOf[v]] = HomeOf[v] /\ h.owner[HomeOf[v]] = v
      BY <1>2, <1>3, <1>8, <1>9 DEF Units
    <2>3. \A x \in Units : h.owner[x] \in all \cup {None, Absent}
      BY <1>1, <1>8 DEF Placed
    <2>4. ASSUME NEW s \in Sessions
          PROVE  \/ h.unitOf[s] \in {None, Absent}
                 \/ h.unitOf[s] \in UnitIds /\ h.owner[h.unitOf[s]] # Absent
                 \/ h.unitOf[s] = s /\ (s = Root \/ \E v \in all : s = HomeOf[v])
      <3>1. CASE s = home
        BY <1>9, <3>1
      <3>2. CASE s # home
        <4>1. h.unitOf[s] = g.unitOf[s]
          BY <1>9, <3>2
        <4>2. g.unitOf[s] \in UnitIds => h.owner[g.unitOf[s]] = g.owner[g.unitOf[s]]
          BY <1>2, <1>8 DEF Units
        <4>3. \/ g.unitOf[s] \in {None, Absent}
              \/ g.unitOf[s] \in UnitIds /\ g.owner[g.unitOf[s]] # Absent
              \/ g.unitOf[s] = s /\ (s = Root \/ \E v \in known : s = HomeOf[v])
          BY <1>1 DEF Placed
        <4> QED
          BY <4>1, <4>2, <4>3
      <3> QED
        BY <3>1, <3>2
    <2> QED
      BY <1>2, <2>1, <2>2, <2>3, <2>4 DEF Placed
  <1>13. Present(h) = Present(g) \cup {home}
    BY <1>2, <1>9 DEF Present
  <1>14. Rooted(h)
    <2>1. h.edges \subseteq Present(h) \X Present(h)
      <3>1. Root \in Present(g)
        BY <1>1, DirectoryAssumption DEF Placed, Present, Units
      <3> QED
        BY <1>1, <1>5, <1>10, <1>13, <3>1 DEF Rooted
    <2>2. Acyclic(h.edges)
      <3>1. Acyclic(g.edges) /\ g.edges \in Graph /\ new \in Graph
        BY <1>1, <1>2, <1>5, DirectoryAssumption DEF Rooted, Proper, States, Graph
      <3>2. \A l \in new : l[1] # l[2] /\ \A e \in g.edges \cup new : e[1] # l[2]
        <4> SUFFICES ASSUME NEW l \in new PROVE l[1] # l[2] /\ \A e \in g.edges \cup new : e[1] # l[2]
          OBVIOUS
        <4>1. l[1] = Root /\ l[2] = home /\ g.unitOf[home] = Absent
          BY <1>5
        <4>2. \A e \in g.edges : e[1] # home
          BY <1>1, <4>1 DEF Rooted, Present
        <4>3. \A e \in new : e[1] # home
          BY <1>2, <1>5
        <4> QED
          BY <1>2, <4>1, <4>2, <4>3
      <3> HIDE DEF new
      <3> QED
        BY <1>10, <3>1, <3>2, LinksToLeaves
    <2>3. ASSUME NEW s \in Present(h) \ {Root} PROVE \E p \in Sessions : <<p, s>> \in h.edges
      <3>1. CASE s \in Present(g)
        BY <1>1, <1>10, <3>1 DEF Rooted
      <3>2. CASE s \notin Present(g)
        <4>1. s = home /\ g.unitOf[home] = Absent
          BY <1>2, <1>13, <3>2 DEF Present
        <4>2. ~HasPath(g.edges, Root, home)
          <5> SUFFICES ASSUME HasPath(g.edges, Root, home) PROVE FALSE
            OBVIOUS
          <5>1. \A e \in g.edges : e[2] # home
            BY <1>1, <4>1 DEF Rooted, Present
          <5>2. /\ Sessions \ {home} \in SUBSET Sessions /\ Root \in Sessions \ {home}
                /\ \A e \in g.edges : e[2] \in Sessions \ {home}
            BY <1>1, <1>2, <5>1, DirectoryAssumption DEF Proper, States, Graph
          <5> QED
            BY <5>2 DEF HasPath
        <4>3. <<Root, home>> \in new
          BY <4>2
        <4> QED
          BY <1>10, <4>1, <4>3, DirectoryAssumption
      <3> QED
        BY <3>1, <3>2
    <2> QED
      BY <2>1, <2>2, <2>3 DEF Rooted
  <1>15. HomeOrLeaf(h, all)
    <2> SUFFICES ASSUME NEW s \in Sessions, Owned(h, s, all)
                 PROVE  HomeEdge(h, s) \in h.edges \/ \A e \in h.edges : e[1] # s
      BY DEF HomeOrLeaf
    <2> HIDE DEF new
    <2>1. h.unitOf[s] \in UnitIds /\ OwnerOf(h, s) \in all /\ s # Root
          /\ OwnerOf(h, s) = h.owner[h.unitOf[s]] /\ s # home
      <3> HIDE DEF all
      <3>1. /\ h.unitOf[s] \in UnitIds /\ OwnerOf(h, s) \in all /\ s # Root
            /\ OwnerOf(h, s) = h.owner[h.unitOf[s]] /\ \A v \in all : HomeOf[v] # s
        BY <1>11, <1>12, OwnedSessions
      <3> QED
        BY <3>1 DEF all
    <2>2. h.unitOf[s] = g.unitOf[s] /\ h.unitOf[s] # home
      BY <1>2, <1>9, <2>1
    <2>3. OwnerOf(h, s) = OwnerOf(g, s)
      BY <1>8, <2>1, <2>2 DEF OwnerOf, Units
    <2>4. OwnerOf(g, s) \in known
      <3>1. OwnerOf(g, s) \in known \cup {None, Absent}
        BY <1>1, <2>1, <2>2 DEF OwnerOf, Placed, Units
      <3> QED
        BY <1>2, <2>1, <2>3, <3>1, DirectoryAssumption
    <2>5. Owned(g, s, known)
      BY <2>3, <2>4 DEF Owned
    <2>6. HomeEdge(g, s) \in g.edges \/ \A e \in g.edges : e[1] # s
      BY <1>1, <2>5 DEF HomeOrLeaf
    <2>7. HomeEdge(h, s) = HomeEdge(g, s)
      BY <2>3 DEF HomeEdge
    <2> QED
      BY <1>5, <1>10, <2>1, <2>6, <2>7
  <1> QED
    BY <1>10, <1>11, <1>12, <1>14, <1>15 DEF Sound

-----------------------------------------------------------------------------
(***************************************************************************)
(* The commands, on a loaded state.                                        *)
(***************************************************************************)
(* No Session belongs to a Unit that is only now created. *)
LEMMA UnitMade ==
  ASSUME NEW g, NEW known, Settled(g, known),
         NEW x \in UnitIds, g.owner[x] = Absent, NEW o \in known \cup {None},
         NEW h, h = [g EXCEPT !.owner[x] = o]
  PROVE  Sound(h, known) /\ h.edges = g.edges
  <1>1. Proper(g) /\ Placed(g, known) /\ Rooted(g)
    BY DEF Settled, Sound
  <1>2. h.owner = [g.owner EXCEPT ![x] = o] /\ h.unitOf = g.unitOf /\ h.edges = g.edges
    BY <1>1 DEF Proper, States
  <1>3. x \in Units /\ x \notin Sessions /\ known \subseteq Users /\ None # Absent
    BY <1>1, DirectoryAssumption DEF Units, Placed, None, Absent
  <1>4. \A y \in Units : h.owner[y] = IF y = x THEN o ELSE g.owner[y]
    BY <1>1, <1>2 DEF Proper, States
  <1>5. Proper(h)
    BY <1>1, <1>2, <1>3 DEF Proper, States
  <1>6. \A s \in Sessions : g.unitOf[s] # x
    BY <1>1, <1>3, DirectoryAssumption DEF Placed, Units
  <1>7. Placed(h, known)
    <2>1. h.unitOf[Root] = Root /\ h.owner[Root] = None
      BY <1>1, <1>2, <1>3, <1>4, DirectoryAssumption DEF Placed, Units
    <2>2. \A u \in known : h.unitOf[HomeOf[u]] = HomeOf[u] /\ h.owner[HomeOf[u]] = u
      BY <1>1, <1>2, <1>3, <1>4, DirectoryAssumption DEF Placed, Units
    <2>3. \A y \in Units : h.owner[y] \in known \cup {None, Absent}
      BY <1>1, <1>4 DEF Placed
    <2>4. \A s \in Sessions : g.unitOf[s] \in UnitIds => h.owner[g.unitOf[s]] = g.owner[g.unitOf[s]]
      BY <1>4, <1>6 DEF Units
    <2> QED
      BY <1>1, <1>2, <2>1, <2>2, <2>3, <2>4 DEF Placed
  <1>8. Rooted(h)
    <2>1. Present(h) = Present(g)
      BY <1>2 DEF Present
    <2> QED
      BY <1>1, <1>2, <2>1 DEF Rooted
  <1>9. \A s \in Sessions : OwnerOf(h, s) = OwnerOf(g, s)
    BY <1>2, <1>4, <1>6 DEF OwnerOf
  <1>10. HomeOrLeaf(h, known)
    BY <1>2, <1>9 DEF Settled, HomeOrLeaf, HomeEdge, Owned
  <1> QED
    BY <1>2, <1>5, <1>7, <1>8, <1>10 DEF Sound

(* A new Session has parents and no children. *)
WithSession(g, s, x, parents) ==
  [g EXCEPT !.unitOf[s] = x, !.edges = @ \cup (parents \X {s})]
LEMMA SessionMade ==
  ASSUME NEW g, NEW known, Settled(g, known),
         NEW s \in Sessions, g.unitOf[s] = Absent,
         NEW x \in UnitIds \cup {None}, x = None \/ g.owner[x] # Absent,
         NEW parents \in SUBSET Sessions, parents # {},
         \A p \in parents : g.unitOf[p] # Absent,
         NEW h, h = WithSession(g, s, x, parents)
  PROVE  Sound(h, known) /\ g.edges \subseteq h.edges
  <1> DEFINE new == parents \X {s}
  <1>1. Proper(g) /\ Placed(g, known) /\ Rooted(g)
    BY DEF Settled, Sound
  <1>2. /\ h.owner = g.owner /\ h.edges = g.edges \cup new
        /\ h.unitOf = [g.unitOf EXCEPT ![s] = x]
    BY <1>1 DEF Proper, States, WithSession
  <1>3. \A t \in Sessions : h.unitOf[t] = IF t = s THEN x ELSE g.unitOf[t]
    BY <1>1, <1>2 DEF Proper, States
  <1>4. x # Absent /\ s # Root /\ s \notin parents
    BY <1>1, DirectoryAssumption DEF Placed, Units, None, Absent, Root
  <1>5. new \in Graph /\ g.edges \in Graph
    BY <1>1 DEF Graph, Proper, States
  <1>6. Proper(h)
    BY <1>1, <1>2, <1>5 DEF Proper, States, Graph, Units, WithSession
  <1>7. Placed(h, known)
    <2>1. h.unitOf[Root] = Root /\ h.owner[Root] = None
      BY <1>1, <1>2, <1>3, <1>4, DirectoryAssumption DEF Placed
    <2>2. \A u \in known : h.unitOf[HomeOf[u]] = HomeOf[u] /\ h.owner[HomeOf[u]] = u
      <3> TAKE u \in known
      <3>1. g.unitOf[HomeOf[u]] = HomeOf[u] /\ g.owner[HomeOf[u]] = u /\ HomeOf[u] \in Sessions
        BY <1>1, DirectoryAssumption DEF Placed
      <3>2. HomeOf[u] # s
        BY <3>1, DirectoryAssumption DEF Units
      <3> QED
        BY <1>2, <1>3, <3>1, <3>2
    <2>3. ASSUME NEW t \in Sessions
          PROVE  \/ h.unitOf[t] \in {None, Absent}
                 \/ h.unitOf[t] \in UnitIds /\ h.owner[h.unitOf[t]] # Absent
                 \/ h.unitOf[t] = t /\ (t = Root \/ \E u \in known : t = HomeOf[u])
      <3>1. CASE t = s
        BY <1>2, <1>3, <3>1
      <3>2. CASE t # s
        BY <1>1, <1>2, <1>3, <3>2 DEF Placed
      <3> QED
        BY <3>1, <3>2
    <2> QED
      BY <1>1, <1>2, <2>1, <2>2, <2>3 DEF Placed
  <1>8. Present(h) = Present(g) \cup {s} /\ s \notin Present(g)
    BY <1>3, <1>4 DEF Present
  <1>9. \A e \in g.edges : e[1] # s
    BY <1>1, <1>8 DEF Rooted
  <1>10. Rooted(h)
    <2>1. parents \subseteq Present(g)
      BY DEF Present
    <2>2. h.edges \subseteq Present(h) \X Present(h)
      BY <1>1, <1>2, <1>8, <2>1 DEF Rooted
    <2>3. Acyclic(h.edges)
      <3>1. Acyclic(g.edges)
        BY <1>1 DEF Rooted
      <3>2. \A l \in new : l[1] # l[2] /\ \A e \in g.edges \cup new : e[1] # l[2]
        BY <1>4, <1>9
      <3> HIDE DEF new
      <3> QED
        BY <1>2, <1>5, <3>1, <3>2, LinksToLeaves
    <2>4. ASSUME NEW t \in Present(h) \ {Root} PROVE \E p \in Sessions : <<p, t>> \in h.edges
      <3>1. CASE t = s
        BY <1>2, <3>1
      <3>2. CASE t # s
        BY <1>1, <1>2, <1>8, <3>2 DEF Rooted
      <3> QED
        BY <3>1, <3>2
    <2> QED
      BY <2>2, <2>3, <2>4 DEF Rooted
  <1>11. HomeOrLeaf(h, known)
    <2> SUFFICES ASSUME NEW t \in Sessions, Owned(h, t, known)
                 PROVE  HomeEdge(h, t) \in h.edges \/ \A e \in h.edges : e[1] # t
      BY DEF HomeOrLeaf
    <2>1. CASE t = s
      <3>1. \A e \in new : e[1] # s
        BY <1>4
      <3> QED
        BY <1>2, <1>9, <2>1, <3>1
    <2>2. CASE t # s
      <3>1. OwnerOf(h, t) = OwnerOf(g, t)
        BY <1>2, <1>3, <2>2 DEF OwnerOf
      <3>2. HomeEdge(g, t) \in g.edges
        BY <3>1 DEF Settled, Owned
      <3> QED
        BY <1>2, <3>1, <3>2 DEF HomeEdge
    <2> QED
      BY <2>1, <2>2
  <1> QED
    BY <1>2, <1>6, <1>7, <1>10, <1>11 DEF Sound

LEMMA LinkMade ==
  ASSUME NEW g, NEW known, Settled(g, known),
         NEW p \in Sessions, NEW c \in Sessions,
         g.unitOf[p] # Absent, g.unitOf[c] # Absent, Linkable(g.edges, p, c),
         NEW h, h = [g EXCEPT !.edges = @ \cup {<<p, c>>}]
  PROVE  Sound(h, known) /\ g.edges \subseteq h.edges
  <1>1. Proper(g) /\ Placed(g, known) /\ Rooted(g)
    BY DEF Settled, Sound
  <1>2. h.owner = g.owner /\ h.unitOf = g.unitOf /\ h.edges = g.edges \cup {<<p, c>>}
    BY <1>1 DEF Proper, States
  <1>3. Proper(h)
    BY <1>1, <1>2 DEF Proper, States, Graph
  <1>4. Placed(h, known)
    BY <1>1, <1>2 DEF Placed
  <1>5. Rooted(h)
    <2>1. Acyclic(h.edges)
      BY <1>1, <1>2, LinkedAcyclic DEF Rooted, Proper, States
    <2>2. Present(h) = Present(g) /\ p \in Present(g) /\ c \in Present(g)
      BY <1>2 DEF Present
    <2> QED
      BY <1>1, <1>2, <2>1, <2>2 DEF Rooted
  <1>6. HomeOrLeaf(h, known)
    BY <1>2 DEF Settled, HomeOrLeaf, HomeEdge, Owned, OwnerOf
  <1> QED
    BY <1>2, <1>3, <1>4, <1>5, <1>6 DEF Sound

-----------------------------------------------------------------------------
(***************************************************************************)
(* The steps.                                                              *)
(***************************************************************************)
LEMMA SavedWhole ==
  ASSUME NEW h \in States, h.ok
  PROVE  [owner |-> h.owner, unitOf |-> h.unitOf, edges |-> h.edges, ok |-> TRUE] = h
  BY DEF States

LEMMA InitSound == Init => DirectoryInv
  <1> SUFFICES ASSUME Init PROVE DirectoryInv
    OBVIOUS
  <1> DEFINE o == [x \in Units |-> IF x = Root THEN None ELSE Absent]
             n == [s \in Sessions |-> IF s = Root THEN Root ELSE Absent]
             fresh == [owner |-> o, unitOf |-> n, edges |-> {}, ok |-> TRUE]
             homed == WithHomes(fresh, {Root})
             linked == UnderOwners(homed, {Root})
  <1>1. Root \in Users /\ Root \in Sessions /\ Root \in Units /\ Root # Absent
    BY DirectoryAssumption DEF Units, Root, Absent
  <1>2. Proper(fresh)
    <2>1. o \in [Units -> Users \cup {None, Absent}] /\ n \in [Sessions -> Units \cup {None, Absent}]
          /\ {} \in Graph
      BY <1>1 DEF Graph
    <2> HIDE DEF o, n
    <2>2. [owner |-> o, unitOf |-> n, edges |-> {}, ok |-> TRUE] \in States
      BY <2>1, RecordMade, Zenon DEF States
    <2> QED
      BY <2>2 DEF Proper
  <1>3. fresh.owner = o /\ fresh.unitOf = n /\ fresh.edges = {}
    <2> HIDE DEF o, n
    <2> QED
      OBVIOUS
  <1>4. \A x \in Units : fresh.owner[x] = IF x = Root THEN None ELSE Absent
    BY <1>3
  <1>5. \A s \in Sessions : fresh.unitOf[s] = IF s = Root THEN Root ELSE Absent
    BY <1>3
  <1> HIDE DEF fresh
  <1>6. Placed(fresh, {})
    BY <1>1, <1>4, <1>5 DEF Placed
  <1>7. Rooted(fresh)
    BY <1>3, <1>5 DEF Rooted, Acyclic, Present
  <1>8. HomeOrLeaf(fresh, {})
    BY DEF HomeOrLeaf, Owned
  <1>9. Sound(homed, {Root})
    <2>1. Sound(fresh, {})
      BY <1>2, <1>6, <1>7, <1>8 DEF Sound
    <2>2. {} \cup {Root} = {Root}
      OBVIOUS
    <2>3. Sound(homed, {} \cup {Root})
      BY <1>1, <2>1, <2>2, HomeMade
    <2> QED
      BY <2>2, <2>3
  <1>10. Settled(linked, {Root})
    BY <1>9, OwnersRepaired
  <1>11. Repaired(fresh, {Root}) = linked
    <2>1. UnderRoot(linked) = linked
      BY <1>10, RootRepaired DEF Settled, Sound
    <2> QED
      BY <2>1 DEF Repaired
  <1>12. /\ users = {Root} /\ events = 0
         /\ owner = linked.owner /\ unitOf = linked.unitOf /\ edges = linked.edges
    <2>1. /\ users = {Root} /\ events = 0
          /\ owner = Repaired(fresh, {Root}).owner
          /\ unitOf = Repaired(fresh, {Root}).unitOf
          /\ edges = Repaired(fresh, {Root}).edges
      BY DEF Init, fresh
    <2> QED
      BY <1>11, <2>1
  <1> HIDE DEF linked
  <1>13. Now = linked
    <2>1. linked \in States /\ linked.ok
      BY <1>10 DEF Settled, Sound, Proper
    <2> QED
      BY <1>12, <2>1, SavedWhole DEF Now
  <1>14. 0 \in 0..MaxEvents
    BY DirectoryAssumption
  <1> QED
    BY <1>10, <1>12, <1>13, <1>14 DEF DirectoryInv, Settled

(* Every command saves a sound state, and loses no edge of the loaded one. *)
LEMMA CommandSaves ==
  ASSUME Sound(Now, users), Next
  PROVE  \E h : /\ Sound(h, users') /\ Loaded.edges \subseteq h.edges
                /\ owner' = h.owner /\ unitOf' = h.unitOf /\ edges' = h.edges
  <1> DEFINE Saved(h) ==
        /\ Sound(h, users') /\ Loaded.edges \subseteq h.edges
        /\ owner' = h.owner /\ unitOf' = h.unitOf /\ edges' = h.edges
  <1> SUFFICES \E h : Saved(h)
    OBVIOUS
  <1>1. PICK g \in {Loaded} :
          \/ \E u \in Users : CreateUser(g, u)
          \/ \E x \in UnitIds, o \in Users \cup {None} : CreateUnit(g, x, o)
          \/ \E s \in Sessions, x \in UnitIds \cup {None}, parents \in SUBSET Sessions :
               parents # {} /\ Cardinality(parents) <= 2 /\ CreateSession(g, s, x, parents)
          \/ \E p, c \in Sessions : LinkSessions(g, p, c)
    BY DEF Next
  <1>2. Settled(g, users) /\ g = Loaded
    <2>1. g = Repaired(Now, users)
      BY <1>1 DEF Loaded, Now
    <2> QED
      BY <2>1, LoadSettles
  <1>3. ASSUME NEW u \in Users, CreateUser(g, u) PROVE \E h : Saved(h)
    <2> DEFINE h == WithHomes(g, users \cup {u})
    <2>1. Sound(h, users \cup {u}) /\ g.edges \subseteq h.edges
      BY <1>2, <1>3, HomeMade DEF CreateUser, Settled
    <2>2. users' = users \cup {u} /\ owner' = h.owner /\ unitOf' = h.unitOf /\ edges' = h.edges
      BY <1>3 DEF CreateUser, Save
    <2>3. Saved(h)
      <3> HIDE DEF h
      <3> QED
        BY <1>2, <2>1, <2>2
    <2> QED
      BY <2>3
  <1>4. ASSUME NEW x \in UnitIds, NEW o \in Users \cup {None}, CreateUnit(g, x, o)
        PROVE  \E h : Saved(h)
    <2> DEFINE h == [g EXCEPT !.owner[x] = o]
    <2>1. Sound(h, users) /\ h.edges = g.edges
      BY <1>2, <1>4, UnitMade DEF CreateUnit, UnusedId
    <2>2. users' = users /\ owner' = h.owner /\ unitOf' = h.unitOf /\ edges' = h.edges
      BY <1>4 DEF CreateUnit, Save
    <2>3. Saved(h)
      <3> HIDE DEF h
      <3> QED
        BY <1>2, <2>1, <2>2
    <2> QED
      BY <2>3
  <1>5. ASSUME NEW s \in Sessions, NEW x \in UnitIds \cup {None}, NEW parents \in SUBSET Sessions,
               parents # {}, CreateSession(g, s, x, parents)
        PROVE  \E h : Saved(h)
    <2> DEFINE h == WithSession(g, s, x, parents)
    <2>1. Sound(h, users) /\ g.edges \subseteq h.edges
      <3>1. /\ g.unitOf[s] = Absent /\ (x = None \/ g.owner[x] # Absent)
            /\ \A p \in parents : g.unitOf[p] # Absent
        BY <1>5 DEF CreateSession
      <3> QED
        BY <1>2, <1>5, <3>1, SessionMade
    <2>2. users' = users /\ owner' = h.owner /\ unitOf' = h.unitOf /\ edges' = h.edges
      BY <1>5 DEF CreateSession, Save, WithSession
    <2>3. Saved(h)
      <3> HIDE DEF h
      <3> QED
        BY <1>2, <2>1, <2>2
    <2> QED
      BY <2>3
  <1>6. ASSUME NEW p \in Sessions, NEW c \in Sessions, LinkSessions(g, p, c)
        PROVE  \E h : Saved(h)
    <2> DEFINE h == [g EXCEPT !.edges = @ \cup {<<p, c>>}]
    <2>1. Sound(h, users) /\ g.edges \subseteq h.edges
      BY <1>2, <1>6, LinkMade DEF LinkSessions
    <2>2. users' = users /\ owner' = h.owner /\ unitOf' = h.unitOf /\ edges' = h.edges
      BY <1>6 DEF LinkSessions, Save
    <2>3. Saved(h)
      <3> HIDE DEF h
      <3> QED
        BY <1>2, <2>1, <2>2
    <2> QED
      BY <2>3
  <1> HIDE DEF Saved
  <1> QED
    BY <1>1, <1>3, <1>4, <1>5, <1>6

LEMMA NextSound == DirectoryInv /\ [Next]_vars => DirectoryInv'
  <1> SUFFICES ASSUME DirectoryInv, [Next]_vars PROVE DirectoryInv'
    OBVIOUS
  <1>1. CASE Next
    <2>1. PICK h : /\ Sound(h, users') /\ Loaded.edges \subseteq h.edges
                   /\ owner' = h.owner /\ unitOf' = h.unitOf /\ edges' = h.edges
      BY <1>1, CommandSaves DEF DirectoryInv
    <2>2. h \in States /\ h.ok
      BY <2>1 DEF Sound, Proper
    <2>3. Now' = h
      BY <2>1, <2>2, SavedWhole DEF Now
    <2>4. events' \in 0..MaxEvents
      BY <1>1, DirectoryAssumption DEF DirectoryInv, Next
    <2> QED
      BY <2>1, <2>3, <2>4 DEF DirectoryInv
  <1>2. CASE UNCHANGED vars
    <2>1. Now' = Now /\ users' = users /\ events' = events
      BY <1>2 DEF vars, Now
    <2> QED
      BY <2>1 DEF DirectoryInv
  <1> QED
    BY <1>1, <1>2

-----------------------------------------------------------------------------
(***************************************************************************)
(* The theorems.                                                           *)
(***************************************************************************)
LEMMA AlwaysSound == Spec => []DirectoryInv
  BY InitSound, NextSound, PTL DEF Spec

(* What the invariant says of the next load. *)
LEMMA NextLoad ==
  ASSUME DirectoryInv
  PROVE  Settled(Loaded, users)
  <1>1. Loaded = Repaired(Now, users)
    BY DEF Loaded, Now
  <1> QED
    BY <1>1, LoadSettles DEF DirectoryInv

(* Every component of the state has its type (TypeOK). *)
THEOREM DirectoryTyped == Spec => []TypeOK
  <1>1. DirectoryInv => TypeOK
    <2> SUFFICES ASSUME DirectoryInv PROVE TypeOK
      OBVIOUS
    <2>1. Now.owner = owner /\ Now.unitOf = unitOf /\ Now.edges = edges
      BY DEF Now
    <2>2. Now \in States /\ users \subseteq Users
      BY DEF DirectoryInv, Sound, Proper, Placed
    <2>3. /\ Now.owner \in [Units -> Users \cup {None, Absent}]
          /\ Now.unitOf \in [Sessions -> Units \cup {None, Absent}]
          /\ Now.edges \in Graph
      BY <2>2 DEF States
    <2> QED
      BY <2>1, <2>2, <2>3 DEF TypeOK, DirectoryInv, Graph
  <1> QED
    BY <1>1, AlwaysSound, PTL

(* Whatever was created and linked, no repair of the next load raises      *)
(* (AlwaysLoads): ensure_defaults accepts every state that was saved.      *)
THEOREM EveryLoadSucceeds == Spec => []AlwaysLoads
  <1>1. DirectoryInv => AlwaysLoads
    BY NextLoad DEF Settled, Sound, Proper, AlwaysLoads
  <1> QED
    BY <1>1, AlwaysSound, PTL

(* The graph that a load yields has no cycle (NoCycles), although the      *)
(* repairs link Sessions without looking at the links that users made.     *)
THEOREM GraphStaysAcyclic == Spec => []NoCycles
  <1>1. DirectoryInv => NoCycles
    BY NextLoad DEF Settled, Sound, Rooted, Acyclic, NoCycles
  <1> QED
    BY <1>1, AlwaysSound, PTL

(* After a load every Session is below the root Session, and an owned one  *)
(* hangs under its owner's home and not beside it (SessionsAtHome).        *)
THEOREM SessionsUnderTheirHomes == Spec => []SessionsAtHome
  <1>1. DirectoryInv => SessionsAtHome
    <2> SUFFICES ASSUME DirectoryInv, NEW g \in {Loaded},
                        NEW s \in Sessions, g.unitOf[s] # Absent
                 PROVE  /\ HasPath(g.edges, Root, s)
                        /\ Owned(g, s, users) =>
                             /\ <<HomeOf[OwnerOf(g, s)], s>> \in g.edges
                             /\ <<Root, s>> \notin g.edges
      BY DEF SessionsAtHome
    <2>1. Settled(g, users)
      BY NextLoad
    <2> QED
      BY <2>1, BelowRoot DEF Settled, Sound, HomeEdge
  <1> QED
    BY <1>1, AlwaysSound, PTL

(* No link is ever taken back, except one from the root Session to a       *)
(* Session that now hangs under an owner's home (LinksStay).               *)
THEOREM LinksAreKept == Spec => LinksStay
  <1> DEFINE Kept ==
        \A e \in edges \ edges' :
          e[1] = Root /\ \E u \in users : <<HomeOf[u], e[2]>> \in edges'
  <1>1. DirectoryInv /\ [Next]_vars => [Kept]_vars
    <2> SUFFICES ASSUME DirectoryInv, Next PROVE Kept
      OBVIOUS
    <2>1. PICK h : Loaded.edges \subseteq h.edges /\ edges' = h.edges
      BY CommandSaves DEF DirectoryInv
    <2>2. Loaded = Repaired(Now, users) /\ Now.edges = edges
      BY DEF Loaded, Now
    <2>3. \A e \in edges \ Loaded.edges :
            e[1] = Root /\ \E u \in users : <<HomeOf[u], e[2]>> \in Loaded.edges
      BY <2>2, LoadSettles DEF DirectoryInv
    <2> QED
      BY <2>1, <2>3
  <1> QED
    BY <1>1, AlwaysSound, PTL DEF Spec, LinksStay
=============================================================================
