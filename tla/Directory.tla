----------------------------- MODULE Directory -----------------------------
(***************************************************************************)
(* Users, the Units they own and the Session graph.  Every load repairs    *)
(* what it read in memory (ensure_defaults): home Units and home Sessions  *)
(* of the users, owned Sessions under their owner's home, everything under *)
(* the root Session.  A query stops there; a transaction goes on with the  *)
(* repaired state and saves it.                                            *)
(***************************************************************************)
EXTENDS Naturals, FiniteSets

CONSTANTS
  Users,      (* user names                                                *)
  Sessions,   (* Session ids; also the ids of the home Units, which are    *)
              (* those of the home Sessions                                *)
  HomeOf,     (* account_home_session_id of each user name                 *)
  UnitIds,    (* the ids that Units are created with                       *)
  MaxEvents   (* bound on the commands given                               *)

Root == "root"
Units == UnitIds \cup Sessions
Absent == "absent"
None == ""
(* No two names have the same home (safe_id_part could map two to one), and *)
(* nobody creates a Unit under the id of a home Unit.  Names and ids are   *)
(* not empty.                                                              *)
ASSUME DirectoryAssumption ==
  /\ Root \in Users \cap Sessions
  /\ HomeOf \in [Users -> Sessions \ {Root}]
  /\ \A u, v \in Users : HomeOf[u] = HomeOf[v] => u = v
  /\ UnitIds \cap Sessions = {} /\ IsFiniteSet(Sessions)
  /\ {None, Absent} \cap (Users \cup Units) = {}
  /\ MaxEvents \in Nat

VARIABLES
  users,   (* the login users                                              *)
  owner,   (* owner_account of each Unit                                   *)
  unitOf,  (* unit_id of each Session                                      *)
  edges,   (* session_edges: <<parent, child>>                             *)
  events   (* how many commands were given                                 *)

vars == <<users, owner, unitOf, edges, events>>

-----------------------------------------------------------------------------
(***************************************************************************)
(* The graph.                                                              *)
(***************************************************************************)
(* _has_path: b is in every set that a is in and that no edge leaves. *)
HasPath(E, a, b) ==
  \A S \in SUBSET Sessions :
    a \in S /\ (\A e \in E : e[1] \in S => e[2] \in S) => b \in S

(* Mutant: the path is looked for in the direction of the new edge. *)
AcyclicAlong(E, p, c) == p # c /\ (<<p, c>> \in E \/ ~HasPath(E, p, c))
(* An edge that is there already is fine. *)
Linkable(E, p, c) == p # c /\ (<<p, c>> \in E \/ ~HasPath(E, c, p))

-----------------------------------------------------------------------------
(***************************************************************************)
(* ensure_defaults on a state g; `ok' is false once a repair has raised    *)
(* StoreError.  The code makes the links of a step one by one, each on the *)
(* graph with the links before it.  Here they are made together: a link    *)
(* closes a cycle with the ones made before it for some order exactly if   *)
(* it does with all of them, and a link from the root Session to a Session *)
(* makes no other one reachable, as only a new home, which has no children *)
(* yet, is ever unreachable.                                               *)
(***************************************************************************)
(* Mutant: the home Unit is recorded as its own owner. *)
HomeId(x, known) == x
HomeOwner(x, known) == CHOOSE u \in known : HomeOf[u] = x
(* _ensure_user_home_sessions *)
WithHomes(g, known) ==
  LET homes == {HomeOf[u] : u \in known}
      new == {<<Root, h>> : h \in {h \in homes : ~HasPath(g.edges, Root, h)}}
  IN [owner |-> [x \in Units |->
        IF x \in homes THEN HomeOwner(x, known) ELSE g.owner[x]],
      unitOf |-> [s \in Sessions |-> IF s \in homes THEN s ELSE g.unitOf[s]],
      edges |-> g.edges \cup new,
      ok |-> g.ok /\ \A e \in new : Linkable(g.edges, e[1], e[2])]

OwnerOf(g, s) == IF g.unitOf[s] \in Units THEN g.owner[g.unitOf[s]] ELSE None
(* The owner is a user there is, and the Session is not that user's home. *)
Owned(g, s, known) == OwnerOf(g, s) \in known /\ HomeOf[OwnerOf(g, s)] # s

(* Mutant: an owned Session loses every other parent. *)
OnlyUnderOwner(E, new, owned) == {e \in E : e[2] \in owned => e \in new}
(* The edge from the root Session to an owned Session goes. *)
NotUnderRoot(E, new, owned) == E \ ({Root} \X owned)
(* _ensure_unit_session_owner_parents *)
UnderOwners(g, known) ==
  LET owned == {s \in Sessions : Owned(g, s, known)}
      new == {<<HomeOf[OwnerOf(g, s)], s>> : s \in owned}
      all == g.edges \cup new
  IN [g EXCEPT !.edges = NotUnderRoot(all, new, owned),
               !.ok = @ /\ \A e \in new \ g.edges : Linkable(all \ {e}, e[1], e[2])]

(* Mutant: a Session with another parent is put under the root Session. *)
AdoptedByRoot(E, s) == <<Root, s>> \notin E
Detached(E, s) == ~HasPath(E, Root, s)
(* The rest of ensure_defaults: everything is below the root Session. *)
UnderRoot(g) ==
  [g EXCEPT !.edges = @ \cup ({Root} \X
     {s \in Sessions \ {Root} : g.unitOf[s] # Absent /\ Detached(g.edges, s)})]

Repaired(g, known) == UnderRoot(UnderOwners(WithHomes(g, known), known))

Loaded == Repaired([owner |-> owner, unitOf |-> unitOf, edges |-> edges, ok |-> TRUE], users)
Save(g) ==
  /\ g.ok
  /\ owner' = g.owner /\ unitOf' = g.unitOf /\ edges' = g.edges

-----------------------------------------------------------------------------
(***************************************************************************)
(* Commands, on the loaded state g.  A StoreError, also that of the load,  *)
(* leaves everything as it was.                                            *)
(***************************************************************************)
CreateUser(g, u) ==
  /\ u \notin users
  /\ Save(WithHomes(g, users \cup {u}))
  /\ users' = users \cup {u}

(* Mutant: a Unit may be created again, for another owner. *)
AnyId(g, x) == TRUE
UnusedId(g, x) == g.owner[x] = Absent
CreateUnit(g, x, o) ==
  /\ UnusedId(g, x)
  /\ o \in users \cup {None}
  /\ Save([g EXCEPT !.owner[x] = o])
  /\ UNCHANGED users

(* create_session and the start of a Unit's Session; home Units and the    *)
(* root Unit are singletons that have theirs.  The Session is new, so the  *)
(* edges from its parents close no cycle.                                  *)
CreateSession(g, s, x, parents) ==
  /\ g.unitOf[s] = Absent
  /\ x = None \/ (x \in UnitIds /\ g.owner[x] # Absent)
  /\ \A p \in parents : g.unitOf[p] # Absent
  /\ Save([g EXCEPT !.unitOf[s] = x, !.edges = @ \cup (parents \X {s})])
  /\ UNCHANGED users

LinkSessions(g, p, c) ==
  /\ g.unitOf[p] # Absent /\ g.unitOf[c] # Absent
  /\ Linkable(g.edges, p, c)
  /\ Save([g EXCEPT !.edges = @ \cup {<<p, c>>}])
  /\ UNCHANGED users

Init ==
  LET fresh == [owner |-> [x \in Units |-> IF x = Root THEN None ELSE Absent],
                unitOf |-> [s \in Sessions |-> IF s = Root THEN Root ELSE Absent],
                edges |-> {}, ok |-> TRUE]
      g == Repaired(fresh, {Root})
  IN /\ users = {Root} /\ events = 0
     /\ owner = g.owner /\ unitOf = g.unitOf /\ edges = g.edges

Next ==
  /\ events < MaxEvents /\ events' = events + 1
  /\ \E g \in {Loaded} :
       \/ \E u \in Users : CreateUser(g, u)
       \/ \E x \in UnitIds, o \in Users \cup {None} : CreateUnit(g, x, o)
       \/ \E s \in Sessions, x \in UnitIds \cup {None}, parents \in SUBSET Sessions :
            parents # {} /\ Cardinality(parents) <= 2 /\ CreateSession(g, s, x, parents)
       \/ \E p, c \in Sessions : LinkSessions(g, p, c)
Spec == Init /\ [][Next]_vars

-----------------------------------------------------------------------------
(* Every component of the state has its type. *)
TypeOK ==
  /\ users \subseteq Users
  /\ owner \in [Units -> Users \cup {None, Absent}]
  /\ unitOf \in [Sessions -> Units \cup {None, Absent}]
  /\ edges \subseteq Sessions \X Sessions
  /\ events \in 0..MaxEvents

(* Whatever was created and linked, the next load succeeds: no state is    *)
(* saved that the repairs of ensure_defaults then reject.                  *)
AlwaysLoads == Loaded.ok

(* The Session graph a load yields has no cycle, with the edges that the   *)
(* repairs add.                                                            *)
NoCycles ==
  \A g \in {Loaded} : \A e \in g.edges : ~HasPath(g.edges, e[2], e[1])

(* After a load every Session is below the root Session, and one whose     *)
(* Unit has an owner hangs under the owner's home and not beside it.       *)
SessionsAtHome ==
  \A g \in {Loaded} : \A s \in Sessions : g.unitOf[s] # Absent =>
    /\ HasPath(g.edges, Root, s)
    /\ Owned(g, s, users) =>
         <<HomeOf[OwnerOf(g, s)], s>> \in g.edges /\ <<Root, s>> \notin g.edges

(* A link that was saved is never taken back, except one from the root     *)
(* Session to a Session that has an owner's home above it.                 *)
LinksStay ==
  [][\A e \in edges \ edges' : e[1] = Root /\ \E u \in users : <<HomeOf[u], e[2]>> \in edges']_vars
=============================================================================
