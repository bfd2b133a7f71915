----------------------------- MODULE UnitsProofs -----------------------------
(***************************************************************************)
(* Theorems about Units, for all Units, templates, intervals and bounds.   *)
(***************************************************************************)
EXTENDS Units, SequenceTheorems, TLAPS

USE DEF NoTime, NoSession, Instants

(* Nothing is scheduled before the beginning, and no interval reaches back *)
(* beyond zero from there (UnitsAssumption).                               *)
TimesLater ==
  /\ now >= Start
  /\ \A u \in Units : unit[u].next # NoTime => unit[u].next >= Start

TypeInv == TypeOK /\ TimesLater

-----------------------------------------------------------------------------
(* The changes the actions make to a Unit. *)
LEMMA UnitUpdates ==
  ASSUME NEW w \in Unit
  PROVE  /\ \A x \in {"active", "paused"} : [w EXCEPT !.status = x] \in Unit
         /\ \A x \in BOOLEAN : [w EXCEPT !.gated = x] \in Unit
         /\ \A x \in BOOLEAN, n \in Nat, t \in Instants, T \in SUBSET Triggers :
              [w EXCEPT !.enabled = x, !.interval = n, !.next = t, !.triggers = T] \in Unit
         /\ \A t \in Instants, i \in Nat : [w EXCEPT !.next = t, !.owed = i] \in Unit
         /\ \A t \in Instants, i, j \in Nat :
              [w EXCEPT !.next = t, !.owed = i, !.setter = j] \in Unit
  BY DEF Unit

(* The changes the actions make to a Session. *)
LEMMA SessionUpdates ==
  ASSUME NEW s \in Session
  PROVE  /\ \A x \in {"incomplete", "complete"} : [s EXCEPT !.goal = x] \in Session
         /\ \A t \in Instants : [s EXCEPT !.at = t] \in Session
         /\ \A x \in BOOLEAN, y \in {"on", "off"} :
              [s EXCEPT !.active = x, !.logged = y] \in Session
         /\ [s EXCEPT !.active = TRUE, !.goal = "incomplete"] \in Session
         /\ Replayed(s) \in Session
  BY DEF Session, Replayed

LEMMA NewSessions ==
  \A t \in Instants, g \in {"none", "incomplete"} : NewSession(t, g) \in Session
  BY DEF NewSession, Session

(* Changing one Session of a Unit keeps the others and their number. *)
LEMMA SessionChanged ==
  ASSUME NEW ss \in Seq(Session), NEW i \in DOMAIN ss, NEW s \in Session
  PROVE  /\ [ss EXCEPT ![i] = s] \in Seq(Session)
         /\ Len([ss EXCEPT ![i] = s]) = Len(ss)
         /\ [ss EXCEPT ![i] = s][i] = s
         /\ \A j \in DOMAIN ss : j # i => [ss EXCEPT ![i] = s][j] = ss[j]
  OBVIOUS

(* So does replaying the log onto each of them. *)
LEMMA SessionsReplayed ==
  ASSUME NEW ss \in Seq(Session)
  PROVE  /\ [i \in DOMAIN ss |-> Replayed(ss[i])] \in Seq(Session)
         /\ Len([i \in DOMAIN ss |-> Replayed(ss[i])]) = Len(ss)
  <1> DEFINE tt == [i \in 1..Len(ss) |-> Replayed(ss[i])]
  <1>1. ASSUME NEW i \in 1..Len(ss) PROVE Replayed(ss[i]) \in Session
    <2>1. ss[i] \in Session
      OBVIOUS
    <2> QED
      BY <2>1, SessionUpdates
  <1>2. tt \in [1..Len(ss) -> Session] /\ Len(ss) \in Nat
    BY <1>1
  <1>3. tt \in Seq(Session)
    BY <1>2
  <1>4. Len(tt) = Len(ss)
    BY <1>2, <1>3
  <1> QED
    BY <1>3, <1>4

(* What a start does to the Sessions of a Unit: a singleton's Session is   *)
(* activated, or a new one is appended.                                    *)
LEMMA StartedType ==
  ASSUME NEW u \in Units, sessions[u] \in Seq(Session), NEW t \in Instants
  PROVE  /\ Started(u, t) \in Seq(Session)
         /\ Reuses(u) => Len(Started(u, t)) = Len(sessions[u])
         /\ ~Reuses(u) => Len(Started(u, t)) = Len(sessions[u]) + 1
  <1>1. CASE Reuses(u)
    <2>1. 1 \in DOMAIN sessions[u]
      BY <1>1 DEF Reuses
    <2>2. Started(u, t) = [sessions[u] EXCEPT ![1] =
                             [sessions[u][1] EXCEPT !.active = TRUE, !.goal = "incomplete"]]
      BY <1>1, <2>1 DEF Started, Reactivated, Session
    <2>3. [sessions[u][1] EXCEPT !.active = TRUE, !.goal = "incomplete"] \in Session
      <3>1. sessions[u][1] \in Session
        BY <2>1
      <3> QED
        BY <3>1, SessionUpdates
    <2> QED
      BY <1>1, <2>1, <2>2, <2>3, SessionChanged
  <1>2. CASE ~Reuses(u)
    BY <1>2, NewSessions DEF Started
  <1> QED
    BY <1>1, <1>2

-----------------------------------------------------------------------------
(* The type invariant, Unit by Unit. *)
Well(u) ==
  /\ unit[u] \in Unit
  /\ sessions[u] \in Seq(Session)
  /\ unit[u].owed <= Len(sessions[u]) /\ unit[u].setter <= Len(sessions[u])
  /\ unit[u].next # NoTime => unit[u].next >= Start

Rest ==
  /\ unit = [u \in Units |-> unit[u]] /\ sessions = [u \in Units |-> sessions[u]]
  /\ now \in Nat /\ now >= Start
  /\ daemon \in {"down", "initialised", "up"} /\ events \in 0..MaxEvents

AllWell == \A u \in Units : Well(u)

LEMMA TypeInvByUnit == TypeInv <=> Rest /\ AllWell
  <1>1. \A u \in Units : unit[u] \in Unit => unit[u].owed \in Nat /\ unit[u].setter \in Nat
    BY DEF Unit
  <1>2. \A u \in Units : sessions[u] \in Seq(Session) => Len(sessions[u]) \in Nat
    OBVIOUS
  <1>3. (unit \in [Units -> Unit]) <=>
          (unit = [u \in Units |-> unit[u]] /\ \A u \in Units : unit[u] \in Unit)
    OBVIOUS
  <1>4. (sessions \in [Units -> Seq(Session)]) <=>
          (sessions = [u \in Units |-> sessions[u]] /\ \A u \in Units : sessions[u] \in Seq(Session))
    OBVIOUS
  <1> QED
    BY <1>1, <1>2, <1>3, <1>4 DEF TypeInv, TypeOK, TimesLater, Well, AllWell, Rest

(* A Unit that a step leaves alone stays as it is. *)
LEMMA Untouched ==
  ASSUME NEW u \in Units, Well(u), unit'[u] = unit[u], sessions'[u] = sessions[u]
  PROVE  Well(u)'
  BY DEF Well

(* A time that was resolved is a time after now. *)
LEMMA ResolvedTime ==
  ASSUME NEW u \in Units, Well(u), Rest, NEW i \in DOMAIN sessions[u], NEW t \in Instants,
         Resolvable(u, i, t)
  PROVE  Resolution(u, i, t) \in Instants /\ Resolution(u, i, t) # NoTime
         /\ Resolution(u, i, t) >= Start
  <1>0. unit[u].interval \in Nat /\ now \in Nat /\ now >= Start /\ Start \in Nat
    BY UnitsAssumption DEF Well, Rest, Unit
  <1>1. CASE unit[u].interval = 0
    BY <1>0, <1>1 DEF Resolvable, Resolution
  <1>2. CASE unit[u].interval # 0
    <2> DEFINE n == unit[u].interval
               b == sessions[u][i].at
    <2>1. sessions[u][i] \in Session
      BY DEF Well
    <2>2. b # NoTime /\ Resolution(u, i, t) = NextBoundary(b, n, now)
      BY <1>2 DEF Resolvable, Resolution
    <2>3. b \in Nat
      BY <2>1, <2>2 DEF Session
    <2>4. n \in Nat \ {0}
      BY <1>0, <1>2
    <2> HIDE DEF n, b
    <2>5. (now - b) \div n \in Int
      BY <1>0, <2>3, <2>4
    <2>6. NextBoundary(b, n, now) \in Int
      BY <2>3, <2>4, <2>5 DEF NextBoundary
    <2> QED
      BY <1>0, <2>2, <2>6 DEF Resolvable
  <1> QED
    BY <1>1, <1>2

LEMMA TimesAreInstants ==
  /\ NoTime \in Instants
  /\ \A t \in Times : t \in Instants /\ t # NoTime /\ t >= Start
  BY UnitsAssumption DEF Times

-----------------------------------------------------------------------------
(***************************************************************************)
(* Type correctness, one lemma per kind of step.                           *)
(***************************************************************************)
(* Only the Unit u changes, and its Sessions stay. *)
LEMMA UnitChangeTyped ==
  ASSUME TypeInv, NEW u \in Units, NEW w \in Unit,
         w.owed <= Len(sessions[u]), w.setter <= Len(sessions[u]),
         w.next # NoTime => w.next >= Start,
         unit' = [unit EXCEPT ![u] = w], UNCHANGED <<sessions, now, daemon>>,
         events' \in 0..MaxEvents
  PROVE  TypeInv'
  <1>1. Rest /\ \A v \in Units : Well(v)
    BY TypeInvByUnit DEF AllWell
  <1>2. unit'[u] = w /\ \A v \in Units : v # u => unit'[v] = unit[v]
    BY <1>1 DEF Rest
  <1>3. ASSUME NEW v \in Units PROVE Well(v)'
    <2>1. CASE v = u
      BY <1>1, <1>2, <2>1 DEF Well
    <2>2. CASE v # u
      BY <1>1, <1>2, <2>2, Untouched
    <2> QED
      BY <2>1, <2>2
  <1>4. Rest'
    BY <1>1 DEF Rest
  <1>5. AllWell'
    BY <1>3 DEF AllWell
  <1> QED
    BY <1>4, <1>5, TypeInvByUnit, PTL

(* Only the Sessions change, each Unit keeps as many or gets more. *)
LEMMA SessionsChangeTyped ==
  ASSUME TypeInv, NEW f, sessions' = [u \in Units |-> f[u]],
         \A u \in Units : f[u] \in Seq(Session) /\ Len(f[u]) >= Len(sessions[u]),
         UNCHANGED <<unit, now>>,
         daemon' \in {"down", "initialised", "up"}, events' \in 0..MaxEvents
  PROVE  TypeInv'
  <1>1. Rest /\ \A v \in Units : Well(v)
    BY TypeInvByUnit DEF AllWell
  <1>2. ASSUME NEW u \in Units PROVE Well(u)'
    <2>1. sessions'[u] \in Seq(Session) /\ Len(sessions'[u]) >= Len(sessions[u])
      BY DEF Rest
    <2>2. /\ Len(sessions[u]) \in Nat /\ Len(sessions'[u]) \in Nat
          /\ unit[u].owed \in Nat /\ unit[u].setter \in Nat
      BY <1>1, <2>1 DEF Well, Unit
    <2> QED
      BY <1>1, <2>1, <2>2 DEF Well
  <1>3. Rest'
    BY <1>1 DEF Rest
  <1>4. AllWell'
    BY <1>2 DEF AllWell
  <1> QED
    BY <1>3, <1>4, TypeInvByUnit, PTL

LEMMA SpendTyped == TypeInv /\ Spend => events' \in 0..MaxEvents
  BY UnitsAssumption DEF TypeInv, TypeOK, Spend

LEMMA AdministrationTyped ==
  ASSUME TypeInv, NEW u \in Units,
         \/ \E c \in Templates[u] : CreateUnit(u, c)
         \/ SetUnitActive(u)
         \/ SetSpawnGroups(u)
  PROVE  TypeInv'
  <1>1. Rest /\ Well(u)
    BY TypeInvByUnit DEF AllWell
  <1>2. ASSUME NEW c \in Templates[u], CreateUnit(u, c) PROVE TypeInv'
    <2> DEFINE T == NormalizedTriggers(c.triggers, c.enabled)
               w == [NoUnit EXCEPT !.status = "active", !.triggers = T, !.enabled = c.enabled,
                                   !.interval = c.interval, !.next = c.next]
    <2>1. c \in Template /\ (c.enabled <=> c.next # NoTime) /\ (c.enabled => c.next >= Start)
      BY TemplatesAssumption
    <2>2. T \in SUBSET Triggers
      BY <2>1 DEF NormalizedTriggers, Template, Unspecified, Triggers
    <2>3. c.enabled \in BOOLEAN /\ c.interval \in Nat /\ c.next \in Instants
      BY <2>1 DEF Template
    <2>4. w \in Unit /\ w.owed = 0 /\ w.setter = 0 /\ w.next = c.next
      BY <2>2, <2>3 DEF Unit, NoUnit
    <2>5. /\ unit' = [unit EXCEPT ![u] = w] /\ UNCHANGED <<sessions, now, daemon>>
          /\ events' \in 0..MaxEvents
      BY <1>1, <1>2 DEF CreateUnit, Rest
    <2>6. 0 <= Len(sessions[u])
      BY <1>1 DEF Well
    <2> QED
      BY <2>1, <2>4, <2>5, <2>6, UnitChangeTyped
  <1>3. CASE SetUnitActive(u)
    <2> DEFINE w == [unit[u] EXCEPT !.status = IF @ = "active" THEN "paused" ELSE "active"]
    <2>1. /\ unit' = [unit EXCEPT ![u] = w] /\ UNCHANGED <<sessions, now, daemon>>
          /\ events' \in 0..MaxEvents
      BY <1>1, <1>3, SpendTyped DEF SetUnitActive, Rest, Well, Unit
    <2>2. w \in Unit /\ w.owed = unit[u].owed /\ w.setter = unit[u].setter /\ w.next = unit[u].next
      BY <1>1 DEF Well, Unit
    <2> QED
      BY <1>1, <2>1, <2>2, UnitChangeTyped DEF Well
  <1>4. CASE SetSpawnGroups(u)
    <2> DEFINE w == [unit[u] EXCEPT !.gated = ~@]
    <2>1. /\ unit' = [unit EXCEPT ![u] = w] /\ UNCHANGED <<sessions, now, daemon>>
          /\ events' \in 0..MaxEvents
      BY <1>1, <1>4, SpendTyped DEF SetSpawnGroups, Rest, Well, Unit
    <2>2. w \in Unit /\ w.owed = unit[u].owed /\ w.setter = unit[u].setter /\ w.next = unit[u].next
      BY <1>1 DEF Well, Unit
    <2> QED
      BY <1>1, <2>1, <2>2, UnitChangeTyped DEF Well
  <1> QED
    BY <1>2, <1>3, <1>4

(* A Unit and its Sessions change together. *)
LEMMA OneUnitTyped ==
  ASSUME TypeInv, NEW u \in Units, NEW w \in Unit, NEW ss \in Seq(Session),
         w.owed <= Len(ss), w.setter <= Len(ss), w.next # NoTime => w.next >= Start,
         unit' = [unit EXCEPT ![u] = w], sessions' = [sessions EXCEPT ![u] = ss],
         UNCHANGED <<now, daemon>>, events' \in 0..MaxEvents
  PROVE  TypeInv'
  <1>1. Rest /\ \A v \in Units : Well(v)
    BY TypeInvByUnit DEF AllWell
  <1>2. /\ unit'[u] = w /\ sessions'[u] = ss
        /\ \A v \in Units : v # u => unit'[v] = unit[v] /\ sessions'[v] = sessions[v]
    BY <1>1 DEF Rest
  <1>3. ASSUME NEW v \in Units PROVE Well(v)'
    <2>1. CASE v = u
      BY <1>2, <2>1 DEF Well
    <2>2. CASE v # u
      BY <1>1, <1>2, <2>2, Untouched
    <2> QED
      BY <2>1, <2>2
  <1>4. Rest'
    BY <1>1 DEF Rest
  <1>5. AllWell'
    BY <1>3 DEF AllWell
  <1> QED
    BY <1>4, <1>5, TypeInvByUnit, PTL

(* The anchor a new resolver is given is a time: no interval is longer     *)
(* than what lies before the beginning.                                    *)
LEMMA BackfilledSessions ==
  ASSUME NEW u \in Units, Well(u), Rest, NEW n \in Intervals,
         NEW t \in Instants, t # NoTime => t >= Start
  PROVE  \E ss \in Seq(Session) :
           /\ Backfilled(u, n, t) = [sessions EXCEPT ![u] = ss]
           /\ Len(ss) = Len(sessions[u])
           /\ t = NoTime => ss = sessions[u]
  <1> DEFINE i == unit[u].setter
  <1>1. CASE n > 0 /\ t # NoTime /\ Exists(u, i) /\ sessions[u][i].at = NoTime
    <2>1. t - n \in Instants
      BY <1>1, UnitsAssumption
    <2>2. i \in DOMAIN sessions[u] /\ sessions[u][i] \in Session
      BY <1>1 DEF Exists, Well
    <2>3. [sessions[u][i] EXCEPT !.at = t - n] \in Session
      BY <2>1, <2>2, SessionUpdates
    <2> DEFINE s == [sessions[u][i] EXCEPT !.at = t - n]
               ss == [sessions[u] EXCEPT ![i] = s]
    <2>4. Backfilled(u, n, t) = [sessions EXCEPT ![u] = ss]
      BY <1>1, <2>2 DEF Backfilled, Session
    <2> HIDE DEF i, s
    <2>5. ss \in Seq(Session) /\ Len(ss) = Len(sessions[u])
      BY <2>2, <2>3, SessionChanged DEF Well, s
    <2> HIDE DEF ss
    <2> QED
      BY <1>1, <2>4, <2>5
  <1>2. CASE ~(n > 0 /\ t # NoTime /\ Exists(u, i) /\ sessions[u][i].at = NoTime)
    <2>1. Backfilled(u, n, t) = [sessions EXCEPT ![u] = sessions[u]]
      BY <1>2 DEF Backfilled, Rest
    <2> QED
      BY <2>1 DEF Well
  <1> QED
    BY <1>1, <1>2

LEMMA ConfigureTyped ==
  ASSUME TypeInv, NEW u \in Units, NEW e \in Enablings, NEW n \in Intervals,
         NEW t \in Times \cup {NoTime}, ConfigureSchedule(u, e, n, t)
  PROVE  TypeInv'
  <1>1. Rest /\ Well(u)
    BY TypeInvByUnit DEF AllWell
  <1> DEFINE next == IF t = NoTime THEN unit[u].next ELSE t
             T == (unit[u].triggers \ {"scheduled"}) \cup (IF e THEN {"scheduled"} ELSE {})
             w == [unit[u] EXCEPT !.enabled = e, !.interval = n, !.next = next, !.triggers = T]
  <1>2. next \in Instants /\ (next # NoTime => next >= Start)
    BY <1>1, TimesAreInstants DEF Well, Unit
  <1>3. e \in BOOLEAN /\ n \in Nat /\ T \in SUBSET Triggers
    BY <1>1, UnitsAssumption DEF Well, Unit, Triggers
  <1>4. /\ unit' = [unit EXCEPT ![u] = w] /\ sessions' = Backfilled(u, n, next)
        /\ UNCHANGED <<now, daemon>> /\ events' \in 0..MaxEvents
    BY <1>1, SpendTyped DEF ConfigureSchedule, Rest, Well, Unit
  <1>5. w \in Unit /\ w.owed = unit[u].owed /\ w.setter = unit[u].setter /\ w.next = next
    BY <1>1, <1>2, <1>3 DEF Well, Unit
  <1> HIDE DEF next, w
  <1>6. PICK ss \in Seq(Session) : /\ sessions' = [sessions EXCEPT ![u] = ss]
                                   /\ Len(ss) = Len(sessions[u])
    BY <1>1, <1>2, <1>4, BackfilledSessions
  <1> QED
    BY <1>1, <1>2, <1>4, <1>5, <1>6, OneUnitTyped DEF Well

(* Sessions that are started or created. *)
LEMMA StartsTyped ==
  ASSUME TypeInv, NEW u \in Units, StartGoalSession(u) \/ CreateSession(u)
  PROVE  TypeInv'
  <1>1. Rest /\ Well(u)
    BY TypeInvByUnit DEF AllWell
  <1>2. unit[u] \in Unit /\ unit' = [unit EXCEPT ![u] = unit[u]]
    BY <1>1 DEF StartGoalSession, CreateSession, Rest, Well
  <1>3. UNCHANGED <<now, daemon>> /\ events' \in 0..MaxEvents
    BY SpendTyped DEF StartGoalSession, CreateSession
  <1>4. PICK ss \in Seq(Session) : /\ sessions' = [sessions EXCEPT ![u] = ss]
                                   /\ Len(ss) >= Len(sessions[u])
    <2>1. CASE StartGoalSession(u)
      <3>1. sessions' = [sessions EXCEPT ![u] = Started(u, NoTime)]
        BY <2>1 DEF StartGoalSession
      <3>2. sessions[u] \in Seq(Session) /\ Len(sessions[u]) \in Nat
        BY <1>1 DEF Well
      <3>3. Started(u, NoTime) \in Seq(Session) /\ Len(Started(u, NoTime)) >= Len(sessions[u])
        BY <3>2, StartedType
      <3> QED
        BY <3>1, <3>3
    <2>2. CASE CreateSession(u)
      <3>1. sessions' = [sessions EXCEPT ![u] = Append(sessions[u], NewSession(NoTime, "none"))]
        BY <2>2 DEF CreateSession
      <3>2. /\ Append(sessions[u], NewSession(NoTime, "none")) \in Seq(Session)
            /\ Len(Append(sessions[u], NewSession(NoTime, "none"))) >= Len(sessions[u])
        BY <1>1, NewSessions DEF Well
      <3> QED
        BY <3>1, <3>2
    <2> QED
      BY <2>1, <2>2
  <1>5. /\ unit[u].owed \in Nat /\ unit[u].setter \in Nat
        /\ Len(ss) \in Nat /\ Len(sessions[u]) \in Nat
    BY <1>1 DEF Well, Unit
  <1>6. /\ unit[u].owed <= Len(ss) /\ unit[u].setter <= Len(ss)
        /\ unit[u].next # NoTime => unit[u].next >= Start
    BY <1>1, <1>4, <1>5 DEF Well
  <1> QED
    BY <1>2, <1>3, <1>4, <1>6, OneUnitTyped

(* One Session of the Unit changes, perhaps with the Unit's schedule. *)
LEMMA SessionStepTyped ==
  ASSUME TypeInv, NEW u \in Units, NEW i \in Nat, SessionStep(u, i)
  PROVE  TypeInv'
  <1>1. Rest /\ Well(u)
    BY TypeInvByUnit DEF AllWell
  <1>2. ASSUME Exists(u, i)
        PROVE  i \in DOMAIN sessions[u] /\ sessions[u][i] \in Session /\ i <= Len(sessions[u])
    BY <1>1, <1>2 DEF Exists, Well
  <1>3. ASSUME NEW t \in Instants, Exists(u, i), Resolvable(u, i, t)
        PROVE  /\ Scheduled(u, i, t) \in Unit
               /\ Scheduled(u, i, t).owed = 0 /\ Scheduled(u, i, t).setter = i
               /\ Scheduled(u, i, t).next # NoTime /\ Scheduled(u, i, t).next >= Start
    <2>1. Resolution(u, i, t) \in Instants /\ Resolution(u, i, t) # NoTime
          /\ Resolution(u, i, t) >= Start
      BY <1>1, <1>2, <1>3, ResolvedTime
    <2> QED
      BY <1>1, <2>1 DEF Scheduled, Well, Unit
  <1>4. 0 <= Len(sessions[u])
    BY <1>1 DEF Well
  <1>5. ASSUME NEW t \in Times, ScheduleNextRun(u, i, t) PROVE TypeInv'
    <2>1. /\ Exists(u, i) /\ Resolvable(u, i, t)
          /\ unit' = [unit EXCEPT ![u] = Scheduled(u, i, t)] /\ UNCHANGED <<sessions, now, daemon>>
          /\ events' \in 0..MaxEvents
      BY <1>5, SpendTyped DEF ScheduleNextRun
    <2> QED
      BY <1>2, <1>3, <1>4, <2>1, TimesAreInstants, UnitChangeTyped
  <1>6. ASSUME NEW t \in Times \cup {NoTime}, CompleteSession(u, i, t) PROVE TypeInv'
    <2> DEFINE w == IF NeedsNext(u) THEN Scheduled(u, i, t) ELSE unit[u]
               s == [sessions[u][i] EXCEPT !.goal = "complete"]
               ss == [sessions[u] EXCEPT ![i] = s]
    <2>1. Exists(u, i) /\ Accepted(u, i, t) /\ t \in Instants
      BY <1>6, TimesAreInstants DEF CompleteSession
    <2>2. s \in Session
      BY <1>2, <2>1, SessionUpdates
    <2>3. /\ unit' = [unit EXCEPT ![u] = w] /\ sessions' = [sessions EXCEPT ![u] = ss]
          /\ UNCHANGED <<now, daemon>> /\ events' \in 0..MaxEvents
      BY <1>1, <1>6 DEF CompleteSession, Rest
    <2> HIDE DEF s
    <2>4. ss \in Seq(Session) /\ Len(ss) = Len(sessions[u])
      BY <1>1, <1>2, <2>1, <2>2, SessionChanged DEF Well
    <2>5. /\ w \in Unit /\ w.owed <= Len(sessions[u]) /\ w.setter <= Len(sessions[u])
          /\ w.next # NoTime => w.next >= Start
      <3>1. CASE NeedsNext(u)
        BY <1>2, <1>3, <1>4, <2>1, <3>1 DEF Accepted
      <3>2. CASE ~NeedsNext(u)
        BY <1>1, <3>2 DEF Well
      <3> QED
        BY <3>1, <3>2
    <2> HIDE DEF w, ss
    <2> QED
      BY <2>3, <2>4, <2>5, OneUnitTyped
  <1>7. ASSUME NEW t \in Times \cup {NoTime}, RejectCompletion(u, i, t) PROVE TypeInv'
    BY <1>7 DEF RejectCompletion, vars, TypeInv, TypeOK, TimesLater
  <1>8. ASSUME NEW s \in Session, Exists(u, i),
               sessions' = [sessions EXCEPT ![u] = [sessions[u] EXCEPT ![i] = s]],
               UNCHANGED <<unit, now, daemon>>, Spend
        PROVE  TypeInv'
    <2>1. [sessions[u] EXCEPT ![i] = s] \in Seq(Session)
          /\ Len([sessions[u] EXCEPT ![i] = s]) = Len(sessions[u])
      BY <1>1, <1>2, <1>8, SessionChanged DEF Well
    <2>2. unit' = [unit EXCEPT ![u] = unit[u]] /\ unit[u] \in Unit
      BY <1>1, <1>8 DEF Rest, Well
    <2>3. /\ unit[u].owed <= Len(sessions[u]) /\ unit[u].setter <= Len(sessions[u])
          /\ unit[u].next # NoTime => unit[u].next >= Start
      BY <1>1 DEF Well
    <2> QED
      BY <1>8, <2>1, <2>2, <2>3, SpendTyped, OneUnitTyped
  <1>9. CASE UserInput(u, i)
    <2>1. Exists(u, i)
      BY <1>9 DEF UserInput
    <2>2. [sessions[u][i] EXCEPT !.goal = "incomplete"] \in Session
      BY <1>2, <2>1, SessionUpdates
    <2> QED
      BY <1>8, <1>9, <2>1, <2>2 DEF UserInput
  <1>10. ASSUME NEW a \in BOOLEAN, SetSessionActive(u, i, a) PROVE TypeInv'
    <2>1. Exists(u, i)
      BY <1>10 DEF SetSessionActive
    <2>2. [sessions[u][i] EXCEPT !.active = a, !.logged = IF a THEN "on" ELSE "off"] \in Session
      BY <1>2, <2>1, SessionUpdates
    <2>3. sessions' = [sessions EXCEPT ![u] = [sessions[u] EXCEPT ![i] =
              [sessions[u][i] EXCEPT !.active = a, !.logged = IF a THEN "on" ELSE "off"]]]
      BY <1>10, <1>2, <2>1 DEF SetSessionActive, Session
    <2> QED
      BY <1>8, <1>10, <2>1, <2>2, <2>3 DEF SetSessionActive
  <1> QED
    BY <1>5, <1>6, <1>7, <1>9, <1>10 DEF SessionStep

(* What a poll makes of a due Unit. *)
LEMMA LaunchedTyped ==
  ASSUME NEW u \in Units, Well(u), Rest, unit[u].next # NoTime, ~Reuses(u),
         unit'[u] = Launched(u), sessions'[u] = Started(u, unit[u].next)
  PROVE  Well(u)'
  <1>1. sessions[u] \in Seq(Session) /\ unit[u] \in Unit /\ unit[u].next \in Instants
    BY DEF Well, Unit
  <1>2. sessions'[u] \in Seq(Session) /\ Len(sessions'[u]) = Len(sessions[u]) + 1
    BY <1>1, StartedType
  <1>3. /\ unit'[u] \in Unit /\ unit'[u].next = NoTime /\ unit'[u].owed = Len(sessions[u]) + 1
        /\ unit'[u].setter = unit[u].setter
    <2>1. Len(sessions[u]) + 1 \in Nat /\ NoTime \in Instants
      BY <1>1
    <2>2. Launched(u) \in Unit
      BY <1>1, <2>1, UnitUpdates DEF Launched
    <2> QED
      BY <1>1, <2>2 DEF Launched, Unit
  <1>4. Len(sessions[u]) \in Nat /\ unit[u].setter \in Nat /\ unit[u].setter <= Len(sessions[u])
    BY <1>1 DEF Well, Unit
  <1> QED
    BY <1>2, <1>3, <1>4 DEF Well

(* Polls, restarts, commands and the clock. *)
LEMMA ProcessStepTyped ==
  ASSUME TypeInv, ProcessStep
  PROVE  TypeInv'
  <1>1. Rest /\ \A u \in Units : Well(u)
    BY TypeInvByUnit DEF AllWell
  <1>2. ASSUME StoreInit, daemon' \in {"down", "initialised", "up"}, events' \in 0..MaxEvents
        PROVE  TypeInv'
    <2> DEFINE f == [u \in Units |-> [i \in DOMAIN sessions[u] |-> Replayed(sessions[u][i])]]
    <2>1. ASSUME NEW u \in Units PROVE f[u] \in Seq(Session) /\ Len(f[u]) >= Len(sessions[u])
      <3>1. sessions[u] \in Seq(Session) /\ Len(sessions[u]) \in Nat
        BY <1>1 DEF Well
      <3>2. f[u] = [i \in DOMAIN sessions[u] |-> Replayed(sessions[u][i])]
        OBVIOUS
      <3> QED
        BY <3>1, <3>2, SessionsReplayed
    <2>2. sessions' = [u \in Units |-> f[u]] /\ UNCHANGED <<unit, now>>
      BY <1>2 DEF StoreInit
    <2> HIDE DEF f
    <2> QED
      BY <1>2, <2>1, <2>2, SessionsChangeTyped
  <1>3. ASSUME StartupUnits, daemon' \in {"down", "initialised", "up"}, events' \in 0..MaxEvents
        PROVE  TypeInv'
    <2> DEFINE started == {u \in Units : Startable(u, "startup") /\ Room(u)}
               f == [u \in Units |-> IF u \in started THEN Started(u, NoTime) ELSE sessions[u]]
    <2>1. ASSUME NEW u \in Units PROVE f[u] \in Seq(Session) /\ Len(f[u]) >= Len(sessions[u])
      <3>1. sessions[u] \in Seq(Session) /\ Len(sessions[u]) \in Nat
        BY <1>1 DEF Well
      <3>2. Started(u, NoTime) \in Seq(Session) /\ Len(Started(u, NoTime)) >= Len(sessions[u])
        BY <3>1, StartedType
      <3> QED
        BY <3>1, <3>2
    <2>2. sessions' = [u \in Units |-> f[u]] /\ UNCHANGED <<unit, now>>
      BY <1>3 DEF StartupUnits
    <2> HIDE DEF f
    <2> QED
      BY <1>3, <2>1, <2>2, SessionsChangeTyped
  <1>4. CASE DaemonInitialises
    BY <1>1, <1>2, <1>4 DEF DaemonInitialises, Rest
  <1>5. CASE DaemonStarts
    BY <1>1, <1>3, <1>5 DEF DaemonStarts, Rest
  <1>6. CASE daemon = "up" /\ RunScheduledUnits /\ UNCHANGED daemon
    <2>1. ASSUME NEW u \in Units PROVE Well(u)'
      <3>1. CASE u \in DueUnits
        <4>1. unit[u].next # NoTime /\ ~Reuses(u)
          BY <1>6, <3>1 DEF DueUnits, Due, ScheduleDue, RunScheduledUnits, Aborting
        <4>2. unit'[u] = Launched(u) /\ sessions'[u] = Started(u, unit[u].next)
          BY <1>6, <3>1 DEF RunScheduledUnits
        <4> QED
          BY <1>1, <4>1, <4>2, LaunchedTyped
      <3>2. CASE u \notin DueUnits
        <4>1. unit'[u] = unit[u] /\ sessions'[u] = sessions[u]
          BY <1>6, <3>2 DEF RunScheduledUnits
        <4> QED
          BY <1>1, <4>1, Untouched
      <3> QED
        BY <3>1, <3>2
    <2>2. AllWell'
      BY <2>1 DEF AllWell
    <2>3. Rest'
      BY <1>1, <1>6 DEF RunScheduledUnits, Rest
    <2> QED
      BY <2>2, <2>3, TypeInvByUnit, PTL
  <1>7. ASSUME UNCHANGED <<unit, sessions>>, now' \in Nat, now' >= Start,
               daemon' \in {"down", "initialised", "up"}, events' \in 0..MaxEvents
        PROVE  TypeInv'
    BY <1>7 DEF TypeInv, TypeOK, TimesLater
  <1>8. CASE ScheduleFails /\ daemon' = "down"
    BY <1>1, <1>7, <1>8 DEF ScheduleFails, Rest
  <1>9. CASE DaemonStops
    BY <1>1, <1>7, <1>9, SpendTyped DEF DaemonStops, Rest
  <1>10. CASE CommandLine
    BY <1>1, <1>2, <1>3, <1>10, SpendTyped DEF CommandLine, Rest
  <1>11. CASE Tick
    BY <1>1, <1>7, <1>11, UnitsAssumption DEF Tick, Rest
  <1> QED
    BY <1>4, <1>5, <1>6, <1>8, <1>9, <1>10, <1>11 DEF ProcessStep, DaemonPolls

LEMMA TypeInit == Init => TypeInv
  BY UnitsAssumption DEF Init, TypeInv, TypeOK, TimesLater, NoUnit, Unit

LEMMA TypeNext == TypeInv /\ [Next]_vars => TypeInv'
  <1> SUFFICES ASSUME TypeInv, [Next]_vars PROVE TypeInv'
    OBVIOUS
  <1>1. ASSUME NEW u \in Units, UnitStep(u) PROVE TypeInv'
    BY <1>1, AdministrationTyped, ConfigureTyped, StartsTyped DEF UnitStep
  <1>2. ASSUME NEW u \in Units, NEW i \in 1..MaxSessions, SessionStep(u, i) PROVE TypeInv'
    BY <1>2, SessionStepTyped
  <1>3. CASE ProcessStep
    BY <1>3, ProcessStepTyped
  <1>4. CASE UNCHANGED vars
    BY <1>4 DEF vars, TypeInv, TypeOK, TimesLater
  <1> QED
    BY <1>1, <1>2, <1>3, <1>4 DEF Next

(* Every component keeps its type, and schedules refer to Sessions of      *)
(* their own Unit that exist, for all Units, templates and bounds.         *)
THEOREM TypeCorrect == Spec => []TypeOK
  BY TypeInit, TypeNext, PTL DEF Spec, TypeInv

-----------------------------------------------------------------------------
(***************************************************************************)
(* What a step makes of the Sessions of a Unit: it appends at most one,    *)
(* and only if the Unit does not reuse its Session.                        *)
(***************************************************************************)
GrowsByOne(u) ==
  \/ Len(sessions'[u]) = Len(sessions[u])
  \/ ~Reuses(u) /\ Len(sessions'[u]) = Len(sessions[u]) + 1

LEMMA StepsGrowByOne ==
  ASSUME TypeInv, [Next]_vars, NEW v \in Units
  PROVE  GrowsByOne(v)
  <1>1. Rest /\ \A u \in Units : Well(u)
    BY TypeInvByUnit DEF AllWell
  <1>2. \A u \in Units : sessions[u] \in Seq(Session) /\ unit[u].next \in Instants
    BY <1>1 DEF Well, Unit
  <1>3. ASSUME NEW u \in Units, NEW ss, sessions' = [sessions EXCEPT ![u] = ss],
               Len(ss) = Len(sessions[u]) \/ (~Reuses(u) /\ Len(ss) = Len(sessions[u]) + 1)
        PROVE  GrowsByOne(v)
    BY <1>1, <1>3 DEF GrowsByOne, Rest
  <1>4. CASE UNCHANGED sessions
    BY <1>4 DEF GrowsByOne
  <1>5. ASSUME NEW u \in Units, UnitStep(u) PROVE GrowsByOne(v)
    <2>1. ASSUME NEW e \in Enablings, NEW n \in Intervals, NEW t \in Times \cup {NoTime},
                 ConfigureSchedule(u, e, n, t)
          PROVE  GrowsByOne(v)
      <3> DEFINE next == IF t = NoTime THEN unit[u].next ELSE t
      <3>1. next \in Instants /\ (next # NoTime => next >= Start)
        BY <1>1, TimesAreInstants DEF Well, Unit
      <3>2. sessions' = Backfilled(u, n, next)
        BY <2>1 DEF ConfigureSchedule
      <3> HIDE DEF next
      <3>3. PICK ss \in Seq(Session) : /\ sessions' = [sessions EXCEPT ![u] = ss]
                                       /\ Len(ss) = Len(sessions[u])
        BY <1>1, <3>1, <3>2, BackfilledSessions
      <3> QED
        BY <1>3, <3>3
    <2>2. CASE StartGoalSession(u)
      <3>1. sessions' = [sessions EXCEPT ![u] = Started(u, NoTime)]
        BY <2>2 DEF StartGoalSession
      <3>2. \/ Len(Started(u, NoTime)) = Len(sessions[u])
            \/ ~Reuses(u) /\ Len(Started(u, NoTime)) = Len(sessions[u]) + 1
        BY <1>2, StartedType
      <3> QED
        BY <1>3, <3>1, <3>2
    <2>3. CASE CreateSession(u)
      <3> DEFINE ss == Append(sessions[u], NewSession(NoTime, "none"))
      <3>1. sessions' = [sessions EXCEPT ![u] = ss] /\ ~Reuses(u)
        BY <2>3 DEF CreateSession, Creatable
      <3>2. Len(ss) = Len(sessions[u]) + 1
        BY <1>2, NewSessions
      <3> HIDE DEF ss
      <3> QED
        BY <1>3, <3>1, <3>2
    <2> QED
      BY <1>4, <1>5, <2>1, <2>2, <2>3
      DEF UnitStep, CreateUnit, SetUnitActive, SetSpawnGroups
  <1>6. ASSUME NEW u \in Units, NEW i \in 1..MaxSessions, SessionStep(u, i)
        PROVE  GrowsByOne(v)
    <2>1. ASSUME NEW s, Exists(u, i),
                 sessions' = [sessions EXCEPT ![u] = [sessions[u] EXCEPT ![i] = s]]
          PROVE  GrowsByOne(v)
      <3>1. Len([sessions[u] EXCEPT ![i] = s]) = Len(sessions[u])
        BY <1>2, <2>1 DEF Exists
      <3> QED
        BY <1>3, <2>1, <3>1
    <2>2. ASSUME NEW t, CompleteSession(u, i, t) PROVE GrowsByOne(v)
      BY <2>1, <2>2 DEF CompleteSession
    <2>3. CASE UserInput(u, i)
      BY <2>1, <2>3 DEF UserInput
    <2>4. ASSUME NEW a \in BOOLEAN, SetSessionActive(u, i, a) PROVE GrowsByOne(v)
      BY <2>1, <2>4 DEF SetSessionActive
    <2> QED
      BY <1>4, <1>6, <2>2, <2>3, <2>4 DEF SessionStep, ScheduleNextRun, RejectCompletion, vars
  <1>7. CASE ProcessStep
    <2>1. CASE StoreInit
      <3>1. sessions'[v] = [i \in DOMAIN sessions[v] |-> Replayed(sessions[v][i])]
        BY <2>1 DEF StoreInit
      <3> QED
        BY <1>2, <3>1, SessionsReplayed DEF GrowsByOne
    <2>2. ASSUME NEW t \in Instants, sessions'[v] \in {Started(v, t), sessions[v]}
          PROVE  GrowsByOne(v)
      BY <1>2, <2>2, StartedType DEF GrowsByOne
    <2>3. CASE StartupUnits
      BY <2>2, <2>3 DEF StartupUnits
    <2>4. CASE RunScheduledUnits
      BY <1>2, <2>2, <2>4 DEF RunScheduledUnits
    <2> QED
      BY <1>4, <1>7, <2>1, <2>3, <2>4
      DEF ProcessStep, DaemonInitialises, DaemonStarts, DaemonPolls, ScheduleFails, DaemonStops,
          CommandLine, Tick
  <1>8. CASE UNCHANGED vars
    BY <1>4, <1>8 DEF vars
  <1> QED
    BY <1>5, <1>6, <1>7, <1>8 DEF Next

(* A singleton Unit never gets a second Session: every path that appends   *)
(* one looks for the Session there is (create_session,                     *)
(* _start_goal_session_in_state).                                          *)
THEOREM SingletonsStayUnique == Spec => []SingletonsUnique
  <1>1. Init => SingletonsUnique
    <2> SUFFICES ASSUME Init, NEW u \in Singletons PROVE Len(sessions[u]) <= 1
      BY DEF SingletonsUnique
    <2>1. sessions[u] = <<>>
      BY UnitsAssumption DEF Init
    <2> QED
      BY <2>1
  <1>2. TypeInv /\ SingletonsUnique /\ [Next]_vars => SingletonsUnique'
    <2> SUFFICES ASSUME TypeInv, SingletonsUnique, [Next]_vars, NEW u \in Singletons
                 PROVE  Len(sessions'[u]) <= 1
      BY DEF SingletonsUnique
    <2>1. u \in Units /\ sessions[u] \in Seq(Session) /\ Len(sessions[u]) <= 1
      BY UnitsAssumption DEF TypeInv, TypeOK, SingletonsUnique
    <2>2. GrowsByOne(u)
      BY <2>1, StepsGrowByOne
    <2>3. ~Reuses(u) => Len(sessions[u]) = 0
      BY <2>1 DEF Reuses
    <2> QED
      BY <2>1, <2>2, <2>3 DEF GrowsByOne
  <1> QED
    BY <1>1, <1>2, TypeInit, TypeNext, PTL DEF Spec

-----------------------------------------------------------------------------
(***************************************************************************)
(* Schedules are not lost, as long as none is disabled.                    *)
(***************************************************************************)
Timed(u) == \E i \in DOMAIN sessions[u] : sessions[u][i].at # NoTime
Owes(u) == Exists(u, unit[u].owed) /\ sessions[u][unit[u].owed].goal = "incomplete"

(* The inductive invariant, Unit by Unit.  The second part is needed when  *)
(* a schedule is enabled without a next run time: then it has never run.   *)
Safe(u) ==
  /\ unit[u].enabled /\ unit[u].next = NoTime /\ Timed(u) => Owes(u)
  /\ ~unit[u].enabled => unit[u].next = NoTime /\ ~Timed(u)
  /\ unit[u].status = "absent" => ~unit[u].enabled
ScheduleInv == \A u \in Units : Safe(u)

(* A step that leaves the schedule alone, gives no Session a scheduled     *)
(* time and completes none.                                                *)
Calm(u) ==
  /\ unit'[u].enabled = unit[u].enabled /\ unit'[u].next = unit[u].next
  /\ unit'[u].owed = unit[u].owed
  /\ unit'[u].status = "absent" => unit[u].status = "absent"
  /\ \A i \in DOMAIN sessions'[u] : sessions'[u][i].at # NoTime =>
       i \in DOMAIN sessions[u] /\ sessions[u][i].at # NoTime
  /\ \A i \in DOMAIN sessions[u] :
       /\ i \in DOMAIN sessions'[u]
       /\ sessions[u][i].goal = "incomplete" => sessions'[u][i].goal = "incomplete"

LEMMA CalmStep ==
  ASSUME NEW u \in Units, Safe(u), Calm(u)
  PROVE  Safe(u)'
  <1>1. Timed(u)' => Timed(u)
    BY DEF Timed, Calm
  <1>2. Owes(u) => Owes(u)'
    BY DEF Owes, Exists, Calm
  <1>3. /\ unit'[u].enabled = unit[u].enabled /\ unit'[u].next = unit[u].next
        /\ unit'[u].status = "absent" => unit[u].status = "absent"
    BY DEF Calm
  <1> QED
    BY <1>1, <1>2, <1>3 DEF Safe

LEMMA CalmIfUntouched ==
  ASSUME NEW u \in Units, unit'[u] = unit[u], sessions'[u] = sessions[u]
  PROVE  Calm(u)
  BY DEF Calm

(* A start without a schedule is calm. *)
LEMMA StartsCalm ==
  ASSUME NEW u \in Units, sessions[u] \in Seq(Session),
         unit'[u] = unit[u], sessions'[u] = Started(u, NoTime)
  PROVE  Calm(u)
  <1>1. CASE Reuses(u)
    <2>1. 1 \in DOMAIN sessions[u] /\ sessions[u][1] \in Session
      BY <1>1 DEF Reuses
    <2>2. /\ DOMAIN sessions'[u] = DOMAIN sessions[u]
          /\ sessions'[u][1] = [sessions[u][1] EXCEPT !.active = TRUE, !.goal = "incomplete"]
          /\ \A i \in DOMAIN sessions[u] : i # 1 => sessions'[u][i] = sessions[u][i]
      BY <1>1, <2>1 DEF Started, Reactivated, Session
    <2>3. sessions'[u][1].at = sessions[u][1].at /\ sessions'[u][1].goal = "incomplete"
      BY <2>1, <2>2 DEF Session
    <2> QED
      BY <2>2, <2>3 DEF Calm
  <1>2. CASE ~Reuses(u)
    <2> DEFINE s == NewSession(NoTime, "incomplete")
    <2>1. sessions'[u] = Append(sessions[u], s) /\ s \in Session /\ s.at = NoTime
      BY <1>2, NewSessions DEF Started, NewSession
    <2> HIDE DEF s
    <2>2. /\ DOMAIN sessions'[u] = 1..(Len(sessions[u]) + 1)
          /\ \A i \in DOMAIN sessions[u] : sessions'[u][i] = sessions[u][i]
          /\ sessions'[u][Len(sessions[u]) + 1] = s
      BY <2>1
    <2>3. DOMAIN sessions[u] = 1..Len(sessions[u]) /\ Len(sessions[u]) \in Nat
      OBVIOUS
    <2> QED
      BY <2>1, <2>2, <2>3 DEF Calm
  <1> QED
    BY <1>1, <1>2

(* A launch leaves a Session that owes the next run. *)
LEMMA LaunchSafe ==
  ASSUME NEW u \in Units, sessions[u] \in Seq(Session), unit[u] \in Unit,
         unit[u].enabled, unit[u].status = "active", ~Reuses(u),
         unit'[u] = Launched(u), sessions'[u] = Started(u, unit[u].next)
  PROVE  Safe(u)'
  <1> DEFINE s == NewSession(unit[u].next, "incomplete")
  <1>1. s \in Session /\ s.goal = "incomplete" /\ sessions'[u] = Append(sessions[u], s)
    BY NewSessions DEF Started, NewSession, Unit
  <1> HIDE DEF s
  <1>2. /\ Len(sessions[u]) + 1 \in DOMAIN sessions'[u]
        /\ sessions'[u][Len(sessions[u]) + 1] = s
    BY <1>1
  <1>3. /\ unit'[u].owed = Len(sessions[u]) + 1 /\ unit'[u].enabled
        /\ unit'[u].status = "active"
    BY DEF Launched, Unit
  <1>4. Owes(u)'
    BY <1>1, <1>2, <1>3 DEF Owes, Exists
  <1> QED
    BY <1>3, <1>4 DEF Safe

(* Administration.  A schedule that is enabled without a time for its next *)
(* run was enabled before, or has never run.                               *)
LEMMA UnitStepSafe ==
  ASSUME Enablings \subseteq {TRUE}, TypeInv, ScheduleInv,
         NEW u \in Units, UnitStep(u), NEW v \in Units
  PROVE  Safe(v)'
  <1>1. Rest /\ Well(u) /\ Safe(u) /\ Safe(v)
    BY TypeInvByUnit DEF AllWell, ScheduleInv
  <1>2. unit[u] \in Unit /\ sessions[u] \in Seq(Session)
    BY <1>1 DEF Well
  <1>3. ASSUME NEW w, NEW ss, unit' = [unit EXCEPT ![u] = w], sessions' = [sessions EXCEPT ![u] = ss]
        PROVE  /\ unit'[u] = w /\ sessions'[u] = ss
               /\ v # u => Safe(v)'
    <2>1. unit'[u] = w /\ sessions'[u] = ss
      BY <1>1, <1>3 DEF Rest
    <2>2. v # u => unit'[v] = unit[v] /\ sessions'[v] = sessions[v]
      BY <1>1, <1>3 DEF Rest
    <2> QED
      BY <1>1, <2>1, <2>2, CalmIfUntouched, CalmStep
  <1>4. UNCHANGED sessions => sessions' = [sessions EXCEPT ![u] = sessions[u]]
    BY <1>1 DEF Rest
  <1>5. UNCHANGED unit => unit' = [unit EXCEPT ![u] = unit[u]]
    BY <1>1 DEF Rest
  <1>6. ASSUME NEW c \in Templates[u], CreateUnit(u, c) PROVE Safe(v)'
    <2> DEFINE w == [NoUnit EXCEPT !.status = "active",
                       !.triggers = NormalizedTriggers(c.triggers, c.enabled),
                       !.enabled = c.enabled, !.interval = c.interval, !.next = c.next]
    <2>1. unit' = [unit EXCEPT ![u] = w] /\ UNCHANGED sessions /\ unit[u].status = "absent"
      BY <1>6 DEF CreateUnit
    <2>2. w.enabled = c.enabled /\ w.next = c.next /\ w.status = "active"
      BY DEF NoUnit
    <2> HIDE DEF w
    <2>3. unit'[u] = w /\ sessions'[u] = sessions[u] /\ (v # u => Safe(v)')
      BY <1>3, <1>4, <2>1
    <2>4. c.enabled <=> c.next # NoTime
      BY TemplatesAssumption
    <2>5. ~Timed(u)
      BY <1>1, <2>1 DEF Safe
    <2>6. ~Timed(u)'
      BY <2>3, <2>5 DEF Timed
    <2> QED
      BY <2>2, <2>3, <2>4, <2>6 DEF Safe
  <1>7. CASE SetUnitActive(u)
    <2> DEFINE w == [unit[u] EXCEPT !.status = IF @ = "active" THEN "paused" ELSE "active"]
    <2>1. unit' = [unit EXCEPT ![u] = w] /\ UNCHANGED sessions
      BY <1>7 DEF SetUnitActive
    <2>2. /\ w.enabled = unit[u].enabled /\ w.next = unit[u].next /\ w.owed = unit[u].owed
          /\ w.status # "absent"
      BY <1>2 DEF Unit
    <2> HIDE DEF w
    <2>3. unit'[u] = w /\ sessions'[u] = sessions[u] /\ (v # u => Safe(v)')
      BY <1>3, <1>4, <2>1
    <2>4. Calm(u)
      BY <2>2, <2>3 DEF Calm
    <2> QED
      BY <1>1, <2>3, <2>4, CalmStep
  <1>8. CASE SetSpawnGroups(u)
    <2> DEFINE w == [unit[u] EXCEPT !.gated = ~@]
    <2>1. unit' = [unit EXCEPT ![u] = w] /\ UNCHANGED sessions
      BY <1>8 DEF SetSpawnGroups
    <2>2. /\ w.enabled = unit[u].enabled /\ w.next = unit[u].next /\ w.owed = unit[u].owed
          /\ w.status = unit[u].status
      BY <1>2 DEF Unit
    <2> HIDE DEF w
    <2>3. unit'[u] = w /\ sessions'[u] = sessions[u] /\ (v # u => Safe(v)')
      BY <1>3, <1>4, <2>1
    <2>4. Calm(u)
      BY <2>2, <2>3 DEF Calm
    <2> QED
      BY <1>1, <2>3, <2>4, CalmStep
  <1>9. ASSUME NEW e \in Enablings, NEW n \in Intervals, NEW t \in Times \cup {NoTime},
               ConfigureSchedule(u, e, n, t)
        PROVE  Safe(v)'
    <2> DEFINE next == IF t = NoTime THEN unit[u].next ELSE t
               T == (unit[u].triggers \ {"scheduled"}) \cup (IF e THEN {"scheduled"} ELSE {})
               w == [unit[u] EXCEPT !.enabled = e, !.interval = n, !.next = next, !.triggers = T]
    <2>1. next \in Instants /\ (next # NoTime => next >= Start)
      BY <1>1, <1>2, TimesAreInstants DEF Well, Unit
    <2>2. /\ unit' = [unit EXCEPT ![u] = w] /\ sessions' = Backfilled(u, n, next)
          /\ unit[u].status # "absent"
      BY <1>2, <1>9 DEF ConfigureSchedule, Unit
    <2>3. e = TRUE /\ w.enabled = e /\ w.next = next /\ w.owed = unit[u].owed
          /\ w.status = unit[u].status
      BY <1>2 DEF Unit
    <2>4. next = NoTime => unit[u].next = NoTime
      BY TimesAreInstants
    <2> HIDE DEF next, w
    <2>5. PICK ss \in Seq(Session) : /\ sessions' = [sessions EXCEPT ![u] = ss]
                                     /\ next = NoTime => ss = sessions[u]
      BY <1>1, <2>1, <2>2, BackfilledSessions
    <2>6. unit'[u] = w /\ sessions'[u] = ss /\ (v # u => Safe(v)')
      BY <1>3, <2>2, <2>5
    <2>7. CASE next # NoTime
      BY <2>2, <2>3, <2>6, <2>7 DEF Safe
    <2>8. CASE next = NoTime
      <3>1. sessions'[u] = sessions[u] /\ unit'[u].owed = unit[u].owed
        BY <2>3, <2>5, <2>6, <2>8
      <3>2. (Timed(u)' <=> Timed(u)) /\ (Owes(u)' <=> Owes(u))
        BY <3>1 DEF Timed, Owes, Exists
      <3>3. Timed(u) => Owes(u)
        BY <1>1, <1>2, <2>4, <2>8 DEF Safe, Unit
      <3> QED
        BY <2>2, <2>3, <2>6, <3>2, <3>3 DEF Safe
    <2> QED
      BY <2>7, <2>8
  <1>10. CASE StartGoalSession(u)
    <2>1. UNCHANGED unit /\ sessions' = [sessions EXCEPT ![u] = Started(u, NoTime)]
      BY <1>10 DEF StartGoalSession
    <2>2. unit'[u] = unit[u] /\ sessions'[u] = Started(u, NoTime) /\ (v # u => Safe(v)')
      BY <1>3, <1>5, <2>1
    <2> QED
      BY <1>1, <1>2, <2>2, StartsCalm, CalmStep
  <1>11. CASE CreateSession(u)
    <2> DEFINE s == NewSession(NoTime, "none")
    <2>1. UNCHANGED unit /\ sessions' = [sessions EXCEPT ![u] = Append(sessions[u], s)]
      BY <1>11 DEF CreateSession
    <2>2. s \in Session /\ s.at = NoTime
      BY NewSessions DEF NewSession
    <2> HIDE DEF s
    <2>3. unit'[u] = unit[u] /\ sessions'[u] = Append(sessions[u], s) /\ (v # u => Safe(v)')
      BY <1>3, <1>5, <2>1
    <2>4. /\ DOMAIN sessions'[u] = 1..(Len(sessions[u]) + 1)
          /\ \A i \in DOMAIN sessions[u] : sessions'[u][i] = sessions[u][i]
          /\ sessions'[u][Len(sessions[u]) + 1] = s
      BY <1>2, <2>2, <2>3
    <2>5. DOMAIN sessions[u] = 1..Len(sessions[u]) /\ Len(sessions[u]) \in Nat
      BY <1>2
    <2>6. Calm(u)
      BY <2>2, <2>3, <2>4, <2>5 DEF Calm
    <2> QED
      BY <1>1, <2>3, <2>6, CalmStep
  <1> QED
    BY <1>6, <1>7, <1>8, <1>9, <1>10, <1>11 DEF UnitStep

(* What happens to one Session.  A Session is completed only where a next  *)
(* run time is known, or where the Unit has no schedule.                   *)
LEMMA SessionStepSafe ==
  ASSUME TypeInv, ScheduleInv,
         NEW u \in Units, NEW i \in 1..MaxSessions, SessionStep(u, i), NEW v \in Units
  PROVE  Safe(v)'
  <1>1. Rest /\ Well(u) /\ Safe(u) /\ Safe(v)
    BY TypeInvByUnit DEF AllWell, ScheduleInv
  <1>2. unit[u] \in Unit /\ sessions[u] \in Seq(Session)
    BY <1>1 DEF Well
  <1>3. ASSUME NEW w, NEW ss, unit' = [unit EXCEPT ![u] = w], sessions' = [sessions EXCEPT ![u] = ss]
        PROVE  /\ unit'[u] = w /\ sessions'[u] = ss
               /\ v # u => Safe(v)'
    <2>1. unit'[u] = w /\ sessions'[u] = ss
      BY <1>1, <1>3 DEF Rest
    <2>2. v # u => unit'[v] = unit[v] /\ sessions'[v] = sessions[v]
      BY <1>1, <1>3 DEF Rest
    <2> QED
      BY <1>1, <2>1, <2>2, CalmIfUntouched, CalmStep
  <1>4. UNCHANGED sessions => sessions' = [sessions EXCEPT ![u] = sessions[u]]
    BY <1>1 DEF Rest
  <1>5. UNCHANGED unit => unit' = [unit EXCEPT ![u] = unit[u]]
    BY <1>1 DEF Rest
  <1>6. ASSUME NEW t \in Instants, Exists(u, i), unit[u].enabled, Resolvable(u, i, t),
               unit'[u] = Scheduled(u, i, t)
        PROVE  Safe(u)'
    <2>1. i \in DOMAIN sessions[u]
      BY <1>6 DEF Exists
    <2>2. Resolution(u, i, t) # NoTime
      BY <1>1, <1>6, <2>1, ResolvedTime
    <2>3. /\ unit'[u].next # NoTime /\ unit'[u].enabled
          /\ unit'[u].status = unit[u].status
      BY <1>2, <1>6, <2>2 DEF Scheduled, Unit
    <2> QED
      BY <1>1, <1>6, <2>3 DEF Safe
  <1>7. ASSUME NEW t \in Times, ScheduleNextRun(u, i, t) PROVE Safe(v)'
    <2>1. /\ unit' = [unit EXCEPT ![u] = Scheduled(u, i, t)] /\ UNCHANGED sessions
          /\ Exists(u, i) /\ unit[u].enabled /\ Resolvable(u, i, t)
      BY <1>7 DEF ScheduleNextRun
    <2>2. unit'[u] = Scheduled(u, i, t) /\ (v # u => Safe(v)')
      BY <1>3, <1>4, <2>1
    <2> QED
      BY <1>6, <2>1, <2>2, TimesAreInstants
  <1>8. ASSUME NEW t \in Times \cup {NoTime}, CompleteSession(u, i, t) PROVE Safe(v)'
    <2> DEFINE w == IF NeedsNext(u) THEN Scheduled(u, i, t) ELSE unit[u]
               s == [sessions[u][i] EXCEPT !.goal = "complete"]
               ss == [sessions[u] EXCEPT ![i] = s]
    <2>1. i \in DOMAIN sessions[u] /\ sessions[u][i] \in Session
      BY <1>2, <1>8 DEF CompleteSession, Exists
    <2>2. s \in Session /\ s.at = sessions[u][i].at
      BY <2>1 DEF Session
    <2>3. unit' = [unit EXCEPT ![u] = w] /\ sessions' = [sessions EXCEPT ![u] = ss]
      BY <1>8 DEF CompleteSession
    <2> HIDE DEF s
    <2>4. DOMAIN ss = DOMAIN sessions[u] /\ \A j \in DOMAIN ss : ss[j].at = sessions[u][j].at
      BY <1>2, <2>1, <2>2
    <2> HIDE DEF w, ss
    <2>5. unit'[u] = w /\ sessions'[u] = ss /\ (v # u => Safe(v)')
      BY <1>3, <2>3
    <2>6. CASE NeedsNext(u)
      <3>1. Resolvable(u, i, t) /\ Exists(u, i) /\ unit[u].enabled
        BY <1>8, <2>6 DEF CompleteSession, Accepted, NeedsNext
      <3>2. unit'[u] = Scheduled(u, i, t) /\ t \in Instants
        BY <2>5, <2>6, TimesAreInstants DEF w
      <3> QED
        BY <1>6, <2>5, <3>1, <3>2
    <2>7. CASE ~NeedsNext(u)
      <3>1. unit'[u] = unit[u]
        BY <2>5, <2>7 DEF w
      <3>2. Timed(u)' => Timed(u)
        BY <2>4, <2>5 DEF Timed
      <3>3. unit[u].enabled => unit[u].next # NoTime
        BY <2>7 DEF NeedsNext
      <3> QED
        BY <1>1, <2>5, <3>1, <3>2, <3>3 DEF Safe
    <2> QED
      BY <2>6, <2>7
  <1>9. ASSUME NEW s \in Session, Exists(u, i), s.at = sessions[u][i].at,
               sessions[u][i].goal = "incomplete" => s.goal = "incomplete",
               UNCHANGED unit, sessions' = [sessions EXCEPT ![u] = [sessions[u] EXCEPT ![i] = s]]
        PROVE  Safe(v)'
    <2> DEFINE ss == [sessions[u] EXCEPT ![i] = s]
    <2>1. i \in DOMAIN sessions[u]
      BY <1>9 DEF Exists
    <2>2. /\ DOMAIN ss = DOMAIN sessions[u] /\ ss[i] = s
          /\ \A j \in DOMAIN ss : j # i => ss[j] = sessions[u][j]
      BY <1>2, <2>1
    <2>3. unit'[u] = unit[u] /\ sessions'[u] = ss /\ (v # u => Safe(v)')
      BY <1>3, <1>5, <1>9
    <2> HIDE DEF ss
    <2>4. Calm(u)
      BY <1>9, <2>2, <2>3 DEF Calm
    <2> QED
      BY <1>1, <2>3, <2>4, CalmStep
  <1>10. CASE UserInput(u, i)
    <2> DEFINE s == [sessions[u][i] EXCEPT !.goal = "incomplete"]
    <2>1. Exists(u, i) /\ UNCHANGED unit
          /\ sessions' = [sessions EXCEPT ![u] = [sessions[u] EXCEPT ![i] = s]]
      BY <1>10 DEF UserInput
    <2>2. sessions[u][i] \in Session
      BY <1>2, <2>1 DEF Exists
    <2>3. s \in Session /\ s.at = sessions[u][i].at /\ s.goal = "incomplete"
      BY <2>2 DEF Session
    <2> HIDE DEF s
    <2> QED
      BY <1>9, <2>1, <2>3
  <1>11. ASSUME NEW a \in BOOLEAN, SetSessionActive(u, i, a) PROVE Safe(v)'
    <2> DEFINE s == [sessions[u][i] EXCEPT !.active = a, !.logged = IF a THEN "on" ELSE "off"]
    <2>1. Exists(u, i) /\ UNCHANGED unit
          /\ sessions' = [sessions EXCEPT ![u] = [sessions[u] EXCEPT ![i] =
               [sessions[u][i] EXCEPT !.active = a, !.logged = IF a THEN "on" ELSE "off"]]]
      BY <1>2, <1>11 DEF SetSessionActive
    <2>2. sessions[u][i] \in Session
      BY <1>2, <2>1 DEF Exists
    <2>3. s \in Session /\ s.at = sessions[u][i].at /\ s.goal = sessions[u][i].goal
      BY <2>2 DEF Session
    <2> HIDE DEF s
    <2> QED
      BY <1>9, <2>1, <2>3 DEF s
  <1>12. ASSUME UNCHANGED vars PROVE Safe(v)'
    BY <1>1, <1>12, CalmIfUntouched, CalmStep DEF vars
  <1> QED
    BY <1>7, <1>8, <1>10, <1>11, <1>12 DEF SessionStep, RejectCompletion

(* Daemon, command line and clock. *)
LEMMA ProcessStepSafe ==
  ASSUME TypeInv, ScheduleInv, ProcessStep, NEW v \in Units
  PROVE  Safe(v)'
  <1>1. Rest /\ Well(v) /\ Safe(v)
    BY TypeInvByUnit DEF AllWell, ScheduleInv
  <1>2. unit[v] \in Unit /\ sessions[v] \in Seq(Session)
    BY <1>1 DEF Well
  <1>3. ASSUME unit'[v] = unit[v], sessions'[v] = sessions[v] PROVE Safe(v)'
    BY <1>1, <1>3, CalmIfUntouched, CalmStep
  <1>4. CASE StoreInit
    <2>1. unit'[v] = unit[v] /\ sessions'[v] = [i \in DOMAIN sessions[v] |-> Replayed(sessions[v][i])]
      BY <1>4 DEF StoreInit
    <2>2. \A s \in Session : Replayed(s).at = s.at /\ Replayed(s).goal = s.goal
      BY DEF Replayed, Session
    <2>3. \A i \in DOMAIN sessions[v] : sessions[v][i] \in Session
      BY <1>2
    <2>4. /\ DOMAIN sessions'[v] = DOMAIN sessions[v]
          /\ \A i \in DOMAIN sessions[v] : sessions'[v][i] = Replayed(sessions[v][i])
      BY <2>1
    <2>5. Calm(v)
      BY <2>1, <2>2, <2>3, <2>4 DEF Calm
    <2> QED
      BY <1>1, <2>5, CalmStep
  <1>5. CASE StartupUnits
    <2>1. unit'[v] = unit[v] /\ sessions'[v] \in {Started(v, NoTime), sessions[v]}
      BY <1>5 DEF StartupUnits
    <2> QED
      BY <1>1, <1>2, <1>3, <2>1, StartsCalm, CalmStep
  <1>6. CASE RunScheduledUnits
    <2>1. CASE v \in DueUnits
      <3>1. unit[v].enabled /\ unit[v].status = "active" /\ ~Reuses(v)
        BY <1>6, <2>1 DEF RunScheduledUnits, Aborting, DueUnits, Due, Startable, ScheduleDue
      <3>2. unit'[v] = Launched(v) /\ sessions'[v] = Started(v, unit[v].next)
        BY <1>6, <2>1 DEF RunScheduledUnits
      <3> QED
        BY <1>2, <3>1, <3>2, LaunchSafe
    <2>2. CASE v \notin DueUnits
      BY <1>3, <1>6, <2>2 DEF RunScheduledUnits
    <2> QED
      BY <2>1, <2>2
  <1> QED
    BY <1>3, <1>4, <1>5, <1>6
    DEF ProcessStep, DaemonInitialises, DaemonStarts, DaemonPolls, ScheduleFails, DaemonStops,
        CommandLine, Tick

(* As long as configure_unit_schedule disables no schedule, a schedule     *)
(* that has run has a next run time, or the Session of its last launch is  *)
(* incomplete and has to resolve one (complete_session).                   *)
THEOREM SchedulesKept ==
  ASSUME Enablings \subseteq {TRUE}
  PROVE  Spec => []ScheduleNeverLost
  <1>1. Init => ScheduleInv
    <2> SUFFICES ASSUME Init, NEW u \in Units PROVE Safe(u)
      BY DEF ScheduleInv
    <2>1. unit[u] = NoUnit /\ sessions[u] = <<>>
      BY DEF Init
    <2>2. ~Timed(u)
      BY <2>1 DEF Timed
    <2> QED
      BY <2>1, <2>2 DEF Safe, NoUnit
  <1>2. TypeInv /\ ScheduleInv /\ [Next]_vars => ScheduleInv'
    <2> SUFFICES ASSUME TypeInv, ScheduleInv, [Next]_vars, NEW v \in Units PROVE Safe(v)'
      BY DEF ScheduleInv
    <2>1. CASE UNCHANGED vars
      BY <2>1, CalmIfUntouched, CalmStep DEF vars, ScheduleInv
    <2> QED
      BY <2>1, UnitStepSafe, SessionStepSafe, ProcessStepSafe DEF Next
  <1>3. ScheduleInv => ScheduleNeverLost
    BY DEF ScheduleInv, Safe, Timed, Owes, ScheduleNeverLost
  <1> QED
    BY <1>1, <1>2, <1>3, TypeInit, TypeNext, PTL DEF Spec
=============================================================================
