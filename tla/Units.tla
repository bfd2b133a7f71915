------------------------------- MODULE Units -------------------------------
(***************************************************************************)
(* Units: the definitions Sessions are started from, by hand, at daemon    *)
(* startup or by a schedule, and the schedule's next run time, which a due *)
(* launch uses up and the completion of a Session has to renew.            *)
(*                                                                         *)
(* A Session is known by its Unit and its place among that Unit's          *)
(* Sessions; names, titles and prompts are left out.  Dispatch has the     *)
(* runs by which GoalManager gets to complete a Session.                   *)
(***************************************************************************)
EXTENDS Integers, Sequences

CONSTANTS
  Units,       (* Unit ids                                                 *)
  Singletons,  (* Units with instance_policy "singleton"                   *)
  Templates,   (* what each Unit may be created with                       *)
  Intervals,   (* interval_seconds a schedule may be given; 0 stands for   *)
               (* the explicit resolver                                    *)
  Enablings,   (* what configure_unit_schedule may set `enabled' to        *)
  Start,       (* the time at which everything begins                      *)
  MaxTime,     (* bound on the clock                                       *)
  MaxSessions, (* bound on the Sessions of one Unit                        *)
  MaxEvents    (* bound on what users, administrators and crashes do       *)

ASSUME UnitsAssumption ==
  /\ Singletons \subseteq Units
  /\ Intervals \subseteq Nat
  /\ Enablings \subseteq BOOLEAN
  /\ Start \in Nat /\ MaxTime \in Nat /\ MaxSessions \in Nat /\ MaxEvents \in Nat
  /\ \A n \in Intervals : n <= Start

Triggers == {"manual", "scheduled", "startup"}
Unspecified == {"unspecified"}
NoTime == -1
NoSession == 0
Times == Start..(MaxTime + 1)
Instants == Nat \cup {NoTime}

(* The arguments of create_unit; a schedule comes with its first run time. *)
Template == [triggers : (SUBSET Triggers) \cup {Unspecified}, enabled : BOOLEAN,
             interval : Nat, next : Instants]
ASSUME TemplatesAssumption ==
  \A u \in Units : \A c \in Templates[u] :
    c \in Template /\ (c.enabled <=> c.next # NoTime) /\ (c.enabled => c.next >= Start)

(* `owed' is next_run_required_by_session_id, `setter' is                  *)
(* next_run_set_by_session_id, and `gated' says that the spawn groups of   *)
(* the Unit leave out whoever starts its Sessions.                         *)
Unit == [status : {"absent", "active", "paused"}, triggers : SUBSET Triggers,
         enabled : BOOLEAN, interval : Nat, next : Instants,
         owed : Nat, setter : Nat, gated : BOOLEAN]
(* `at' is schedule_timing.scheduled_for, `logged' the last                *)
(* SessionActiveChanged entry of the Session's log.                        *)
Session == [at : Instants, goal : {"none", "incomplete", "complete"},
            active : BOOLEAN, logged : {"none", "on", "off"}]

VARIABLES
  unit,      (* state["units"]                                             *)
  sessions,  (* the Sessions of each Unit, in the order of their creation  *)
  now,       (* the clock                                                  *)
  daemon,    (* how far the daemon has come: down, initialised or up       *)
  events     (* how many of MaxEvents were taken                           *)

vars == <<unit, sessions, now, daemon, events>>

Spend == events < MaxEvents /\ events' = events + 1
NoUnit == [status |-> "absent", triggers |-> {}, enabled |-> FALSE, interval |-> 0,
           next |-> NoTime, owed |-> NoSession, setter |-> NoSession, gated |-> FALSE]
NewSession(at, goal) == [at |-> at, goal |-> goal, active |-> TRUE, logged |-> "none"]
Exists(u, i) == i \in DOMAIN sessions[u]

-----------------------------------------------------------------------------
(***************************************************************************)
(* Administration of Units.                                                *)
(***************************************************************************)
NormalizedTriggers(given, enabled) ==
  IF given = Unspecified THEN {"manual"} \cup (IF enabled THEN {"scheduled"} ELSE {})
                         ELSE given

(* create_unit *)
CreateUnit(u, c) ==
  LET triggers == NormalizedTriggers(c.triggers, c.enabled) IN
  /\ unit[u].status = "absent"
  /\ triggers # {}
  /\ unit' = [unit EXCEPT ![u] =
       [NoUnit EXCEPT !.status = "active", !.triggers = triggers, !.enabled = c.enabled,
                      !.interval = c.interval, !.next = c.next]]
  /\ UNCHANGED <<sessions, now, daemon, events>>

SetUnitActive(u) ==
  /\ Spend
  /\ unit[u].status # "absent"
  /\ unit' = [unit EXCEPT ![u].status = IF @ = "active" THEN "paused" ELSE "active"]
  /\ UNCHANGED <<sessions, now, daemon>>

SetSpawnGroups(u) ==
  /\ Spend
  /\ unit[u].status # "absent"
  /\ unit' = [unit EXCEPT ![u].gated = ~@]
  /\ UNCHANGED <<sessions, now, daemon>>

(* A Session that set the next run under the explicit resolver gets the    *)
(* boundary before it as its own, so that the new resolver has an anchor.  *)
Backfilled(u, n, next) ==
  LET i == unit[u].setter
  IN IF n > 0 /\ next # NoTime /\ Exists(u, i) /\ sessions[u][i].at = NoTime
     THEN [sessions EXCEPT ![u][i].at = next - n]
     ELSE sessions
(* configure_unit_schedule; NoTime leaves the next run time as it is.      *)
ConfigureSchedule(u, enabled, n, t) ==
  LET next == IF t = NoTime THEN unit[u].next ELSE t
      triggers == (unit[u].triggers \ {"scheduled"}) \cup (IF enabled THEN {"scheduled"} ELSE {})
  IN
  /\ Spend
  /\ unit[u].status # "absent"
  /\ triggers # {}
  /\ unit' = [unit EXCEPT ![u].enabled = enabled, ![u].interval = n,
                          ![u].next = next, ![u].triggers = triggers]
  /\ sessions' = Backfilled(u, n, next)
  /\ UNCHANGED <<now, daemon>>

-----------------------------------------------------------------------------
(***************************************************************************)
(* Activation.  Every path refuses a Unit that is paused, closed to the    *)
(* starter or without the trigger, and starts a singleton's Session again  *)
(* where it has one.                                                       *)
(***************************************************************************)
Startable(u, trigger) ==
  unit[u].status = "active" /\ trigger \in unit[u].triggers /\ ~unit[u].gated
Reuses(u) == u \in Singletons /\ sessions[u] # <<>>
Room(u) == Reuses(u) \/ Len(sessions[u]) < MaxSessions

Reactivated(u) == [sessions[u] EXCEPT ![1].active = TRUE, ![1].goal = "incomplete"]
(* Mutant: the time a Session was scheduled for is not recorded. *)
StartedUntimed(u, at) ==
  IF Reuses(u) THEN Reactivated(u) ELSE Append(sessions[u], NewSession(NoTime, "incomplete"))
Started(u, at) ==
  IF Reuses(u) THEN Reactivated(u) ELSE Append(sessions[u], NewSession(at, "incomplete"))

(* start_goal_session *)
StartGoalSession(u) ==
  /\ Spend
  /\ Startable(u, "manual") /\ Room(u)
  /\ sessions' = [sessions EXCEPT ![u] = Started(u, NoTime)]
  /\ UNCHANGED <<unit, now, daemon>>

(* Mutant: create_session forgets that a singleton has its Session. *)
CreatableAgain(u) == Startable(u, "manual")
Creatable(u) == Startable(u, "manual") /\ ~Reuses(u)
(* create_session: the Session has no SessionGoal yet. *)
CreateSession(u) ==
  /\ Spend
  /\ Creatable(u) /\ Room(u)
  /\ sessions' = [sessions EXCEPT ![u] = Append(@, NewSession(NoTime, "none"))]
  /\ UNCHANGED <<unit, now, daemon>>

(* run_startup_units, from the daemon that starts or from the command line *)
StartupUnits ==
  LET started == {u \in Units : Startable(u, "startup") /\ Room(u)} IN
  /\ sessions' = [u \in Units |-> IF u \in started THEN Started(u, NoTime) ELSE sessions[u]]
  /\ UNCHANGED <<unit, now>>

ScheduleDue(u) == unit[u].enabled /\ unit[u].next # NoTime /\ unit[u].next <= now
Due(u) == Startable(u, "scheduled") /\ ScheduleDue(u)
DueUnits == {u \in Units : Due(u) /\ Room(u)}

(* Mutant: the Session that owes the next run is counted once too often. *)
LaunchedPastEnd(u) == [unit[u] EXCEPT !.next = NoTime, !.owed = Len(sessions[u]) + 2]
(* A launch uses the next run time up, and the new Session owes another.   *)
Launched(u) ==
  [unit[u] EXCEPT !.next = NoTime, !.owed = Len(sessions[u]) + 1]
(* Mutant: a gated Unit fails the whole poll instead of being skipped. *)
AbortingOrGated == {u \in DueUnits : Reuses(u)} \cup {u \in Units : ScheduleDue(u) /\ unit[u].gated}
(* Looking the Session id just made up for a singleton raises KeyError. *)
Aborting == {u \in DueUnits : Reuses(u)}
(* run_scheduled_units: all due Units in one transaction.  A gated Unit is *)
(* skipped.  A singleton that has its Session already is activated, but    *)
(* the lookup that follows raises: nothing is saved and the daemon ends.   *)
RunScheduledUnits ==
  /\ Aborting = {}
  /\ unit' = [u \in Units |-> IF u \in DueUnits THEN Launched(u) ELSE unit[u]]
  /\ sessions' = [u \in Units |->
       IF u \in DueUnits THEN Started(u, unit[u].next) ELSE sessions[u]]
  /\ UNCHANGED <<now, events>>
ScheduleFails ==
  /\ Aborting # {}
  /\ UNCHANGED <<unit, sessions, now, events>>

-----------------------------------------------------------------------------
(***************************************************************************)
(* The next run time, and completion.                                      *)
(***************************************************************************)
(* next_interval_boundary: from the anchor in steps of n until past `done' *)
NextBoundary(anchor, n, done) ==
  IF anchor > done THEN anchor ELSE anchor + n * (((done - anchor) \div n) + 1)

(* resolve_next_run_at for Session i, with call parameter t.  NoTime is a  *)
(* ScheduleResolverError.                                                  *)
Resolution(u, i, t) ==
  IF unit[u].interval = 0 THEN t
  ELSE IF sessions[u][i].at = NoTime THEN NoTime
  ELSE NextBoundary(sessions[u][i].at, unit[u].interval, now)
Resolvable(u, i, t) == Resolution(u, i, t) # NoTime /\ Resolution(u, i, t) > now
Scheduled(u, i, t) ==
  [unit[u] EXCEPT !.next = Resolution(u, i, t), !.owed = NoSession, !.setter = i]

(* schedule_next_unit_run_from_session, called by GoalManager at work *)
ScheduleNextRun(u, i, t) ==
  /\ Spend
  /\ Exists(u, i) /\ sessions[u][i].goal = "incomplete"
  /\ unit[u].enabled /\ Resolvable(u, i, t)
  /\ unit' = [unit EXCEPT ![u] = Scheduled(u, i, t)]
  /\ UNCHANGED <<sessions, now, daemon>>

(* _prepare_scheduled_unit_completion *)
NeedsNext(u) ==
  unit[u].enabled /\ (unit[u].interval > 0 \/ unit[u].next = NoTime \/ unit[u].next <= now)

(* Mutant: a completion is not rejected when no time can be resolved. *)
AcceptedAnyway(u, i, t) == TRUE
Accepted(u, i, t) == NeedsNext(u) => Resolvable(u, i, t)
CompleteSession(u, i, t) ==
  /\ Exists(u, i) /\ sessions[u][i].goal = "incomplete"
  /\ Accepted(u, i, t)
  /\ unit' = [unit EXCEPT ![u] = IF NeedsNext(u) THEN Scheduled(u, i, t) ELSE @]
  /\ sessions' = [sessions EXCEPT ![u][i].goal = "complete"]
  /\ UNCHANGED <<now, daemon, events>>
(* The completion is rejected: a signal for GoalManager, and the goal      *)
(* stays incomplete.                                                       *)
RejectCompletion(u, i, t) ==
  /\ Exists(u, i) /\ sessions[u][i].goal = "incomplete"
  /\ ~Accepted(u, i, t)
  /\ UNCHANGED vars

-----------------------------------------------------------------------------
(***************************************************************************)
(* Users, processes and time.                                              *)
(***************************************************************************)
(* append_user_input or update_goal on a Session of the Unit *)
UserInput(u, i) ==
  /\ Spend
  /\ Exists(u, i) /\ sessions[u][i].goal # "incomplete"
  /\ sessions' = [sessions EXCEPT ![u][i].goal = "incomplete"]
  /\ UNCHANGED <<unit, now, daemon>>

SetSessionActive(u, i, a) ==
  /\ Spend
  /\ Exists(u, i)
  /\ sessions' = [sessions EXCEPT ![u][i].active = a,
                                  ![u][i].logged = IF a THEN "on" ELSE "off"]
  /\ UNCHANGED <<unit, now, daemon>>

(* Store.init replays the log onto the active flags. *)
Replayed(s) == [s EXCEPT !.active = IF s.logged = "none" THEN @ ELSE s.logged = "on"]
StoreInit ==
  /\ sessions' = [u \in Units |-> [i \in DOMAIN sessions[u] |-> Replayed(sessions[u][i])]]
  /\ UNCHANGED <<unit, now>>

DaemonInitialises ==
  daemon = "down" /\ StoreInit /\ daemon' = "initialised" /\ UNCHANGED events
DaemonStarts ==
  daemon = "initialised" /\ StartupUnits /\ daemon' = "up" /\ UNCHANGED events
DaemonPolls ==
  /\ daemon = "up"
  /\ \/ RunScheduledUnits /\ UNCHANGED daemon
     \/ ScheduleFails /\ daemon' = "down"
DaemonStops == Spend /\ daemon # "down" /\ daemon' = "down" /\ UNCHANGED <<unit, sessions, now>>
CommandLine ==
  Spend /\ UNCHANGED daemon /\ (StoreInit \/ StartupUnits)

Tick == now < MaxTime /\ now' = now + 1 /\ UNCHANGED <<unit, sessions, daemon, events>>

Init ==
  /\ unit = [u \in Units |-> NoUnit]
  /\ sessions = [u \in Units |-> <<>>]
  /\ now = Start /\ daemon = "down" /\ events = 0

UnitStep(u) ==
  \/ \E c \in Templates[u] : CreateUnit(u, c)
  \/ SetUnitActive(u)
  \/ SetSpawnGroups(u)
  \/ \E e \in Enablings, n \in Intervals, t \in Times \cup {NoTime} :
       ConfigureSchedule(u, e, n, t)
  \/ StartGoalSession(u)
  \/ CreateSession(u)
SessionStep(u, i) ==
  \/ \E t \in Times : ScheduleNextRun(u, i, t)
  \/ \E t \in Times \cup {NoTime} : CompleteSession(u, i, t)
  \/ \E t \in Times \cup {NoTime} : RejectCompletion(u, i, t)
  \/ UserInput(u, i)
  \/ \E a \in BOOLEAN : SetSessionActive(u, i, a)
ProcessStep ==
  \/ DaemonInitialises
  \/ DaemonStarts
  \/ DaemonPolls
  \/ DaemonStops
  \/ CommandLine
  \/ Tick
Next ==
  \/ \E u \in Units : UnitStep(u)
  \/ \E u \in Units, i \in 1..MaxSessions : SessionStep(u, i)
  \/ ProcessStep
Spec == Init /\ [][Next]_vars

(* The service manager restarts the daemon, the daemon polls, the clock    *)
(* runs, and GoalManager ends up completing a Session that is dispatched,  *)
(* with a time for the next run where the resolver wants one.              *)
Fairness ==
  /\ WF_vars(DaemonInitialises) /\ WF_vars(DaemonStarts) /\ WF_vars(DaemonPolls)
  /\ WF_vars(Tick)
  /\ \A u \in Units, i \in 1..MaxSessions :
       WF_vars(/\ unit[u].status = "active" /\ Exists(u, i) /\ sessions[u][i].active
               /\ \E t \in Times : CompleteSession(u, i, t))
FairSpec == Spec /\ Fairness

-----------------------------------------------------------------------------
(* Every component of the state has its type, and a schedule refers to     *)
(* Sessions of its own Unit that exist.                                    *)
TypeOK ==
  /\ unit \in [Units -> Unit]
  /\ sessions \in [Units -> Seq(Session)]
  /\ \A u \in Units : {unit[u].owed, unit[u].setter} \subseteq 0..Len(sessions[u])
  /\ now \in Nat
  /\ daemon \in {"down", "initialised", "up"}
  /\ events \in 0..MaxEvents

(* A schedule that has run, and that nobody disables, is never lost: it    *)
(* has a next run time, or the Session of its last launch is incomplete    *)
(* and cannot be completed without one, whatever older Sessions of the     *)
(* Unit, polls, reopenings and changes of the resolver do in between.      *)
ScheduleNeverLost ==
  \A u \in Units :
    /\ unit[u].enabled /\ unit[u].next = NoTime
    /\ \E i \in DOMAIN sessions[u] : sessions[u][i].at # NoTime
    => Exists(u, unit[u].owed) /\ sessions[u][unit[u].owed].goal = "incomplete"

(* A singleton Unit never gets a second Session, by whichever trigger or   *)
(* command it is started.                                                  *)
SingletonsUnique == \A u \in Singletons : Len(sessions[u]) <= 1

(* The Session of the last launch holds the schedule back. *)
Owing(u) ==
  LET i == unit[u].owed IN
  /\ unit[u].enabled /\ unit[u].next = NoTime /\ unit[u].status = "active"
  /\ Exists(u, i) /\ sessions[u][i].active
(* A schedule used up by a launch is renewed, as long as the Unit and the  *)
(* Session that owes the next run are left active.                         *)
ScheduleRenewed == \A u \in Units : Owing(u) ~> ~Owing(u)

(* A Unit that is due and may be started is started, also after the daemon *)
(* was stopped for a while and whatever other Units are due, gated or      *)
(* paused, as long as no singleton that has its Session is due as well.    *)
DueUnitsStartUnlessReused ==
  \A u \in Units : u \in DueUnits ~> (u \notin DueUnits \/ \E v \in DueUnits : Reuses(v))

(* "`run-scheduled-units` starts Unit Sessions whose `schedule.next_run_at`*)
(* is due" (README.md:188), also after the daemon was stopped for a while: *)
(* a Unit that is due and may be started does not stay so.                 *)
DueUnitsStart == \A u \in Units : u \in DueUnits ~> u \notin DueUnits
=============================================================================
