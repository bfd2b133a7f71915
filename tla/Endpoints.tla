------------------------------ MODULE Endpoints ------------------------------
(***************************************************************************)
(* Receiving messages (kernel/messages.py, receive_message of              *)
(* goal/messages.py, _mark_session_messages_delivered of goal/dispatch.py).*)
(*                                                                         *)
(* A message is written into the log of one Session and addressed to any   *)
(* endpoint: a user, a console, a node or a Session.  Receivers read all   *)
(* logs as one list, sorted by the second a message was created in, the    *)
(* Session and the place in its log, and keep one cursor into it.  A run   *)
(* that commits moves the cursor of its Session's endpoint too.            *)
(***************************************************************************)
EXTENDS Naturals, Sequences, FiniteSets

CONSTANTS
  Sessions,      (* their ids, as numbers in sorted order                  *)
  Receivers,     (* endpoints of users, consoles and nodes                 *)
  Consoles,      (* those of consoles, which agents may write to           *)
  Address,       (* session_endpoint: the endpoint of each Session         *)
  Remote,        (* node:remote-aize                                       *)
  MaxMessages,   (* bound: messages sent                                   *)
  MaxRuns,       (* bound: dispatch runs                                   *)
  MaxTime        (* bound: seconds                                         *)

ASSUME EndpointsAssumption ==
  /\ Sessions \subseteq Nat
  /\ Remote \in Receivers /\ Consoles \subseteq Receivers
  /\ \A s \in Sessions : Address[s] \notin Receivers
  /\ \A s, t \in Sessions : Address[s] = Address[t] => s = t
  /\ MaxMessages \in Nat /\ MaxRuns \in Nat /\ MaxTime \in Nat

SessionEndpoints == {Address[s] : s \in Sessions}
AllEndpoints == Receivers \cup SessionEndpoints
(* No cursor, no run. *)
None == 0

(* Message ids are given in the order of sending; `run' is payload.run_id. *)
Message == [session : Sessions, to : AllEndpoints, at : 0..MaxTime, run : 0..MaxRuns]
(* `seen' is how many messages had been sent when the run was leased.      *)
Run == [session : Sessions, seen : 0..MaxMessages, live : BOOLEAN]

VARIABLES
  sent,     (* the messages of all SessionLogs                             *)
  cursor,   (* endpoint_cursors: a message id, or None                     *)
  runs,     (* dispatch runs                                               *)
  now,      (* utc_now, in seconds                                         *)
  taken     (* history: what receive_message returned for each endpoint    *)

vars == <<sent, cursor, runs, now, taken>>

-----------------------------------------------------------------------------
(* _all_messages: the order of the list. *)
Before(m, n) ==
  \/ sent[m].at < sent[n].at
  \/ /\ sent[m].at = sent[n].at
     /\ \/ sent[m].session < sent[n].session
        \/ sent[m].session = sent[n].session /\ m < n

(* _messages_after_cursor *)
Unread(e) ==
  {m \in DOMAIN sent : sent[m].to = e /\ (cursor[e] = None \/ Before(cursor[e], m))}
(* Mutant: the newest message is taken first. *)
NewestOf(S, m) == m \in S /\ \A n \in S \ {m} : Before(n, m)
FirstOf(S, m) == m \in S /\ \A n \in S \ {m} : Before(m, n)

(* receive_message, for one endpoint. *)
Receive(e) ==
  \E m \in Unread(e) :
    /\ FirstOf(Unread(e), m)
    /\ cursor' = [cursor EXCEPT ![e] = m]
    /\ taken' = [taken EXCEPT ![e] = @ \cup {m}]
    /\ UNCHANGED <<sent, runs, now>>
(* There is nothing to receive: None, and the state is not saved. *)
ReceiveNothing(e) == Unread(e) = {} /\ UNCHANGED vars

-----------------------------------------------------------------------------
Packet(s, e, i) == [session |-> s, to |-> e, at |-> now, run |-> i]
(* _append_session_message_locked *)
Sends(s, e, i) == Len(sent) < MaxMessages /\ sent' = Append(sent, Packet(s, e, i))

(* append_message, and append_user_input while no Worker runs: a message   *)
(* of no run.                                                              *)
Send(s, e) == Sends(s, e, None) /\ UNCHANGED <<cursor, runs, now, taken>>

(* A run is leased, and the messages of its Session are read. *)
Lease(s) ==
  /\ Len(runs) < MaxRuns
  /\ runs' = Append(runs, [session |-> s, seen |-> Len(sent), live |-> TRUE])
  /\ UNCHANGED <<sent, cursor, now, taken>>

Live(i) == i \in DOMAIN runs /\ runs[i].live
Ends(i) == runs' = [runs EXCEPT ![i].live = FALSE]

(* append_runtime_message: to the Session or to a console. *)
AgentSend(i, e) ==
  /\ Live(i)
  /\ e \in Consoles \cup {Address[runs[i].session]}
  /\ Sends(runs[i].session, e, i)
  /\ UNCHANGED <<cursor, runs, now, taken>>

(* append_user_input while run i is WorkerAgent's: the message is repeated *)
(* as a request to that run.  (The role of a run is left open.)            *)
UserInput(i) ==
  LET s == runs[i].session
  IN /\ Live(i)
     /\ Len(sent) + 1 < MaxMessages
     /\ sent' = sent \o <<Packet(s, Address[s], None), Packet(s, Address[s], i)>>
     /\ UNCHANGED <<cursor, runs, now, taken>>

(* A newer message of another origin: the result would be discarded. *)
Fenced(i) ==
  \E m \in DOMAIN sent :
    m > runs[i].seen /\ sent[m].session = runs[i].session /\ sent[m].run # i
(* The messages that were in the log of its Session when it was leased. *)
Snapshot(i) == {m \in DOMAIN sent : m <= runs[i].seen /\ sent[m].session = runs[i].session}
(* Mutant: an endpoint of any kind is marked. *)
MarkedAny(i, e) ==
  \E m \in Snapshot(i) : sent[m].to = e /\ \A n \in Snapshot(i) : m <= n
(* _mark_session_messages_delivered looks for the first message in the     *)
(* log that is addressed to a Session,                                     *)
Marked(i, e) ==
  LET toSessions == {m \in Snapshot(i) : sent[m].to \in SessionEndpoints}
  IN \E m \in toSessions : sent[m].to = e /\ \A n \in toSessions : m <= n
(* Mutant: the cursor goes to the last message, whoever it is for. *)
LastOfAny(i, e, m) == m \in Snapshot(i) /\ \A n \in Snapshot(i) : n <= m
(* and _advance_endpoint_cursor for the last one to that endpoint.         *)
LastFor(i, e, m) ==
  /\ m \in Snapshot(i) /\ sent[m].to = e
  /\ \A n \in Snapshot(i) : sent[n].to = e => n <= m
MarkDelivered(i) ==
  \/ \E e \in AllEndpoints, m \in DOMAIN sent :
       Marked(i, e) /\ LastFor(i, e, m) /\ cursor' = [cursor EXCEPT ![e] = m]
  \/ (\A e \in AllEndpoints : ~Marked(i, e)) /\ UNCHANGED cursor

(* GoalManager's run is committed, maybe with an implicit worker request,  *)
(* or the provider failed.                                                 *)
Commit(i) ==
  /\ Live(i) /\ ~Fenced(i)
  /\ UNCHANGED sent \/ Sends(runs[i].session, Address[runs[i].session], i)
  /\ MarkDelivered(i)
  /\ Ends(i)
  /\ UNCHANGED <<now, taken>>

(* WorkerAgent's run is committed, maybe with a handoff to a remote node.  *)
CommitWorker(i) ==
  /\ Live(i) /\ ~Fenced(i)
  /\ UNCHANGED sent \/ Sends(runs[i].session, Remote, i)
  /\ Ends(i)
  /\ UNCHANGED <<cursor, now, taken>>

(* Its result is discarded, or it never returns. *)
Lose(i) == Live(i) /\ Ends(i) /\ UNCHANGED <<sent, cursor, now, taken>>

Tick == now < MaxTime /\ now' = now + 1 /\ UNCHANGED <<sent, cursor, runs, taken>>

-----------------------------------------------------------------------------
Init ==
  /\ sent = <<>> /\ runs = <<>> /\ now = 0
  /\ cursor = [e \in AllEndpoints |-> None]
  /\ taken = [e \in AllEndpoints |-> {}]

Next ==
  \/ \E e \in AllEndpoints : Receive(e) \/ ReceiveNothing(e)
  \/ \E s \in Sessions, e \in AllEndpoints : Send(s, e)
  \/ \E s \in Sessions : Lease(s)
  \/ \E i \in DOMAIN runs, e \in AllEndpoints : AgentSend(i, e)
  \/ \E i \in DOMAIN runs : UserInput(i) \/ Commit(i) \/ CommitWorker(i) \/ Lose(i)
  \/ Tick

Spec == Init /\ [][Next]_vars
(* The owner of an endpoint asks for its messages again and again. *)
FairSpec == Spec /\ \A e \in Receivers : WF_vars(Receive(e))

-----------------------------------------------------------------------------
(* The state is well typed, and a cursor stands at a message addressed to  *)
(* its endpoint (_advance_endpoint_cursor).                                *)
TypeOK ==
  /\ sent \in Seq(Message) /\ Len(sent) <= MaxMessages
  /\ runs \in Seq(Run) /\ Len(runs) <= MaxRuns
  /\ now \in 0..MaxTime
  /\ taken \in [AllEndpoints -> SUBSET DOMAIN sent]
  /\ cursor \in [AllEndpoints -> {None} \cup DOMAIN sent]
  /\ \A e \in AllEndpoints : cursor[e] # None => sent[cursor[e]].to = e

Passed(e, m) == cursor[e] # None /\ (m = cursor[e] \/ Before(m, cursor[e]))

(* receive_message passes a message over in one case only: it was sent     *)
(* after another one of the same second, in a Session that sorts later,    *)
(* had been received.                                                      *)
PassedOverOnlyWithinASecond ==
  \A e \in Receivers : \A m \in DOMAIN sent :
    sent[m].to = e /\ Passed(e, m) /\ m \notin taken[e] =>
      \E n \in taken[e] : /\ n < m /\ sent[n].at = sent[m].at
                          /\ sent[m].session < sent[n].session

(* What a user, console or node has received is behind its cursor and is   *)
(* not offered again, whatever runs commit meanwhile.                      *)
NotOfferedAgain == \A e \in Receivers : \A m \in taken[e] : Passed(e, m)

(* A message that is unread is received in the end, although messages of   *)
(* other Sessions keep arriving around it.                                 *)
MessagesArrive ==
  \A e \in Receivers, m \in 1..MaxMessages : m \in Unread(e) ~> m \in taken[e]
=============================================================================
