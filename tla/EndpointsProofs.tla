--------------------------- MODULE EndpointsProofs ---------------------------
(***************************************************************************)
(* Proofs about Endpoints, for every set of Sessions and endpoints and     *)
(* every bound: what a receiver's cursor has passed was received, but for  *)
(* one case, and is never offered again; and every cursor stands at a      *)
(* message addressed to its endpoint.                                      *)
(***************************************************************************)
EXTENDS Endpoints, TLAPS

Packets == [session : Nat, to : AllEndpoints, at : Nat, run : Nat]
LeasedRuns == [session : Sessions, seen : Nat, live : BOOLEAN]

(* What the order of the list rests on: ids and times are given in the     *)
(* order of sending, and the clock does not go back.                       *)
SentInv ==
  /\ sent \in Seq(Packets)
  /\ now \in Nat
  /\ \A m \in DOMAIN sent : sent[m].at <= now
(* A receiver's cursor is the last message it received. *)
CursorInv ==
  /\ runs \in Seq(LeasedRuns)
  /\ cursor \in [AllEndpoints -> {None} \cup DOMAIN sent]
  /\ taken \in [AllEndpoints -> SUBSET DOMAIN sent]
  /\ \A e \in Receivers : cursor[e] # None => cursor[e] \in taken[e]
EndpointsInv == SentInv /\ CursorInv /\ NotOfferedAgain /\ PassedOverOnlyWithinASecond

(* All endpoints of Sessions differ from those of receivers. *)
LEMMA KindsDiffer ==
  /\ Receivers \subseteq AllEndpoints /\ SessionEndpoints \cap Receivers = {}
  /\ Remote \in AllEndpoints /\ \A s \in Sessions : Address[s] \in AllEndpoints
  BY EndpointsAssumption DEF AllEndpoints, SessionEndpoints

(* What can be said of each message, and of each run. *)
LEMMA Fields ==
  ASSUME EndpointsInv
  PROVE  /\ \A m \in DOMAIN sent : /\ m \in Nat /\ sent[m].at \in Nat /\ sent[m].session \in Nat
                                   /\ sent[m].at <= now
         /\ \A i \in DOMAIN runs : i \in Nat /\ runs[i].session \in Sessions
         /\ \A i \in DOMAIN runs : [runs EXCEPT ![i].live = FALSE] \in Seq(LeasedRuns)
  <1>1. sent \in Seq(Packets) /\ runs \in Seq(LeasedRuns) /\ \A m \in DOMAIN sent : sent[m].at <= now
    BY DEF EndpointsInv, SentInv, CursorInv
  <1>2. \A m \in DOMAIN sent : m \in Nat /\ sent[m] \in Packets
    BY <1>1
  <1>3. \A i \in DOMAIN runs : i \in Nat /\ runs[i] \in LeasedRuns
    BY <1>1
  <1>4. \A i \in DOMAIN runs : [runs[i] EXCEPT !.live = FALSE] \in LeasedRuns
    BY <1>3 DEF LeasedRuns
  <1>5. \A i \in DOMAIN runs : [runs EXCEPT ![i] = [runs[i] EXCEPT !.live = FALSE]] \in Seq(LeasedRuns)
    BY <1>1, <1>4
  <1> QED
    BY <1>1, <1>2, <1>3, <1>5 DEF Packets, LeasedRuns

(* The invariant holds at the start. *)
LEMMA InvInit == Init => EndpointsInv
  BY KindsDiffer DEF Init, EndpointsInv, SentInv, CursorInv, NotOfferedAgain,
     PassedOverOnlyWithinASecond, Passed, None

(* Messages of this second were added to those sent before. *)
Grown ==
  /\ sent' \in Seq(Packets) /\ None \notin DOMAIN sent' /\ DOMAIN sent \subseteq DOMAIN sent'
  /\ \A m \in DOMAIN sent : sent'[m] = sent[m] /\ m \in Nat
  /\ \A n \in DOMAIN sent' \ DOMAIN sent :
       /\ n \in Nat /\ \A m \in DOMAIN sent : m < n
       /\ sent'[n].at = now /\ sent'[n].session \in Nat

(* Sending one message, or user input with the request it becomes. *)
LEMMA Appended ==
  ASSUME EndpointsInv, NEW s \in Sessions, NEW e \in AllEndpoints, NEW i \in Nat, NEW j \in Nat,
         \/ sent' = Append(sent, Packet(s, e, i))
         \/ sent' = sent \o <<Packet(s, e, i), Packet(s, e, j)>>
  PROVE  Grown
  <1> DEFINE p == Packet(s, e, i)
             q == Packet(s, e, j)
  <1>1. /\ sent \in Seq(Packets) /\ p \in Packets /\ q \in Packets
        /\ p.at = now /\ q.at = now /\ p.session \in Nat /\ q.session \in Nat
    BY EndpointsAssumption DEF EndpointsInv, SentInv, Packet, Packets
  <1>2. sent' = Append(sent, p) \/ sent' = sent \o <<p, q>>
    OBVIOUS
  <1> HIDE DEF p, q
  <1>3. DOMAIN sent = 1..Len(sent) /\ Len(sent) \in Nat
    BY <1>1
  <1>4. CASE sent' = Append(sent, p)
    <2>1. /\ sent' \in Seq(Packets) /\ DOMAIN sent' = 1..(Len(sent) + 1)
          /\ \A m \in 1..Len(sent) : sent'[m] = sent[m]
          /\ sent'[Len(sent) + 1] = p
      BY <1>1, <1>4
    <2> QED
      BY <1>1, <1>3, <2>1 DEF Grown, None
  <1>5. CASE sent' = sent \o <<p, q>>
    <2>1. /\ sent' \in Seq(Packets) /\ DOMAIN sent' = 1..(Len(sent) + 2)
          /\ \A m \in 1..Len(sent) : sent'[m] = sent[m]
          /\ sent'[Len(sent) + 1] = p /\ sent'[Len(sent) + 2] = q
      BY <1>1, <1>5
    <2>2. \A n \in DOMAIN sent' \ DOMAIN sent : n = Len(sent) + 1 \/ n = Len(sent) + 2
      BY <1>3, <2>1
    <2> QED
      BY <1>1, <1>3, <2>1, <2>2 DEF Grown, None
  <1> QED
    BY <1>2, <1>4, <1>5

(* Sending moves no receiver's cursor.  A new message is behind a cursor   *)
(* only if the message there is of the same second.                        *)
LEMMA SendKeeps ==
  ASSUME EndpointsInv, Grown, UNCHANGED <<now, taken>>,
         \A r \in Receivers : cursor'[r] = cursor[r]
  PROVE  SentInv' /\ NotOfferedAgain' /\ PassedOverOnlyWithinASecond'
  <1>0. /\ SentInv /\ CursorInv /\ NotOfferedAgain /\ PassedOverOnlyWithinASecond
        /\ Receivers \subseteq AllEndpoints
    BY KindsDiffer DEF EndpointsInv
  <1>1. /\ sent' \in Seq(Packets) /\ DOMAIN sent \subseteq DOMAIN sent'
        /\ \A m \in DOMAIN sent : sent'[m] = sent[m] /\ m \in Nat
        /\ None \notin DOMAIN sent'
    BY DEF Grown
  <1>2. /\ \A m \in DOMAIN sent : sent[m].at \in Nat /\ sent[m].session \in Nat /\ sent[m].at <= now
        /\ now \in Nat
    BY <1>0, Fields DEF SentInv
  <1>20. \A n \in DOMAIN sent' \ DOMAIN sent :
           /\ n \in Nat /\ \A m \in DOMAIN sent : m < n
           /\ sent'[n].at = now /\ sent'[n].session \in Nat
    BY DEF Grown
  <1>3. SentInv'
    <2>1. \A m \in DOMAIN sent' : sent'[m].at <= now
      BY <1>1, <1>2, <1>20
    <2> QED
      BY <1>1, <1>2, <2>1 DEF SentInv
  <1>4. \A r \in Receivers : /\ taken[r] \subseteq DOMAIN sent
                             /\ cursor[r] # None => cursor[r] \in DOMAIN sent /\ cursor[r] \in taken[r]
    BY <1>0 DEF CursorInv
  <1>5. \A r \in Receivers : \A m \in DOMAIN sent : Passed(r, m)' <=> Passed(r, m)
    BY <1>1, <1>4 DEF Passed, Before
  <1>6. NotOfferedAgain'
    BY <1>0, <1>4, <1>5 DEF NotOfferedAgain
  <1>7. PassedOverOnlyWithinASecond'
    <2> SUFFICES ASSUME NEW r \in Receivers, NEW m \in DOMAIN sent',
                        sent'[m].to = r, Passed(r, m)', m \notin taken[r]
                 PROVE  \E n \in taken[r] : /\ n < m /\ sent'[n].at = sent'[m].at
                                            /\ sent'[m].session < sent'[n].session
      BY DEF PassedOverOnlyWithinASecond
    <2>1. CASE m \in DOMAIN sent
      <3>1. PICK n \in taken[r] : /\ n < m /\ sent[n].at = sent[m].at
                                  /\ sent[m].session < sent[n].session
        BY <1>0, <1>1, <1>5, <2>1 DEF PassedOverOnlyWithinASecond
      <3>2. sent'[n] = sent[n] /\ sent'[m] = sent[m]
        BY <1>1, <1>4, <2>1
      <3> QED
        BY <3>1, <3>2
    <2>2. CASE m \notin DOMAIN sent
      <3> DEFINE c == cursor[r]
      <3>1. c # None /\ c \in DOMAIN sent /\ c \in taken[r] /\ sent'[c] = sent[c] /\ c < m /\ c \in Nat
        BY <1>1, <1>4, <1>20, <2>2 DEF Passed
      <3>2. Before(m, c)'
        BY <1>1, <2>2, <3>1 DEF Passed
      <3> HIDE DEF c
      <3>3. sent[c].at \in Nat /\ sent[c].session \in Nat /\ sent[c].at <= now
        BY <1>2, <3>1
      <3>4. \/ sent'[m].at < sent'[c].at
            \/ sent'[m].at = sent'[c].at /\ sent'[m].session < sent'[c].session
            \/ m < c
        BY <3>1, <3>2 DEF Before, c
      <3>5. m \in Nat /\ sent'[m].at = now /\ sent'[m].session \in Nat
        BY <1>20, <2>2
      <3> QED
        BY <1>2, <2>2, <3>1, <3>3, <3>4, <3>5
    <2> QED
      BY <1>1, <2>1, <2>2
  <1> QED
    BY <1>3, <1>6, <1>7

(* The order is total, so whatever the cursor newly passes was received.   *)
LEMMA ReceiveKeeps ==
  ASSUME EndpointsInv, NEW e \in AllEndpoints, Receive(e)
  PROVE  EndpointsInv'
  <1>0. /\ SentInv /\ CursorInv /\ NotOfferedAgain /\ PassedOverOnlyWithinASecond
        /\ Receivers \subseteq AllEndpoints
    BY KindsDiffer DEF EndpointsInv
  <1>1. PICK m \in Unread(e) : /\ FirstOf(Unread(e), m)
                               /\ cursor' = [cursor EXCEPT ![e] = m]
                               /\ taken' = [taken EXCEPT ![e] = @ \cup {m}]
                               /\ UNCHANGED <<sent, runs, now>>
    BY DEF Receive
  <1>2. m \in DOMAIN sent /\ DOMAIN sent \subseteq Nat /\ None \notin DOMAIN sent
    BY <1>0, <1>1 DEF Unread, SentInv, None
  <1>3. SentInv'
    BY <1>0, <1>1 DEF SentInv
  <1>4. /\ cursor'[e] = m /\ taken'[e] = taken[e] \cup {m}
        /\ \A r \in AllEndpoints \ {e} : cursor'[r] = cursor[r] /\ taken'[r] = taken[r]
        /\ cursor' \in [AllEndpoints -> {None} \cup DOMAIN sent]
        /\ taken' \in [AllEndpoints -> SUBSET DOMAIN sent]
    BY <1>0, <1>1, <1>2 DEF CursorInv
  <1>5. CursorInv'
    BY <1>0, <1>1, <1>4 DEF CursorInv
  <1>6. \A k \in DOMAIN sent : sent[k].at \in Nat /\ sent[k].session \in Nat /\ k \in Nat
    BY Fields
  <1>7. \A k, n \in DOMAIN sent : Before(k, n)' <=> Before(k, n)
    BY <1>1 DEF Before
  <1>8. \A k, n, o \in DOMAIN sent : Before(k, n) /\ Before(n, o) => Before(k, o)
    BY <1>6 DEF Before
  <1>9. \A k, n \in DOMAIN sent : k = n \/ Before(k, n) \/ Before(n, k)
    BY <1>6 DEF Before
  <1>10. \A k, n \in DOMAIN sent : ~(k = n /\ Before(k, n)) /\ ~(Before(k, n) /\ Before(n, k))
    BY <1>6 DEF Before
  <1>11. CASE e \in Receivers
    <2>1. cursor[e] = None \/ (cursor[e] \in DOMAIN sent /\ Before(cursor[e], m))
      BY <1>0, <1>1, <1>11 DEF Unread, CursorInv
    <2>2. \A k \in DOMAIN sent : Passed(e, k)' <=> (k = m \/ Before(k, m))
      BY <1>2, <1>4, <1>7, <1>1 DEF Passed
    <2>3. \A k \in DOMAIN sent : Passed(e, k) => Passed(e, k)'
      BY <1>2, <1>8, <2>1, <2>2 DEF Passed
    <2>4. \A r \in Receivers \ {e} : \A k \in DOMAIN sent : Passed(r, k)' <=> Passed(r, k)
      BY <1>0, <1>1, <1>4 DEF Passed, Before
    <2>5. \A r \in Receivers : taken[r] \subseteq DOMAIN sent
      BY <1>0 DEF CursorInv
    <2>6. NotOfferedAgain'
      BY <1>0, <1>2, <1>4, <2>2, <2>3, <2>4, <2>5 DEF NotOfferedAgain
    <2>7. \A k \in DOMAIN sent : sent[k].to = e /\ Passed(e, k)' => k = m \/ Passed(e, k)
      <3> SUFFICES ASSUME NEW k \in DOMAIN sent, sent[k].to = e, Before(k, m), ~Passed(e, k)
                   PROVE  FALSE
        BY <2>2
      <3>1. k \in Unread(e)
        BY <1>9, <2>1 DEF Unread, Passed
      <3> QED
        BY <1>1, <1>2, <1>10, <3>1 DEF FirstOf
    <2>8. PassedOverOnlyWithinASecond'
      <3> SUFFICES ASSUME NEW r \in Receivers, NEW k \in DOMAIN sent,
                          sent[k].to = r, Passed(r, k)', k \notin taken'[r]
                   PROVE  \E n \in taken'[r] : /\ n < k /\ sent[n].at = sent[k].at
                                               /\ sent[k].session < sent[n].session
        BY <1>1 DEF PassedOverOnlyWithinASecond
      <3>1. Passed(r, k) /\ k \notin taken[r] /\ taken[r] \subseteq taken'[r]
        BY <1>0, <1>4, <2>4, <2>7
      <3> QED
        BY <1>0, <3>1 DEF PassedOverOnlyWithinASecond
    <2> QED
      BY <1>3, <1>5, <2>6, <2>8 DEF EndpointsInv
  <1>12. CASE e \notin Receivers
    <2>1. \A r \in Receivers : cursor'[r] = cursor[r] /\ taken'[r] = taken[r]
      BY <1>0, <1>4, <1>12
    <2>2. \A r \in Receivers : \A k : Passed(r, k)' <=> Passed(r, k)
      BY <1>1, <2>1 DEF Passed, Before
    <2>3. NotOfferedAgain' /\ PassedOverOnlyWithinASecond'
      BY <1>0, <1>1, <2>1, <2>2 DEF NotOfferedAgain, PassedOverOnlyWithinASecond
    <2> QED
      BY <1>3, <1>5, <2>3 DEF EndpointsInv
  <1> QED
    BY <1>11, <1>12

(* A committing run moves the cursor of a Session's endpoint only. *)
LEMMA MarksSessions ==
  ASSUME EndpointsInv, NEW i \in DOMAIN runs, MarkDelivered(i)
  PROVE  /\ cursor' \in [AllEndpoints -> {None} \cup DOMAIN sent]
         /\ \A r \in Receivers : cursor'[r] = cursor[r]
  <1>1. \A e : Marked(i, e) => e \in SessionEndpoints
    BY DEF Marked
  <1> QED
    BY <1>1, KindsDiffer DEF MarkDelivered, EndpointsInv, CursorInv

(* A step that moves no receiver's cursor and may send messages.           *)
LEMMA QuietStep ==
  ASSUME EndpointsInv, UNCHANGED <<now, taken>>,
         cursor' \in [AllEndpoints -> {None} \cup DOMAIN sent],
         \A r \in Receivers : cursor'[r] = cursor[r],
         runs' \in Seq(LeasedRuns),
         \/ UNCHANGED sent
         \/ \E s \in Sessions, e \in AllEndpoints, i \in Nat : Sends(s, e, i)
         \/ \E s \in Sessions, i \in Nat :
              sent' = sent \o <<Packet(s, Address[s], None), Packet(s, Address[s], i)>>
  PROVE  EndpointsInv'
  <1>0. Receivers \subseteq AllEndpoints
    BY KindsDiffer
  <1>1. CASE UNCHANGED sent
    <2>1. \A r \in Receivers : \A k : Passed(r, k)' <=> Passed(r, k)
      BY <1>1 DEF Passed, Before
    <2> QED
      BY <1>0, <1>1, <2>1 DEF EndpointsInv, SentInv, CursorInv, NotOfferedAgain,
                              PassedOverOnlyWithinASecond
  <1>2. CASE ~UNCHANGED sent
    <2>1. Grown
      BY <1>2, Appended, KindsDiffer DEF Sends, None
    <2>2. SentInv' /\ NotOfferedAgain' /\ PassedOverOnlyWithinASecond'
      BY <2>1, SendKeeps
    <2>3. DOMAIN sent \subseteq DOMAIN sent'
      BY <2>1 DEF Grown
    <2>4. CursorInv'
      BY <1>0, <2>3 DEF EndpointsInv, CursorInv
    <2> QED
      BY <2>2, <2>4 DEF EndpointsInv
  <1> QED
    BY <1>1, <1>2

(* Every step keeps the invariant. *)
LEMMA InvNext == EndpointsInv /\ [Next]_vars => EndpointsInv'
  <1> SUFFICES ASSUME EndpointsInv, [Next]_vars PROVE EndpointsInv'
    OBVIOUS
  <1>0. /\ runs \in Seq(LeasedRuns)
        /\ cursor \in [AllEndpoints -> {None} \cup DOMAIN sent]
        /\ Len(sent) \in Nat
    BY DEF EndpointsInv, CursorInv, SentInv
  <1>1. \A i \in DOMAIN runs : i \in Nat /\ runs[i].session \in Sessions
    BY Fields
  <1>2. CASE UNCHANGED vars
    BY <1>0, <1>2, QuietStep DEF vars
  <1>3. ASSUME NEW s \in Sessions, NEW e \in AllEndpoints, Send(s, e) PROVE EndpointsInv'
    BY <1>0, <1>3, QuietStep DEF Send, None
  <1>4. ASSUME NEW s \in Sessions, Lease(s) PROVE EndpointsInv'
    <2>1. runs' \in Seq(LeasedRuns)
      BY <1>0, <1>4 DEF Lease, LeasedRuns
    <2> QED
      BY <1>0, <1>4, <2>1, QuietStep DEF Lease
  <1>5. ASSUME NEW i \in DOMAIN runs, NEW e \in AllEndpoints, AgentSend(i, e) PROVE EndpointsInv'
    BY <1>0, <1>1, <1>5, QuietStep DEF AgentSend
  <1>11. ASSUME NEW i \in DOMAIN runs, UserInput(i) PROVE EndpointsInv'
    BY <1>0, <1>1, <1>11, QuietStep DEF UserInput
  <1>6. ASSUME NEW i \in DOMAIN runs, Ends(i)
        PROVE  runs' \in Seq(LeasedRuns)
    BY <1>6, Fields DEF Ends
  <1>7. ASSUME NEW i \in DOMAIN runs, Commit(i) PROVE EndpointsInv'
    <2>1. /\ cursor' \in [AllEndpoints -> {None} \cup DOMAIN sent]
          /\ \A r \in Receivers : cursor'[r] = cursor[r]
      BY <1>7, MarksSessions DEF Commit
    <2>2. runs' \in Seq(LeasedRuns)
      BY <1>6, <1>7 DEF Commit
    <2>3. UNCHANGED sent \/ Sends(runs[i].session, Address[runs[i].session], i)
      BY <1>7 DEF Commit
    <2> QED
      BY <1>1, <1>7, <2>1, <2>2, <2>3, QuietStep, KindsDiffer DEF Commit
  <1>8. ASSUME NEW i \in DOMAIN runs, CommitWorker(i) PROVE EndpointsInv'
    <2>1. runs' \in Seq(LeasedRuns)
      BY <1>6, <1>8 DEF CommitWorker
    <2> QED
      BY <1>0, <1>1, <1>8, <2>1, QuietStep, KindsDiffer DEF CommitWorker
  <1>9. ASSUME NEW i \in DOMAIN runs, Lose(i) PROVE EndpointsInv'
    <2>1. runs' \in Seq(LeasedRuns)
      BY <1>6, <1>9 DEF Lose
    <2> QED
      BY <1>0, <1>9, <2>1, QuietStep DEF Lose
  <1>10. CASE Tick
    <2>1. SentInv'
      <3>1. \A m \in DOMAIN sent : sent[m].at \in Nat /\ sent[m].at <= now
        BY Fields
      <3>2. now \in Nat /\ now' = now + 1 /\ sent' = sent
        BY <1>10 DEF Tick, EndpointsInv, SentInv
      <3>3. \A m \in DOMAIN sent : sent[m].at <= now'
        BY <3>1, <3>2
      <3> QED
        BY <3>2, <3>3 DEF EndpointsInv, SentInv
    <2>2. \A r \in Receivers : \A k : Passed(r, k)' <=> Passed(r, k)
      BY <1>10 DEF Tick, Passed, Before
    <2> QED
      BY <1>10, <2>1, <2>2 DEF Tick, EndpointsInv, CursorInv, NotOfferedAgain,
                               PassedOverOnlyWithinASecond
  <1> QED
    BY <1>2, <1>3, <1>4, <1>5, <1>7, <1>8, <1>9, <1>10, <1>11, ReceiveKeeps DEF Next, ReceiveNothing

(* A receiver misses a message only when it is sent within the second of   *)
(* one already received, in a Session that sorts earlier                   *)
(* (_all_messages, _messages_after_cursor).                                *)
THEOREM MissedOnlyWithinASecond == Spec => []PassedOverOnlyWithinASecond
  <1>1. EndpointsInv => PassedOverOnlyWithinASecond
    BY DEF EndpointsInv
  <1> QED
    BY <1>1, InvInit, InvNext, PTL DEF Spec

(* A receiver is never offered again what it has received: runs that       *)
(* commit move the cursors of Sessions only                                *)
(* (_mark_session_messages_delivered).                                     *)
THEOREM ReceivedOnce == Spec => []NotOfferedAgain
  <1>1. EndpointsInv => NotOfferedAgain
    BY DEF EndpointsInv
  <1> QED
    BY <1>1, InvInit, InvNext, PTL DEF Spec

-----------------------------------------------------------------------------
(***************************************************************************)
(* Types and addresses.                                                    *)
(***************************************************************************)
LEMMA TypeInit == Init => TypeOK
  <1> SUFFICES ASSUME Init PROVE TypeOK
    OBVIOUS
  <1>1. 0 \in 0..MaxTime /\ 0 <= MaxMessages /\ 0 <= MaxRuns
    BY EndpointsAssumption
  <1>2. /\ sent = <<>> /\ runs = <<>> /\ now = 0 /\ cursor = [e \in AllEndpoints |-> None]
        /\ taken = [e \in AllEndpoints |-> {}]
    BY DEF Init
  <1>3. /\ sent \in Seq(Message) /\ runs \in Seq(Run) /\ Len(sent) = 0 /\ Len(runs) = 0
    BY <1>2
  <1> QED
    BY <1>1, <1>2, <1>3 DEF TypeOK

(* What the runs that are leased look like. *)
LEMMA RunFields ==
  ASSUME TypeOK, NEW i \in DOMAIN runs
  PROVE  /\ i \in 1..MaxRuns /\ runs[i].session \in Sessions
         /\ [runs EXCEPT ![i].live = FALSE] \in Seq(Run)
         /\ Len([runs EXCEPT ![i].live = FALSE]) = Len(runs)
  <1>1. runs \in Seq(Run) /\ Len(runs) <= MaxRuns /\ Len(runs) \in Nat /\ DOMAIN runs = 1..Len(runs)
    BY DEF TypeOK
  <1>2. i \in 1..MaxRuns /\ runs[i] \in Run
    BY <1>1, EndpointsAssumption
  <1>3. [runs[i] EXCEPT !.live = FALSE] \in Run
    BY <1>2 DEF Run
  <1>4. /\ [runs EXCEPT ![i] = [runs[i] EXCEPT !.live = FALSE]] \in Seq(Run)
        /\ Len([runs EXCEPT ![i] = [runs[i] EXCEPT !.live = FALSE]]) = Len(runs)
    BY <1>1, <1>3
  <1> QED
    BY <1>2, <1>4 DEF Run

(* Messages are added to a log and never taken from it. *)
LEMMA SentStays ==
  ASSUME TypeOK, NEW s \in Sessions, NEW e \in AllEndpoints, NEW i \in 0..MaxRuns, NEW j \in 0..MaxRuns,
         \/ Sends(s, e, i)
         \/ /\ Len(sent) + 1 < MaxMessages
            /\ sent' = sent \o <<Packet(s, e, i), Packet(s, e, j)>>
  PROVE  /\ sent' \in Seq(Message) /\ Len(sent') <= MaxMessages
         /\ DOMAIN sent \subseteq DOMAIN sent' /\ \A m \in DOMAIN sent : sent'[m] = sent[m]
  <1> DEFINE p == Packet(s, e, i)
             q == Packet(s, e, j)
  <1>1. sent \in Seq(Message) /\ p \in Message /\ q \in Message /\ MaxMessages \in Nat
    BY EndpointsAssumption DEF TypeOK, Packet, Message
  <1>2. \/ Len(sent) < MaxMessages /\ sent' = Append(sent, p)
        \/ Len(sent) + 1 < MaxMessages /\ sent' = sent \o <<p, q>>
    BY DEF Sends
  <1> HIDE DEF p, q
  <1>3. CASE Len(sent) < MaxMessages /\ sent' = Append(sent, p)
    BY <1>1, <1>3
  <1>4. CASE Len(sent) + 1 < MaxMessages /\ sent' = sent \o <<p, q>>
    <2>1. /\ sent' \in Seq(Message) /\ Len(sent') = Len(sent) + 2 /\ Len(sent) \in Nat
          /\ DOMAIN sent = 1..Len(sent) /\ DOMAIN sent' = 1..(Len(sent) + 2)
          /\ \A m \in 1..Len(sent) : sent'[m] = sent[m]
      BY <1>1, <1>4
    <2> QED
      BY <1>1, <1>4, <2>1
  <1> QED
    BY <1>2, <1>3, <1>4

(* A step that may send messages and moves a cursor, if any, to a message  *)
(* addressed to its endpoint.                                              *)
LEMMA TypeStep ==
  ASSUME TypeOK, UNCHANGED <<now, taken>>,
         \/ UNCHANGED cursor
         \/ \E e \in AllEndpoints, m \in DOMAIN sent :
              sent[m].to = e /\ cursor' = [cursor EXCEPT ![e] = m],
         runs' \in Seq(Run), Len(runs') <= MaxRuns,
         \/ UNCHANGED sent
         \/ \E s \in Sessions, e \in AllEndpoints, i \in 0..MaxRuns, j \in 0..MaxRuns :
              \/ Sends(s, e, i)
              \/ /\ Len(sent) + 1 < MaxMessages
                 /\ sent' = sent \o <<Packet(s, e, i), Packet(s, e, j)>>
  PROVE  TypeOK'
  <1>1. /\ sent' \in Seq(Message) /\ Len(sent') <= MaxMessages
        /\ DOMAIN sent \subseteq DOMAIN sent' /\ \A m \in DOMAIN sent : sent'[m] = sent[m]
    BY SentStays DEF TypeOK
  <1>2. None \notin DOMAIN sent
    BY DEF TypeOK, None
  <1>3. /\ cursor' \in [AllEndpoints -> {None} \cup DOMAIN sent]
        /\ \A e \in AllEndpoints : cursor'[e] # None => sent[cursor'[e]].to = e
    BY <1>2 DEF TypeOK
  <1> QED
    BY <1>1, <1>3 DEF TypeOK

LEMMA TypeNext == TypeOK /\ [Next]_vars => TypeOK'
  <1> SUFFICES ASSUME TypeOK, [Next]_vars PROVE TypeOK'
    OBVIOUS
  <1>0. /\ runs \in Seq(Run) /\ Len(runs) <= MaxRuns /\ None \in 0..MaxRuns
        /\ \A i \in DOMAIN runs : i \in 0..MaxRuns /\ runs[i].session \in Sessions
    <2>1. runs \in Seq(Run) /\ Len(runs) <= MaxRuns /\ None \in 0..MaxRuns
      BY EndpointsAssumption DEF TypeOK, None
    <2>2. \A i \in DOMAIN runs : i \in 1..MaxRuns /\ runs[i].session \in Sessions
      BY RunFields
    <2> QED
      BY <2>1, <2>2, EndpointsAssumption
  <1>1. ASSUME NEW i \in DOMAIN runs, Ends(i) PROVE runs' \in Seq(Run) /\ Len(runs') <= MaxRuns
    BY <1>0, <1>1, RunFields DEF Ends
  <1>2. CASE UNCHANGED vars
    BY <1>0, <1>2, TypeStep DEF vars
  <1>3. ASSUME NEW e \in AllEndpoints, Receive(e) PROVE TypeOK'
    <2>1. PICK m \in Unread(e) : cursor' = [cursor EXCEPT ![e] = m]
                                /\ taken' = [taken EXCEPT ![e] = @ \cup {m}]
                                /\ UNCHANGED <<sent, runs, now>>
      BY <1>3 DEF Receive
    <2>2. m \in DOMAIN sent /\ sent[m].to = e
      BY DEF Unread
    <2> QED
      BY <2>1, <2>2 DEF TypeOK
  <1>4. ASSUME NEW s \in Sessions, NEW e \in AllEndpoints, Send(s, e) PROVE TypeOK'
    BY <1>0, <1>4, TypeStep DEF Send
  <1>5. ASSUME NEW s \in Sessions, Lease(s) PROVE TypeOK'
    <2> DEFINE r == [session |-> s, seen |-> Len(sent), live |-> TRUE]
    <2>1. r \in Run
      BY DEF TypeOK, Run
    <2>2. runs' = Append(runs, r) /\ Len(runs) < MaxRuns
      BY <1>5 DEF Lease
    <2> HIDE DEF r
    <2>3. runs' \in Seq(Run) /\ Len(runs') <= MaxRuns
      BY <1>0, <2>1, <2>2, EndpointsAssumption
    <2> QED
      BY <1>5, <2>3, TypeStep DEF Lease
  <1>6. ASSUME NEW i \in DOMAIN runs, NEW e \in AllEndpoints, AgentSend(i, e) PROVE TypeOK'
    BY <1>0, <1>6, TypeStep DEF AgentSend
  <1>7. ASSUME NEW i \in DOMAIN runs, UserInput(i) PROVE TypeOK'
    BY <1>0, <1>7, TypeStep, KindsDiffer DEF UserInput
  <1>8. ASSUME NEW i \in DOMAIN runs, Commit(i) PROVE TypeOK'
    <2>1. \/ UNCHANGED cursor
          \/ \E e \in AllEndpoints, m \in DOMAIN sent :
               sent[m].to = e /\ cursor' = [cursor EXCEPT ![e] = m]
      BY <1>8 DEF Commit, MarkDelivered, LastFor
    <2>2. UNCHANGED sent \/ Sends(runs[i].session, Address[runs[i].session], i)
      BY <1>8 DEF Commit
    <2>3. runs' \in Seq(Run) /\ Len(runs') <= MaxRuns /\ UNCHANGED <<now, taken>>
      BY <1>1, <1>8 DEF Commit
    <2> QED
      BY <1>0, <2>1, <2>2, <2>3, TypeStep, KindsDiffer
  <1>9. ASSUME NEW i \in DOMAIN runs, CommitWorker(i) PROVE TypeOK'
    BY <1>0, <1>1, <1>9, TypeStep, KindsDiffer DEF CommitWorker
  <1>10. ASSUME NEW i \in DOMAIN runs, Lose(i) PROVE TypeOK'
    BY <1>0, <1>1, <1>10, TypeStep DEF Lose
  <1>11. CASE Tick
    BY <1>11, EndpointsAssumption DEF Tick, TypeOK
  <1> QED
    BY <1>2, <1>3, <1>4, <1>5, <1>6, <1>7, <1>8, <1>9, <1>10, <1>11 DEF Next, ReceiveNothing

(* The cursor of an endpoint stands at a message addressed to it, also     *)
(* when a run that commits moves it (_advance_endpoint_cursor).            *)
THEOREM CursorsAtOwnMessages == Spec => []TypeOK
  BY TypeInit, TypeNext, PTL DEF Spec
=============================================================================
