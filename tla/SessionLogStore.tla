--------------------------- MODULE SessionLogStore ---------------------------
(***************************************************************************)
(* The files behind the SessionLogs (kernel/storage.py): framed segments   *)
(* and one index per Session, written by processes that hold state.lock    *)
(* one at a time and may die between, or inside, any two writes.           *)
(*                                                                         *)
(* A writer takes the lock, numbers its new records after the index, and   *)
(* save() then appends them Session by Session: recover the log if the     *)
(* index does not match it, write and sync the frames, replace the index.  *)
(* The state files follow one by one, and the transaction returns.         *)
(***************************************************************************)
EXTENDS Naturals, Sequences, FiniteSets, FiniteSetsExt

CONSTANTS
  Sessions,     (* Session ids                                             *)
  MaxSegment,   (* MAX_SEGMENT_BYTES, counted in frames                    *)
  InitFirst,    (* after a crash, Store.init runs before the next writer:  *)
                (* true of daemon and console, which call it when they     *)
                (* start, and of no other command                          *)
  MaxBatch,     (* bound on the records of one transaction and Session     *)
  MaxRecords,   (* bound on the records of a Session                       *)
  MaxCrashes    (* bound on crashes                                        *)

ASSUME StoreAssumption ==
  /\ InitFirst \in BOOLEAN
  /\ MaxSegment \in Nat \ {0}
  /\ MaxBatch \in Nat \ {0}
  /\ MaxRecords \in Nat
  /\ MaxCrashes \in Nat

(* A frame holds a record under its seq.  A frame cut short by a crash,    *)
(* and whatever bytes follow it, do not pass the length and checksum test. *)
Frame == [seq : Nat, rec : Nat]
Torn == [seq |-> 0, rec |-> 0]

VARIABLES
  disk,        (* the segments of each Session: first seq -> frames        *)
  index,       (* log.index.json: the latest seq and the segment sizes     *)
  state,       (* the item file of each Session: how far in its log the    *)
               (* cursors and the state saved there reach                  *)
  pc,          (* what the holder of state.lock does next                  *)
  tx,          (* its state in memory                                      *)
  unrecovered, (* Sessions not recovered since the last crash              *)
  issued,      (* how many records each Session was given                  *)
  acked,       (* the records whose transaction returned                   *)
  crashes      (* how many of MaxCrashes happened                          *)

logs == <<disk, index>>
counters == <<issued, acked, crashes>>
vars == <<disk, index, state, pc, tx, unrecovered, issued, acked, crashes>>

NoIndex == [latest |-> 0, sizes |-> <<>>]
NoTx == [batch |-> [s \in Sessions |-> <<>>], own |-> [s \in Sessions |-> {}],
         left |-> {}, at |-> "none", staged |-> NoIndex, items |-> {}]

-----------------------------------------------------------------------------
(***************************************************************************)
(* Scanning a log: segments in the order of their names, each up to its    *)
(* first invalid byte.                                                     *)
(***************************************************************************)
Whole(f) ==
  LET cuts == {n \in DOMAIN f : f[n] = Torn}
  IN IF cuts = {} THEN f ELSE SubSeq(f, 1, Min(cuts) - 1)

Places(s) == UNION {{<<x, n>> : n \in DOMAIN Whole(disk[s][x])} : x \in DOMAIN disk[s]}
FrameAt(s, p) == disk[s][p[1]][p[2]]
UpTo(s, p) == {q \in Places(s) : q[1] < p[1] \/ (q[1] = p[1] /\ q[2] <= p[2])}

(* _validate_sequence over the whole log. *)
InOrder(s) == \A p \in Places(s) : FrameAt(s, p).seq = Cardinality(UpTo(s, p))
Scanned(s) ==
  [n \in 1..Cardinality(Places(s)) |->
     FrameAt(s, CHOOSE p \in Places(s) : FrameAt(s, p).seq = n)]

(* Mutant: a rebuild measures the segments but keeps the latest seq. *)
RemeasuredIndex(s) ==
  [latest |-> index[s].latest,
   sizes |-> [x \in DOMAIN disk[s] |-> Len(Whole(disk[s][x]))]]
RebuiltIndex(s) ==
  [latest |-> Cardinality(Places(s)),
   sizes |-> [x \in DOMAIN disk[s] |-> Len(Whole(disk[s][x]))]]
(* Mutant: the torn tail is left in the segment. *)
RebuildInPlace(s) ==
  /\ InOrder(s)
  /\ index' = [index EXCEPT ![s] = RebuiltIndex(s)]
  /\ UNCHANGED disk
Rebuild(s) ==
  /\ InOrder(s)
  /\ disk' = [disk EXCEPT ![s] = [x \in DOMAIN @ |-> Whole(@[x])]]
  /\ index' = [index EXCEPT ![s] = RebuiltIndex(s)]

(* The size of the last indexed segment decides whether the index is up to *)
(* date.                                                                   *)
Trusted(s) ==
  LET sizes == index[s].sizes
      last == Max(DOMAIN sizes)
  IN DOMAIN sizes # {} /\ last \in DOMAIN disk[s] /\ Len(disk[s][last]) = sizes[last]

-----------------------------------------------------------------------------
(***************************************************************************)
(* A transaction takes the lock and appends entries in memory.  A Session  *)
(* whose log it also read in full (_session_log_entries) has the persisted *)
(* entries in memory too.                                                  *)
(***************************************************************************)
NextSeq(s, full) ==
  LET read == IF full THEN Cardinality(Places(s)) ELSE 0
  IN Max({index[s].latest, read}) + 1

Entries(s, k, full) ==
  (IF full THEN Scanned(s) ELSE <<>>)
    \o [n \in 1..k |-> [seq |-> NextSeq(s, full) + n - 1, rec |-> issued[s] + n]]

Begin(count, full) ==
  /\ pc = "idle"
  /\ InitFirst => unrecovered = {}
  /\ \A s \in Sessions : issued[s] + count[s] <= MaxRecords
  /\ \A s \in full : InOrder(s)
  /\ issued' = [s \in Sessions |-> issued[s] + count[s]]
  /\ tx' = [NoTx EXCEPT
       !.batch = [s \in Sessions |-> Entries(s, count[s], s \in full)],
       !.own = [s \in Sessions |-> (issued[s] + 1)..(issued[s] + count[s])],
       !.left = {s \in Sessions : Entries(s, count[s], s \in full) # <<>>},
       !.items = Sessions]
  /\ tx'.left # {}
  /\ pc' = "log"
  /\ UNCHANGED <<logs, state, unrecovered, acked, crashes>>

-----------------------------------------------------------------------------
(***************************************************************************)
(* append_session_log_entries, for one Session after the other.            *)
(***************************************************************************)
(* Entries at or below the recovered seq are taken for persisted.  They    *)
(* come first: the entries of a batch are in the order of their seqs.      *)
Pending(s) ==
  LET persisted == {n \in DOMAIN tx.batch[s] : tx.batch[s][n].seq <= index[s].latest}
  IN SubSeq(tx.batch[s], Cardinality(persisted) + 1, Len(tx.batch[s]))

OpenLog(s) ==
  /\ pc = "log" /\ s \in tx.left
  /\ IF Trusted(s) THEN UNCHANGED logs ELSE Rebuild(s)
  /\ tx' = [tx EXCEPT !.left = @ \ {s}, !.at = s]
  /\ pc' = "frames"
  /\ UNCHANGED <<state, unrecovered, counters>>

ActiveSegment(s) ==
  IF DOMAIN index[s].sizes = {} THEN Pending(s)[1].seq ELSE Max(DOMAIN index[s].sizes)
SizeOf(s, x) == IF x \in DOMAIN disk[s] THEN Len(disk[s][x]) ELSE 0
Rotates(s) ==
  LET size == SizeOf(s, ActiveSegment(s)) IN size > 0 /\ size + Len(Pending(s)) > MaxSegment
Target(s) == IF Rotates(s) THEN Pending(s)[1].seq ELSE ActiveSegment(s)

(* The segment x of Session s, opened with O_APPEND, after fs was written. *)
Appended(s, x, fs) ==
  [y \in DOMAIN disk[s] \cup {x} |->
     IF y = x THEN (IF x \in DOMAIN disk[s] THEN disk[s][x] ELSE <<>>) \o fs ELSE disk[s][y]]

(* Mutant: the latest seq is that of the record to come. *)
StagedIndexOneAhead(s) ==
  LET x == Target(s)
      old == IF Rotates(s) THEN 0 ELSE SizeOf(s, x)
  IN [latest |-> Pending(s)[Len(Pending(s))].seq + 1,
      sizes |-> [y \in DOMAIN index[s].sizes \cup {x} |->
                   IF y = x THEN old + Len(Pending(s)) ELSE index[s].sizes[y]]]
(* Mutant: the index counts the new frames of a segment only. *)
StagedIndexOfNew(s) ==
  LET x == Target(s)
  IN [latest |-> Pending(s)[Len(Pending(s))].seq,
      sizes |-> [y \in DOMAIN index[s].sizes \cup {x} |->
                   IF y = x THEN Len(Pending(s)) ELSE index[s].sizes[y]]]
StagedIndex(s) ==
  LET x == Target(s)
      old == IF Rotates(s) THEN 0 ELSE SizeOf(s, x)
  IN [latest |-> Pending(s)[Len(Pending(s))].seq,
      sizes |-> [y \in DOMAIN index[s].sizes \cup {x} |->
                   IF y = x THEN old + Len(Pending(s)) ELSE index[s].sizes[y]]]

(* Nothing left to write: the append returns without a word. *)
NothingPending(s) ==
  /\ pc = "frames" /\ tx.at = s /\ Pending(s) = <<>>
  /\ pc' = IF tx.left = {} THEN "files" ELSE "log"
  /\ tx' = [tx EXCEPT !.at = "none"]
  /\ UNCHANGED <<logs, state, unrecovered, counters>>

Expected(s) == \A n \in DOMAIN Pending(s) : Pending(s)[n].seq = index[s].latest + n

WriteFrames(s) ==
  /\ pc = "frames" /\ tx.at = s /\ Pending(s) # <<>> /\ Expected(s)
  /\ disk' = [disk EXCEPT ![s] = Appended(s, Target(s), Pending(s))]
  /\ tx' = [tx EXCEPT !.staged = StagedIndex(s)]
  /\ pc' = "index"
  /\ UNCHANGED <<index, state, unrecovered, counters>>

(* The index is replaced by an atomic rename. *)
WriteIndex(s) ==
  /\ pc = "index" /\ tx.at = s
  /\ index' = [index EXCEPT ![s] = tx.staged]
  /\ tx' = [tx EXCEPT !.at = "none", !.staged = NoIndex]
  /\ pc' = IF tx.left = {} THEN "files" ELSE "log"
  /\ UNCHANGED <<disk, state, unrecovered, counters>>

(* Mutant: the collections are saved before the logs are. *)
SavingAnyTime == pc \in {"log", "files"}
Saving == pc = "files"
(* The state in memory knows the log up to the entries of the transaction. *)
Reached(s) ==
  IF tx.batch[s] = <<>> THEN index[s].latest ELSE tx.batch[s][Len(tx.batch[s])].seq
(* _save_item_collection: one file after the other, each replaced by an    *)
(* atomic rename.                                                          *)
WriteItem(s) ==
  /\ Saving /\ s \in tx.items
  /\ state' = [state EXCEPT ![s] = Reached(s)]
  /\ tx' = [tx EXCEPT !.items = @ \ {s}]
  /\ UNCHANGED <<logs, pc, unrecovered, counters>>

(* All is written, and the transaction returns. *)
Return ==
  /\ pc = "files" /\ tx.items = {}
  /\ acked' = [s \in Sessions |-> acked[s] \cup tx.own[s]]
  /\ pc' = "idle" /\ tx' = NoTx
  /\ UNCHANGED <<logs, state, unrecovered, issued, crashes>>

-----------------------------------------------------------------------------
(***************************************************************************)
(* Crashes and recovery.  A process that raises releases the lock with its *)
(* transaction half done, as one that dies does.                           *)
(***************************************************************************)
Dies ==
  /\ crashes < MaxCrashes /\ crashes' = crashes + 1
  /\ pc' = "idle" /\ tx' = NoTx
  /\ unrecovered' = Sessions
  /\ UNCHANGED <<state, issued, acked>>

Crash == pc # "idle" /\ Dies /\ UNCHANGED logs

(* Some whole frames, and perhaps part of the next, reached the segment. *)
CrashInWrite(s) ==
  /\ pc = "frames" /\ tx.at = s /\ Pending(s) # <<>> /\ Expected(s)
  /\ \E k \in 0..(Len(Pending(s)) - 1), tail \in {<<>>, <<Torn>>} :
       disk' = [disk EXCEPT ![s] = Appended(s, Target(s), SubSeq(Pending(s), 1, k) \o tail)]
  /\ Dies /\ UNCHANGED index

(* recover_all_session_logs, one Session after the other.  Every log with  *)
(* a frame has an index file: OpenLog wrote it first.                      *)
Recover(s) ==
  /\ pc = "idle" /\ s \in unrecovered
  /\ Rebuild(s)
  /\ unrecovered' = unrecovered \ {s}
  /\ UNCHANGED <<state, pc, tx, counters>>

-----------------------------------------------------------------------------
Init ==
  /\ disk = [s \in Sessions |-> <<>>]
  /\ index = [s \in Sessions |-> NoIndex]
  /\ state = [s \in Sessions |-> 0]
  /\ pc = "idle" /\ tx = NoTx
  /\ unrecovered = {}
  /\ issued = [s \in Sessions |-> 0]
  /\ acked = [s \in Sessions |-> {}]
  /\ crashes = 0

Next ==
  \/ \E count \in [Sessions -> 0..MaxBatch], full \in SUBSET Sessions : Begin(count, full)
  \/ \E s \in Sessions : OpenLog(s)
  \/ \E s \in Sessions : NothingPending(s)
  \/ \E s \in Sessions : WriteFrames(s)
  \/ \E s \in Sessions : WriteIndex(s)
  \/ \E s \in Sessions : WriteItem(s)
  \/ Return
  \/ Crash
  \/ \E s \in Sessions : CrashInWrite(s)
  \/ \E s \in Sessions : Recover(s)

Spec == Init /\ [][Next]_vars

-----------------------------------------------------------------------------
(* Every component of the state has its type. *)
TypeOK ==
  /\ \A s \in Sessions :
       /\ DOMAIN disk[s] \subseteq 1..MaxRecords
       /\ \A x \in DOMAIN disk[s] : disk[s][x] \in Seq(Frame)
       /\ index[s].latest \in 0..MaxRecords
       /\ DOMAIN index[s].sizes \subseteq DOMAIN disk[s]
       /\ state[s] \in 0..MaxRecords
       /\ acked[s] \subseteq 1..issued[s] /\ issued[s] \in 0..MaxRecords
  /\ pc \in {"idle", "log", "frames", "index", "files"}
  /\ tx.at \in {"none"} \cup Sessions /\ tx.left \subseteq Sessions
  /\ unrecovered \subseteq Sessions
  /\ crashes \in 0..MaxCrashes

(* "Every SessionLog record has a strictly increasing, gap-free seq within *)
(* its Session" (doc/2026-08-08-session-log-writer-storage.md:13), in the  *)
(* order a scan of the segments yields them.                               *)
GapFree == \A s \in Sessions : InOrder(s)

(* A record whose transaction returned is in the log for good, whatever    *)
(* crashes before or after it (append_session_log_entries).                *)
AckedDurable ==
  \A s \in Sessions : acked[s] \subseteq {FrameAt(s, p).rec : p \in Places(s)}

(* The index by which the next writer numbers its records describes the    *)
(* segments exactly, once the recovery owed to a crash was done.           *)
IndexCurrent ==
  pc = "idle" /\ unrecovered = {} => \A s \in Sessions : index[s] = RebuiltIndex(s)

(* The saved state never runs ahead of the log it was derived from: no     *)
(* cursor points beyond the records on disk, wherever in a save of several *)
(* logs and files a crash falls (save writes all logs first).              *)
StateBehindLog == \A s \in Sessions : state[s] <= Cardinality(Places(s))

(* The storage implements the durable log: the records in scan order, and  *)
(* the acknowledged ones.                                                  *)
Order == [s \in Sessions |-> [n \in 1..Cardinality(Places(s)) |-> Scanned(s)[n].rec]]
Abstract == INSTANCE DurableLog WITH order <- Order, known <- acked, Records <- 1..MaxRecords
ImplementsDurableLog == Abstract!Spec
=============================================================================
