--------------------------- MODULE BadgerLogStore ---------------------------
(***************************************************************************)
(* The log store and the stable store of one node (store/raft/             *)
(* badger_store.go), under the calls that Raft makes to them: its main     *)
(* goroutine appends entries and drops a suffix that conflicts with the    *)
(* leader's, its snapshot goroutine drops the entries a snapshot covers,   *)
(* and the process may stop between any two transactions.  DeleteRange     *)
(* commits in parts of at most TxnLimit keys.                              *)
(***************************************************************************)
EXTENDS Integers, FiniteSets, Functions

CONSTANTS
  Terms,        \* what tells entries of one index apart
  Candidates,
  NotFound,     \* ErrKeyNotFound, ErrLogNotFound
  TxnLimit,     \* how many deletes fit into a badger transaction
  Trailing,     \* raft.Config.TrailingLogs
  LongSuffixes, \* whether a conflicting suffix may exceed TxnLimit
  Start,        \* the node begins with a snapshot at this index
  MaxIndex      \* bound: indexes

ASSUME LogStoreAssumption ==
  /\ Terms \subseteq Nat \ {0}
  /\ NotFound \notin Nat \cup Candidates
  /\ {TxnLimit} \subseteq Nat \ {0}
  /\ {Trailing, Start, MaxIndex} \subseteq Nat
  /\ LongSuffixes \in BOOLEAN

VARIABLES
  logs,     \* the log database: a function from indexes to entries
  del,      \* del[g]: the range goroutine g's DeleteRange has left, or <<>>
  stable,   \* the stable database: the vote's term and candidate
  up,
  last,     \* Raft: the index of the last entry, in memory
  snap,     \* Raft: the index of the newest snapshot, on disk
  commit,   \* Raft: the highest index the cluster has committed
  acked,    \* ghost: the entries that Raft was told are stored
  voting,   \* Raft: the vote that is being recorded, or <<>>
  granted   \* ghost: the votes that were answered

logVars == <<logs, del, last, snap, commit, acked>>
voteVars == <<stable, voting, granted>>
vars == <<logVars, voteVars, up>>

Goroutines == {"main", "snapshots"}
Entries(from, to) == [from .. to -> Terms]

Init ==
  /\ logs = << >>
  /\ del = [g \in Goroutines |-> << >>]
  /\ stable = [term |-> NotFound, candidate |-> NotFound]
  /\ up = TRUE
  /\ last = 0
  /\ snap = Start
  /\ commit = Start
  /\ acked = << >>
  /\ voting = << >>
  /\ granted = {}

-----------------------------------------------------------------------------
(* Reading and writing the log database.                                   *)

(* Badger orders keys by their bytes: the high ones and the lowest one.    *)
KeyLittleEndian(i) == <<i % 256, i \div 256>>   \* plausible bug
Key(i) == <<i \div 256, i % 256>>

AtMost(i, j) ==
  LET k == Key(i) l == Key(j) IN k[1] < l[1] \/ (k[1] = l[1] /\ k[2] <= l[2])

(* The first key of an iteration, and of a reverse one; 0 without keys.    *)
FirstIndex ==
  IF DOMAIN logs = {} THEN 0
  ELSE CHOOSE i \in DOMAIN logs : \A j \in DOMAIN logs : AtMost(i, j)

LastIndex ==
  IF DOMAIN logs = {} THEN 0
  ELSE CHOOSE i \in DOMAIN logs : \A j \in DOMAIN logs : AtMost(j, i)

GetLog(i) == IF i \in DOMAIN logs THEN logs[i] ELSE NotFound

StoreLogsShifted(batch) ==   \* plausible bug: the keys are off by one
  logs' = [i \in DOMAIN logs \cup {j + 1 : j \in DOMAIN batch} |->
             IF i - 1 \in DOMAIN batch THEN batch[i - 1] ELSE logs[i]]

(* One transaction.  That its commit fails, which leaves the store as it   *)
(* is, and what Raft then takes for its last entry are not modelled.       *)
StoreLogs(batch) ==
  logs' = [i \in DOMAIN logs \cup DOMAIN batch |->
             IF i \in DOMAIN batch THEN batch[i] ELSE logs[i]]

Without(gone) == logs' = Restrict(logs, DOMAIN logs \ gone)

InRangeTooFar(range) ==   \* plausible bug: one key too many
  {i \in DOMAIN logs : range[1] <= i /\ i <= range[2] + 1}
InRange(range) == {i \in DOMAIN logs : range[1] <= i /\ i <= range[2]}

(* The keys a transaction takes, from the lowest on, until it is full.     *)
Fitting(range) ==
  {i \in InRange(range) : Cardinality({j \in InRange(range) : j < i}) < TxnLimit}

-----------------------------------------------------------------------------
(* DeleteRange as a goroutine runs it: it commits what fits and calls      *)
(* itself for the rest.  A commit may fail, and leaves what is left.       *)

DeleteRange(g) ==
  /\ up /\ del[g] # << >>
  /\ Without(Fitting(del[g]))
  /\ LET done == Fitting(del[g]) = InRange(del[g]) IN
       /\ del' = [del EXCEPT ![g] = IF done THEN << >> ELSE @]
       /\ last' = IF done /\ g = "main" THEN del[g][1] - 1 ELSE last
  /\ UNCHANGED <<voteVars, up, snap, commit, acked>>

DeleteFails(g) ==
  /\ up /\ del[g] # << >>
  /\ del' = [del EXCEPT ![g] = << >>]
  /\ UNCHANGED <<voteVars, up, logs, last, snap, commit, acked>>

-----------------------------------------------------------------------------
(* What Raft does with the log.                                            *)

Newer(i, j) == IF i < j THEN j ELSE i
Older(i, j) == IF i < j THEN i ELSE j

(* Entries are appended behind the last one or the snapshot.               *)
Append ==
  /\ up /\ del["main"] = << >>
  /\ \E to \in Newer(last, snap) + 1 .. MaxIndex :
       \E batch \in Entries(Newer(last, snap) + 1, to) :
         /\ StoreLogs(batch)
         /\ last' = to
         /\ acked' = [i \in DOMAIN acked \cup DOMAIN batch |->
                        IF i \in DOMAIN batch THEN batch[i] ELSE acked[i]]
  /\ UNCHANGED <<voteVars, up, del, snap, commit>>

(* The leader has another entry at i: this one and what follows goes.      *)
Truncate(i) ==
  /\ up /\ del["main"] = << >>
  /\ commit < i /\ i <= last
  /\ \E term \in Terms : GetLog(i) \notin {term, NotFound}
  /\ LongSuffixes \/ last - i < TxnLimit
  /\ del' = [del EXCEPT !["main"] = <<i, last>>]
  /\ acked' = Restrict(acked, {j \in DOMAIN acked : j < i})
  /\ UNCHANGED <<voteVars, up, logs, last, snap, commit>>

Commit(i) ==
  /\ up /\ commit < i /\ i <= last /\ del["main"] = << >>
  /\ commit' = i
  /\ UNCHANGED <<voteVars, up, logs, del, last, snap, acked>>

TakeSnapshot(i) ==
  /\ up /\ snap < i /\ i <= commit /\ del["snapshots"] = << >>
  /\ snap' = i
  /\ UNCHANGED <<voteVars, up, logs, del, last, commit, acked>>

(* The leader ships a snapshot, perhaps of entries this node never had.    *)
InstallSnapshot(i) ==
  /\ up /\ snap < i /\ del["main"] = << >>
  /\ snap' = i
  /\ commit' = Newer(commit, i)
  /\ UNCHANGED <<voteVars, up, logs, del, last, acked>>

(* compactLogs, after a snapshot.                                          *)
Compact ==
  /\ up /\ del["snapshots"] = << >>
  /\ Trailing < last
  /\ LET max == Older(snap, last - Trailing) IN
       /\ FirstIndex <= max
       /\ del' = [del EXCEPT !["snapshots"] = <<FirstIndex, max>>]
  /\ UNCHANGED <<voteVars, up, logs, last, snap, commit, acked>>

-----------------------------------------------------------------------------
(* The stable store, and the vote that Raft keeps in it.                   *)

SetUnsynced(key, val) ==   \* plausible bug: SyncWrites is off, the write may be lost
  stable' \in {[stable EXCEPT ![key] = val], stable}
Set(key, val) == stable' = [stable EXCEPT ![key] = val]
Get(key) == stable[key]

(* A vote in a term is given once; it is recorded with two writes.         *)
RequestVote(t, c) ==
  /\ up /\ voting = << >>
  /\ Get("term") # NotFound => Get("term") <= t
  /\ IF Get("term") = t /\ Get("candidate") # NotFound
     THEN /\ Get("candidate") = c
          /\ granted' = granted \cup {<<t, c>>}
          /\ UNCHANGED <<stable, voting>>
     ELSE /\ Set("term", t)
          /\ voting' = <<t, c>>
          /\ UNCHANGED granted
  /\ UNCHANGED <<logVars, up>>

RecordVote ==
  /\ up /\ voting # << >>
  /\ Set("candidate", voting[2])
  /\ granted' = granted \cup {voting}
  /\ voting' = << >>
  /\ UNCHANGED <<logVars, up>>

-----------------------------------------------------------------------------
Crash ==
  /\ up
  /\ up' = FALSE
  /\ del' = [g \in Goroutines |-> << >>]
  /\ voting' = << >>
  /\ UNCHANGED <<logs, last, snap, commit, acked, stable, granted>>

(* raft.NewRaft fails when an entry behind the snapshot is missing.        *)
Open ==
  /\ ~up
  /\ \A i \in snap + 1 .. LastIndex : GetLog(i) # NotFound
  /\ up' = TRUE
  /\ last' = LastIndex
  /\ UNCHANGED <<voteVars, logs, del, snap, commit, acked>>

Next ==
  \/ Append \/ Compact \/ Crash \/ Open \/ RecordVote
  \/ \E g \in Goroutines : DeleteRange(g) \/ DeleteFails(g)
  \/ \E i \in Start .. MaxIndex :
       Truncate(i) \/ Commit(i) \/ TakeSnapshot(i) \/ InstallSnapshot(i)
  \/ \E t \in Terms, c \in Candidates : RequestVote(t, c)

Spec == Init /\ [][Next]_vars

-----------------------------------------------------------------------------
(* Properties.                                                             *)

Ranges == {<< >>} \cup (Nat \X Nat)

(* Types.                                                                  *)
TypeOK ==
  /\ DOMAIN logs \subseteq 1 .. MaxIndex /\ logs \in [DOMAIN logs -> Terms]
  /\ del \in [Goroutines -> Ranges]
  /\ stable \in [term : Terms \cup {NotFound}, candidate : Candidates \cup {NotFound}]
  /\ up \in BOOLEAN
  /\ {last, snap, commit} \subseteq Nat
  /\ DOMAIN acked \subseteq 1 .. MaxIndex /\ acked \in [DOMAIN acked -> Terms]
  /\ voting \in {<< >>} \cup (Terms \X Candidates)
  /\ granted \subseteq Terms \X Candidates

(* The node can start at any moment: nothing is missing between the newest *)
(* snapshot and the end of the log, though DeleteRange commits in parts    *)
(* and two of them run at once (NewRaft returns an error otherwise, and    *)
(* main stops).                                                            *)
Restartable == \A j \in DOMAIN logs : \A i \in snap + 1 .. j : i \in DOMAIN logs

(* What Raft was told is stored is there, and Raft knows how far it goes,  *)
(* after every crash, compaction and truncation (StoreLogs, LastIndex).    *)
AckedKept ==
  \A i \in DOMAIN acked : snap < i =>
    /\ i \in DOMAIN logs /\ logs[i] = acked[i]
    /\ up => i <= last

(* The node answers with one vote in a term, whatever it forgets when it   *)
(* stops between the two writes of persistVote (BadgerStore.Set, Get).     *)
OneVotePerTerm == \A v, w \in granted : v[1] = w[1] => v[2] = w[2]
=============================================================================
