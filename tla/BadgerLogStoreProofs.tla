------------------------ MODULE BadgerLogStoreProofs ------------------------
(***************************************************************************)
(* Theorems about BadgerLogStore, for any entries, snapshots, transaction  *)
(* size and crashes: type correctness, that a node can always start, that  *)
(* no acknowledged entry is lost, and that a node votes once in a term.    *)
(***************************************************************************)
EXTENDS BadgerLogStore, FiniteSetTheorems, WellFoundedInduction, TLAPS

(* Raft drops entries behind what is committed, so from index 1 at least.  *)
TypeInv == TypeOK /\ (del["main"] # << >> => del["main"][1] > 0)

(* What Raft has in memory covers what is on disk, without a hole behind   *)
(* the snapshot; nothing is dropped twice.                                 *)
Covered ==
  /\ snap <= commit
  /\ \A j \in DOMAIN logs : j <= last
  /\ \A i \in snap + 1 .. last : i \in DOMAIN logs

(* The two goroutines delete apart: up to the snapshot, and behind what is *)
(* committed, where everything fits into one transaction.                  *)
Apart ==
  /\ ~up => \A g \in Goroutines : del[g] = << >>
  /\ del["snapshots"] # << >> => del["snapshots"][2] <= snap
  /\ del["main"] # << >> =>
       /\ commit < del["main"][1] /\ del["main"][1] <= last /\ del["main"][2] = last
       /\ last - del["main"][1] < TxnLimit
       /\ \A i \in DOMAIN acked : i < del["main"][1]

AckedCovered ==
  \A i \in DOMAIN acked : snap < i =>
    i \in DOMAIN logs /\ logs[i] = acked[i] /\ i <= last

LogInv == TypeOK /\ Covered /\ Apart /\ AckedCovered

-----------------------------------------------------------------------------
(* The order of the keys.                                                  *)

LEMMA KeyOrder ==
  ASSUME NEW i \in Nat, NEW j \in Nat
  PROVE  AtMost(i, j) <=> i <= j
  BY SMT DEF AtMost, Key

LEMMA NatMaximum ==
  ASSUME NEW S, S \subseteq Nat, S # {}, NEW m \in Nat, \A i \in S : i <= m
  PROVE  \E x \in S : \A y \in S : y <= x
<1> DEFINE T == {n \in Nat : n <= m /\ m - n \in S}
<1> DEFINE Less == {p \in Nat \X Nat : p[1] < p[2]}
<1>1. T \subseteq Nat /\ T # {}
  <2> PICK s \in S : TRUE
    OBVIOUS
  <2>1. m - s \in T /\ m - (m - s) = s
    OBVIOUS
  <2> QED
    BY <2>1
<1> HIDE DEF T
<1>2. IsWellFoundedOn(Less, Nat)
  BY NatLessThanWellFounded, Zenon DEF OpToRel
<1>3. PICK x \in T : \A y \in T : ~ (<<y, x>> \in Less)
  BY <1>1, <1>2, WFMin
<1>4. \A y \in T : ~ (y < x)
  BY <1>1, <1>3
<1>5. \A y \in S : m - y \in T
  BY DEF T
<1>6. m - x \in S /\ \A y \in S : y <= m - x
  BY <1>1, <1>4, <1>5 DEF T
<1> QED
  BY <1>6

LEMMA NatMinimum ==
  ASSUME NEW S, S \subseteq Nat, S # {}
  PROVE  \E x \in S : \A y \in S : x <= y
<1> DEFINE Less == {p \in Nat \X Nat : p[1] < p[2]}
<1>1. IsWellFoundedOn(Less, Nat)
  BY NatLessThanWellFounded, Zenon DEF OpToRel
<1>2. PICK x \in S : \A y \in S : ~ (<<y, x>> \in Less)
  BY <1>1, WFMin
<1>3. \A y \in S : ~ (y < x)
  BY <1>2
<1> QED
  BY <1>3

LEMMA LastIsMaximum ==
  ASSUME TypeOK
  PROVE  /\ LastIndex \in Nat
         /\ \A j \in DOMAIN logs : j <= LastIndex
         /\ DOMAIN logs # {} => LastIndex \in DOMAIN logs
<1> USE LogStoreAssumption
<1>1. DOMAIN logs \subseteq Nat /\ \A i \in DOMAIN logs : i <= MaxIndex
  BY DEF TypeOK
<1>2. CASE DOMAIN logs = {}
  BY <1>2 DEF LastIndex
<1>3. CASE DOMAIN logs # {}
  <2>1. PICK x \in DOMAIN logs : \A y \in DOMAIN logs : y <= x
    BY <1>1, <1>3, NatMaximum
  <2>2. \A i, j \in DOMAIN logs : AtMost(i, j) <=> i <= j
    BY <1>1, KeyOrder
  <2>3. LastIndex \in DOMAIN logs /\ \A j \in DOMAIN logs : AtMost(j, LastIndex)
    BY <1>3, <2>1, <2>2 DEF LastIndex
  <2> QED
    BY <1>1, <2>2, <2>3
<1> QED
  BY <1>2, <1>3

LEMMA FirstIsIndex ==
  ASSUME TypeOK
  PROVE  FirstIndex \in Nat
<1> USE LogStoreAssumption
<1>1. DOMAIN logs \subseteq Nat
  BY DEF TypeOK
<1>2. CASE DOMAIN logs = {}
  BY <1>2 DEF FirstIndex
<1>3. CASE DOMAIN logs # {}
  <2>1. PICK x \in DOMAIN logs : \A y \in DOMAIN logs : x <= y
    BY <1>1, <1>3, NatMinimum
  <2>2. \A i, j \in DOMAIN logs : AtMost(i, j) <=> i <= j
    BY <1>1, KeyOrder
  <2>3. FirstIndex \in DOMAIN logs
    BY <1>3, <2>1, <2>2 DEF FirstIndex
  <2> QED
    BY <1>1, <2>3
<1> QED
  BY <1>2, <1>3

(* A suffix that Raft drops goes with one transaction.                     *)
LEMMA SuffixFits ==
  ASSUME TypeOK, Covered, NEW min \in Nat, last - min < TxnLimit
  PROVE  Fitting(<<min, last>>) = InRange(<<min, last>>)
<1> USE LogStoreAssumption DEF TypeOK, InRange
<1> SUFFICES ASSUME NEW i \in InRange(<<min, last>>)
             PROVE  Cardinality({j \in InRange(<<min, last>>) : j < i}) < TxnLimit
  BY DEF Fitting
<1>1. {j \in InRange(<<min, last>>) : j < i} \in SUBSET (min .. i - 1)
  OBVIOUS
<1>2. i \in Nat /\ min <= i /\ i <= last
  OBVIOUS
<1>3. IsFiniteSet(min .. i - 1) /\ Cardinality(min .. i - 1) = i - min
  <2>1. min \in Int /\ i - 1 \in Int /\ (i - 1) - min + 1 = i - min
    BY <1>2
  <2>2. min > i - 1 => i - min = 0
    BY <1>2
  <2> QED
    BY <2>1, <2>2, FS_Interval
<1>4. IsFiniteSet({j \in InRange(<<min, last>>) : j < i})
  BY <1>1, <1>3, FS_Subset
<1>5. Cardinality({j \in InRange(<<min, last>>) : j < i}) <= i - min
  BY <1>1, <1>3, FS_Subset
<1>6. Cardinality({j \in InRange(<<min, last>>) : j < i}) \in Nat
  BY <1>4, FS_CardinalityType
<1> HIDE DEF InRange
<1> QED
  BY <1>2, <1>5, <1>6

-----------------------------------------------------------------------------
(* Types.                                                                  *)

LEMMA InitType == Init => TypeOK
  BY LogStoreAssumption DEF Init, TypeOK, Goroutines, Ranges

LEMMA AppendType == ASSUME TypeOK, Append PROVE TypeOK'
<1> USE LogStoreAssumption
<1>0. PICK to \in Newer(last, snap) + 1 .. MaxIndex :
        \E batch \in Entries(Newer(last, snap) + 1, to) :
          /\ StoreLogs(batch)
          /\ last' = to
          /\ acked' = [i \in DOMAIN acked \cup DOMAIN batch |->
                         IF i \in DOMAIN batch THEN batch[i] ELSE acked[i]]
  BY DEF Append
<1>1. PICK batch \in Entries(Newer(last, snap) + 1, to) :
        /\ StoreLogs(batch)
        /\ last' = to
        /\ acked' = [i \in DOMAIN acked \cup DOMAIN batch |->
                       IF i \in DOMAIN batch THEN batch[i] ELSE acked[i]]
  BY <1>0
<1>2. Newer(last, snap) \in Nat
  BY DEF TypeOK, Newer
<1>3. DOMAIN batch \subseteq 1 .. MaxIndex /\ \A i \in DOMAIN batch : batch[i] \in Terms
  BY <1>2 DEF Entries
<1>4. DOMAIN logs' \subseteq 1 .. MaxIndex /\ logs' \in [DOMAIN logs' -> Terms]
  BY <1>1, <1>3 DEF StoreLogs, TypeOK
<1>5. DOMAIN acked' \subseteq 1 .. MaxIndex /\ acked' \in [DOMAIN acked' -> Terms]
  BY <1>1, <1>3 DEF TypeOK
<1> QED
  BY <1>1, <1>2, <1>4, <1>5 DEF Append, voteVars, TypeOK

LEMMA DeleteType ==
  ASSUME TypeInv, NEW g \in Goroutines, DeleteRange(g) \/ DeleteFails(g)
  PROVE  TypeOK'
<1> USE LogStoreAssumption DEF TypeOK, TypeInv
<1>1. CASE DeleteFails(g)
  BY <1>1 DEF DeleteFails, voteVars, Ranges
<1>2. CASE DeleteRange(g)
  <2>1. DOMAIN logs' \subseteq 1 .. MaxIndex /\ logs' \in [DOMAIN logs' -> Terms]
    BY <1>2 DEF DeleteRange, Without, Restrict
  <2>2. del' \in [Goroutines -> Ranges]
    <3>1. del' = [del EXCEPT ![g] = << >>] \/ del' = [del EXCEPT ![g] = @]
      BY <1>2 DEF DeleteRange
    <3> QED
      BY <3>1 DEF Ranges
  <2>3. last' \in Nat
    <3>1. CASE last' = last
      BY <3>1
    <3>2. CASE g = "main" /\ last' = del[g][1] - 1
      <4>1. del[g] \in Nat \X Nat /\ del[g][1] > 0
        BY <1>2, <3>2 DEF DeleteRange, Ranges
      <4> QED
        BY <3>2, <4>1
    <3> QED
      BY <1>2, <3>1, <3>2 DEF DeleteRange
  <2> QED
    BY <1>2, <2>1, <2>2, <2>3 DEF DeleteRange, voteVars
<1> QED
  BY <1>1, <1>2

(* The steps that write neither database.                                  *)
LEMMA RaftType ==
  ASSUME TypeOK, NEW i \in Nat,
         \/ Truncate(i) \/ Commit(i) \/ TakeSnapshot(i) \/ InstallSnapshot(i)
         \/ Compact \/ Crash \/ Open
  PROVE  TypeOK'
<1> USE LogStoreAssumption DEF TypeOK
<1>1. CASE Truncate(i)
  <2>1. del' \in [Goroutines -> Ranges]
    <3>1. <<i, last>> \in Ranges
      BY DEF Ranges
    <3> QED
      BY <1>1, <3>1 DEF Truncate
  <2>2. DOMAIN acked' \subseteq 1 .. MaxIndex /\ acked' \in [DOMAIN acked' -> Terms]
    BY <1>1 DEF Truncate, Restrict
  <2> QED
    BY <1>1, <2>1, <2>2 DEF Truncate, voteVars
<1>2. CASE Commit(i) \/ TakeSnapshot(i) \/ InstallSnapshot(i)
  BY <1>2 DEF Commit, TakeSnapshot, InstallSnapshot, Newer, voteVars
<1>3. CASE Compact
  <2>1. FirstIndex \in Nat
    BY FirstIsIndex
  <2>2. Older(snap, last - Trailing) \in Nat
    BY <1>3 DEF Older, Compact
  <2>3. del' \in [Goroutines -> Ranges]
    BY <1>3, <2>1, <2>2 DEF Compact, Ranges
  <2> QED
    BY <1>3, <2>3 DEF Compact, voteVars
<1>4. CASE Crash
  BY <1>4 DEF Crash, Ranges
<1>5. CASE Open
  BY <1>5, LastIsMaximum DEF Open, voteVars
<1> QED
  BY <1>1, <1>2, <1>3, <1>4, <1>5

LEMMA VoteType ==
  ASSUME TypeOK, NEW t \in Terms, NEW c \in Candidates, RequestVote(t, c) \/ RecordVote
  PROVE  TypeOK'
<1> USE LogStoreAssumption DEF TypeOK, logVars, Set, Get
<1>1. CASE RequestVote(t, c)
  BY <1>1 DEF RequestVote
<1>2. CASE RecordVote
  BY <1>2 DEF RecordVote
<1> QED
  BY <1>1, <1>2

LEMMA TypeStep == TypeInv /\ [Next]_vars => TypeInv'
<1> SUFFICES ASSUME TypeInv, [Next]_vars PROVE TypeInv'
  OBVIOUS
<1> USE LogStoreAssumption
<1>1. TypeOK'
  <2>1. CASE Append
    BY <2>1, AppendType DEF TypeInv
  <2>2. CASE \E g \in Goroutines : DeleteRange(g) \/ DeleteFails(g)
    BY <2>2, DeleteType
  <2>3. CASE \E i \in Start .. MaxIndex :
               Truncate(i) \/ Commit(i) \/ TakeSnapshot(i) \/ InstallSnapshot(i)
    BY <2>3, RaftType DEF TypeInv
  <2>4. CASE Compact \/ Crash \/ Open
    BY <2>4, RaftType DEF TypeInv
  <2>5. CASE \E t \in Terms, c \in Candidates : RequestVote(t, c)
    BY <2>5, VoteType DEF TypeInv
  <2>6. CASE RecordVote
    <3>1. voting \in Terms \X Candidates
      BY <2>6 DEF RecordVote, TypeInv, TypeOK
    <3> QED
      BY <2>6, <3>1, VoteType DEF TypeInv
  <2>7. CASE UNCHANGED vars
    BY <2>7 DEF vars, logVars, voteVars, TypeInv, TypeOK, Ranges
  <2> QED
    BY <2>1, <2>2, <2>3, <2>4, <2>5, <2>6, <2>7 DEF Next
<1>2. del'["main"] = del["main"] \/ del'["main"] = << >> \/ del'["main"][1] > 0
  <2>1. CASE \E g \in Goroutines : DeleteRange(g) \/ DeleteFails(g)
    BY <2>1 DEF DeleteRange, DeleteFails, Goroutines, TypeInv, TypeOK
  <2>2. CASE \E i \in Start .. MaxIndex : Truncate(i)
    <3>1. PICK i \in Start .. MaxIndex : Truncate(i)
      BY <2>2
    <3>2. i > 0 /\ del'["main"] = <<i, last>>
      BY <3>1 DEF Truncate, Goroutines, TypeInv, TypeOK
    <3> QED
      BY <3>2
  <2>3. CASE Compact
    BY <2>3 DEF Compact, Goroutines, TypeInv, TypeOK
  <2>4. CASE Crash
    BY <2>4 DEF Crash, Goroutines
  <2>5. CASE UNCHANGED del
    BY <2>5
  <2> QED
    BY <2>1, <2>2, <2>3, <2>4, <2>5 DEF Next, vars, logVars, Append, Open, Commit,
       TakeSnapshot, InstallSnapshot, RequestVote, RecordVote
<1> QED
  BY <1>1, <1>2 DEF TypeInv, TypeOK

(* Types.                                                                  *)
THEOREM TypeCorrect == Spec => []TypeOK
<1>1. Init => TypeInv
  BY InitType DEF Init, TypeInv, Goroutines
<1> QED
  BY <1>1, TypeStep, PTL DEF Spec, TypeInv

-----------------------------------------------------------------------------
(* The log.                                                                *)

LEMMA LogHasType == LogInv => TypeInv
  BY DEF LogInv, Apart, TypeInv, TypeOK, Ranges, Goroutines

LEMMA AppendLog == ASSUME LogInv, Append PROVE LogInv'
<1> USE LogStoreAssumption
<1> DEFINE end == Newer(last, snap)
<1>1. TypeOK'
  BY AppendType DEF LogInv
<1>2. PICK to \in end + 1 .. MaxIndex :
        \E batch \in Entries(end + 1, to) :
          /\ StoreLogs(batch)
          /\ last' = to
          /\ acked' = [i \in DOMAIN acked \cup DOMAIN batch |->
                         IF i \in DOMAIN batch THEN batch[i] ELSE acked[i]]
  BY DEF Append
<1>3. PICK batch \in Entries(end + 1, to) :
        /\ StoreLogs(batch)
        /\ last' = to
        /\ acked' = [i \in DOMAIN acked \cup DOMAIN batch |->
                       IF i \in DOMAIN batch THEN batch[i] ELSE acked[i]]
  BY <1>2
<1>4. end \in Nat /\ last <= end /\ snap <= end /\ (end = last \/ end = snap)
  BY DEF LogInv, TypeOK, Newer
<1> HIDE DEF end
<1>5. DOMAIN batch = end + 1 .. to
  BY DEF Entries
<1>6. snap' = snap /\ commit' = commit /\ del' = del /\ up' = up /\ up
  BY DEF Append
<1>7. Covered'
  BY <1>1, <1>3, <1>4, <1>5, <1>6 DEF LogInv, TypeOK, Covered, StoreLogs
<1>8. Apart'
  BY <1>6 DEF LogInv, Apart, Append
<1>9. AckedCovered'
  BY <1>1, <1>3, <1>4, <1>5, <1>6 DEF LogInv, TypeOK, AckedCovered, StoreLogs
<1> QED
  BY <1>1, <1>7, <1>8, <1>9 DEF LogInv

LEMMA DeleteLog ==
  ASSUME LogInv, NEW g \in Goroutines, DeleteRange(g)
  PROVE  LogInv'
<1> USE LogStoreAssumption
<1>1. TypeOK'
  BY DeleteType, LogHasType
<1>2. DOMAIN logs' = DOMAIN logs \ Fitting(del[g])
      /\ \A i \in DOMAIN logs' : logs'[i] = logs[i]
  BY DEF DeleteRange, Without, Restrict
<1>3. UNCHANGED <<up, snap, commit, acked>> /\ up /\ del[g] # << >>
  BY DEF DeleteRange
<1>4. \A i \in Fitting(del[g]) : i \in Nat /\ del[g][1] <= i /\ i <= del[g][2]
  BY DEF Fitting, InRange, LogInv, TypeOK
<1>5. CASE g = "snapshots"
  <2>1. del'["main"] = del["main"] /\ last' = last
        /\ del'["snapshots"] \in {<< >>, del["snapshots"]}
    BY <1>5 DEF DeleteRange, Goroutines, LogInv, TypeOK
  <2>2. \A i \in DOMAIN logs : snap < i => i \in DOMAIN logs'
    <3>1. del[g] \in Nat \X Nat /\ del[g][2] <= snap
      BY <1>3, <1>5 DEF LogInv, Apart, TypeOK, Ranges
    <3> QED
      BY <1>2, <1>4, <3>1 DEF LogInv, TypeOK
  <2>3. Covered' /\ AckedCovered'
    BY <1>2, <1>3, <2>1, <2>2 DEF LogInv, Covered, AckedCovered, TypeOK
  <2>4. Apart'
    BY <1>3, <2>1 DEF LogInv, Apart
  <2> QED
    BY <1>1, <2>3, <2>4 DEF LogInv
<1>6. CASE g = "main"
  <2> DEFINE min == del["main"][1]
  <2>1. min \in Nat /\ del["main"] = <<min, last>> /\ last - min < TxnLimit
        /\ commit < min /\ min <= last
        /\ \A i \in DOMAIN acked : i < min
    BY <1>3, <1>6 DEF LogInv, Apart, TypeOK, Ranges, Goroutines
  <2> HIDE DEF min
  <2>2. Fitting(del[g]) = InRange(del[g])
    BY <1>6, <2>1, SuffixFits DEF LogInv
  <2>3. last' = min - 1 /\ del'["main"] = << >> /\ del'["snapshots"] = del["snapshots"]
    BY <1>6, <2>1, <2>2 DEF DeleteRange, Goroutines, LogInv, TypeOK
  <2>4. DOMAIN logs' = {i \in DOMAIN logs : i < min}
    <3>1. InRange(<<min, last>>) = {i \in DOMAIN logs : min <= i /\ i <= last}
      BY DEF InRange
    <3>2. \A i \in DOMAIN logs : i \in Nat /\ i <= last
      BY DEF LogInv, TypeOK, Covered
    <3> QED
      BY <1>2, <1>6, <2>1, <2>2, <3>1, <3>2
  <2>6. Covered'
    BY <1>1, <1>3, <2>1, <2>3, <2>4 DEF LogInv, Covered, TypeOK
  <2>7. AckedCovered'
    <3> SUFFICES ASSUME NEW i \in DOMAIN acked, snap < i
                 PROVE  i \in DOMAIN logs' /\ logs'[i] = acked[i] /\ i <= last'
      BY <1>3 DEF AckedCovered
    <3>1. i \in DOMAIN logs /\ logs[i] = acked[i] /\ i < min /\ i \in Nat
      BY <2>1 DEF LogInv, AckedCovered, TypeOK
    <3>2. i \in DOMAIN logs'
      BY <2>4, <3>1
    <3>3. logs'[i] = acked[i]
      BY <1>2, <3>1, <3>2
    <3> QED
      BY <2>1, <2>3, <3>1, <3>2, <3>3
  <2>8. Apart'
    BY <1>3, <2>3 DEF LogInv, Apart
  <2> QED
    BY <1>1, <2>6, <2>7, <2>8 DEF LogInv
<1> QED
  BY <1>5, <1>6 DEF Goroutines

LEMMA FailLog ==
  ASSUME LogInv, NEW g \in Goroutines, DeleteFails(g)
  PROVE  LogInv'
<1>1. TypeOK'
  BY DeleteType, LogHasType
<1>2. \A h \in Goroutines : del'[h] \in {<< >>, del[h]}
  BY DEF DeleteFails, LogInv, TypeOK
<1>3. UNCHANGED <<up, logs, last, snap, commit, acked>>
  BY DEF DeleteFails
<1>4. Apart'
  BY <1>2, <1>3 DEF LogInv, Apart, Goroutines
<1> QED
  BY <1>1, <1>3, <1>4 DEF LogInv, Covered, AckedCovered

LEMMA TruncateLog ==
  ASSUME LogInv, LongSuffixes = FALSE, NEW i \in Start .. MaxIndex, Truncate(i)
  PROVE  LogInv'
<1> USE LogStoreAssumption
<1>1. TypeOK'
  BY RaftType DEF LogInv
<1>2. UNCHANGED <<up, logs, last, snap, commit>> /\ up
  BY DEF Truncate
<1>3. /\ DOMAIN acked' = {j \in DOMAIN acked : j < i}
      /\ \A j \in DOMAIN acked' : acked'[j] = acked[j]
  BY DEF Truncate, Restrict
<1>4. del'["main"] = <<i, last>> /\ del'["snapshots"] = del["snapshots"]
  BY DEF Truncate, LogInv, TypeOK, Goroutines
<1>5. commit < i /\ i <= last /\ last - i < TxnLimit
  BY DEF Truncate
<1>6. Apart'
  BY <1>2, <1>3, <1>4, <1>5 DEF LogInv, Apart
<1>7. AckedCovered'
  BY <1>2, <1>3 DEF LogInv, AckedCovered
<1> QED
  BY <1>1, <1>2, <1>6, <1>7 DEF LogInv, Covered

LEMMA SnapshotLog ==
  ASSUME LogInv, NEW i \in Start .. MaxIndex,
         Commit(i) \/ TakeSnapshot(i) \/ InstallSnapshot(i)
  PROVE  LogInv'
<1> USE LogStoreAssumption
<1>1. TypeOK' /\ i \in Nat
  BY RaftType DEF LogInv
<1>2. UNCHANGED <<up, logs, del, last, acked>> /\ up /\ snap <= snap' /\ commit <= commit'
  BY <1>1 DEF Commit, TakeSnapshot, InstallSnapshot, Newer, LogInv, TypeOK
<1>3. snap' <= commit'
  BY <1>1 DEF Commit, TakeSnapshot, InstallSnapshot, Newer, LogInv, Covered, TypeOK
<1>4. del["main"] # << >> => commit' = commit
  BY DEF Commit, TakeSnapshot, InstallSnapshot
<1>5. Covered'
  BY <1>1, <1>2, <1>3 DEF LogInv, Covered, TypeOK
<1>6. Apart'
  <2>1. del["snapshots"] # << >> => del["snapshots"][2] \in Nat
    BY DEF LogInv, TypeOK, Ranges, Goroutines
  <2>2. del["snapshots"] # << >> => del["snapshots"][2] <= snap'
    BY <1>1, <1>2, <2>1 DEF LogInv, Apart, TypeOK
  <2> QED
    BY <1>2, <1>4, <2>2 DEF LogInv, Apart
<1>7. AckedCovered'
  BY <1>1, <1>2 DEF LogInv, AckedCovered, TypeOK
<1> QED
  BY <1>1, <1>5, <1>6, <1>7 DEF LogInv

LEMMA CompactLog == ASSUME LogInv, Compact PROVE LogInv'
<1> USE LogStoreAssumption
<1>1. TypeOK'
  BY RaftType DEF LogInv
<1>2. UNCHANGED <<up, logs, last, snap, commit, acked>> /\ up
  BY DEF Compact
<1>3. del'["main"] = del["main"]
      /\ del'["snapshots"] = <<FirstIndex, Older(snap, last - Trailing)>>
  BY DEF Compact, LogInv, TypeOK, Goroutines
<1>4. Older(snap, last - Trailing) <= snap
  BY DEF Older, LogInv, TypeOK
<1>5. Apart'
  BY <1>2, <1>3, <1>4 DEF LogInv, Apart
<1> QED
  BY <1>1, <1>2, <1>5 DEF LogInv, Covered, AckedCovered

LEMMA StopLog == ASSUME LogInv, Crash PROVE LogInv'
<1>1. TypeOK'
  BY RaftType DEF LogInv
<1>2. Apart'
  BY DEF Crash, Apart, Goroutines
<1> QED
  BY <1>1, <1>2 DEF Crash, LogInv, Covered, AckedCovered

(* What the disk holds behind the snapshot is what Raft had in memory.     *)
LEMMA OpenLog == ASSUME LogInv, Open PROVE LogInv'
<1> USE LogStoreAssumption
<1>1. TypeOK'
  BY RaftType DEF LogInv
<1>2. UNCHANGED <<logs, del, snap, commit, acked>> /\ last' = LastIndex /\ ~up
  BY DEF Open
<1>3. /\ LastIndex \in Nat
      /\ \A j \in DOMAIN logs : j <= LastIndex
      /\ DOMAIN logs # {} => LastIndex \in DOMAIN logs
  BY LastIsMaximum DEF LogInv
<1>4. \A i \in snap + 1 .. LastIndex : i \in DOMAIN logs
  <2>1. CASE DOMAIN logs = {}
    BY <2>1 DEF LastIndex, LogInv, TypeOK
  <2>2. CASE DOMAIN logs # {}
    <3>1. LastIndex <= last
      BY <1>3, <2>2 DEF LogInv, Covered
    <3> QED
      BY <1>3, <3>1 DEF LogInv, Covered, TypeOK
  <2> QED
    BY <2>1, <2>2
<1>5. Covered'
  BY <1>2, <1>3, <1>4 DEF LogInv, Covered
<1>6. Apart'
  BY <1>2 DEF LogInv, Apart, Goroutines
<1>7. AckedCovered'
  BY <1>2, <1>3 DEF LogInv, AckedCovered
<1> QED
  BY <1>1, <1>5, <1>6, <1>7 DEF LogInv

LEMMA VoteLog ==
  ASSUME LogInv, NEW t \in Terms, NEW c \in Candidates, RequestVote(t, c) \/ RecordVote
  PROVE  LogInv'
<1>1. TypeOK'
  BY VoteType DEF LogInv
<1>2. UNCHANGED <<logVars, up>>
  BY DEF RequestVote, RecordVote
<1> QED
  BY <1>1, <1>2 DEF LogInv, Covered, Apart, AckedCovered, logVars

LEMMA NextLog == ASSUME LogInv, LongSuffixes = FALSE, [Next]_vars PROVE LogInv'
<1>1. CASE Append \/ Compact \/ Crash \/ Open
  BY <1>1, AppendLog, CompactLog, StopLog, OpenLog
<1>2. CASE \E g \in Goroutines : DeleteRange(g) \/ DeleteFails(g)
  BY <1>2, DeleteLog, FailLog
<1>3. CASE \E i \in Start .. MaxIndex :
             Truncate(i) \/ Commit(i) \/ TakeSnapshot(i) \/ InstallSnapshot(i)
  BY <1>3, TruncateLog, SnapshotLog
<1>4. CASE \E t \in Terms, c \in Candidates : RequestVote(t, c)
  BY <1>4, VoteLog
<1>5. CASE RecordVote
  <2>1. voting \in Terms \X Candidates
    BY <1>5 DEF RecordVote, LogInv, TypeOK
  <2> QED
    BY <1>5, <2>1, VoteLog
<1>6. CASE UNCHANGED vars
  BY <1>6 DEF vars, logVars, voteVars, LogInv, TypeOK, Covered, Apart, AckedCovered, Ranges
<1> QED
  BY <1>1, <1>2, <1>3, <1>4, <1>5, <1>6 DEF Next

LEMMA InitLog == Init => LogInv
<1> SUFFICES ASSUME Init PROVE LogInv
  OBVIOUS
<1>1. TypeOK
  BY InitType
<1>2. Covered /\ Apart /\ AckedCovered
  BY LogStoreAssumption DEF Init, Covered, Apart, AckedCovered, Goroutines
<1> QED
  BY <1>1, <1>2 DEF LogInv

-----------------------------------------------------------------------------
(* The vote: what was answered in the newest term is what is on disk, and  *)
(* nothing was answered in a term whose vote is being recorded.            *)
VoteInv ==
  /\ TypeOK
  /\ \A v \in granted :
       /\ stable.term # NotFound /\ v[1] <= stable.term
       /\ v[1] = stable.term => v[2] = stable.candidate
  /\ voting # << >> =>
       stable.term = voting[1] /\ \A v \in granted : v[1] < voting[1]
  /\ OneVotePerTerm

LEMMA VoteStep ==
  ASSUME VoteInv, TypeOK', NEW t \in Terms, NEW c \in Candidates,
         RequestVote(t, c) \/ RecordVote
  PROVE  VoteInv'
<1> USE LogStoreAssumption DEF Get, Set
<1>1. \A v \in granted : v[1] \in Nat /\ v[1] # NotFound /\ v[2] # NotFound
  BY DEF VoteInv, TypeOK
<1>2. t \in Nat /\ t # NotFound
  OBVIOUS
<1>3. CASE RequestVote(t, c) /\ stable.term = t /\ stable.candidate # NotFound
  <2>1. stable' = stable /\ voting' = voting /\ voting = << >>
        /\ granted' = granted \cup {<<t, c>>} /\ stable.candidate = c
    BY <1>3 DEF RequestVote
  <2> QED
    BY <1>1, <1>3, <2>1 DEF VoteInv, OneVotePerTerm
<1>4. CASE RequestVote(t, c) /\ ~(stable.term = t /\ stable.candidate # NotFound)
  <2>1. stable'.term = t /\ voting' = <<t, c>> /\ granted' = granted
    BY <1>4 DEF RequestVote, VoteInv, TypeOK
  <2>2. \A v \in granted : v[1] < t
    BY <1>1, <1>2, <1>4 DEF RequestVote, VoteInv, TypeOK
  <2> QED
    BY <1>1, <1>2, <2>1, <2>2 DEF VoteInv, OneVotePerTerm
<1>5. CASE RecordVote
  <2>1. /\ stable'.term = stable.term /\ stable'.candidate = voting[2]
        /\ granted' = granted \cup {voting} /\ voting' = << >>
        /\ stable.term = voting[1] /\ voting \in Terms \X Candidates
    BY <1>5 DEF RecordVote, VoteInv, TypeOK
  <2>2. \A v \in granted : v[1] < voting[1]
    BY <1>5 DEF RecordVote, VoteInv
  <2>3. voting[1] \in Nat /\ voting[1] # NotFound /\ voting \in granted'
    BY <2>1
  <2>4. \A v \in granted' : v = voting \/ (v \in granted /\ v[1] < voting[1] /\ v[1] \in Nat)
    BY <1>1, <2>1, <2>2
  <2>5. OneVotePerTerm'
    BY <2>3, <2>4 DEF VoteInv, OneVotePerTerm
  <2>6. \A v \in granted' : /\ stable'.term # NotFound /\ v[1] <= stable'.term
                            /\ v[1] = stable'.term => v[2] = stable'.candidate
    BY <2>1, <2>3, <2>4
  <2> QED
    BY <2>1, <2>5, <2>6 DEF VoteInv
<1> QED
  BY <1>3, <1>4, <1>5

(* The node answers with one vote in a term.                               *)
THEOREM OneVotePerTermHolds == Spec => []OneVotePerTerm
<1>1. Init => VoteInv
  BY InitType DEF Init, VoteInv, OneVotePerTerm
<1>2. VoteInv /\ TypeOK' /\ [Next]_vars => VoteInv'
  <2> SUFFICES ASSUME VoteInv, TypeOK', [Next]_vars PROVE VoteInv'
    OBVIOUS
  <2>1. CASE \E t \in Terms, c \in Candidates : RequestVote(t, c)
    BY <2>1, VoteStep
  <2>2. CASE RecordVote
    <3>1. voting \in Terms \X Candidates
      BY <2>2 DEF RecordVote, VoteInv, TypeOK
    <3> QED
      BY <2>2, <3>1, VoteStep
  <2>3. CASE UNCHANGED voteVars
    BY <2>3 DEF voteVars, VoteInv, OneVotePerTerm
  <2>4. CASE Crash
    BY <2>4 DEF Crash, VoteInv, OneVotePerTerm
  <2> QED
    BY <2>1, <2>2, <2>3, <2>4 DEF Next, vars, Append, Compact, Open, DeleteRange,
       DeleteFails, Truncate, Commit, TakeSnapshot, InstallSnapshot
<1> QED
  BY <1>1, <1>2, TypeCorrect, PTL DEF Spec, VoteInv

-----------------------------------------------------------------------------
LEMMA LogInvariant == ASSUME LongSuffixes = FALSE PROVE Spec => []LogInv
<1>1. LogInv /\ [Next]_vars => LogInv'
  BY NextLog
<1> QED
  BY <1>1, InitLog, PTL DEF Spec

(* The node can start at any moment, unless Raft drops a suffix that does  *)
(* not fit into one transaction.                                           *)
THEOREM RestartableHolds ==
  ASSUME LongSuffixes = FALSE
  PROVE  Spec => []Restartable
<1>1. LogInv => Restartable
  BY DEF LogInv, Covered, Restartable, TypeOK
<1> QED
  BY <1>1, LogInvariant, PTL

(* And no entry that was acknowledged is lost.                             *)
THEOREM AckedKeptHolds ==
  ASSUME LongSuffixes = FALSE
  PROVE  Spec => []AckedKept
<1>1. LogInv => AckedKept
  BY DEF LogInv, AckedCovered, AckedKept
<1> QED
  BY <1>1, LogInvariant, PTL
=============================================================================
