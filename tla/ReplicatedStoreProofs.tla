------------------------ MODULE ReplicatedStoreProofs ------------------------
(***************************************************************************)
(* Theorems about ReplicatedStore: type correctness, the bound on what a   *)
(* time to live lets a reader see, and what a node that caught up reads.   *)
(***************************************************************************)
EXTENDS ReplicatedStore, TLAPS

(* Badger's deadline is less than a second before the one it is given.     *)
LEMMA SecondsBounds ==
  ASSUME NEW t \in Nat
  PROVE  /\ WholeSeconds(t) \in Nat /\ WholeSeconds(t) <= t
         /\ t < WholeSeconds(t) + Second
<1>1. t % Second \in 0..(Second - 1)
  BY FsmAssumption
<1>2. t % Second <= t
  BY FsmAssumption
<1> QED
  BY <1>1, <1>2, FsmAssumption DEF WholeSeconds

(* The constants and the clocks are numbers.                               *)
LEMMA ClockType ==
  ASSUME now \in Nat, now >= Second, NEW n \in Nodes
  PROVE  Clock(n) \in Nat /\ Clock(n) >= Second
  BY StoreAssumption, FsmAssumption DEF Clock

(* What the leader proposes is a command.                                  *)
LEMMA CommandType ==
  /\ \A k \in PersistKeys, v \in Vals : SetCommand(k, v) \in Commands
  /\ \A k \in TtlKeys, v \in Vals, clock \in Nat, t \in Ttls :
       clock >= Second => SetExCommand(k, v, clock, t) \in Commands
  /\ \A k \in Keys : DeleteCommand(k) \in Commands
  BY StoreAssumption, FsmAssumption, SMT
  DEF Commands, SetCommand, SetExCommand, NoExpiry, CmdSet, CmdSetEx, Keys

(* The fields of a command of the log, whichever way it was proposed.      *)
LEMMA CommandFields ==
  ASSUME NEW c \in Commands
  PROVE  /\ c.key \in Keys
         /\ c.exp \in Nat
         /\ c.val \in Vals \cup {NoVal}
         /\ c.op \in {CmdSet, CmdSetEx, "delete"}
         /\ c.op = CmdSet => c.key \in PersistKeys /\ c.val \in Vals
         /\ c.op = CmdSetEx =>
              c.key \in TtlKeys /\ c.val \in Vals /\ c.exp > Second
  BY StoreAssumption
  DEF Commands, DeleteCommand, CmdSet, CmdSetEx, NoExpiry, Keys

(* Apply keeps a database a database.                                      *)
LEMMA ApplyType ==
  ASSUME NEW c \in Commands, NEW d \in [Keys -> Entries],
         NEW ver \in Nat, NEW clock \in Nat, NEW pause \in 0 .. MaxPause
  PROVE  ApplyCommand(d, c, ver, clock, pause) \in [Keys -> Entries]
<1>1. c.exp + pause \in Nat
  BY CommandFields, StoreAssumption
<1>2. WholeSeconds(c.exp + pause) \in Nat
  BY <1>1, SecondsBounds
<1> QED
  BY <1>2, CommandFields DEF ApplyCommand, EntryOf, Entries, NoExpiry

(* So does Load.                                                           *)
LEMMA LoadType ==
  ASSUME NEW d \in [Keys -> Entries], NEW b \in [Keys -> Entries]
  PROVE  Load(d, b) \in [Keys -> Entries]
  BY DEF Load

LEMMA EmptyType == NoEntry \in Entries /\ EmptyDb \in [Keys -> Entries]
  BY DEF EmptyDb, NoEntry, Entries, NoExpiry

LEMMA InitType == Init => TypeOK
  BY EmptyType, FsmAssumption DEF Init, TypeOK

(* Committing a command of the right shape keeps the types.                *)
LEMMA CommitType ==
  ASSUME TypeOK, NEW c \in Commands, Commit(c)
  PROVE  TypeOK'
  BY DEF TypeOK, Commit, bounds

LEMMA SnapshotDoneType ==
  ASSUME TypeOK, NEW n \in Nodes, NEW data \in [Keys -> Entries],
         SnapshotDone(n, data)
  PROVE  TypeOK'
  BY DEF TypeOK, SnapshotDone, bounds, None

(* Every action keeps the types.                                           *)
LEMMA NextType == TypeOK /\ [Next]_vars => TypeOK'
<1> SUFFICES ASSUME TypeOK, [Next]_vars
             PROVE  TypeOK'
  OBVIOUS
<1> USE DEF TypeOK
<1>1. ASSUME NEW k \in PersistKeys, NEW v \in Vals, Set(k, v)
      PROVE  TypeOK'
  BY <1>1, CommitType, CommandType DEF Set
<1>2. ASSUME NEW n \in Nodes, NEW k \in TtlKeys, NEW v \in Vals, NEW t \in Ttls,
             SetEx(n, k, v, t)
      PROVE  TypeOK'
  BY <1>2, CommitType, CommandType, ClockType DEF SetEx
<1>3. ASSUME NEW k \in Keys, Delete(k)
      PROVE  TypeOK'
  BY <1>3, CommitType, CommandType DEF Delete
<1>4. CASE Tick
  BY <1>4, FsmAssumption DEF Tick, bounds
<1>5. ASSUME NEW n \in Nodes, Apply(n)
      PROVE  TypeOK'
  <2> DEFINE c == log[applied[n] + 1]
  <2>1. c \in Commands
    BY <1>5 DEF Apply
  <2>2. \A pause \in 0 .. MaxPause :
          ApplyCommand(db[n], c, nextTs[n], Clock(n), pause) \in [Keys -> Entries]
    BY <2>1, ApplyType, ClockType
  <2>3. db' \in [Nodes -> [Keys -> Entries]]
    BY <1>5, <2>2 DEF Apply
  <2>4. nextTs' \in [Nodes -> Nat] /\ high' \in [Nodes -> Nat] /\ applied' \in [Nodes -> Nat]
    BY <1>5 DEF Apply
  <2> QED
    BY <1>5, <2>3, <2>4 DEF Apply, bounds
<1>6. ASSUME NEW n \in Nodes, SnapshotStart(n)
      PROVE  TypeOK'
  BY <1>6 DEF SnapshotStart, bounds
<1>7. ASSUME NEW n \in Nodes, Persist(n)
      PROVE  TypeOK'
  BY <1>7, SnapshotDoneType DEF Persist
<1>8. ASSUME NEW n \in Nodes, NEW part \in SUBSET Keys, PersistTruncated(n, part)
      PROVE  TypeOK'
  <2> DEFINE data == [k \in Keys |-> IF k \in part THEN db[n][k] ELSE NoEntry]
  <2>1. data \in [Keys -> Entries]
    BY EmptyType
  <2>2. SnapshotDone(n, data)
    BY <1>8 DEF PersistTruncated
  <2> QED
    BY <2>1, <2>2, SnapshotDoneType
<1>9. ASSUME NEW n \in Nodes, PersistCancelled(n)
      PROVE  TypeOK'
  BY <1>9 DEF PersistCancelled, bounds
<1>10. ASSUME NEW n \in Nodes, Restart(n)
       PROVE  TypeOK'
  <2>1. Load(db[n], snap[n].data) \in [Keys -> Entries]
    BY LoadType
  <2> QED
    BY <1>10, <2>1 DEF Restart
<1>11. ASSUME NEW m \in Nodes, NEW n \in Nodes, InstallSnapshot(m, n)
       PROVE  TypeOK'
  <2>1. Load(db[n], snap[m].data) \in [Keys -> Entries]
    BY LoadType
  <2>2. nextTs' \in [Nodes -> Nat]
    <3>1. \A k \in Keys : snap[m].data[k].ver \in Nat
      BY DEF Entries
    <3>2. PICK ts \in {nextTs[n]} \cup {snap[m].data[k].ver + 1 : k \in Keys} :
            nextTs' = [nextTs EXCEPT ![n] = ts]
      BY <1>11 DEF InstallSnapshot
    <3>3. ts \in Nat
      BY <3>1
    <3> QED
      BY <3>2, <3>3
  <2>3. snap' \in [Nodes -> [idx : Nat, data : [Keys -> Entries]]]
    BY <1>11 DEF InstallSnapshot
  <2>4. applied' \in [Nodes -> Nat] /\ high' \in [Nodes -> Nat] /\ installs' \in Nat
    BY <1>11 DEF InstallSnapshot
  <2> QED
    BY <1>11, <2>1, <2>2, <2>3, <2>4 DEF InstallSnapshot
<1>12. CASE UNCHANGED vars
  BY <1>12 DEF vars, bounds
<1> QED
  BY <1>1, <1>2, <1>3, <1>4, <1>5, <1>6, <1>7, <1>8, <1>9, <1>10, <1>11, <1>12
  DEF Next

(* Every reachable state is well typed.                                    *)
THEOREM TypeCorrect == Spec => []TypeOK
  BY InitType, NextType, PTL DEF Spec

-----------------------------------------------------------------------------
(* Committing a command leaves the commands before it where they are.      *)
LEMMA CommitKeeps ==
  ASSUME TypeOK, NEW c \in Commands, Commit(c)
  PROVE  /\ Len(log') = Len(log) + 1
         /\ \A i \in 1..Len(log) : log'[i] = log[i]
         /\ log'[Len(log) + 1] = c
         /\ UNCHANGED <<now, applied, high, db, nextTs, snap, pending, bounds>>
  BY DEF TypeOK, Commit

(* Each of the three write actions commits one command.                    *)
LEMMA WriteCommits ==
  ASSUME TypeOK,
         \/ \E k \in PersistKeys, v \in Vals : Set(k, v)
         \/ \E n \in Nodes, k \in TtlKeys, v \in Vals, t \in Ttls : SetEx(n, k, v, t)
         \/ \E k \in Keys : Delete(k)
  PROVE  \E c \in Commands : Commit(c)
  BY CommandType, ClockType DEF Set, SetEx, Delete, TypeOK

(* Apply changes one entry of one database, to the entry of its command.   *)
LEMMA ApplyEntry ==
  ASSUME TypeOK, NEW n \in Nodes, Apply(n)
  PROVE  LET c == log[applied[n] + 1] IN
         /\ applied[n] + 1 \in 1..Len(log)
         /\ c \in Commands
         /\ \E pause \in 0 .. MaxPause : \A m \in Nodes, k \in Keys :
              db'[m][k] = IF m = n /\ Writes(c, Clock(n)) /\ c.key = k
                          THEN EntryOf(c, nextTs[n], pause) ELSE db[m][k]
<1> DEFINE c == log[applied[n] + 1]
<1>1. applied[n] + 1 \in 1..Len(log) /\ c \in Commands
  BY DEF Apply, TypeOK
<1>2. PICK pause \in 0 .. MaxPause :
        /\ db'[n] = ApplyCommand(db[n], c, nextTs[n], Clock(n), pause)
        /\ \A m \in Nodes : m # n => db'[m] = db[m]
  BY DEF Apply, TypeOK
<1>3. db[n] \in [Keys -> Entries]
  BY DEF TypeOK
<1>4. \A k \in Keys :
        db'[n][k] = IF Writes(c, Clock(n)) /\ c.key = k
                    THEN EntryOf(c, nextTs[n], pause) ELSE db[n][k]
  BY <1>2, <1>3 DEF ApplyCommand
<1> QED
  BY <1>1, <1>2, <1>4

(* Persist and PersistTruncated change one snapshot, to part of a database.*)
LEMMA PersistEntry ==
  ASSUME TypeOK, NEW n \in Nodes, NEW part \in SUBSET Keys,
         Persist(n) \/ PersistTruncated(n, part)
  PROVE  /\ \E data \in [Keys -> Entries] : SnapshotDone(n, data)
         /\ \A m \in Nodes, k \in Keys :
              snap'[m].data[k] \in {snap[m].data[k], db[m][k], NoEntry}
<1> DEFINE cut == [k \in Keys |-> IF k \in part THEN db[n][k] ELSE NoEntry]
<1>1. cut \in [Keys -> Entries] /\ db[n] \in [Keys -> Entries]
  BY EmptyType DEF TypeOK
<1>2. SnapshotDone(n, db[n]) \/ SnapshotDone(n, cut)
  BY DEF Persist, PersistTruncated
<1>3. \A m \in Nodes, k \in Keys : snap'[m].data[k] \in {snap[m].data[k], db[m][k], NoEntry}
  <2> SUFFICES ASSUME NEW m \in Nodes, NEW k \in Keys
               PROVE  snap'[m].data[k] \in {snap[m].data[k], db[m][k], NoEntry}
    OBVIOUS
  <2>1. CASE m # n
    BY <1>2, <2>1 DEF SnapshotDone, TypeOK
  <2>2. CASE m = n
    <3>1. snap'[n].data = db[n] \/ snap'[n].data = cut
      BY <1>2 DEF SnapshotDone, TypeOK
    <3> QED
      BY <2>2, <3>1
  <2> QED
    BY <2>1, <2>2
<1> QED
  BY <1>1, <1>2, <1>3

(* InstallSnapshot copies entries of another node's snapshot.              *)
LEMMA InstallEntry ==
  ASSUME TypeOK, NEW l \in Nodes, NEW n \in Nodes, InstallSnapshot(l, n)
  PROVE  \A m \in Nodes, k \in Keys :
           /\ snap'[m].data[k] \in {snap[m].data[k], snap[l].data[k]}
           /\ db'[m][k] \in {db[m][k], snap[l].data[k]}
<1>1. snap' = [snap EXCEPT ![n] = snap[l]]
  BY DEF InstallSnapshot
<1>2. db' = [db EXCEPT ![n] = Load(db[n], snap[l].data)]
  BY DEF InstallSnapshot
<1>3. \A k \in Keys : Load(db[n], snap[l].data)[k] \in {db[n][k], snap[l].data[k]}
  BY DEF Load, TypeOK
<1> QED
  BY <1>1, <1>2, <1>3 DEF TypeOK

(* Restart merges a node's own snapshot into its database.                 *)
LEMMA RestartEntry ==
  ASSUME TypeOK, NEW n \in Nodes, Restart(n)
  PROVE  \A m \in Nodes, k \in Keys :
           db'[m][k] = IF m = n /\ snap[n].data[k].ver >= db[n][k].ver
                       THEN snap[n].data[k] ELSE db[m][k]
  BY DEF Restart, Load, TypeOK

LEMMA TtlInit == Init => TtlFromLog
  BY DEF Init, TtlFromLog, FromLog, EmptyDb, NoEntry, Keys

(* No action makes up the value or the deadline of a key with a time to    *)
(* live: Apply takes both from the log, the snapshot actions copy them.    *)
LEMMA TtlNext == TypeOK /\ TtlFromLog /\ [Next]_vars => TtlFromLog'
<1> SUFFICES ASSUME TypeOK, TtlFromLog, [Next]_vars
             PROVE  TtlFromLog'
  OBVIOUS
<1>1. ASSUME NEW c \in Commands, Commit(c)
      PROVE  TtlFromLog'
  <2> SUFFICES ASSUME NEW n \in Nodes, NEW k \in TtlKeys
               PROVE  FromLog(db[n][k], k)' /\ FromLog(snap[n].data[k], k)'
    BY DEF TtlFromLog
  <2>1. FromLog(db[n][k], k) /\ FromLog(snap[n].data[k], k)
    BY DEF TtlFromLog
  <2>2. /\ db' = db /\ snap' = snap
        /\ \A i \in 1..Len(log) : i \in 1..Len(log') /\ log'[i] = log[i]
    BY <1>1, CommitKeeps DEF TypeOK
  <2> QED
    BY <2>1, <2>2 DEF FromLog
<1>2. CASE \/ \E k \in PersistKeys, v \in Vals : Set(k, v)
           \/ \E n \in Nodes, k \in TtlKeys, v \in Vals, t \in Ttls : SetEx(n, k, v, t)
           \/ \E k \in Keys : Delete(k)
  BY <1>1, <1>2, WriteCommits
<1>3. CASE Tick
  BY <1>3 DEF Tick, TtlFromLog, FromLog
<1>4. ASSUME NEW n \in Nodes, Apply(n)
      PROVE  TtlFromLog'
  <2> DEFINE c == log[applied[n] + 1]
  <2> SUFFICES ASSUME NEW m \in Nodes, NEW k \in TtlKeys
               PROVE  FromLog(db[m][k], k)' /\ FromLog(snap[m].data[k], k)'
    BY DEF TtlFromLog
  <2>1. log' = log /\ snap' = snap
    BY <1>4 DEF Apply
  <2>2. FromLog(snap[m].data[k], k)'
    BY <2>1 DEF TtlFromLog, FromLog
  <2> HIDE DEF c
  <2>3. /\ applied[n] + 1 \in 1..Len(log) /\ c \in Commands
        /\ \E pause \in 0 .. MaxPause :
             db'[m][k] = IF m = n /\ Writes(c, Clock(n)) /\ c.key = k
                         THEN EntryOf(c, nextTs[n], pause) ELSE db[m][k]
    BY <1>4, ApplyEntry DEF c, Keys
  <2>4. CASE m = n /\ Writes(c, Clock(n)) /\ c.key = k
    <3>1. c.op = CmdSetEx
      BY <2>4, <2>3, CommandFields, StoreAssumption
      DEF Writes, CmdSet, CmdSetEx, CmdDel
    <3>2. PICK pause \in 0 .. MaxPause : db'[m][k] = EntryOf(c, nextTs[n], pause)
      BY <2>3, <2>4
    <3>3. db'[m][k].val = c.val /\ db'[m][k].exp = WholeSeconds(c.exp + pause)
      BY <3>1, <3>2 DEF EntryOf
    <3>4. c.exp \in Nat /\ c.exp > Second /\ c.exp + pause \in Nat /\ pause <= MaxPause
      BY <2>3, <3>1, CommandFields, StoreAssumption
    <3>5. db'[m][k].exp # NoExpiry /\ db'[m][k].exp <= c.exp + MaxPause
      BY <3>3, <3>4, SecondsBounds, FsmAssumption, StoreAssumption DEF NoExpiry
    <3> QED
      BY <3>1, <3>3, <3>5, <2>1, <2>2, <2>4, <2>3 DEF FromLog, c
  <2>5. CASE ~(m = n /\ Writes(c, Clock(n)) /\ c.key = k)
    <3>1. db'[m][k] = db[m][k]
      BY <2>5, <2>3
    <3> QED
      BY <3>1, <2>1, <2>2 DEF TtlFromLog, FromLog
  <2> QED
    BY <2>4, <2>5
<1>5. ASSUME NEW n \in Nodes, SnapshotStart(n) \/ PersistCancelled(n)
      PROVE  TtlFromLog'
  BY <1>5 DEF SnapshotStart, PersistCancelled, TtlFromLog, FromLog
<1>6. ASSUME NEW n \in Nodes, NEW part \in SUBSET Keys,
             Persist(n) \/ PersistTruncated(n, part)
      PROVE  TtlFromLog'
  <2> SUFFICES ASSUME NEW m \in Nodes, NEW k \in TtlKeys
               PROVE  FromLog(db[m][k], k)' /\ FromLog(snap[m].data[k], k)'
    BY DEF TtlFromLog
  <2>1. log' = log /\ db' = db
    BY <1>6 DEF Persist, PersistTruncated, SnapshotDone
  <2>2. \/ snap'[m].data[k] = snap[m].data[k]
        \/ snap'[m].data[k] = db[m][k]
        \/ snap'[m].data[k] = NoEntry
    BY <1>6, PersistEntry DEF Keys
  <2> QED
    BY <2>1, <2>2 DEF TtlFromLog, FromLog, NoEntry
<1>7. ASSUME NEW n \in Nodes, Restart(n)
      PROVE  TtlFromLog'
  <2> SUFFICES ASSUME NEW m \in Nodes, NEW k \in TtlKeys
               PROVE  FromLog(db[m][k], k)' /\ FromLog(snap[m].data[k], k)'
    BY DEF TtlFromLog
  <2>1. log' = log /\ snap' = snap
    BY <1>7 DEF Restart
  <2>2. \/ db'[m][k] = db[m][k]
        \/ db'[m][k] = snap[m].data[k]
    BY <1>7, RestartEntry DEF Keys
  <2> QED
    BY <2>1, <2>2 DEF TtlFromLog, FromLog
<1>8. ASSUME NEW l \in Nodes, NEW n \in Nodes, InstallSnapshot(l, n)
      PROVE  TtlFromLog'
  <2> SUFFICES ASSUME NEW m \in Nodes, NEW k \in TtlKeys
               PROVE  FromLog(db[m][k], k)' /\ FromLog(snap[m].data[k], k)'
    BY DEF TtlFromLog
  <2>1. log' = log
    BY <1>8 DEF InstallSnapshot
  <2>2. /\ snap'[m].data[k] \in {snap[m].data[k], snap[l].data[k]}
        /\ db'[m][k] \in {db[m][k], snap[l].data[k]}
    BY <1>8, InstallEntry DEF Keys
  <2>3. FromLog(db[m][k], k) /\ FromLog(snap[m].data[k], k) /\ FromLog(snap[l].data[k], k)
    BY DEF TtlFromLog
  <2>4. FromLog(db[m][k], k)'
    BY <2>1, <2>2, <2>3 DEF FromLog
  <2>5. FromLog(snap[m].data[k], k)'
    BY <2>1, <2>2, <2>3 DEF FromLog
  <2> QED
    BY <2>4, <2>5
<1>9. CASE UNCHANGED vars
  BY <1>9 DEF vars, TtlFromLog, FromLog
<1> QED
  BY <1>2, <1>3, <1>4, <1>5, <1>6, <1>7, <1>8, <1>9 DEF Next

(* A reader that sees a value sees it before its deadline.                 *)
LEMMA TtlImplies == TypeOK /\ TtlFromLog => TtlBounded
<1> SUFFICES ASSUME TypeOK, TtlFromLog, NEW n \in Nodes, NEW k \in TtlKeys,
                    Read(n, k) # NoVal
             PROVE  \E i \in 1..Len(log) :
                      /\ log[i].op = CmdSetEx /\ log[i].key = k
                      /\ log[i].val = Read(n, k) /\ Clock(n) < log[i].exp + MaxPause
  BY DEF TtlBounded
<1>1. IsLive(db[n][k], Clock(n)) /\ Read(n, k) = db[n][k].val
  BY DEF Read, Get
<1>2. PICK i \in 1..Len(log) :
        /\ log[i].op = CmdSetEx /\ log[i].key = k
        /\ log[i].val = db[n][k].val /\ db[n][k].exp # NoExpiry
        /\ db[n][k].exp <= log[i].exp + MaxPause
  BY <1>1 DEF TtlFromLog, FromLog, IsLive
<1>3. log[i].exp \in Nat /\ MaxPause \in Nat /\ Clock(n) \in Nat /\ db[n][k].exp \in Nat
  BY <1>2, CommandFields, StoreAssumption, ClockType DEF TypeOK, Entries, Keys
<1> QED
  BY <1>1, <1>2, <1>3 DEF IsLive

(* TtlBounded holds for every number of nodes, restarts and shipped        *)
(* snapshots, for clocks that disagree, and however long applySet takes.   *)
THEOREM TtlHolds == Spec => []TtlBounded
<1>1. Init => TypeOK /\ TtlFromLog
  BY InitType, TtlInit
<1>2. TypeOK /\ TtlFromLog /\ [Next]_vars => (TypeOK /\ TtlFromLog)'
  BY NextType, TtlNext
<1> QED
  BY <1>1, <1>2, TtlImplies, PTL DEF Spec

-----------------------------------------------------------------------------
(* Caught-up nodes, in a cluster that ships no snapshot.                   *)

LEMMA CaughtUpInit == Init => CaughtUpInv
<1> SUFFICES ASSUME Init PROVE CaughtUpInv
  OBVIOUS
<1>1. TypeOK
  BY InitType
<1>2. IndexOrder
  BY DEF Init, IndexOrder, None
<1>3. OwnSnapshotOlder
  BY DEF Init, OwnSnapshotOlder, EmptyDb, NoEntry
<1>4. AllSettled
  BY DEF Init, AllSettled, Settled, EmptyDb, NoEntry, Keys
<1> QED
  BY <1>1, <1>2, <1>3, <1>4 DEF CaughtUpInv

(* No snapshot is shipped when none may be.                                *)
LEMMA NoInstall ==
  ASSUME MaxInstalls = 0, TypeOK, NEW m, NEW n, InstallSnapshot(m, n)
  PROVE  FALSE
  BY DEF TypeOK, InstallSnapshot

(* A step that leaves the databases, the log's prefix and the indexes of   *)
(* the state machines alone keeps every key settled.                       *)
LEMMA SettledKept ==
  ASSUME TypeOK, IndexOrder, AllSettled,
         db' = db, high' = high, applied' = applied,
         \A i \in 1..Len(log) : log'[i] = log[i]
  PROVE  AllSettled'
<1> SUFFICES ASSUME NEW n \in Nodes, NEW k \in PersistKeys
             PROVE  db[n][k].exp' = NoExpiry /\ Settled(n, k)'
  BY DEF AllSettled
<1>1. db[n][k].exp = NoExpiry /\ Settled(n, k)
  BY DEF AllSettled
<1>2. /\ applied[n] \in Nat /\ high[n] \in Nat /\ Len(log) \in Nat
      /\ applied[n] <= high[n] /\ high[n] <= Len(log)
  BY DEF TypeOK, IndexOrder
<1>3. \A i \in 1..high[n] : SetAt(i, k)' <=> SetAt(i, k)
  BY <1>2 DEF SetAt
<1>4. CASE db[n][k].val = NoVal /\ \A i \in 1..high[n] : ~SetAt(i, k)
  BY <1>1, <1>3, <1>4 DEF Settled
<1>5. CASE \E i \in 1..high[n] :
             /\ SetAt(i, k) /\ db[n][k].val = log[i].val
             /\ \A j \in (i + 1)..applied[n] : ~SetAt(j, k)
  <2>1. PICK i \in 1..high[n] :
               /\ SetAt(i, k) /\ db[n][k].val = log[i].val
               /\ \A j \in (i + 1)..applied[n] : ~SetAt(j, k)
    BY <1>5
  <2>2. SetAt(i, k)' /\ db'[n][k].val = log'[i].val
    BY <1>2, <1>3, <2>1
  <2>3. \A j \in (i + 1)..applied'[n] : ~SetAt(j, k)'
    BY <1>2, <1>3, <2>1
  <2>4. i \in 1..high'[n]
    OBVIOUS
  <2> QED
    BY <1>1, <2>2, <2>3, <2>4 DEF Settled
<1> QED
  BY <1>1, <1>4, <1>5 DEF Settled

(* Loading an older snapshot of its own leaves a database as it is.        *)
LEMMA RestartLoadsNothing ==
  ASSUME TypeOK, OwnSnapshotOlder, NEW n \in Nodes, Restart(n)
  PROVE  db' = db /\ snap' = snap /\ nextTs' = nextTs
<1>1. \A k \in Keys : snap[n].data[k].ver >= db[n][k].ver => snap[n].data[k] = db[n][k]
  BY DEF OwnSnapshotOlder, TypeOK, Entries
<1>2. db[n] \in [Keys -> Entries]
  BY DEF TypeOK
<1>3. Load(db[n], snap[n].data) = db[n]
  BY <1>1, <1>2 DEF Load
<1> QED
  BY <1>3 DEF Restart, TypeOK

(* The indexes stay in order, whatever the step.                           *)
LEMMA IndexNext ==
  ASSUME MaxInstalls = 0, TypeOK, IndexOrder, [Next]_vars
  PROVE  IndexOrder'
<1> USE DEF IndexOrder, TypeOK
<1>1. ASSUME NEW c \in Commands, Commit(c)
      PROVE  IndexOrder'
  BY <1>1, CommitKeeps
<1>2. CASE \/ \E k \in PersistKeys, v \in Vals : Set(k, v)
           \/ \E n \in Nodes, k \in TtlKeys, v \in Vals, t \in Ttls : SetEx(n, k, v, t)
           \/ \E k \in Keys : Delete(k)
  BY <1>1, <1>2, WriteCommits
<1>3. CASE Tick
  BY <1>3 DEF Tick
<1>4. ASSUME NEW n \in Nodes, Apply(n)
      PROVE  IndexOrder'
  <2>1. /\ applied[n] < Len(log) /\ log' = log /\ snap' = snap /\ pending' = pending
        /\ applied' = [applied EXCEPT ![n] = applied[n] + 1]
        /\ high' = [high EXCEPT
                      ![n] = IF applied[n] + 1 > high[n] THEN applied[n] + 1 ELSE high[n]]
    BY <1>4 DEF Apply
  <2>2. Len(log) \in Nat /\ \A m \in Nodes : snap[m].idx \in Nat /\ pending[m] \in Int
    BY DEF None
  <2> QED
    BY <2>1, <2>2
<1>5. ASSUME NEW n \in Nodes, SnapshotStart(n) \/ PersistCancelled(n)
      PROVE  IndexOrder'
  <2>1. /\ log' = log /\ snap' = snap /\ applied' = applied /\ high' = high
        /\ \E i \in {applied[n], -1} : pending' = [pending EXCEPT ![n] = i]
    BY <1>5 DEF SnapshotStart, PersistCancelled, None
  <2>2. applied[n] \in Nat
    OBVIOUS
  <2> QED
    BY <2>1, <2>2
<1>6. ASSUME NEW n \in Nodes, NEW data \in [Keys -> Entries], SnapshotDone(n, data)
      PROVE  IndexOrder'
  BY <1>6 DEF SnapshotDone, None
<1>7. ASSUME NEW n \in Nodes, NEW part \in SUBSET Keys,
             Persist(n) \/ PersistTruncated(n, part)
      PROVE  IndexOrder'
  BY <1>6, <1>7, PersistEntry
<1>8. ASSUME NEW n \in Nodes, Restart(n)
      PROVE  IndexOrder'
  <2>1. /\ applied' = [applied EXCEPT ![n] = snap[n].idx]
        /\ pending' = [pending EXCEPT ![n] = -1]
        /\ log' = log /\ high' = high /\ snap' = snap
    BY <1>8 DEF Restart, None
  <2>2. \A m \in Nodes : snap[m].idx \in Nat
    OBVIOUS
  <2> QED
    BY <2>1, <2>2
<1>9. ASSUME NEW m \in Nodes, NEW n \in Nodes, InstallSnapshot(m, n)
      PROVE  IndexOrder'
  BY <1>9, NoInstall
<1>10. CASE UNCHANGED vars
  BY <1>10 DEF vars
<1> QED
  BY <1>2, <1>3, <1>4, <1>5, <1>7, <1>8, <1>9, <1>10 DEF Next

(* A node's own snapshot stays older than its database.                    *)
LEMMA SnapshotOlderNext ==
  ASSUME MaxInstalls = 0, TypeOK, OwnSnapshotOlder, [Next]_vars
  PROVE  OwnSnapshotOlder'
<1>1. ASSUME NEW c \in Commands, Commit(c)
      PROVE  OwnSnapshotOlder'
  BY <1>1, CommitKeeps DEF OwnSnapshotOlder
<1>2. CASE \/ \E k \in PersistKeys, v \in Vals : Set(k, v)
           \/ \E n \in Nodes, k \in TtlKeys, v \in Vals, t \in Ttls : SetEx(n, k, v, t)
           \/ \E k \in Keys : Delete(k)
  BY <1>1, <1>2, WriteCommits
<1>3. CASE Tick
  BY <1>3 DEF Tick, OwnSnapshotOlder
<1>4. ASSUME NEW n \in Nodes, Apply(n)
      PROVE  OwnSnapshotOlder'
  <2> DEFINE c == log[applied[n] + 1]
  <2> HIDE DEF c
  <2> SUFFICES ASSUME NEW m \in Nodes, NEW k \in Keys
               PROVE  /\ snap'[m].data[k].ver <= db'[m][k].ver
                      /\ snap'[m].data[k].ver = db'[m][k].ver => snap'[m].data[k] = db'[m][k]
                      /\ db'[m][k].ver = 0 => db'[m][k] = NoEntry
                      /\ db'[m][k].ver < nextTs'[m]
    BY DEF OwnSnapshotOlder
  <2>1. /\ snap[m].data[k].ver <= db[m][k].ver
        /\ snap[m].data[k].ver = db[m][k].ver => snap[m].data[k] = db[m][k]
        /\ db[m][k].ver = 0 => db[m][k] = NoEntry
        /\ db[m][k].ver < nextTs[m]
    BY DEF OwnSnapshotOlder
  <2>2. /\ snap[m].data[k].ver \in Nat /\ db[m][k].ver \in Nat /\ nextTs[m] \in Nat
    BY DEF TypeOK, Entries
  <2>3. \E pause \in 0 .. MaxPause :
          db'[m][k] = IF m = n /\ Writes(c, Clock(n)) /\ c.key = k
                      THEN EntryOf(c, nextTs[n], pause) ELSE db[m][k]
    BY <1>4, ApplyEntry DEF c
  <2>4. /\ snap' = snap
        /\ nextTs'[m] = IF m = n /\ Writes(c, Clock(n)) THEN nextTs[m] + 1 ELSE nextTs[m]
    BY <1>4 DEF Apply, c, TypeOK
  <2>5. \A pause : EntryOf(c, nextTs[n], pause).ver = nextTs[n]
    BY DEF EntryOf
  <2> QED
    BY <2>1, <2>2, <2>3, <2>4, <2>5
<1>5. ASSUME NEW n \in Nodes, SnapshotStart(n) \/ PersistCancelled(n)
      PROVE  OwnSnapshotOlder'
  BY <1>5 DEF SnapshotStart, PersistCancelled, OwnSnapshotOlder
<1>6. ASSUME NEW n \in Nodes, NEW part \in SUBSET Keys,
             Persist(n) \/ PersistTruncated(n, part)
      PROVE  OwnSnapshotOlder'
  <2> SUFFICES ASSUME NEW m \in Nodes, NEW k \in Keys
               PROVE  /\ snap'[m].data[k].ver <= db'[m][k].ver
                      /\ snap'[m].data[k].ver = db'[m][k].ver => snap'[m].data[k] = db'[m][k]
                      /\ db'[m][k].ver = 0 => db'[m][k] = NoEntry
                      /\ db'[m][k].ver < nextTs'[m]
    BY DEF OwnSnapshotOlder
  <2>1. /\ snap[m].data[k].ver <= db[m][k].ver
        /\ snap[m].data[k].ver = db[m][k].ver => snap[m].data[k] = db[m][k]
        /\ db[m][k].ver = 0 => db[m][k] = NoEntry
        /\ db[m][k].ver < nextTs[m]
    BY DEF OwnSnapshotOlder
  <2>2. snap'[m].data[k] \in {snap[m].data[k], db[m][k], NoEntry}
    BY <1>6, PersistEntry
  <2>3. db' = db /\ nextTs' = nextTs
    BY <1>6 DEF Persist, PersistTruncated, SnapshotDone
  <2>4. db[m][k].ver \in Nat
    BY DEF TypeOK, Entries
  <2> QED
    BY <2>1, <2>2, <2>3, <2>4 DEF NoEntry
<1>7. ASSUME NEW n \in Nodes, Restart(n)
      PROVE  OwnSnapshotOlder'
  <2>1. db' = db /\ snap' = snap /\ nextTs' = nextTs
    BY <1>7, RestartLoadsNothing
  <2> QED
    BY <2>1 DEF OwnSnapshotOlder
<1>8. ASSUME NEW m \in Nodes, NEW n \in Nodes, InstallSnapshot(m, n)
      PROVE  OwnSnapshotOlder'
  BY <1>8, NoInstall
<1>9. CASE UNCHANGED vars
  BY <1>9 DEF vars, OwnSnapshotOlder
<1> QED
  BY <1>2, <1>3, <1>4, <1>5, <1>6, <1>7, <1>8, <1>9 DEF Next

(* Every key stays settled.  The case that matters is Apply: a set command *)
(* becomes the newest one the database holds, a command on another key     *)
(* does not move the newest one, and a command the node has applied before *)
(* may only take a key back to an older value that the rest of the replay  *)
(* brings forward again.                                                   *)
LEMMA SettledNext ==
  ASSUME MaxInstalls = 0, CaughtUpInv, [Next]_vars
  PROVE  AllSettled'
<1>1. TypeOK /\ IndexOrder /\ OwnSnapshotOlder /\ AllSettled
  BY DEF CaughtUpInv
<1>2. ASSUME NEW c \in Commands, Commit(c)
      PROVE  AllSettled'
  BY <1>1, <1>2, CommitKeeps, SettledKept
<1>3. CASE \/ \E k \in PersistKeys, v \in Vals : Set(k, v)
           \/ \E n \in Nodes, k \in TtlKeys, v \in Vals, t \in Ttls : SetEx(n, k, v, t)
           \/ \E k \in Keys : Delete(k)
  BY <1>1, <1>2, <1>3, WriteCommits
<1>4. ASSUME db' = db, high' = high, applied' = applied, log' = log
      PROVE  AllSettled'
  BY <1>1, <1>4, SettledKept
<1>5. CASE Tick
  BY <1>4, <1>5 DEF Tick
<1>6. ASSUME NEW n \in Nodes, Apply(n)
      PROVE  AllSettled'
  <2> DEFINE c == log[applied[n] + 1]
  <2> HIDE DEF c
  <2> SUFFICES ASSUME NEW m \in Nodes, NEW k \in PersistKeys
               PROVE  db'[m][k].exp = NoExpiry /\ Settled(m, k)'
    BY DEF AllSettled
  <2>1. /\ applied[n] + 1 \in 1..Len(log) /\ c \in Commands
        /\ \E pause \in 0 .. MaxPause :
             db'[m][k] = IF m = n /\ Writes(c, Clock(n)) /\ c.key = k
                         THEN EntryOf(c, nextTs[n], pause) ELSE db[m][k]
    BY <1>1, <1>6, ApplyEntry DEF c, Keys
  <2>2. log' = log /\ \A i : SetAt(i, k)' <=> SetAt(i, k)
    BY <1>6 DEF Apply, SetAt
  <2>3. db[m][k].exp = NoExpiry /\ Settled(m, k)
    BY <1>1 DEF AllSettled
  <2>4. /\ applied[m] \in Nat /\ high[m] \in Nat /\ Len(log) \in Nat
        /\ applied[m] <= high[m] /\ high[m] <= Len(log)
    BY <1>1 DEF TypeOK, IndexOrder
  <2>5. CASE m # n
    <3>1. db'[m][k] = db[m][k] /\ applied'[m] = applied[m] /\ high'[m] = high[m]
      BY <1>1, <1>6, <2>1, <2>5 DEF Apply, TypeOK
    <3> QED
      BY <2>2, <2>3, <3>1 DEF Settled
  <2>6. CASE m = n
    <3>1. /\ applied'[m] = applied[m] + 1
          /\ high'[m] = IF applied[m] + 1 > high[m] THEN applied[m] + 1 ELSE high[m]
          /\ c = log[applied[m] + 1]
      BY <1>1, <1>6, <2>6 DEF Apply, TypeOK, c
    <3>2. applied[m] + 1 \in 1..high'[m] /\ high[m] <= high'[m]
      BY <2>4, <3>1
    <3>3. CASE c.op = CmdSet /\ c.key = k
      <4>1. SetAt(applied[m] + 1, k)
        BY <3>1, <3>3 DEF SetAt
      <4>2. \E pause : db'[m][k] = EntryOf(c, nextTs[n], pause)
        BY <2>1, <2>6, <3>3 DEF Writes
      <4>3. db'[m][k].val = log[applied[m] + 1].val /\ db'[m][k].exp = NoExpiry
        BY <3>1, <3>3, <4>2 DEF EntryOf, CmdSet, CmdSetEx
      <4>4. \A j \in (applied[m] + 1 + 1)..applied'[m] : ~SetAt(j, k)
        BY <2>4, <3>1
      <4> QED
        BY <2>2, <3>2, <4>1, <4>3, <4>4 DEF Settled
    <3>4. CASE ~(c.op = CmdSet /\ c.key = k)
      <4>1. ~SetAt(applied[m] + 1, k)
        BY <3>1, <3>4 DEF SetAt
      <4>2. db'[m][k] = db[m][k]
        BY <2>1, <3>4, CommandFields, StoreAssumption DEF Writes, CmdSet, CmdSetEx, CmdDel
      <4>3. CASE db[m][k].val = NoVal /\ \A i \in 1..high[m] : ~SetAt(i, k)
        <5>1. \A i \in 1..high'[m] : ~SetAt(i, k)
          BY <2>4, <3>1, <4>1, <4>3
        <5> QED
          BY <2>2, <2>3, <4>2, <4>3, <5>1 DEF Settled
      <4>4. CASE \E i \in 1..high[m] :
                   /\ SetAt(i, k) /\ db[m][k].val = log[i].val
                   /\ \A j \in (i + 1)..applied[m] : ~SetAt(j, k)
        <5>1. PICK i \in 1..high[m] :
                     /\ SetAt(i, k) /\ db[m][k].val = log[i].val
                     /\ \A j \in (i + 1)..applied[m] : ~SetAt(j, k)
          BY <4>4
        <5>2. i \in 1..high'[m]
          BY <2>4, <3>1, <3>2
        <5>3. \A j \in (i + 1)..applied'[m] : ~SetAt(j, k)
          BY <2>4, <3>1, <4>1, <5>1
        <5> QED
          BY <2>2, <2>3, <4>2, <5>1, <5>2, <5>3 DEF Settled
      <4> QED
        BY <2>3, <4>3, <4>4 DEF Settled
    <3> QED
      BY <3>3, <3>4
  <2> QED
    BY <2>5, <2>6
<1>7. ASSUME NEW n \in Nodes, SnapshotStart(n) \/ PersistCancelled(n)
      PROVE  AllSettled'
  BY <1>4, <1>7 DEF SnapshotStart, PersistCancelled
<1>8. ASSUME NEW n \in Nodes, NEW part \in SUBSET Keys,
             Persist(n) \/ PersistTruncated(n, part)
      PROVE  AllSettled'
  BY <1>4, <1>8 DEF Persist, PersistTruncated, SnapshotDone
<1>9. ASSUME NEW n \in Nodes, Restart(n)
      PROVE  AllSettled'
  <2> SUFFICES ASSUME NEW m \in Nodes, NEW k \in PersistKeys
               PROVE  db'[m][k].exp = NoExpiry /\ Settled(m, k)'
    BY DEF AllSettled
  <2>1. db' = db /\ log' = log /\ high' = high
    BY <1>1, <1>9, RestartLoadsNothing DEF Restart
  <2>2. applied'[m] \in Nat /\ applied[m] \in Nat /\ applied'[m] <= applied[m]
    BY <1>1, <1>9 DEF Restart, TypeOK, IndexOrder
  <2>3. db[m][k].exp = NoExpiry /\ Settled(m, k)
    BY <1>1 DEF AllSettled
  <2>4. high[m] \in Nat /\ \A i : SetAt(i, k)' <=> SetAt(i, k)
    BY <1>1, <2>1 DEF SetAt, TypeOK
  <2> QED
    BY <2>1, <2>2, <2>3, <2>4 DEF Settled
<1>10. ASSUME NEW m \in Nodes, NEW n \in Nodes, InstallSnapshot(m, n)
       PROVE  AllSettled'
  BY <1>1, <1>10, NoInstall
<1>11. CASE UNCHANGED vars
  BY <1>4, <1>11 DEF vars
<1> QED
  BY <1>3, <1>5, <1>6, <1>7, <1>8, <1>9, <1>10, <1>11 DEF Next

LEMMA CaughtUpNext ==
  ASSUME MaxInstalls = 0
  PROVE  CaughtUpInv /\ [Next]_vars => CaughtUpInv'
BY NextType, IndexNext, SnapshotOlderNext, SettledNext DEF CaughtUpInv

(* A reader of a persistent key gets the database's value: such a key has  *)
(* no deadline.                                                            *)
LEMMA PersistentRead ==
  ASSUME AllSettled, NEW n \in Nodes, NEW k \in PersistKeys
  PROVE  Read(n, k) = db[n][k].val
  BY DEF AllSettled, Read, Get, IsLive

(* Settled keys of a node that has applied the whole log hold the newest   *)
(* committed value.                                                        *)
LEMMA CaughtUpImplies == CaughtUpInv => CaughtUp
<1> SUFFICES ASSUME CaughtUpInv, NEW n \in Nodes, NEW k \in PersistKeys,
                    applied[n] = Len(log)
             PROVE  NewestValue(k, Read(n, k))
  BY DEF CaughtUp
<1>1. Read(n, k) = db[n][k].val /\ Settled(n, k)
  BY PersistentRead DEF CaughtUpInv, AllSettled
<1>2. high[n] = Len(log) /\ Len(log) \in Nat
  BY DEF CaughtUpInv, TypeOK, IndexOrder
<1> QED
  BY <1>1, <1>2 DEF Settled, NewestValue

(* In a cluster that ships no snapshot, CaughtUp holds whatever the number *)
(* of nodes, keys and commands, of restarts and of truncated snapshots.    *)
THEOREM CaughtUpHolds ==
  ASSUME MaxInstalls = 0
  PROVE  Spec => []CaughtUp
<1>1. Init => CaughtUpInv
  BY CaughtUpInit
<1>2. CaughtUpInv /\ [Next]_vars => CaughtUpInv'
  BY CaughtUpNext
<1> QED
  BY <1>1, <1>2, CaughtUpImplies, PTL DEF Spec

(* No step takes a command back, or the record of having applied one.      *)
LEMMA HistoryKept ==
  ASSUME MaxInstalls = 0, TypeOK, [Next]_vars
  PROVE  /\ \A i \in 1..Len(log) : log'[i] = log[i]
         /\ \A n \in Nodes : high[n] <= high'[n]
<1> DEFINE Kept == /\ \A i \in 1..Len(log) : log'[i] = log[i]
                   /\ \A n \in Nodes : high[n] <= high'[n]
<1>1. ASSUME log' = log, high' = high
      PROVE  Kept
  BY <1>1 DEF TypeOK
<1>2. ASSUME NEW c \in Commands, Commit(c)
      PROVE  Kept
  BY <1>2, CommitKeeps DEF TypeOK
<1>3. CASE \/ \E k \in PersistKeys, v \in Vals : Set(k, v)
           \/ \E n \in Nodes, k \in TtlKeys, v \in Vals, t \in Ttls : SetEx(n, k, v, t)
           \/ \E k \in Keys : Delete(k)
  BY <1>2, <1>3, WriteCommits
<1>4. CASE Tick
  BY <1>1, <1>4 DEF Tick
<1>5. ASSUME NEW n \in Nodes, Apply(n)
      PROVE  Kept
  <2>1. /\ log' = log
        /\ high' = [high EXCEPT
                      ![n] = IF applied[n] + 1 > high[n] THEN applied[n] + 1 ELSE high[n]]
    BY <1>5 DEF Apply
  <2> QED
    BY <2>1 DEF TypeOK
<1>6. ASSUME NEW n \in Nodes, NEW part \in SUBSET Keys,
             \/ SnapshotStart(n) \/ PersistCancelled(n)
             \/ Persist(n) \/ PersistTruncated(n, part) \/ Restart(n)
      PROVE  Kept
  BY <1>1, <1>6
  DEF SnapshotStart, PersistCancelled, Persist, PersistTruncated, SnapshotDone, Restart
<1>7. ASSUME NEW m \in Nodes, NEW n \in Nodes, InstallSnapshot(m, n)
      PROVE  Kept
  BY <1>7, NoInstall
<1>8. CASE UNCHANGED vars
  BY <1>1, <1>8 DEF vars
<1> QED
  BY <1>3, <1>4, <1>5, <1>6, <1>7, <1>8 DEF Next

(* In such a cluster no step, the replay after a restart included, hides a *)
(* persistent key that a node shows.                                       *)
THEOREM VisibleStaysHolds ==
  ASSUME MaxInstalls = 0
  PROVE  Spec => VisibleStays
<1>1. Init => CaughtUpInv
  BY CaughtUpInit
<1>2. CaughtUpInv /\ [Next]_vars => CaughtUpInv'
  BY CaughtUpNext
<1>3. CaughtUpInv /\ CaughtUpInv' /\ [Next]_vars => [KeepsVisible]_vars
  <2> SUFFICES ASSUME CaughtUpInv, CaughtUpInv', [Next]_vars,
                      NEW n \in Nodes, NEW k \in PersistKeys, Read(n, k) # NoVal
               PROVE  Read(n, k)' # NoVal
    BY DEF KeepsVisible
  <2>1. db[n][k].val # NoVal /\ Settled(n, k) /\ TypeOK /\ high[n] <= Len(log)
    BY PersistentRead DEF CaughtUpInv, AllSettled, IndexOrder
  <2>2. PICK i \in 1..high[n] : SetAt(i, k)
    BY <2>1 DEF Settled
  <2>3. high[n] \in Nat /\ high'[n] \in Nat /\ Len(log) \in Nat
    BY DEF CaughtUpInv, TypeOK
  <2>4. i \in 1..high'[n] /\ SetAt(i, k)'
    BY <2>1, <2>2, <2>3, HistoryKept DEF SetAt
  <2>5. Settled(n, k)' /\ log' \in Seq(Commands) /\ high'[n] <= Len(log')
    BY DEF CaughtUpInv, AllSettled, TypeOK, IndexOrder
  <2>6. PICK j \in 1..high'[n] : SetAt(j, k)' /\ db'[n][k].val = log'[j].val
    BY <2>4, <2>5 DEF Settled
  <2>7. log'[j] \in Commands
    BY <2>3, <2>5, <2>6
  <2>8. db'[n][k].val \in Vals
    BY <2>6, <2>7, CommandFields DEF SetAt
  <2>9. Read(n, k)' = db'[n][k].val
    BY DEF CaughtUpInv, AllSettled, Read, Get, IsLive
  <2> QED
    BY <2>8, <2>9, StoreAssumption
<1> QED
  BY <1>1, <1>2, <1>3, PTL DEF Spec, VisibleStays
=============================================================================
