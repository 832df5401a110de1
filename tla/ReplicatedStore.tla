--------------------------- MODULE ReplicatedStore ---------------------------
(***************************************************************************)
(* The replicated key-value store of store/raft: one Raft log, a badger    *)
(* database on every node, snapshots, restarts and catching up.            *)
(*                                                                         *)
(* hashicorp/raft is external: it is modelled by the committed log and by  *)
(* the calls it makes to the state machine (Apply in log order, Snapshot,  *)
(* Persist, Restore).  A node that is down takes no step; Restart is the   *)
(* moment its process opens the store again.                               *)
(*                                                                         *)
(* PersistKeys are the keys the services write without a time to live      *)
(* (app.info, app.cfg, user), TtlKeys those they only ever write with one  *)
(* (app.instance, app.ns).                                                 *)
(***************************************************************************)
EXTENDS MicroFsm, Sequences

CONSTANTS
  Nodes,        \* the cluster members
  PersistKeys,  \* keys only written by Set(key, value, -1)
  TtlKeys,      \* keys only written by Set(key, value, exp > 0)
  Vals,         \* the values written
  Ttls,         \* the times to live, in clock ticks
  Skew,         \* Skew[n]: how far the clock of n is ahead
  BackupFails,  \* whether badger's Backup may fail half-way
  MaxPause,     \* the longest time between two readings of the clock by applySet
  Trailing,     \* Raft log entries kept behind a snapshot (TrailingLogs)
  MaxLog,       \* bound: length of the log
  MaxNow,       \* bound: time
  MaxRestarts,  \* bound: restarts, over all nodes
  MaxInstalls   \* bound: snapshots shipped to a follower

Keys == PersistKeys \cup TtlKeys

ASSUME StoreAssumption ==
  /\ PersistKeys \cap TtlKeys = {}
  /\ NoVal \notin Vals
  /\ Ttls \subseteq Nat \ {0}
  /\ Skew \in [Nodes -> Nat]
  /\ BackupFails \in BOOLEAN
  /\ {MaxPause, Trailing, MaxLog, MaxNow, MaxRestarts, MaxInstalls} \subseteq Nat

VARIABLES
  log,       \* the committed commands
  now,       \* the time of a node without skew; any time at which no deadline is 0
  applied,   \* applied[n]: index of the last command n's state machine took
  high,      \* high[n]: the highest index n ever applied
  db,        \* db[n]: the badger database of n, on disk
  nextTs,    \* nextTs[n]: badger's next commit timestamp on n
  snap,      \* snap[n]: the newest committed snapshot of n
  pending,   \* pending[n]: index of the snapshot being written, or None
  restarts, installs

vars == <<log, now, applied, high, db, nextTs, snap, pending, restarts, installs>>
bounds == <<restarts, installs>>

None == -1
EmptyDb == [k \in Keys |-> NoEntry]
Clock(n) == now + Skew[n]
Read(n, k) == Get(db[n], k, Clock(n))

Init ==
  /\ log = << >>
  /\ now = Second
  /\ applied = [n \in Nodes |-> 0]
  /\ high = [n \in Nodes |-> 0]
  /\ db = [n \in Nodes |-> EmptyDb]
  /\ nextTs = [n \in Nodes |-> 1]
  /\ snap = [n \in Nodes |-> [idx |-> 0, data |-> EmptyDb]]
  /\ pending = [n \in Nodes |-> None]
  /\ restarts = 0
  /\ installs = 0

-----------------------------------------------------------------------------
(* Writes: the leader commits a command.                                   *)

Commit(c) ==
  /\ Len(log) < MaxLog
  /\ log' = Append(log, c)
  /\ UNCHANGED <<now, applied, high, db, nextTs, snap, pending, bounds>>

(* Store.Set without a time to live.                                       *)
Set(k, v) == Commit(SetCommand(k, v))

(* Store.Set with one: leader n turns it into a deadline on its own clock. *)
SetEx(n, k, v, ttl) == Commit(SetExCommand(k, v, Clock(n), ttl))

(* Store.Delete.                                                           *)
Delete(k) == Commit(DeleteCommand(k))

-----------------------------------------------------------------------------
(* The state machine of node n takes the next committed command.           *)
Apply(n) ==
  /\ applied[n] < Len(log)
  /\ LET c == log[applied[n] + 1] IN
     /\ \E pause \in 0 .. MaxPause :
          db' = [db EXCEPT ![n] = ApplyCommand(@, c, nextTs[n], Clock(n), pause)]
     /\ nextTs' = [nextTs EXCEPT ![n] = IF Writes(c, Clock(n)) THEN @ + 1 ELSE @]
  /\ applied' = [applied EXCEPT ![n] = @ + 1]
  /\ high' = [high EXCEPT ![n] = IF applied[n] + 1 > @ THEN applied[n] + 1 ELSE @]
  /\ UNCHANGED <<log, now, snap, pending, bounds>>

Tick ==
  /\ now < MaxNow
  /\ now' = now + 1
  /\ UNCHANGED <<log, applied, high, db, nextTs, snap, pending, bounds>>

-----------------------------------------------------------------------------
(* Snapshots.                                                              *)

(* fsm.Snapshot keeps only a handle on the live database: the index is     *)
(* fixed now, the contents when Persist runs.                              *)
SnapshotStart(n) ==
  /\ pending[n] = None
  /\ applied[n] > snap[n].idx
  /\ pending' = [pending EXCEPT ![n] = applied[n]]
  /\ UNCHANGED <<log, now, applied, high, db, nextTs, snap, bounds>>

SnapshotDone(n, data) ==
  /\ pending[n] # None
  /\ snap' = [snap EXCEPT ![n] = [idx |-> pending[n], data |-> data]]
  /\ pending' = [pending EXCEPT ![n] = None]
  /\ UNCHANGED <<log, now, applied, high, db, nextTs, bounds>>

(* Backup succeeds.                                                        *)
Persist(n) == SnapshotDone(n, db[n])

(* Backup fails after it wrote the keys of part: Persist closes the sink,  *)
(* which commits the file, and returns the error of Close, which is nil.   *)
PersistTruncated(n, part) ==
  /\ BackupFails
  /\ SnapshotDone(n, [k \in Keys |-> IF k \in part THEN db[n][k] ELSE NoEntry])

(* Closing the sink fails as well: the snapshot is cancelled.              *)
PersistCancelled(n) ==
  /\ BackupFails
  /\ pending[n] # None
  /\ pending' = [pending EXCEPT ![n] = None]
  /\ UNCHANGED <<log, now, applied, high, db, nextTs, snap, bounds>>

-----------------------------------------------------------------------------
(* Restarts and catching up.                                               *)

(* The process of n stops and opens its directories again.  Raft restores  *)
(* the newest snapshot into the database that survived on disk and will    *)
(* apply the commands behind it a second time.                             *)
Restart(n) ==
  /\ restarts < MaxRestarts
  /\ restarts' = restarts + 1
  /\ db' = [db EXCEPT ![n] = Load(@, snap[n].data)]
  /\ applied' = [applied EXCEPT ![n] = snap[n].idx]
  /\ pending' = [pending EXCEPT ![n] = None]
  /\ UNCHANGED <<log, now, high, nextTs, snap, installs>>

(* Node n lacks commands that leader m has compacted away: m ships its     *)
(* snapshot, n stores it and restores it into its database.  Load moves    *)
(* badger's next timestamp past every timestamp it wrote.                  *)
InstallSnapshot(m, n) ==
  /\ installs < MaxInstalls
  /\ m # n
  /\ pending[n] = None
  /\ high[n] < snap[m].idx - Trailing
  /\ installs' = installs + 1
  /\ db' = [db EXCEPT ![n] = Load(@, snap[m].data)]
  /\ \E ts \in {nextTs[n]} \cup {snap[m].data[k].ver + 1 : k \in Keys} :
       /\ ts >= nextTs[n]
       /\ \A k \in Keys : snap[m].data[k].ver < ts
       /\ nextTs' = [nextTs EXCEPT ![n] = ts]
  /\ applied' = [applied EXCEPT ![n] = snap[m].idx]
  /\ high' = [high EXCEPT ![n] = snap[m].idx]
  /\ snap' = [snap EXCEPT ![n] = snap[m]]
  /\ UNCHANGED <<log, now, pending, restarts>>

-----------------------------------------------------------------------------
Next ==
  \/ \E k \in PersistKeys, v \in Vals : Set(k, v)
  \/ \E n \in Nodes, k \in TtlKeys, v \in Vals, t \in Ttls : SetEx(n, k, v, t)
  \/ \E k \in Keys : Delete(k)
  \/ Tick
  \/ \E n \in Nodes :
       \/ Apply(n)
       \/ SnapshotStart(n)
       \/ Persist(n)
       \/ \E part \in SUBSET Keys : PersistTruncated(n, part)
       \/ PersistCancelled(n)
       \/ Restart(n)
  \/ \E m, n \in Nodes : InstallSnapshot(m, n)

Spec == Init /\ [][Next]_vars

-----------------------------------------------------------------------------
(* Properties.                                                             *)

Commands ==
  [op : {CmdSet}, key : PersistKeys, val : Vals, exp : {NoExpiry}]
    \cup [op : {CmdSetEx}, key : TtlKeys, val : Vals, exp : {t \in Nat : t > Second}]
    \cup {DeleteCommand(k) : k \in Keys}

Entries == [val : Vals \cup {NoVal}, exp : Nat, ver : Nat]

(* Types.                                                                  *)
TypeOK ==
  /\ log \in Seq(Commands)
  /\ now \in Nat /\ now >= Second
  /\ applied \in [Nodes -> Nat]
  /\ high \in [Nodes -> Nat]
  /\ db \in [Nodes -> [Keys -> Entries]]
  /\ nextTs \in [Nodes -> Nat]
  /\ snap \in [Nodes -> [idx : Nat, data : [Keys -> Entries]]]
  /\ pending \in [Nodes -> Nat \cup {None}]
  /\ restarts \in Nat
  /\ installs \in Nat

SetAt(i, k) == log[i].op = CmdSet /\ log[i].key = k
Deleted(k) == \E i \in 1..Len(log) : log[i] = DeleteCommand(k)

(* v is the newest committed value of the persistent key k.                *)
NewestValue(k, v) ==
  \/ v = NoVal /\ \A i \in 1..Len(log) : ~SetAt(i, k)
  \/ \E i \in 1..Len(log) :
       SetAt(i, k) /\ log[i].val = v /\ \A j \in (i + 1)..Len(log) : ~SetAt(j, k)

(* A node whose state machine has taken the whole log reads the newest     *)
(* committed value of every key that was never deleted, whatever snapshots *)
(* it took, however many of them were cut short by a failing Backup, and   *)
(* however often it restarted and applied commands a second time           *)
(* (fsm.Apply, fsmSnapshot.Persist, fsm.Restore).                          *)
CaughtUp ==
  \A n \in Nodes, k \in PersistKeys :
    applied[n] = Len(log) /\ ~Deleted(k) => NewestValue(k, Read(n, k))

(* A key with a time to live is never visible on a node past every         *)
(* deadline the leader ever gave it, but for the time that applySet takes  *)
(* between its readings of the clock, also when the node applies the       *)
(* command late, applies it again after a restart or gets it from a        *)
(* snapshot (applySet's check, its unsigned subtraction, and WithTTL).     *)
TtlBounded ==
  \A n \in Nodes, k \in TtlKeys :
    Read(n, k) # NoVal =>
      \E i \in 1..Len(log) :
        /\ log[i].op = CmdSetEx /\ log[i].key = k
        /\ log[i].val = Read(n, k) /\ Clock(n) < log[i].exp + MaxPause

(* The inductive invariants behind TtlBounded and CaughtUp.                *)

(* What a database or a snapshot holds of a key with a time to live is     *)
(* the value of a committed setex, up to that command's deadline.          *)
FromLog(e, k) ==
  e.val # NoVal =>
    \E i \in 1..Len(log) :
      /\ log[i].op = CmdSetEx /\ log[i].key = k
      /\ log[i].val = e.val /\ e.exp # NoExpiry /\ e.exp <= log[i].exp + MaxPause

TtlFromLog ==
  \A n \in Nodes, k \in TtlKeys : FromLog(db[n][k], k) /\ FromLog(snap[n].data[k], k)

(* The indexes of a node are in order.                                     *)
IndexOrder ==
  \A n \in Nodes :
    /\ snap[n].idx <= applied[n] /\ applied[n] <= high[n] /\ high[n] <= Len(log)
    /\ pending[n] <= applied[n]

(* The snapshot of a node is older than its database, entry by entry, and  *)
(* a timestamp stands for one entry: Load of it changes nothing.           *)
OwnSnapshotOlder ==
  \A n \in Nodes, k \in Keys :
    /\ snap[n].data[k].ver <= db[n][k].ver
    /\ snap[n].data[k].ver = db[n][k].ver => snap[n].data[k] = db[n][k]
    /\ db[n][k].ver = 0 => db[n][k] = NoEntry
    /\ db[n][k].ver < nextTs[n]

(* What a database holds of a persistent key is a value set at or below    *)
(* the highest index the node ever applied, and no command between that    *)
(* one and the node's current index set the key again.  While a restarted  *)
(* node replays, that command may lie above the current index.             *)
Settled(n, k) ==
  \/ /\ db[n][k].val = NoVal
     /\ \A i \in 1..high[n] : ~SetAt(i, k)
  \/ \E i \in 1..high[n] :
       /\ SetAt(i, k) /\ db[n][k].val = log[i].val
       /\ \A j \in (i + 1)..applied[n] : ~SetAt(j, k)

AllSettled ==
  \A n \in Nodes, k \in PersistKeys : db[n][k].exp = NoExpiry /\ Settled(n, k)

CaughtUpInv == TypeOK /\ IndexOrder /\ OwnSnapshotOlder /\ AllSettled

(* A persistent key that a node shows stays visible there unless a delete  *)
(* of it was committed: neither a snapshot that misses it nor the replay   *)
(* after a restart makes it vanish, not even while the replay runs.        *)
KeepsVisible ==
  \A n \in Nodes, k \in PersistKeys :
    Read(n, k) # NoVal /\ ~Deleted(k) => Read(n, k)' # NoVal

VisibleStays == [][KeepsVisible]_vars

(* "Delete deletes the given key" (raft.go:200): a node that has taken the *)
(* whole log does not show a key whose last command is a committed delete. *)
DeleteTakesEffect ==
  \A n \in Nodes, k \in PersistKeys :
    /\ applied[n] = Len(log)
    /\ Len(log) > 0
    /\ log[Len(log)] = DeleteCommand(k)
    => Read(n, k) = NoVal
=============================================================================
