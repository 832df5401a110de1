------------------------------ MODULE MicroFsm ------------------------------
(***************************************************************************)
(* The key-value state machine that every node of a micro-conf cluster     *)
(* runs: the commands that Store.Set and Store.Delete put on the Raft log  *)
(* (store/raft/raft.go), what fsm.Apply does with them (store/raft/fsm.go) *)
(* and what badger, the embedded database, shows to a reader.              *)
(*                                                                         *)
(* A database maps each key to the newest badger entry of that key: its    *)
(* value, its deadline and the commit timestamp badger gave it.            *)
(***************************************************************************)
EXTENDS Integers

CONSTANTS
  NoVal,   \* what badger.ErrKeyNotFound tells the caller
  Second   \* the ticks of a clock in a second

ASSUME FsmAssumption == Second \in Nat \ {0}

CmdSet   == "set"
CmdSetEx == "setex"
CmdDel   == "del"
NoExpiry == 0    \* badger: an ExpiresAt of 0 never expires

NoEntry == [val |-> NoVal, exp |-> NoExpiry, ver |-> 0]

-----------------------------------------------------------------------------
(* The commands the leader proposes.                                       *)

SetCommandRaw(k, v) == [op |-> CmdSet, key |-> k, val |-> v, exp |-> -1]  \* plausible bug

SetCommand(k, v) == [op |-> CmdSet, key |-> k, val |-> v, exp |-> NoExpiry]

(* A relative time to live becomes an absolute deadline on the clock of    *)
(* the node that proposes.                                                 *)
SetExCommand(k, v, clock, ttl) ==
  [op |-> CmdSetEx, key |-> k, val |-> v, exp |-> clock + ttl]

(* The operation name Store.Delete writes on the log.                      *)
DeleteCommand(k) == [op |-> "delete", key |-> k, val |-> NoVal, exp |-> NoExpiry]

-----------------------------------------------------------------------------
(* A reader sees an entry until its deadline.                              *)
IsLive(e, clock) ==
  /\ e.val # NoVal
  /\ e.exp = NoExpiry \/ clock < e.exp

Get(db, k, clock) == IF IsLive(db[k], clock) THEN db[k].val ELSE NoVal

(* A plausible bug of applySet, for checking the properties: the deadline  *)
(* is dropped when the entry is written.                                   *)
EntryNoTtl(c, ver, pause) == [val |-> c.val, exp |-> NoExpiry, ver |-> ver]

(* The entry applySet and applyDelete hand to badger.  applySet turns the  *)
(* deadline into what is left of it, WithTTL adds that to the clock again, *)
(* which has moved on by pause, and keeps whole seconds.  (If the deadline *)
(* passes between applySet's check and its subtraction, this one wraps,    *)
(* and the conversion to a Duration makes it negative again.)              *)
WholeSeconds(t) == t - (t % Second)

EntryOf(c, ver, pause) ==
  [val |-> c.val, exp |-> IF c.op = CmdSetEx THEN WholeSeconds(c.exp + pause) ELSE NoExpiry,
   ver |-> ver]

(* Whether fsm.Apply runs a badger transaction for c: a setex command      *)
(* whose deadline has passed is dropped, and so is an operation name that  *)
(* the switch of Apply does not know.                                      *)
Writes(c, clock) ==
  \/ c.op \in {CmdSet, CmdDel}
  \/ c.op = CmdSetEx /\ clock <= c.exp

ApplyCommand(db, c, ver, clock, pause) ==
  IF Writes(c, clock) THEN [db EXCEPT ![c.key] = EntryOf(c, ver, pause)] ELSE db

-----------------------------------------------------------------------------
(* fsm.Restore is badger's Load: every entry of the backup is written at   *)
(* its own commit timestamp, on top of what the database holds, and a read *)
(* returns the entry with the highest timestamp.                           *)
LoadOverwrite(db, backup) == backup   \* a plausible other reading of Restore

Load(db, backup) ==
  [k \in DOMAIN db |-> IF backup[k].ver >= db[k].ver THEN backup[k] ELSE db[k]]
=============================================================================
