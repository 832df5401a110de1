-------------------------- MODULE NamespaceRelease --------------------------
(***************************************************************************)
(* The life of one configuration namespace: the handlers that create it,   *)
(* save a draft of it and release the draft (service/cfg/cfg_admin.go), as *)
(* processes that run on any node of the cluster, each a sequence of reads *)
(* of the node's own database and of writes through Raft.                  *)
(*                                                                         *)
(* The store is what ReplicatedStore makes of it for a handler: a log of   *)
(* committed writes, of which every node has applied a prefix.  Deletes    *)
(* are not on the log: they have no effect.  A write may fail, may fail    *)
(* and be committed all the same, now or later, and a redirected one may   *)
(* be reported as done without being committed.                            *)
(***************************************************************************)
EXTENDS Integers, Sequences, FiniteSets

CONSTANTS
  Nodes,
  Leader,      \* the node that commits writes without redirecting them
  Serving,     \* the nodes the administrators talk to
  Handlers,    \* request goroutines
  Files,       \* the texts a draft may have
  Blank,       \* the text createNamespace writes
  Broken,      \* the text that does not parse
  NoVal,       \* badger.ErrKeyNotFound
  Faults,      \* what can go wrong with a write or a process, see FaultKinds
  Hurried,     \* whether two releases may start in one second
  MaxActive,   \* bound: requests served at once
  MaxRequests, \* bound: requests
  MaxNow       \* bound: seconds

FaultKinds == {"error", "late", "swallowed", "crash"}

ASSUME ReleaseAssumption ==
  /\ Leader \in Nodes /\ Serving \subseteq Nodes
  /\ NoVal \notin Files /\ Blank \in Files /\ Broken \in Files
  /\ Faults \subseteq FaultKinds
  /\ Hurried \in BOOLEAN
  /\ {MaxActive, MaxRequests, MaxNow} \subseteq Nat

VARIABLES
  log,       \* the committed writes of the namespace's keys
  applied,   \* applied[n]: how much of log node n's database shows
  orphans,   \* writes whose caller was told they failed, still to be committed
  pushes,    \* the changes pushed to the applications
  now,       \* seconds
  last,      \* the second of the newest release, or -1
  requests,
  pc,        \* pc[h]: what handler h does next
  node,      \* node[h]: the node that runs h
  text,      \* text[h]: the draft to save, or toReleaseContent
  cur,       \* cur[h]: currentContent
  stamp      \* stamp[h]: the second in the name of the history key

store == <<log, applied, orphans>>
locals == <<node, text, cur, stamp>>
vars == <<store, pushes, now, last, requests, pc, locals>>

Steps == {"idle", "createRead", "createWrite", "saveRead", "saveWrite",
          "readCurrent", "readDraft", "writeHistory", "writeCurrent", "push", "deleteDraft"}

Init ==
  /\ log = << >>
  /\ applied = [n \in Nodes |-> 0]
  /\ orphans = {}
  /\ pushes = << >>
  /\ now = 0
  /\ last = -1
  /\ requests = 0
  /\ pc = [h \in Handlers |-> "idle"]
  /\ node = [h \in Handlers |-> Leader]
  /\ text = [h \in Handlers |-> NoVal]
  /\ cur = [h \in Handlers |-> NoVal]
  /\ stamp = [h \in Handlers |-> 0]

-----------------------------------------------------------------------------
(* The store.                                                              *)

(* The writes of a key among the first i of the log.                       *)
WritesOf(key, i) == {j \in 1..i : log[j].key = key}

ValueAt(key, i) ==
  IF WritesOf(key, i) = {} THEN NoVal
  ELSE log[CHOOSE j \in WritesOf(key, i) : \A l \in WritesOf(key, i) : l <= j].val

(* rs.Get of the current or the draft key on the node of h.                *)
Get(h, key) == ValueAt(key, applied[node[h]])

Write(key, at, v) == [key |-> key, at |-> at, val |-> v]

(* The leader's database shows a write before Set returns there.           *)
Commit(h, w) ==
  /\ log' = Append(log, w)
  /\ applied' = IF node[h] = Leader
                THEN [applied EXCEPT ![Leader] = Len(log) + 1] ELSE applied
  /\ UNCHANGED orphans

GoTo(h, step) == pc' = [pc EXCEPT ![h] = step]

(* rs.Set by h: after success h goes on with next, after an error the      *)
(* request ends.                                                           *)
Set(h, w, next) ==
  \/ Commit(h, w) /\ GoTo(h, next)
  \/ /\ "error" \in Faults
     /\ GoTo(h, "idle")
     /\ Commit(h, w) \/ UNCHANGED store
  \/ /\ "late" \in Faults
     /\ GoTo(h, "idle")
     /\ orphans' = orphans \cup {w}
     /\ UNCHANGED <<log, applied>>
  \/ (* requestRemote takes a reply that is not JSON for a success.        *)
     /\ "swallowed" \in Faults /\ node[h] # Leader
     /\ GoTo(h, next)
     /\ UNCHANGED store

CommitOrphan(w) ==
  /\ w \in orphans
  /\ orphans' = orphans \ {w}
  /\ log' = Append(log, w)
  /\ UNCHANGED <<applied, pushes, now, last, requests, pc, locals>>

Apply(n) ==
  /\ applied[n] < Len(log)
  /\ applied' = [applied EXCEPT ![n] = @ + 1]
  /\ UNCHANGED <<log, orphans, pushes, now, last, requests, pc, locals>>

Tick ==
  /\ now < MaxNow
  /\ now' = now + 1
  /\ UNCHANGED <<store, pushes, last, requests, pc, locals>>

-----------------------------------------------------------------------------
(* Requests.                                                               *)

Start(h, n, step, f) ==
  /\ pc[h] = "idle"
  /\ Cardinality({g \in Handlers : pc[g] # "idle"}) < MaxActive
  /\ requests < MaxRequests
  /\ requests' = requests + 1
  /\ GoTo(h, step)
  /\ node' = [node EXCEPT ![h] = n]
  /\ text' = [text EXCEPT ![h] = f]
  /\ cur' = [cur EXCEPT ![h] = NoVal]
  /\ stamp' = [stamp EXCEPT ![h] = 0]
  /\ UNCHANGED <<store, pushes, now, last>>

(* A step of h that calls neither Set nor pushChange.                      *)
LocalStep(h, step) ==
  /\ GoTo(h, step)
  /\ UNCHANGED <<store, pushes, now, requests>>

-----------------------------------------------------------------------------
(* createNamespace.                                                        *)

Create(h, n) == Start(h, n, "createRead", Blank)

CreateUnchecked(h) ==   \* plausible bug: the namespace is not looked up
  pc[h] = "createRead" /\ LocalStep(h, "createWrite") /\ UNCHANGED <<last, locals>>

CreateRead(h) ==
  /\ pc[h] = "createRead"
  /\ LocalStep(h, IF Get(h, "current") = NoVal THEN "createWrite" ELSE "idle")
  /\ UNCHANGED <<last, locals>>

CreateWrite(h) ==
  /\ pc[h] = "createWrite"
  /\ Set(h, Write("current", 0, Blank), "idle")
  /\ UNCHANGED <<pushes, now, last, requests, locals>>

(* changeNamespaceContent.                                                 *)

Save(h, n, f) == Start(h, n, "saveRead", f)

SaveRead(h) ==
  /\ pc[h] = "saveRead"
  /\ LocalStep(h, IF Get(h, "current") = NoVal THEN "idle" ELSE "saveWrite")
  /\ UNCHANGED <<last, locals>>

SaveWrite(h) ==
  /\ pc[h] = "saveWrite"
  /\ Set(h, Write("draft", 0, text[h]), "idle")
  /\ UNCHANGED <<pushes, now, last, requests, locals>>

-----------------------------------------------------------------------------
(* releaseNamespace.                                                       *)

Release(h, n) ==
  /\ Hurried \/ now > last
  /\ Start(h, n, "readCurrent", NoVal)

ReadCurrent(h) ==
  /\ pc[h] = "readCurrent"
  /\ LocalStep(h, IF Get(h, "current") = NoVal THEN "idle" ELSE "readDraft")
  /\ cur' = [cur EXCEPT ![h] = Get(h, "current")]
  /\ UNCHANGED <<last, node, text, stamp>>

(* What diff says of two texts: it fails on one that does not parse, and   *)
(* finds equal ones, and an empty new one, the same (Differ).              *)
EqualTexts(old, new) == new = old   \* plausible bug: only the texts are compared

NothingToRelease(old, new) == new \in {NoVal, Blank, Broken, old}

(* The draft is read and compared, and the second of the history key is    *)
(* taken.                                                                  *)
ReadDraft(h) ==
  /\ pc[h] = "readDraft"
  /\ LET new == Get(h, "draft") IN
     IF NothingToRelease(cur[h], new)
     THEN LocalStep(h, "idle") /\ UNCHANGED <<last, locals>>
     ELSE /\ LocalStep(h, "writeHistory")
          /\ text' = [text EXCEPT ![h] = new]
          /\ stamp' = [stamp EXCEPT ![h] = now]
          /\ last' = now
          /\ UNCHANGED <<node, cur>>

(* Plausible bugs: the new text is filed; the push comes before the write. *)
FileNewText(h) ==
  /\ pc[h] = "writeHistory"
  /\ Set(h, Write("history", stamp[h], text[h]), "writeCurrent")
  /\ UNCHANGED <<pushes, now, last, requests, locals>>
PushFirst(h) ==
  /\ pc[h] = "writeHistory"
  /\ Set(h, Write("history", stamp[h], cur[h]), "push")
  /\ UNCHANGED <<pushes, now, last, requests, locals>>

(* 1. The old text under a history key with the time.                      *)
WriteHistory(h) ==
  /\ pc[h] = "writeHistory"
  /\ Set(h, Write("history", stamp[h], cur[h]), "writeCurrent")
  /\ UNCHANGED <<pushes, now, last, requests, locals>>

(* 2. The draft becomes the current text.                                  *)
WriteCurrent(h) ==
  /\ pc[h] = "writeCurrent"
  /\ Set(h, Write("current", 0, text[h]), "push")
  /\ UNCHANGED <<pushes, now, last, requests, locals>>

(* 3. pushChange sends the differences to the applications.                *)
Push(h) ==
  /\ pc[h] = "push"
  /\ pushes' = Append(pushes, [from |-> cur[h], to |-> text[h]])
  /\ GoTo(h, "deleteDraft")
  /\ UNCHANGED <<store, now, last, requests, locals>>

(* 4. rs.Delete of the draft, which deletes nothing.                       *)
DeleteDraft(h) ==
  /\ pc[h] = "deleteDraft"
  /\ LocalStep(h, "idle")
  /\ UNCHANGED <<last, locals>>

(* The process of a node stops: its requests end where they are.           *)
Crash(n) ==
  /\ "crash" \in Faults
  /\ \E h \in Handlers : node[h] = n /\ pc[h] # "idle"
  /\ pc' = [h \in Handlers |-> IF node[h] = n THEN "idle" ELSE pc[h]]
  /\ UNCHANGED <<store, pushes, now, last, requests, locals>>

-----------------------------------------------------------------------------
Next ==
  \/ \E h \in Handlers, n \in Serving :
       \/ Create(h, n)
       \/ \E f \in Files : Save(h, n, f)
       \/ Release(h, n)
  \/ \E h \in Handlers :
       \/ CreateRead(h) \/ CreateWrite(h)
       \/ SaveRead(h) \/ SaveWrite(h)
       \/ ReadCurrent(h) \/ ReadDraft(h)
       \/ WriteHistory(h) \/ WriteCurrent(h) \/ Push(h) \/ DeleteDraft(h)
  \/ \E w \in orphans : CommitOrphan(w)
  \/ \E n \in Nodes : Apply(n) \/ Crash(n)
  \/ Tick

Spec == Init /\ [][Next]_vars

-----------------------------------------------------------------------------
(* Properties.                                                             *)

Writes == [key : {"current", "draft", "history"}, at : Nat, val : Files]

(* Types.                                                                  *)
TypeOK ==
  /\ log \in Seq(Writes)
  /\ applied \in [Nodes -> Nat]
  /\ orphans \subseteq Writes
  /\ pushes \in Seq([from : Files, to : Files])
  /\ now \in Nat
  /\ last \in Nat \cup {-1}
  /\ requests \in Nat
  /\ pc \in [Handlers -> Steps]
  /\ node \in [Handlers -> Nodes]
  /\ text \in [Handlers -> Files \cup {NoVal}]
  /\ cur \in [Handlers -> Files \cup {NoVal}]
  /\ stamp \in [Handlers -> Nat]

WrittenBefore(i, key, v) == \E j \in 1..(i - 1) : log[j].key = key /\ log[j].val = v

(* A text is released only after it was saved as the draft, and what is    *)
(* filed as history was current before, however stale the nodes' databases *)
(* are, whichever requests overlap and whatever they leave unfinished      *)
(* (releaseNamespace's reads and writes).  The empty file is no text here: *)
(* createNamespace may write it over a released one.                       *)
Provenance ==
  \A i \in 1..Len(log) :
    /\ log[i].key = "current" /\ log[i].val # Blank
         => WrittenBefore(i, "draft", log[i].val)
    /\ log[i].key = "history" => WrittenBefore(i, "current", log[i].val)

(* The applications are told of a text only once it was committed as the   *)
(* current one: steps 2 and 3 of releaseNamespace in their order.          *)
PushedWasCurrent ==
  \A i \in 1..Len(pushes) :
    \E j \in 1..Len(log) : log[j].key = "current" /\ log[j].val = pushes[i].to

(* What the store holds, all writes applied.                               *)
Current == ValueAt("current", Len(log))
Draft == ValueAt("draft", Len(log))
History ==
  {log[i].val : i \in {j \in WritesOf("history", Len(log)) :
     \A l \in WritesOf("history", Len(log)) : log[l].at = log[j].at => l <= j}}

(* The abstract specification that one request after the other on the      *)
(* leader implements.                                                      *)
Versions == INSTANCE VersionedFile
  WITH current <- Current, draft <- Draft, history <- History
VersionsSpec == Versions!Spec
=============================================================================
