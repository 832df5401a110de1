------------------------------ MODULE Registry ------------------------------
(***************************************************************************)
(* The keys by which the nodes know an application instance: its metadata, *)
(* its state and a key for every namespace it listens to, all with a time  *)
(* to live.  A registration writes them (service/app/reg.go); every        *)
(* heartbeat on the instance's websocket reads and writes them again       *)
(* (service/conn/heartbeat.go); the service list reads them                *)
(* (service/app/service.go).  Requests run on any node and may overlap.    *)
(*                                                                         *)
(* The leader's database shows a write when rs.Set returns; the other      *)
(* nodes apply it later.  The clocks agree, and applySet reads them twice  *)
(* within one tick: what else may happen there is the subject of           *)
(* ReplicatedStore.                                                        *)
(***************************************************************************)
EXTENDS MicroFsm, Sequences, FiniteSets

CONSTANTS
  Nodes, Leader,
  Handlers,      \* goroutines that serve a registration or a heartbeat
  Registrations, \* the InstanceInfos an instance may send
  Heartbeats,    \* and its HeartBeats
  Spaces,        \* the namespaces the instance listens to, in its order
  Shared,        \* those of another application: appId.group.namespace.format
  MetaTtl,       \* MetaExpire
  InstTtl,       \* instanceExpire
  DefaultTtl,    \* for a Timeout below a second
  Patience,      \* how long a request takes at most
  LastStart,     \* bound: the instance is gone after this time
  Horizon,       \* bound: time
  MaxRequests,   \* bound: requests
  MaxLag,        \* bound: commands a node is behind
  MaxFailures    \* bound: failed writes

Timeouts == {b.timeout : b \in Heartbeats}   \* chosen by the client
Ttls == {DefaultTtl, InstTtl} \cup (Timeouts \ {0})
Metas == {p.meta : p \in Registrations \cup Heartbeats}
States == {"UP", "DISABLED"} \cup {p.state : p \in Registrations}
Soonest == CHOOSE t \in Ttls : \A s \in Ttls : t <= s
Listened == {Spaces[i] : i \in DOMAIN Spaces}

ASSUME RegistryAssumption ==
  /\ Leader \in Nodes /\ Spaces \in Seq(Listened) /\ Shared \subseteq Listened
  /\ NoVal \notin Metas \cup States
  /\ Ttls \cup {MetaTtl} \subseteq {t \in Nat : t >= Second} /\ Timeouts \subseteq Nat
  /\ \A b \in Heartbeats : {b.cfg, b.svc} \subseteq BOOLEAN
  /\ {Patience, LastStart, Horizon, MaxRequests, MaxLag, MaxFailures} \subseteq Nat
  /\ Second <= Horizon

(* The lists need the metadata to live longer than anything else, by the   *)
(* length of two requests and the second that a deadline may lose.  The    *)
(* code does not bound the timeout of a client; a sensible one is far      *)
(* below the 24 hours of the metadata.                                     *)
MetaOutlives == \A t \in Ttls : t + 2 * Patience + Second <= MetaTtl

VARIABLES
  db,        \* db[n]: the database of node n
  behind,    \* behind[n]: the commands that n has still to apply
  now,       \* any time at which no deadline is 0
  task,      \* task[h]: the request h serves, or Idle
  requests,
  failures,
  beaten     \* ghost: the start of the newest complete heartbeat, or -1

store == <<db, behind>>
vars == <<store, now, task, requests, failures, beaten>>

Idle == [pc |-> "idle"]

Meta == <<"instance", "meta">>
Inst == <<"instance", "info">>
(* A registration writes every namespace under the own application.        *)
NsKey(s) == <<"own", s>>
SharedKey(s) == <<IF s \in Shared THEN "other" ELSE "own", s>>
Keys == {Meta, Inst} \cup ({"own", "other"} \X Listened)

Init ==
  /\ db = [n \in Nodes |-> [k \in Keys |-> NoEntry]]
  /\ behind = [n \in Nodes |-> << >>]
  /\ now = Second
  /\ task = [h \in Handlers |-> Idle]
  /\ requests = 0
  /\ failures = 0
  /\ beaten = -1

-----------------------------------------------------------------------------
(* The store and the clock.                                                *)

Become(h, t) == task' = [task EXCEPT ![h] = t]

(* rs.Set with a time to live by h, which then goes on as next, or as      *)
(* otherwise after an error.  What others have read is no longer the       *)
(* newest.                                                                 *)
Set(h, key, val, ttl, next, otherwise) ==
  \/ LET c == SetExCommand(key, val, now, ttl) IN
     /\ \A n \in Nodes : Len(behind[n]) < MaxLag
     /\ db' = [db EXCEPT ![Leader] = ApplyCommand(@, c, 0, now, 0)]
     /\ behind' = [n \in Nodes |-> IF n = Leader THEN << >> ELSE Append(behind[n], c)]
     /\ task' = [g \in Handlers |->
                   CASE g = h -> next
                     [] g # h /\ task[g] # Idle -> [task[g] EXCEPT !.alone = FALSE]
                     [] OTHER -> Idle]
     /\ UNCHANGED failures
  \/ /\ failures < MaxFailures
     /\ failures' = failures + 1
     /\ Become(h, otherwise)
     /\ UNCHANGED store

Shows(n, key) == Get(db[n], key, now)

Apply(n) ==
  /\ behind[n] # << >>
  /\ db' = [db EXCEPT ![n] = ApplyCommand(@, Head(behind[n]), 0, now, 0)]
  /\ behind' = [behind EXCEPT ![n] = Tail(@)]
  /\ UNCHANGED <<now, task, requests, failures, beaten>>

Tick ==
  /\ now < Horizon
  /\ \A h \in Handlers : task[h] # Idle => now < task[h].start + Patience
  /\ now' = now + 1
  /\ UNCHANGED <<store, task, requests, failures, beaten>>

(* alone: the value in got is the newest one, nobody has written since.    *)
Start(h, n, p, step, spaces) ==
  /\ task[h] = Idle /\ requests < MaxRequests /\ now <= LastStart
  /\ requests' = requests + 1
  /\ Become(h, [pc |-> step, node |-> n, info |-> p, todo |-> spaces, got |-> NoVal,
                start |-> now, alone |-> FALSE])
  /\ UNCHANGED <<store, now, failures, beaten>>

-----------------------------------------------------------------------------
(* regApp: the metadata, the namespaces, the state.  Only the first and    *)
(* the last error are returned.                                            *)

Register(h, n) ==
  \E p \in Registrations : Start(h, n, p, "regMeta", Spaces)

RegMeta(h, t) ==
  /\ t.pc = "regMeta"
  /\ Set(h, Meta, t.info.meta, MetaTtl, [t EXCEPT !.pc = "regSpaces"], Idle)

RegSpace(h, t) ==
  /\ t.pc = "regSpaces" /\ t.todo # << >>
  /\ LET next == [t EXCEPT !.todo = Tail(@)] IN
     Set(h, NsKey(Head(t.todo)), "UP", InstTtl, next, next)

RegInst(h, t) ==
  /\ t.pc = "regSpaces" /\ t.todo = << >>
  /\ Set(h, Inst, t.info.state, InstTtl, Idle, Idle)

-----------------------------------------------------------------------------
(* routeHeartbeat: setAppHeartBeat reads and rewrites the metadata and the *)
(* state, setCfgNsHeartBeat writes the namespaces.  Errors are only logged.*)

Heartbeat(h, n) ==
  \E p \in Heartbeats : Start(h, n, p, "readMeta", IF p.cfg THEN Spaces ELSE << >>)

(* Plausible bugs: no default; nanoseconds are taken for milliseconds.     *)
TimeoutRaw(t) == t.info.timeout
TimeoutNanos(t) == 1000000 * (IF t.info.timeout = 0 THEN DefaultTtl ELSE t.info.timeout)
TimeoutOf(t) == IF t.info.timeout = 0 THEN DefaultTtl ELSE t.info.timeout

ReadKey(h, t, key, step) ==
  /\ Become(h, [t EXCEPT !.pc = step, !.got = Shows(t.node, key),
                         !.alone = (behind[t.node] = << >>)])
  /\ UNCHANGED <<store, failures>>

ReadMetaOnce(h, t) ==   \* plausible bug: metadata that is there is not refreshed
  t.pc = "readMeta" /\ ReadKey(h, t, Meta, IF Shows(t.node, Meta) = NoVal THEN "beatMeta" ELSE "readInst")
ReadMeta(h, t) == t.pc = "readMeta" /\ ReadKey(h, t, Meta, "beatMeta")

OwnMeta(t) == t.info.meta   \* plausible bug
NewMeta(t) == IF t.got = NoVal THEN t.info.meta ELSE t.got

BeatMeta(h, t) ==
  /\ t.pc = "beatMeta"
  /\ LET next == [t EXCEPT !.pc = "readInst"] IN Set(h, Meta, NewMeta(t), MetaTtl, next, next)

ReadInst(h, t) == t.pc = "readInst" /\ ReadKey(h, t, Inst, "beatInst")

NewState(t) ==
  IF ~t.info.svc THEN "DISABLED" ELSE IF t.got = NoVal THEN "UP" ELSE t.got

BeatInst(h, t) ==
  /\ t.pc = "beatInst"
  /\ LET next == [t EXCEPT !.pc = "beatSpaces", !.got = NoVal] IN
     Set(h, Inst, NewState(t), TimeoutOf(t), next, next)

BeatSpace(h, t) ==
  /\ t.pc = "beatSpaces" /\ t.todo # << >>
  /\ LET next == [t EXCEPT !.todo = Tail(@)] IN
     Set(h, SharedKey(Head(t.todo)), "UP", TimeoutOf(t), next, next)

BeatDone(h, t) ==
  /\ t.pc = "beatSpaces" /\ t.todo = << >>
  /\ Become(h, Idle)
  /\ UNCHANGED <<store, failures>>

-----------------------------------------------------------------------------
Step(h) ==
  /\ task[h] # Idle
  /\ LET t == task[h] IN
     /\ \/ RegMeta(h, t) \/ RegSpace(h, t) \/ RegInst(h, t)
        \/ ReadMeta(h, t) \/ BeatMeta(h, t) \/ ReadInst(h, t)
        \/ BeatInst(h, t) \/ BeatSpace(h, t) \/ BeatDone(h, t)
     /\ beaten' = IF t.pc = "beatSpaces" /\ t.info.cfg /\ task'[h] = Idle /\ t.start > beaten
                  THEN t.start ELSE beaten
  /\ UNCHANGED <<now, requests>>

Next ==
  \/ \E h \in Handlers : Step(h) \/ \E n \in Nodes : Register(h, n) \/ Heartbeat(h, n)
  \/ \E n \in Nodes : Apply(n)
  \/ Tick

Spec == Init /\ [][Next]_vars

(* Requests end, nodes catch up and time passes.                           *)
FairSpec ==
  /\ Spec
  /\ \A h \in Handlers : WF_vars(Step(h))
  /\ \A n \in Nodes : WF_vars(Apply(n))
  /\ WF_vars(Tick)

-----------------------------------------------------------------------------
(* Properties.                                                             *)

(* Types: a deadline is a time and one of the times to live, in whole      *)
(* seconds.                                                                *)
Deadlines ==
  {NoExpiry} \cup {WholeSeconds(t + ttl) : t \in Second .. Horizon, ttl \in Ttls \cup {MetaTtl}}

TypeOK ==
  /\ \A n \in Nodes, k \in Keys :
       /\ db[n][k].exp \in Deadlines
       /\ db[n][k].val \in {NoVal} \cup (IF k = Meta THEN Metas ELSE States)
  /\ \A n \in Nodes : Len(behind[n]) <= MaxLag
  /\ now \in Second .. Horizon
  /\ \A h \in Handlers : task[h] # Idle => task[h].start \in Second .. LastStart
  /\ beaten \in -1 .. LastStart

(* ServiceInfos scans the states and then the metadata: whatever instance  *)
(* the first scan finds, on any node, however far behind, the second finds *)
(* its metadata, as long as no write fails and however registrations and   *)
(* heartbeats overlap (regApp and setAppHeartBeat write the metadata       *)
(* first, and for longer).                                                 *)
ListedHasMeta ==
  failures = 0 =>
    \A n \in Nodes : Shows(n, Inst) # NoVal => IsLive(db[n][Meta], now + Patience)

(* From the end of a heartbeat, and until a second before the shortest     *)
(* time to live after its start is over, the leader lists the instance and *)
(* finds it for each of its namespaces, those of other applications under  *)
(* their own keys, whatever other requests write and whatever of it runs   *)
(* out (routeHeartbeat, ExtractAppGroupNs, WithTTL's whole seconds).  So an*)
(* instance whose heartbeats follow each other within that time is always  *)
(* found; for one that lets keys live for a second the time is empty.      *)
FreshIsFound ==
  failures = 0 /\ beaten >= 0 /\ now + Second <= beaten + Soonest =>
    Shows(Leader, Inst) # NoVal /\ \A s \in Listened : Shows(Leader, SharedKey(s)) # NoVal

Keeps(h, key, step) ==
  task[h].pc = step /\ task'[h].pc # step /\ Shows(Leader, key) # NoVal =>
    Shows(Leader, key)' = Shows(Leader, key)

(* A heartbeat that read what nobody has written since leaves the metadata *)
(* and, if it comes from a service, the state as they are; the state is set*)
(* to disabled for any other (setAppHeartBeat, heartbeat.go:94-96).        *)
KeepsContent ==
  [][\A h \in Handlers : task[h] # Idle /\ task[h].alone =>
       /\ Keeps(h, Meta, "beatMeta")
       /\ task[h].pc = "beatInst" /\ task[h].info.svc => Keeps(h, Inst, "beatInst")]_vars

(* An instance that sends nothing any more disappears from every list, and *)
(* no node finds it for a namespace: late and redirected writes, and nodes *)
(* that apply them when they have expired, do not bring it back.           *)
GoneIsUnlisted ==
  <>[](\A n \in Nodes, k \in Keys \ {Meta} : Shows(n, k) = NoVal)
=============================================================================
