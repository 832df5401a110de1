# micro-conf in TLA+

micro-conf is a configuration centre and service registry: a cluster of nodes
that replicate a key-value store with Raft, an HTTP administration on top of it,
and websocket connections over which the nodes push configuration changes to the
applications. This directory models the parts of it that are hard to get right,
checks them with TLC on small instances and proves the central results with
TLAPS.

## 1. The system

| component | code | state | operations |
|---|---|---|---|
| replicated store | `store/raft/raft.go`, `fsm.go`, `fsm_snapshot.go` | the Raft log; on every node a badger database, the applied index, snapshots on disk | `Set`, `Delete`, `Get`, `ScanKvs`, `ScanKeys`; `Apply`, `Snapshot`, `Persist`, `Restore` called by Raft |
| raft log store | `store/raft/badger_store.go` | log entries and votes in two badger databases | `StoreLogs`, `DeleteRange`, `GetLog`, `FirstIndex`, `LastIndex`, `Set`, `Get` |
| membership | `raft.go` `Join`/`Remove`, `store/common.go`, `base/raft_op.go` | Raft's configuration | bootstrap, join, remove |
| write redirection | `store/raft/redirect.go`, `base/store_op.go` | none | a write on a follower becomes an HTTP request to the leader |
| namespace differ | `service/cfg/differ.go`, `codec.go` | none | `diff` of two files of a namespace |
| namespace administration | `service/cfg/cfg_admin.go` | keys `app.cfg.current`, `.future`, `.history` | create, remove, save a draft, release |
| change push | `service/cfg/change_listener.go` | none | `pushChange`, `doPush`, forwarding to the other nodes |
| websocket hub | `service/conn/client.go`, `client_mgr.go`, `websocket.go` | the registry of connections; per connection a queue, a closed flag, two goroutines | `serveWs`, `Send`, `Read`, `Write`, `Close`, `TryClose` |
| heartbeats and registration | `service/conn/heartbeat.go`, `service/app/reg.go`, `cfg.go`, `service/svc` | keys `app.instance`, `app.ns`, all with a time to live | register, heartbeat, list instances |
| application administration | `service/app/app.go`, `api.go`, `user_app.go` | keys `app.info`, `user.app` | create, modify, roles, bookmarks |
| users | `user/` | keys `user.info`, `user.admin` | sign up, log in, bootstrap of the administrator |
| permissions, signing | `service/app/permission.go`, `api/` | none | checks of one request |

How they interact. Every service reads the badger database of its own node, which
may lag behind, and writes through Raft, which on a follower means an HTTP
request to the leader. A handler is a sequence of such reads and writes without a
lock or a transaction around them, so handlers interleave with each other, with
the log being applied, and with crashes. A release ends in `pushChange`, which
computes the instances that listen to the namespace from their heartbeat keys and
calls `Send` on their connections. The goroutines of the connections share the
registry, the queue of a connection and the websocket itself.

What makes it hard, and the property that answers it:

| component | hard behaviour | correct when |
|---|---|---|
| store | a restart restores an older snapshot into a newer database and replays; `Backup` fails; clocks differ | a node that applied the log reads the newest values; nothing vanishes; nothing outlives its deadline |
| raft log store | deletes commit in parts, two goroutines delete, the process stops anywhere | the node can always start again, has what it acknowledged, votes once in a term |
| codec, differ and stream | random order of maps and events, many releases, four formats, applications that come and go, nodes that lag | whoever fetched the released file and was sent all events since has it |
| push | waits for absent instances, other nodes, a node that stops half-way | it ends; whoever is in reach, or back in time, is told |
| administration | stale reads, overlapping requests, lost and late writes, crashes | only saved drafts are released, only replaced texts are history, applications hear of nothing that was not current |
| registry | keys with three times to live, cut to whole seconds, written by overlapping requests through lagging nodes | a live instance is found, with its metadata; a dead one disappears |
| accounts | records read, changed and written back; half-done requests; every node creates the administrator | a granted role holds nobody without an account behind the name; an undisturbed request does one thing |
| hub | two goroutines close one connection, a new connection replaces an old one, queues are full | one closes; the registry holds nothing dead; every send returns |

The full list, with lines, is `hazards` in PROJECT.json.

## 2. Modules

| module | models | notes |
|---|---|---|
| `MicroFsm` | the commands of `Store.Set` and `Store.Delete`, `fsm.Apply`, `fsm.Restore`, badger's view of an entry | operators only |
| `ReplicatedStore` | the store of all nodes: log, databases, snapshots, restarts, shipped snapshots | extends `MicroFsm` |
| `ReplicatedStoreProofs` | theorems about it | |
| `BadgerLogStore` | the log store and the stable store of a node, under Raft's calls | |
| `BadgerLogStoreProofs` | theorems about it | |
| `Codec` | how a YAML, JSON or properties file becomes a flat map | operators only |
| `Differ` | `diff`, `buildNamespaceDiff`, the events of a diff | operators only, extends `Codec` |
| `DifferProofs` | theorems about both | |
| `ConfigStream` | one namespace: releases, pushes, cluster members, applications that follow it | extends `Differ` |
| `ConfigStreamProofs` | theorems about it | extends `DifferProofs` |
| `VersionedFile` | abstract specification of a namespace with its draft and history | |
| `NamespaceRelease` | the handlers of `cfg_admin.go`, step by step | refines `VersionedFile` |
| `NamespaceReleaseProofs` | theorems about it, the refinement among them | |
| `Registry` | registrations and heartbeats, step by step, and the expiry of what they write | extends `MicroFsm` |
| `RegistryProofs` | theorems about it | |
| `Directory` | abstract specification of accounts, administrators and applications | |
| `Accounts` | the handlers of `app.go`, `user_app.go`, `user/`, step by step | its undisturbed steps implement `Directory` |
| `AccountsProofs` | theorems about it | |
| `ClientHub` | connections, registry, goroutines, sends | |
| `ClientHubProofs` | theorems about it | |
| `MC...` | the values of the constants for TLC | |

How they compose. `ReplicatedStore` shows what a node's database is after any
number of commands, restarts and snapshots. `NamespaceRelease`, `Registry` and
`Accounts` build on that: for them a database is a prefix of the committed writes.
`ConfigStream` composes the release, the codec, the differ, the push, the cluster's
members and the applications, one release at a time; overlapping releases are
`NamespaceRelease`, the inside of a connection is `ClientHub`, how an instance gets
its namespace keys is `Registry`.

### ReplicatedStore

`log` is the sequence of committed commands; Raft's elections and replication are
outside, because the code only sees what Raft calls: `Apply` in log order on
every node, `Snapshot` and later `Persist`, `Restore`. `db[n]` is the badger
database, which is on disk and survives a restart; an entry carries its value, its
deadline and the commit timestamp badger gave it, because `Restore` (badger's
`Load`) merges by timestamp and does not clear the database. `nextTs[n]` is the
next such timestamp, `snap[n]` the newest committed snapshot with the index Raft
recorded for it, `pending[n]` that index while `Persist` has not run. `high[n]` is
a ghost: the highest index the node ever applied.

`Restart` is `Open`: Raft restores the newest snapshot and will apply the commands
behind it again. `PersistTruncated` is the branch of `Persist` that closes, and so
commits, the sink after a failed `Backup`; `PersistCancelled` the one where the
close fails too. `Delete` proposes the operation `"delete"`, which `Apply` does not
know. `PersistKeys` and `TtlKeys` are disjoint because the services write a key
either always with a time to live or never.

A time to live is a deadline on the clock of the node that proposes. `applySet`
compares it with its own clock, reads the clock again for what is left, and badger
adds that to a third reading and keeps whole seconds: `EntryOf` moves the deadline by
a `pause` of at most `MaxPause` and cuts it to a multiple of `Second`, so an entry may
die up to a second early. If the deadline passes between the first two readings the
unsigned difference wraps, and the conversion to a `time.Duration` makes it negative
again; this is not modelled bit by bit.

### BadgerLogStore

The actions `Append`, `Truncate`, `Commit`, `TakeSnapshot`, `InstallSnapshot`,
`Compact`, `RequestVote` and `RecordVote` are what hashicorp/raft does with a
`LogStore` and a `StableStore`; they are external and stated only as far as the
order of their calls matters. The store's own code is `StoreLogs`, `FirstIndex`,
`LastIndex`, `GetLog`, `DeleteRange`, `Set`, `Get`. A transaction is atomic and
durable; `DeleteRange` commits the deletes that fit and calls itself for the rest,
so `del[g]` is what goroutine `g` has still to delete. Two goroutines call it:
`main` for a suffix that conflicts with the leader's entries, `snapshots` for the
entries a snapshot covers. `Key` has two bytes instead of eight; the indexes of the
run cross from one value of the high byte to the next.

### Codec and Differ

A text that its parser accepts is a document, a function from the paths of its
leaves to the leaves; syntax is left out. `Walks` are the orders in which
`doMapToProperties` may visit the leaves (Go iterates over a map in random order,
over a list in its own), `LinesOf` the lines this gives, those after the last empty
map, at which the code forgets the lines it has, `FlatOf` the map in which the last
line of a key counts, and `FlatsOf` collects the maps a file may flatten to, none
where the code panics. `Meaning` is what the file says, the reference the stream is
compared with.

The oddities of `diff` are kept: a JSON file is compared with itself, `.yml` is
accepted and never differs, an empty new map is no difference, values are compared
without case.

### ConfigStream

`db[n]` is the released file as node `n` reads it, `behind[n]` the writes it has still
to apply; any node, the releasing one included, may lag. `Release` takes any draft and
compares it with the file its own node reads; `push[n]` is what `doPush` does on node
`n`: list the applications of the namespace (any set of them, since the node's keys
run out, come back with heartbeats and are applied late), look for the connection of
each until the wait is over, send the additions, the removals, the changes, each group
in any order, to the applications in any order. `Connect`, `Disconnect`, `Fetch` (from
any node), `Deliver` are the application as `docs/cfg.md` describes it. `peers` is
Raft's configuration as `Self` knows it; `JoinServer` and `RemoveServer` are `Join`
and `Remove` with the conditions of the code. `Done` forwards to the peers unless
`IsSelf`; `forward` and `Accept` are the request and `acceptConfigChange`. `Stop`
is the end and the start of the process, which `sendFollowerChange` causes by
using the response of a failed request.

Three ghosts say what the properties promise to whom. `lost[i]` is `""` while `i` has
fetched the released file and been sent every event since; it becomes `"missed"` when
`i` fetches an older file, is not listed, misses an event, or is given up, and
`"elsewhere"` when it is given up while connected to another member, until that member
has sent it everything. `sound` is false for a release whose events are not all that
distinguishes its file from the one before: its node compared with an older file, an
empty map hid keys of either, or of two spellings of a key the wrong one counted.
Whoever such a release is sent to has missed something, until it fetches the newest
file again. `reached` are the applications a release may not miss (`ReachedIsTold`).

### NamespaceRelease and VersionedFile

A handler `h` runs on `node[h]`; `pc[h]` is what it does next, `cur[h]`, `text[h]`
and `stamp[h]` are its local variables. Every read and every write is a step of
its own. A read sees the prefix of the log that the node has applied; a leader's
`Set` returns when the leader has applied the write. `Set` may fail with or without
the write being committed, now or later (`orphans`), and on a follower it may
report success without a commit, because `requestRemote` takes a reply that is not
JSON for a success. `Faults` chooses which of these may happen.

`VersionedFile` promises less than an administrator may hope: a file is created
once and changes only to the draft, after the text it had was filed.

### Registry

One instance, its metadata (24 hours), its state and a key per namespace (30
seconds, or the timeout of the heartbeat). `task[h]` is a request on a node:
`regMeta`, `regSpaces` are the writes of `regApp`; `readMeta`, `beatMeta`,
`readInst`, `beatInst`, `beatSpaces` the reads and writes of `routeHeartbeat`. Every
write goes to the leader and shows there when `rs.Set` returns; `behind[n]` are the
commands a follower has not applied, which it applies at its own time with the
check of `applySet`. A write may fail. `alone` and `beaten` are ghosts. A deadline is
cut to whole seconds as in `ReplicatedStore`, of two ticks in the run; the lives there
are of 4, 5 and 9 ticks instead of 10 s, 30 s and 24 h, so that time passes, and keys
run out, between any two steps of a request. `applySet`'s own pause is left out here:
it only lets keys live longer. `ListedHasMeta` needs the metadata to outlive the other
keys by the length of two requests and a second (`MetaOutlives`); the code does not
bound the timeout a client asks for. `FreshIsFound` promises a key until a second
before its time to live is over, which is what whole seconds leave of it.
`KeepsContent` says nothing of the state in the heartbeat of an application without a
service, which is set to disabled.

### Accounts and Directory

`dbs` is the sequence of databases the committed writes lead to, `applied[n]` the
one node `n` shows. `task[h]` is a request or the bootstrap of the administrator;
its `pc` names the next read or write, `val` is the record it has read and
changed. `Set` may commit without reporting it and, through a redirection, report
what was not committed. `Restart` ends the requests of a node and lets it bootstrap
again. `session.go` does not anchor the pattern of a user's name, so a name may
contain commas, and the text of a role is read as the names between its commas:
`Parts[u]` are those of the name `u`, `addRole` adds them all, `removeRole` and
`contains` know single names only. A role granted to the account `bob,eve` therefore
holds `bob` and `eve`, who need no account; `Grounded` says what remains true, that
every such name is part of the name of an account. The text of a role is a set: that
a name stands in it twice makes no difference to any reader. The quirks of the lists
are kept: a missing list is written twice,
`removeApp` collects the removed application once for every other one.

`Directory` promises what an administrator expects: an account keeps its password,
an application its token, a change touches what it names. `Accounts` implements it
only in the steps of requests that nothing has disturbed between their read and
their write (`DirectorySteps`).

### ClientHub

One action per step of `serveWs`, of the two goroutines of a connection and of a
call of `Send`. Between two steps anything may happen. `WriterTakes`, `Begin`,
`Body`, `Flush` are the receive, `NextWriter`, `w.Write` and `w.Close` of `Write`;
`Close`, `CloseChan`, `Unregister`, `CloseConn` the four steps of `Client.Close`.
gorilla/websocket is modelled by when its calls fail: after a close frame was
written, after the connection was closed, or, perhaps, when the peer is gone;
beginning a message ends the one another goroutine has begun; two frames at once
panic. A panic in a goroutine without `recover` ends the process (`up`).

## 3. Runs

Every passing run checks the properties named; the runs that are expected to fail
name the disagreement (`findings` in PROJECT.json).

| run | question | bounds |
|---|---|---|
| `store_core` | `CaughtUp`, `VisibleStays`, `TypeOK` | one node (nodes meet only in shipped snapshots), two keys and two values, 4 commands, 2 restarts, every truncation of a snapshot |
| `store_ttl` | `TtlBounded` | two nodes, one a tick ahead, seconds of two ticks, a pause of up to a tick in `applySet`, 1 restart, 1 shipped snapshot |
| `store_delete` | `DeleteTakesEffect` | violated: `"delete"` is unknown to `Apply` |
| `raft_log` | `Restartable`, `AckedKept`, `OneVotePerTerm`, `TypeOK` | indexes 253 to 257, so that the second byte of the keys changes, two terms, two candidates, two deletes per transaction |
| `stream_follow` | `FollowsUpToCase`, `ReachedIsTold`, `PushEnds`, `TypeOK` | all four formats, six files, two nodes up to one write behind, one application, 2 releases, any number of joins, disconnections, fetches and stops |
| `stream_forward` | `EveryNodePushes` | violated: nothing is forwarded |
| `release_sequential` | `PushedWasCurrent` and the refinement of `VersionedFile` | one request at a time on the leader, 6 requests, failing writes and crashes, releases a second apart |
| `release_concurrent` | `Provenance`, `TypeOK` | two requests at once on two nodes, 4 requests, every fault |
| `registry` | `ListedHasMeta`, `FreshIsFound`, `KeepsContent`, `GoneIsUnlisted`, `TypeOK` | a leader and a follower up to two commands behind, two requests out of a registration and two kinds of heartbeat, an own and a shared namespace, 1 failing write, 11 ticks of half a second |
| `accounts` | `Grounded`, `DirectorySteps`, `TypeOK` | two handlers, two nodes, eight requests of which two and the bootstrap overlap, four names, one of them with a comma, on an empty cluster and on one in use, 1 fault |
| `hub` | `OneCloser`, `RegisteredIsAlive`, `SendReturns`, `DeadIsClosed`, `QueuedArrives`, `TypeOK` | a connection and a request that cuts it and then fails its handshake, three sends, a queue of one, messages that fill the write buffer, the crash of the unlocked map |
| `hub_newest` | `NewestIsRegistered` | two connections of one instance; violated: a late `Close` removes its successor |

Why the bounds are enough. In the store a stale value needs two commands on one
key, one on each side of a snapshot, and a restart after it; a second restart
covers a replay that is cut short by another one, a second key a snapshot that has
one and misses the other. In the log store a hole needs a delete that has committed
in part, and an append or another delete beside it; two deletes per transaction and
five indexes give ranges of two parts. In the stream two releases cover a
difference and its undoing, with the application away, or its node behind, for
either; the documents have a key in nested spelling, in dotted spelling and in both
with different values, a list, a null, an empty map and a value of several lines. In
the administration every interleaving of two handlers includes
the loss of an update; more requests only repeat it. In the registry two requests
overlap in every way within their patience, and time runs until all they wrote has
expired. In the accounts a third request follows two that overlapped. In the hub a
queue of one is full with the first send, and the others wait; two live
connections of one instance are left to `hub_newest` and, for the safety
properties, to the proofs, which hold for any number of connections.

The bounds are `MaxLog`, `MaxNow`, `MaxRestarts`, `MaxInstalls`, `MaxIndex`,
`MaxReleases`, `MaxRequests`, `MaxActive`, `MaxLag`, `MaxFailures`, `MaxPause`,
`LastStart` and `Horizon`; each is named in the guards it appears in. Deadlock is
not checked because every model stops at its bounds, and a hub whose connections
are closed has nothing left to do. Symmetry is used in runs without liveness only.

Fairness is assumed in three runs:

* `hub`: every goroutine that can take a step takes one (the Go scheduler), the
  read deadline of 60 seconds passes when the peer is gone, and the ticker of the
  pings fires again and again. Nothing is assumed of the peer: it may stay and
  never answer a close frame. `SendReturns` holds because a dead writer's `Close`
  closes the channel, `DeadIsClosed` because a ping that must fail ends the writer.
* `stream_follow`: the steps of a push (`PushStep`), which are those of one
  goroutine whose sleeps end. Nothing is assumed of applications, administrators or
  the cluster.
* `registry`: the steps of a request, the application of commands by followers, and
  time. Nothing is assumed of the instance, which may fall silent.

## 4. Proofs

`ReplicatedStoreProofs` proves, for any sets of nodes, keys and values, any clock
skew and any bounds:

* `TypeCorrect`: `Spec => []TypeOK`.
* `TtlHolds`: `Spec => []TtlBounded`. The inductive invariant is `TtlFromLog`: what
  a database or a snapshot holds of a key with a time to live is the value of a
  committed `setex` with that command's deadline. It survives everything, shipped
  snapshots included, because `Load` only chooses between two entries that both
  have it.
* `CaughtUpHolds` and `VisibleStaysHolds`, assuming no snapshot is shipped
  (`MaxInstalls = 0`; with one `CaughtUp` is false, see section 5). The
  inductive invariant `CaughtUpInv` says that the snapshot of a node is older than
  its database entry by entry, and that equal timestamps mean equal entries
  (`OwnSnapshotOlder`), so restoring it at a restart changes nothing, whether it is
  complete or not; and that what the database holds of a key was set at or below
  `high[n]` and not overwritten up to `applied[n]` (`AllSettled`). While a node
  replays, its value may come from a command above `applied[n]`, which is why
  `high` is needed.

`DifferProofs` proves, for documents of any shape, `FlatsRight`: a file flattens to
flat maps, and to nothing but its `Meaning` if it has no empty map and no two of its
leaves have the same key (of `a: {b: 1}` and `a.b: 2` in one file only one can count).
It needs no order of the walk: the keys of the lines are distinct, so the last line of
each is its only one. For all flat maps it proves that a diff applied to the old map
gives the new one up to case (`DiffComplete`), that it has at most one event per key,
so that Go's random iteration order does not matter (`OneEventPerKey`), and that maps
that `diff` calls the same are equal up to case unless the new one is empty
(`SameIsEqual`).

`ClientHubProofs` proves, for any number of connections, keys and sends, with every
fault:

* `TypeCorrect`: `Spec => []TypeOK`. It needs `InHand`: a handler about to cut a
  connection, a call about to send and a writer with a message have one.
* `OneCloserHolds` and `RegisteredIsAliveHolds`. The inductive invariant is
  `HubInv`: until its goroutines start a connection is untouched (`Fresh`), so the
  handler that registers it registers an open one; whoever is past the lock of
  `Close` has set `closed` and is there alone (`ClosedOnce`); and a registered
  connection that is marked closed is just before its `Unregister` (`Registered`),
  which takes it out before `CloseConn` closes it. The second needs the first: with
  two goroutines past the lock one could close what the other still has to remove.

`BadgerLogStoreProofs` proves, for any terms, candidates, transaction size and
indexes:

* `TypeCorrect`: `Spec => []TypeOK`.
* `RestartableHolds` and `AckedKeptHolds`, assuming that a conflicting suffix fits
  into a transaction (`LongSuffixes = FALSE`). The inductive invariant is `LogInv`:
  every index from behind the snapshot to the last entry is there (`Covered`), the
  two goroutines delete apart from each other, the compaction nothing above the
  snapshot (`Apart`), and what was acknowledged and not taken back is in that range
  (`AckedCovered`). A compaction keeps it part by part, because it deletes from the
  lowest key on; a truncation keeps it because its only part is the whole suffix
  (`SuffixFits`). That `FirstIndex` and `LastIndex` are the least and the greatest
  index rests on `KeyOrder`: big-endian bytes order as the numbers do.
* `OneVotePerTermHolds`: no granted vote is of a later term than the recorded one, a
  granted vote of the recorded term is the one the stable store has, and while a vote
  is being recorded none was granted in its term (`VoteInv`).

`ConfigStreamProofs` proves, for any number of nodes, applications, releases and
stops, any files, any wait and any lag, without further hypotheses:

* `TypeCorrect`: `Spec => []TypeOK`. It needs that a push is one of `Pushes`, and that
  one that sends has somebody to send to.
* `FollowsUpToCaseHolds`: `Spec => []FollowsUpToCase`. The inductive invariant is
  `FollowInv`: in a sound release every event is one after which a map agrees with the
  released file on the event's key (`ChangeTold`); for every application that has
  missed nothing, every key agrees already or an event for it is due (`Follows`,
  `Due`: not yet sent to it by the push of the releasing node); and for one that was
  given up and may be told by another member, an event of the newest release is
  missing for every key that does not agree, and is still to be sent by the member
  that is telling it (`Passed`). A sound release makes all its events due; one that is
  not sound claims nothing until its push is done with an application, which then has
  been sent an event and counts as having missed something. Sending moves an event
  from `Due` to the wire; an event of another member's push is `Told` as well and does
  no harm, in whatever order it arrives. The configuration an application is heading
  for (`Ahead`) is a fold of its events; `FoldAppend`, `FoldHead` and `FoldTyped` say
  how sending, applying and typing follow it. They are inductions over the length of a
  sequence, made through the induction over sets of numbers `NatInductionSet` because
  the induction theorems of the library take operators.
* `ReachedIsToldHolds`: `Spec => []ReachedIsTold`. The inductive invariant `ReachInv`
  says of an application in `reached` that it is connected to the releasing node, has
  missed nothing, and is not one the push is sending to through a client that has gone
  (`Cut`), so that the steps of doPush that would leave it behind cannot concern it.

`NamespaceReleaseProofs` proves, for any nodes, handlers, texts and numbers of
requests:

* `TypeCorrect`: `Spec => []TypeOK`, with what a handler has read and not yet
  written (`InHand`).
* `ProvenanceHolds`: `Spec => []Provenance`, with every fault. The inductive invariant
  adds `Sources`: the texts a release holds between its reads and its writes are in
  the log, and so is what licenses a write that may still come late.
* `PushedWasCurrentHolds`: `Spec => []PushedWasCurrent`, assuming that a write that is
  reported done was committed (`Truthful`: no node that redirects takes a refused
  write for done; one that does pushes what was never current). The inductive
  invariant is `PushInv`: a handler that is about to push has its text in the log.
* `ImplementsVersionedFile`: `Spec => VersionsSpec`, the refinement, assuming that
  requests come one after the other to the leader, no write comes late and releases
  are a second apart (`Sequential`). The inductive invariant `SequentialInv` says that
  only one handler is under way, on a node that shows all writes (`Alone`), that a
  release is later than whatever is filed (`Seconds`), and that what it has read is
  still what the store holds (`Fresh`).

`AccountsProofs` proves, for any nodes, users, applications, roles and requests, with
every fault:

* `TypeCorrect`: `Spec => []TypeOK`.
* `GroundedHolds`: `Spec => []Grounded`, with names that contain commas. The inductive
  invariant says that accounts never go away (`AccountsStay`) and what a task has
  looked up before its next write (`Seen`): every name in the record on its way back is
  part of the name of an account of the newest database, or was there from the start.
* `DirectoryStepsHolds`: `Spec => DirectorySteps`: a step of a request that nothing
  has disturbed is a step of `Directory` or leaves it as it is. `Seen` says which part
  of what the request read cannot have changed.

`RegistryProofs` proves, for any nodes, namespaces, timeouts and lags:

* `TypeCorrect`: `Spec => []TypeOK`.
* `ListedHasMetaHolds`: `Spec => []ListedHasMeta`, assuming `MetaOutlives`. The
  inductive invariant `ListedInv` says that in what a node has applied or has still to
  apply every state comes behind metadata that outlives it, and that a request that
  is past its metadata has written it for long enough.
* `FreshIsFoundHolds`: `Spec => []FreshIsFound`. `FreshInv`: what a heartbeat has
  written so far lasts (`Lasting`), whatever other requests write over it. Whole
  seconds take less than a second from a deadline and keep the order of two
  (`SecondsBounds`, `SecondsOrder`).
* `KeepsContentHolds`: `Spec => KeepsContent`. `SameInv`: unless it has expired, the
  leader's entry is that of the last command a node has still to apply, or the node
  has it (`Replayed`), and a heartbeat that is alone has read what the leader shows
  (`HasRead`).

The assumptions are those stated with the constants of each module, which TLC
evaluates in every run, and the hypotheses named above. They hold in the runs:
`Sequential` of `release_sequential`, `MetaOutlives` of `registry`, no shipped
snapshot in `store_core`, `LongSuffixes = FALSE` in `raft_log`.

Every invariant and every action property of a passing run is proved. Liveness
(`SendReturns`, `DeadIsClosed`, `QueuedArrives`, `PushEnds`, `GoneIsUnlisted`) is
model-checked only: the installed provers cannot reason about the `ENABLED` in
fairness.

## 5. What the code does that its text does not say

Three disagreements are runs (section 3, `findings` in PROJECT.json). `EveryNodePushes`
is violated because nothing is forwarded and not by the way it is stated: with
`IsSelf` asked of the peer it holds in the same instance. Others that
the models contain, or were met while writing them, without a run of their own:

Store

* `Restore` loads a backup over what the database has, by badger timestamp: after a
  snapshot shipped from another node an older value may win, though the comment
  says the store is restored "to a previous state" (`fsm.go:47`).
* `applySet` compares deadlines with the clock at the moment it applies, so two
  nodes with the same log may hold different values of a key.
* badger keeps the deadline of an entry in whole seconds: a time to live loses up to a
  second, and one of a second may be over at once (`fsm.go:71`).
* A truncated snapshot is committed; only the database that survives a restart
  hides that. A node that starts without one does lose keys.
* A conflicting suffix larger than a transaction is deleted from its lowest entry
  on; a stop in between leaves a hole with which `NewRaft` fails (`LongSuffixes`).
* `Join` ignores a server that shares its id or its address with a member, where
  its comment (`raft.go:233`) asks for both; it is not redirected to the leader,
  `Remove` is.

Namespaces and pushes

* A JSON namespace can never be released (`differ.go:47`), nor can a `.yml` one; a
  change of case alone is never pushed.
* An empty map in a file makes `doMapToProperties` forget the lines it has
  (`codec.go:632`), in random order, so one file flattens to different maps at
  different times; a key in two spellings gets either value; a top-level `null` and a
  value of several lines make the parsers panic (`codec.go:374`, `codec.go:218`).
* An application that fetches from a node that is behind keeps the older file: the
  release it has not seen was pushed before, and nothing tells it to fetch again. A
  release on a node that is behind compares with an older file, and its events leave
  out what the file between them changed. A push skips an application whose key its
  node has not applied yet, or has let run out.
* `createNamespace` looks for the file and writes the empty one in two steps: a release
  in between is reset (`cfg_admin.go:37`).
* Two releases within a second share a history key, and the first text is lost.
* Two releases that overlap may push in the opposite order of their writes; a crash
  between the write of the current text and the push leaves applications behind,
  and a retry reports that nothing changed.
* `extractNamespaceInfo` returns nil for a key with an IPv6 address, and its caller
  uses the result (`app/cfg.go:39`).

Registry and accounts

* A heartbeat need not change what the keys hold, says `heartbeat.go:71`, yet it
  writes back what it read: a registration in between is undone.
* A registration writes the namespaces of other applications under its own
  (`reg.go:61`), where they look like an instance of another namespace; the first
  heartbeat writes the right keys.
* `initAdminUser` runs once after a start: a stop or an error between its two writes
  leaves an account without the mark, which no later start repairs.
* `removeApp` keeps the removed application once for every other one
  (`user_app.go:65`), against the comment above it; the role and the list of its
  holder are two writes, of which the second may fail unnoticed (`api.go:98`).
* A user's name may contain commas (`session.go:18`, `session.go:43`), and a role
  granted to it goes to the names between them (`app.go:105`, `permission.go:52`),
  which need not be accounts; it cannot be taken back under the name it was granted to.
* `newApp` takes roles from the request without looking for their accounts; only
  roles granted later are grounded.
* Requests that overlap lose each other's changes of an application, give it two
  tokens, or give an account a second password.

Hub

* `TryClose` writes a close frame from the request's goroutine while the
  connection's writer may be writing: two frames at once panic in gorilla/websocket,
  and a frame between `NextWriter` and `Write` makes `client.go:112` use a nil
  error. Both end the process.

## 6. Plan and limits

What is left, in this order:

1. `MicroFsm` and the databases of `NamespaceRelease`, `Registry` and `Accounts`: that
   a node of `ReplicatedStore` without time to live shows a prefix of the committed
   writes, which those three start from, stated as a refinement.
2. The part of `FollowsUpToCase` an empty map takes away: what exactly a file with one
   loses.

Not modelled, and why: the syntax of the file formats and the conversions no code
calls (`PropertiesToYaml` and what serves it); signing and sessions (a stateless
check of one request); the reading handlers (they change nothing); `removeNamespace`
(its deletes have no effect); the bootstrap of a node as its own cluster and Raft's
elections, and badger (external); routing, configuration, logging, start and stop
(no state).
