---------------------------- MODULE ConfigStream ----------------------------
(***************************************************************************)
(* One namespace, the node on which it is edited and released, one release *)
(* after the other, and the applications that follow it: they fetch the    *)
(* released file, open a websocket to some node, register for the          *)
(* namespace, and apply the change events doPush sends them (docs/cfg.md,  *)
(* service/cfg/change_listener.go).  The node looks for the connection of  *)
(* every registered application for some seconds, and then passes the      *)
(* change on to other nodes, depending on the cluster it knows             *)
(* (service/base/raft_op.go, Join and Remove of store/raft/raft.go).       *)
(*                                                                         *)
(* Every read is one of the node's own database, which applies what was    *)
(* written at its own time.  Which member leads is left open: any node may *)
(* be behind.  Which applications a node lists is left open too: their     *)
(* keys run out, are written again by heartbeats, and are applied late.    *)
(* So is which draft it has: changeNamespaceContent stores any text,       *)
(* without parsing it, and the node may read an older one.                 *)
(*                                                                         *)
(* Releases that overlap are the subject of NamespaceRelease, the steps of *)
(* a connection that of ClientHub, registration that of Registry.          *)
(***************************************************************************)
EXTENDS Differ

CONSTANTS
  Nodes,
  Self,         \* the node on which the namespace is released
  Apps,         \* the instances of applications that follow the namespace
  Servers,      \* the members a cluster may have: ids and addresses of nodes
  Drafts,       \* the files the administrators save
  Tries,        \* waitClientReconnectTime
  None,
  MaxReleases,  \* bound: releases
  MaxLag        \* bound: writes a node is behind

ASSUME StreamAssumption ==
  /\ Drafts \subseteq Files
  /\ Self \in Nodes /\ None \notin Nodes
  /\ Servers \subseteq [id : Nodes, addr : Nodes] /\ [id |-> Self, addr |-> Self] \in Servers
  /\ IsFiniteSet(Apps)
  /\ {Tries, MaxReleases, MaxLag} \subseteq Nat

VARIABLES
  format,    \* the suffix of the namespace's name
  current,   \* app.cfg.current, as written last: the released file
  releases,
  db,        \* db[n]: what n reads of app.cfg.current
  behind,    \* behind[n]: the writes of it that n has still to apply
  peers,     \* the members of the cluster, as Self knows them
  conn,      \* conn[i]: the node that i has its websocket to, or None
  view,      \* view[i]: the configuration of i
  wire,      \* wire[i]: the events sent to i
  change,    \* the events of the newest release
  sound,     \* ghost: they are all that distinguishes its file from the one before
  push,      \* push[n]: what doPush does on node n, or Idle
  forward,   \* forward[n]: how far the request that tells n of the change is
  lost,      \* ghost, lost[i]: "" if i has fetched the released file and been sent
             \* every event since, "elsewhere" if all but those of the newest
             \* release, when doPush on Self gave it up, and it is still connected
             \* to the same other member; else "missed"
  reached    \* ghost: who was told everything before the newest release and has
             \* been connected to Self since the release, or since a moment when
             \* doPush had still to look for it

file == <<format, current, releases>>
replicas == <<db, behind>>
apps == <<conn, view, wire>>
pushing == <<change, sound, push, forward>>
told == <<lost, reached>>
vars == <<file, replicas, peers, apps, pushing, told>>

Idle == [pc |-> "idle"]
Listing == [pc |-> "list", todo |-> << >>, left |-> {}, live |-> FALSE, waited |-> 0]
Silent == [n \in Nodes |-> "no"]

Init ==
  /\ format \in Formats
  /\ current = Blank
  /\ releases = 0
  /\ db = [n \in Nodes |-> Blank]
  /\ behind = [n \in Nodes |-> << >>]
  /\ peers = {[id |-> Self, addr |-> Self]}
  /\ conn = [i \in Apps |-> None]
  /\ view = [i \in Apps |-> EmptyMap]
  /\ wire = [i \in Apps |-> << >>]
  /\ change = {} /\ sound = TRUE
  /\ push = [n \in Nodes |-> Idle]
  /\ forward = Silent
  /\ lost = [i \in Apps |-> "missed"] /\ reached = {}

Miss(S) == lost' = [i \in Apps |-> IF i \in S THEN "missed" ELSE lost[i]]
PassedOver == {i \in Apps : lost[i] = "elsewhere"}

-----------------------------------------------------------------------------
(* The store.                                                              *)

(* rs.Set: every node will apply it.                                       *)
Commit(f) ==
  /\ \A n \in Nodes : Len(behind[n]) < MaxLag
  /\ behind' = [n \in Nodes |-> Append(behind[n], f)]

Apply(n) ==
  /\ behind[n] # << >>
  /\ db' = [db EXCEPT ![n] = Head(behind[n])]
  /\ behind' = [behind EXCEPT ![n] = Tail(@)]
  /\ UNCHANGED <<file, peers, apps, pushing, told>>

-----------------------------------------------------------------------------
(* The administrator.                                                      *)

Quiet == forward = Silent /\ \A n \in Nodes : push[n] = Idle

(* flat is what f says: no empty map of f has hidden any of its keys, and  *)
(* of two leaves with the same key it has the one that Meaning takes.      *)
Doubtful == {f \in Docs : NoEntries \in Range(f) \/ Ambiguous(f)}
Whole(f, flat) == f \in Doubtful => flat = Meaning[f]

(* releaseNamespace, which compares with the file as its own node reads it:*)
(* no draft, one that does not parse and one without a difference leave    *)
(* everything as it is.  The draft stays: the delete that should remove it *)
(* has no effect (ReplicatedStore, DeleteTakesEffect).                     *)
Release(draft) ==
  /\ releases < MaxReleases /\ Quiet
  /\ ~DiffFails(format, draft)
  /\ \E old \in OldMaps(format, db[Self], draft), new \in NewMaps(format, draft) :
       /\ ~SameMaps(old, new)
       /\ change' = EventsOf(old, new)
       /\ sound' = /\ db[Self] = current
                   /\ Whole(IF format = Json THEN draft ELSE current, old)
                   /\ Whole(draft, new)
  /\ Commit(draft)
  /\ current' = draft
  /\ push' = [push EXCEPT ![Self] = Listing]
  /\ releases' = releases + 1
  /\ Miss(PassedOver)
  /\ reached' = {i \in Apps : lost[i] = "" /\ conn[i] = Self}
  /\ UNCHANGED <<format, db, peers, apps, forward>>

(* Join ignores a server when a member has its id or its address.          *)
JoinServer(s) ==
  /\ \A p \in peers : p.id # s.id /\ p.addr # s.addr
  /\ peers' = peers \cup {s}
  /\ UNCHANGED <<file, replicas, apps, pushing, told>>

Member(n) == \E p \in peers : p.addr = n

(* Remove takes every such member out, one after the other up to the first *)
(* error; Raft keeps one.                                                  *)
RemoveServer(s) ==
  /\ \E gone \in SUBSET {p \in peers : p.id = s.id \/ p.addr = s.addr} :
       gone # {} /\ gone # peers /\ peers' = peers \ gone
  /\ Miss({i \in PassedOver : \A p \in peers' : p.addr # conn[i]})
  /\ UNCHANGED <<file, replicas, apps, pushing, reached>>

-----------------------------------------------------------------------------
(* The applications, from their documented behaviour.                      *)

(* doPush on Self is not done with i; it has still to look for it.         *)
Outstanding(i) ==
  push[Self] # Idle /\ (push[Self].pc = "list" \/ i \in Range(push[Self].todo))
Awaited(i) ==
  Outstanding(i) /\ ~(push[Self].pc = "send" /\ i = Head(push[Self].todo))

Connect(i, n) ==
  /\ conn[i] = None
  /\ conn' = [conn EXCEPT ![i] = n]
  /\ reached' = IF n = Self /\ lost[i] = "" /\ Awaited(i) THEN reached \cup {i} ELSE reached
  /\ UNCHANGED <<file, replicas, peers, view, wire, pushing, lost>>

(* What is queued is lost, and doPush goes on with a client that is gone.  *)
Disconnect(i) ==
  /\ conn[i] # None
  /\ conn' = [conn EXCEPT ![i] = None]
  /\ wire' = [wire EXCEPT ![i] = << >>]
  /\ push' = [n \in Nodes |-> IF push[n].pc = "send" /\ Head(push[n].todo) = i
                             THEN [push[n] EXCEPT !.live = FALSE] ELSE push[n]]
  /\ Miss({j \in {i} : wire[i] # << >> \/ i \in PassedOver})
  /\ reached' = reached \ {i}
  /\ UNCHANGED <<file, replicas, peers, view, change, sound, forward>>

(* appConfig on any node, as that node reads the file.  Events under way,  *)
(* of an older release, overtake the file.                                 *)
Fetch(i, n) ==
  /\ \E flat \in FlatsOf[format][db[n]] :
       /\ view' = [view EXCEPT ![i] = flat]
       /\ lost' = [lost EXCEPT ![i] =
                     IF db[n] = current /\ Whole(current, flat) /\ wire[i] = << >>
                     THEN "" ELSE "missed"]
  /\ reached' = reached \ {i}
  /\ UNCHANGED <<file, replicas, peers, conn, wire, pushing>>

(* What an application does with an event.                                 *)
ApplyEvent(map, e) ==
  IF e.type = "remove"
  THEN [k \in DOMAIN map \ {e.key} |-> map[k]]
  ELSE [k \in DOMAIN map \cup {e.key} |-> IF k = e.key THEN e.current ELSE map[k]]

Deliver(i) ==
  /\ wire[i] # << >>
  /\ view' = [view EXCEPT ![i] = ApplyEvent(@, Head(wire[i]))]
  /\ wire' = [wire EXCEPT ![i] = Tail(@)]
  /\ UNCHANGED <<file, replicas, peers, conn, pushing, told>>

-----------------------------------------------------------------------------
(* doPush on node n.                                                       *)

Goes(n, p) == push' = [push EXCEPT ![n] = p]
NextInstance(p) == [p EXCEPT !.pc = "find", !.todo = Tail(@), !.waited = 0]

(* GetNamespaceInstances, in the order of the keys that n has: here any    *)
(* applications in any order.                                              *)
List(n, p) ==
  /\ p.pc = "list"
  /\ \E listed \in SUBSET Apps :
       /\ \E todo \in SetToSeqs(listed) : Goes(n, [p EXCEPT !.pc = "find", !.todo = todo])
       /\ IF n = Self
          THEN Miss(Apps \ listed) /\ reached' = reached \cap listed
          ELSE Miss({i \in PassedOver : conn[i] = n} \ listed) /\ UNCHANGED reached
  /\ UNCHANGED <<apps, change, sound, forward>>

(* GetClient, again after every second; then the instance is given up.     *)
FoundIn(n, i, p, seen) ==
  IF seen THEN Goes(n, [p EXCEPT !.pc = "send", !.left = change, !.live = TRUE]) /\ UNCHANGED lost
  ELSE IF p.waited < Tries THEN Goes(n, [p EXCEPT !.waited = @ + 1]) /\ UNCHANGED lost
  ELSE /\ Goes(n, NextInstance(p))
       /\ lost' = IF n # Self THEN lost
                  ELSE [lost EXCEPT ![i] = IF @ = "" /\ sound /\ Member(conn[i])
                                           THEN "elsewhere" ELSE "missed"]

(* Plausible bugs: the client is not looked up again; the wait never ends. *)
FindOnce(n, p) ==
  /\ p.pc = "find" /\ p.todo # << >>
  /\ FoundIn(n, Head(p.todo), p, conn[Head(p.todo)] = n /\ p.waited = 0)
  /\ UNCHANGED <<apps, change, sound, forward, reached>>
FindForever(n, p) ==
  /\ p.pc = "find" /\ p.todo # << >>
  /\ FoundIn(n, Head(p.todo), [p EXCEPT !.waited = 0], conn[Head(p.todo)] = n)
  /\ UNCHANGED <<apps, change, sound, forward, reached>>
Find(n, p) ==
  /\ p.pc = "find" /\ p.todo # << >>
  /\ FoundIn(n, Head(p.todo), p, conn[Head(p.todo)] = n)
  /\ UNCHANGED <<apps, change, sound, forward, reached>>

(* The additions, then the removals, then the changes, each in the order   *)
(* of Go's maps.  Send drops what is for a closed client.  A node that has *)
(* sent everything to an application Self gave up has told it.             *)
Rank == [add |-> 1, remove |-> 2, change |-> 3]
Send(n, p) ==
  /\ p.pc = "send"
  /\ LET i == Head(p.todo) IN
     \/ /\ p.left = {}
        /\ Goes(n, NextInstance(p))
        /\ lost' = IF n # Self /\ p.live /\ lost[i] = "elsewhere"
                   THEN [lost EXCEPT ![i] = ""] ELSE lost
        /\ UNCHANGED wire
     \/ \E e \in p.left :
          /\ \A d \in p.left : Rank[e.type] <= Rank[d.type]
          /\ Goes(n, [p EXCEPT !.left = @ \ {e}])
          /\ IF p.live THEN wire' = [wire EXCEPT ![i] = Append(@, e)] ELSE UNCHANGED wire
          /\ IF sound /\ (p.live \/ n # Self) THEN UNCHANGED lost ELSE Miss({i})
  /\ UNCHANGED <<conn, view, change, sound, forward, reached>>

(* pushChange after doPush: for every peer a request, unless IsSelf, which *)
(* looks for this node among the peers.  acceptConfigChange after doPush:  *)
(* the reply.                                                              *)
IsSelf == \E p \in peers : p.id = Self

Done(n, p) ==
  /\ p.pc = "find" /\ p.todo = << >>
  /\ Goes(n, Idle)
  /\ forward' = IF n # Self THEN [forward EXCEPT ![n] = "no"]
                ELSE [m \in Nodes |-> IF ~IsSelf /\ Member(m) THEN "sent" ELSE "no"]
  /\ UNCHANGED <<apps, change, sound, told>>

PushStep(n) ==
  /\ push[n] # Idle
  /\ List(n, push[n]) \/ Find(n, push[n]) \/ Send(n, push[n]) \/ Done(n, push[n])
  /\ UNCHANGED <<file, replicas, peers>>

(* sendFollowerChange reaches acceptConfigChange.                          *)
Accept(n) ==
  /\ forward[n] = "sent" /\ n # Self
  /\ forward' = [forward EXCEPT ![n] = "accepted"]
  /\ Goes(n, Listing)
  /\ UNCHANGED <<file, replicas, peers, apps, change, sound, told>>

(* The process of Self stops and starts again: by itself, or because       *)
(* sendFollowerChange got no response and used it.                         *)
Stop ==
  /\ push' = [push EXCEPT ![Self] = Idle]
  /\ forward' = Silent
  /\ conn' = [i \in Apps |-> IF conn[i] = Self THEN None ELSE conn[i]]
  /\ wire' = [i \in Apps |-> IF conn[i] = Self THEN << >> ELSE wire[i]]
  /\ Miss({i \in Apps : Outstanding(i) \/ (conn[i] = Self /\ wire[i] # << >>)} \cup PassedOver)
  /\ reached' = {}
  /\ UNCHANGED <<file, replicas, peers, view, change, sound>>

-----------------------------------------------------------------------------
Next ==
  \/ \E f \in Drafts : Release(f)
  \/ \E s \in Servers : JoinServer(s) \/ RemoveServer(s)
  \/ \E i \in Apps :
       \/ \E n \in Nodes : Connect(i, n) \/ Fetch(i, n)
       \/ Disconnect(i) \/ Deliver(i)
  \/ \E n \in Nodes : Apply(n) \/ PushStep(n) \/ Accept(n)
  \/ Stop

Spec == Init /\ [][Next]_vars

(* The goroutines of a push run on; Client.Send returns (ClientHub).       *)
FairSpec == Spec /\ \A n \in Nodes : WF_vars(PushStep(n))

-----------------------------------------------------------------------------
(* Properties.                                                             *)

Event == [type : DOMAIN Rank, key : Keys, current : Vals]

(* Types.                                                                  *)
TypeOK ==
  /\ format \in Formats /\ current \in Files
  /\ \A n \in Nodes : db[n] \in Files /\ Len(behind[n]) <= MaxLag
  /\ peers \subseteq Servers /\ peers # {}
  /\ conn \in [Apps -> Nodes \cup {None}]
  /\ \A i \in Apps : view[i] \in FlatMaps /\ Range(wire[i]) \subseteq Event
  /\ change \subseteq Event
  /\ \A n \in Nodes : push[n] # Idle => push[n].waited \in 0..Tries /\ push[n].left \subseteq change
  /\ forward \in [Nodes -> {"no", "sent", "accepted"}]

(* The configuration of i once it has applied what is on the wire.         *)
Ahead(i) == FoldLeft(ApplyEvent, view[i], wire[i])

(* An application that was given all events has the keys of the released   *)
(* file, each with its value up to case: no release is lost between the    *)
(* events of two others, whatever order Go iterates over the maps of the   *)
(* parsers and of a diff, whichever node it fetched the file from, however *)
(* far the nodes are behind, and also when it broke off and reconnected    *)
(* while doPush waited for it, or was told by another member (appConfig,   *)
(* YamlToFlatMap, buildNamespaceDiff, releaseNamespace, doPush).           *)
(* Not counted as given all, until it fetches the newest file again, is    *)
(* whoever was given an older file or missed an event, and whoever a       *)
(* release concerns whose comparison started from an older file.  An empty *)
(* map in a file may hide some of its keys from a diff or a fetch, and of  *)
(* a key in two spellings either value may be taken: this counts likewise. *)
FollowsUpToCase ==
  \A i \in Apps :
    lost[i] = "" /\ ~Outstanding(i) => EqualMaps(Ahead(i), Meaning[current])

(* Who was told everything before a release, and is connected to its node  *)
(* throughout, or again before doPush has looked for it for the last time, *)
(* is told of it, as long as the node lists it when the push begins and it *)
(* stays connected (the wait of doPush, change_listener.go:113).           *)
ReachedIsTold == sound => \A i \in reached : lost[i] = ""

(* Every push ends, however many applications are away: the release that   *)
(* waits for it returns (doPush, acceptConfigChange).                      *)
PushEnds == \A n \in Nodes : push[n] # Idle ~> push[n] = Idle

(* The nodes find the applications that are connected to them and push the *)
(* change to them (change_listener.go:60): between two releases there is   *)
(* no application that was told everything before, that the releasing node *)
(* gave up, and that has been connected to another member ever since       *)
(* without being told by that one.                                         *)
EveryNodePushes == Quiet => PassedOver = {}
=============================================================================
