------------------------- MODULE ConfigStreamProofs -------------------------
(***************************************************************************)
(* Theorems about ConfigStream, for any nodes, applications, files and     *)
(* waits: types, that an application which was sent every event holds the  *)
(* released file, and that doPush tells those it can reach.                *)
(***************************************************************************)
EXTENDS ConfigStream, DifferProofs

-----------------------------------------------------------------------------
(* FoldLeft(ApplyEvent, map, events), step by step.                        *)

(* What FoldLeft computes: the map after the events of each set of indices,*)
(* taken in their order.                                                   *)
IsIter(f, map, events, S) ==
  f = [s \in SUBSET S |->
         IF s = {} THEN map ELSE ApplyEvent(f[s \ {Max(s)}], events[Max(s)])]
Iter(map, events, S) == CHOOSE f : IsIter(f, map, events, S)

LEMMA FoldIsIter ==
  ASSUME NEW map, NEW events
  PROVE  FoldLeft(ApplyEvent, map, events) = Iter(map, events, DOMAIN events)[DOMAIN events]
  BY DEF FoldLeft, MapThenFoldSet, Iter, IsIter

LEMMA MaxOf ==
  ASSUME NEW n \in Nat, NEW s, s \subseteq 1..n, n \in s
  PROVE  Max(s) = n
<1>1. \A y \in s : y \in Nat /\ n >= y
  OBVIOUS
<1>2. \A x \in s : (\A y \in s : x >= y) => x = n
  BY <1>1
<1>3. \E x \in s : \A y \in s : x >= y
  BY <1>1
<1> QED
  BY <1>2, <1>3 DEF Max

LEMMA IterExists ==
  ASSUME NEW map, NEW events, NEW n \in Nat
  PROVE  IsIter(Iter(map, events, 1..n), map, events, 1..n)
<1> DEFINE S == {m \in Nat : \E f : IsIter(f, map, events, 1..m)}
<1>1. 0 \in S
  <2>1. IsIter([s \in {{}} |-> map], map, events, 1..0)
    <3>1. SUBSET (1..0) = {{}}
      OBVIOUS
    <3> QED
      BY <3>1 DEF IsIter
  <2> QED
    BY <2>1
<1>2. ASSUME NEW m \in Nat, m \in S
      PROVE  m + 1 \in S
  <2>1. PICK f : IsIter(f, map, events, 1..m)
    BY <1>2
  <2> DEFINE g == [s \in SUBSET (1..(m + 1)) |->
                     IF m + 1 \in s THEN ApplyEvent(f[s \ {m + 1}], events[m + 1]) ELSE f[s]]
  <2>2. ASSUME NEW s \in SUBSET (1..(m + 1))
        PROVE  g[s] = IF s = {} THEN map
                      ELSE ApplyEvent(g[s \ {Max(s)}], events[Max(s)])
    <3>1. CASE m + 1 \in s
      <4>1. Max(s) = m + 1
        <5>1. m + 1 \in Nat /\ s \subseteq 1..(m + 1)
          OBVIOUS
        <5> QED
          BY <3>1, <5>1, MaxOf
      <4>2. s \ {m + 1} \in SUBSET (1..(m + 1)) /\ m + 1 \notin s \ {m + 1}
        OBVIOUS
      <4>3. g[s \ {m + 1}] = f[s \ {m + 1}]
        BY <4>2
      <4> QED
        BY <3>1, <4>1, <4>3
    <3>2. CASE m + 1 \notin s
      <4>1. s \in SUBSET (1..m) /\ s \ {Max(s)} \in SUBSET (1..m)
        <5>1. \A i \in 1..(m + 1) : i = m + 1 \/ i \in 1..m
          OBVIOUS
        <5> QED
          BY <3>2, <5>1
      <4>2. f[s] = IF s = {} THEN map ELSE ApplyEvent(f[s \ {Max(s)}], events[Max(s)])
        BY <2>1, <4>1 DEF IsIter
      <4>3. s \ {Max(s)} \in SUBSET (1..(m + 1)) /\ m + 1 \notin s \ {Max(s)}
        BY <3>2
      <4>4. g[s \ {Max(s)}] = f[s \ {Max(s)}] /\ g[s] = f[s]
        BY <3>2, <4>3
      <4> QED
        BY <4>2, <4>4
    <3> QED
      BY <3>1, <3>2
  <2>3. IsIter(g, map, events, 1..(m + 1))
    <3>1. g = [s \in SUBSET (1..(m + 1)) |-> g[s]]
      OBVIOUS
    <3> HIDE DEF g
    <3> QED
      BY <2>2, <3>1 DEF IsIter
  <2> HIDE DEF g
  <2> QED
    BY <2>3
<1>3. Nat \subseteq S
  <2> HIDE DEF S
  <2> QED
    BY <1>1, <1>2, NatInductionSet
<1>4. \E f : IsIter(f, map, events, 1..n)
  BY <1>3
<1> QED
  BY <1>4 DEF Iter

(* One more event.                                                         *)
LEMMA IterStep ==
  ASSUME NEW map, NEW events, NEW n \in Nat, NEW f, IsIter(f, map, events, 1..n)
  PROVE  /\ f[1..0] = map
         /\ \A k \in Nat : k < n => f[1..(k + 1)] = ApplyEvent(f[1..k], events[k + 1])
<1>1. 1..0 \in SUBSET (1..n) /\ 1..0 = {}
  OBVIOUS
<1>2. ASSUME NEW k \in Nat, k < n
      PROVE  f[1..(k + 1)] = ApplyEvent(f[1..k], events[k + 1])
  <2>1. Max(1..(k + 1)) = k + 1
    BY MaxOf
  <2>2. (1..(k + 1)) \ {k + 1} = 1..k /\ 1..(k + 1) # {} /\ 1..(k + 1) \in SUBSET (1..n)
    BY <1>2
  <2>3. f[1..(k + 1)] = ApplyEvent(f[(1..(k + 1)) \ {Max(1..(k + 1))}], events[Max(1..(k + 1))])
    BY <2>2 DEF IsIter
  <2> QED
    BY <2>1, <2>2, <2>3
<1>3. f[1..0] = map
  BY <1>1 DEF IsIter
<1> QED
  BY <1>2, <1>3

(* The fold of a longer sequence continues that of its beginning.          *)
LEMMA IterAgree ==
  ASSUME NEW map, NEW first, NEW second, NEW m \in Nat, NEW n \in Nat, m <= n,
         NEW f, IsIter(f, map, first, 1..m), NEW g, IsIter(g, map, second, 1..n),
         \A i \in 1..m : first[i] = second[i]
  PROVE  f[1..m] = g[1..m]
<1> DEFINE S == {k \in Nat : k <= m => f[1..k] = g[1..k]}
<1>f. f[1..0] = map /\ \A k \in Nat : k < m => f[1..(k + 1)] = ApplyEvent(f[1..k], first[k + 1])
  BY IterStep
<1>g. g[1..0] = map /\ \A k \in Nat : k < n => g[1..(k + 1)] = ApplyEvent(g[1..k], second[k + 1])
  BY ONLY IterStep, IsIter(g, map, second, 1..n), n \in Nat
<1>1. 0 \in S
  BY <1>f, <1>g
<1>2. ASSUME NEW k \in Nat, k \in S
      PROVE  k + 1 \in S
  <2> SUFFICES ASSUME k + 1 <= m PROVE f[1..(k + 1)] = g[1..(k + 1)]
    OBVIOUS
  <2>1. k < m /\ k < n /\ k + 1 \in 1..m /\ f[1..k] = g[1..k]
    BY <1>2
  <2>2. f[1..(k + 1)] = ApplyEvent(f[1..k], first[k + 1])
    BY <1>f, <2>1
  <2>3. g[1..(k + 1)] = ApplyEvent(g[1..k], second[k + 1])
    BY <1>g, <2>1
  <2> QED
    BY <2>1, <2>2, <2>3
<1>3. Nat \subseteq S
  <2> HIDE DEF S
  <2> QED
    BY <1>1, <1>2, NatInductionSet
<1> QED
  BY <1>3

(* The fold without the first event, after it.                             *)
LEMMA IterShift ==
  ASSUME NEW map, NEW events, NEW rest, NEW n \in Nat,
         NEW f, IsIter(f, map, events, 1..(n + 1)),
         NEW g, IsIter(g, ApplyEvent(map, events[1]), rest, 1..n),
         \A i \in 1..n : rest[i] = events[i + 1]
  PROVE  f[1..(n + 1)] = g[1..n]
<1> DEFINE S == {k \in Nat : k <= n => f[1..(k + 1)] = g[1..k]}
<1>f. f[1..0] = map /\ \A k \in Nat : k < n + 1 => f[1..(k + 1)] = ApplyEvent(f[1..k], events[k + 1])
  <2>1. PICK l \in Nat : l = n + 1
    OBVIOUS
  <2>2. IsIter(f, map, events, 1..l)
    BY <2>1
  <2>3. f[1..0] = map /\ \A k \in Nat : k < l => f[1..(k + 1)] = ApplyEvent(f[1..k], events[k + 1])
    BY ONLY IterStep, <2>2, l \in Nat
  <2> QED
    BY <2>1, <2>3
<1>g. /\ g[1..0] = ApplyEvent(map, events[1])
      /\ \A k \in Nat : k < n => g[1..(k + 1)] = ApplyEvent(g[1..k], rest[k + 1])
  <2>1. PICK base : base = ApplyEvent(map, events[1])
    OBVIOUS
  <2>2. IsIter(g, base, rest, 1..n)
    BY <2>1
  <2>3. /\ g[1..0] = base
        /\ \A k \in Nat : k < n => g[1..(k + 1)] = ApplyEvent(g[1..k], rest[k + 1])
    BY ONLY IterStep, <2>2, n \in Nat
  <2> QED
    BY <2>1, <2>3
<1>1. 0 \in S
  <2>1. 0 \in Nat /\ 0 < n + 1
    OBVIOUS
  <2>2. f[1..(0 + 1)] = ApplyEvent(f[1..0], events[0 + 1])
    BY <1>f, <2>1
  <2> QED
    BY <1>f, <1>g, <2>2
<1>2. ASSUME NEW k \in Nat, k \in S
      PROVE  k + 1 \in S
  <2> SUFFICES ASSUME k + 1 <= n PROVE f[1..((k + 1) + 1)] = g[1..(k + 1)]
    OBVIOUS
  <2>1. k < n /\ k + 1 < n + 1 /\ k + 1 \in 1..n /\ f[1..(k + 1)] = g[1..k]
    BY <1>2
  <2>2. f[1..((k + 1) + 1)] = ApplyEvent(f[1..(k + 1)], events[(k + 1) + 1])
    BY <1>f, <2>1
  <2>3. g[1..(k + 1)] = ApplyEvent(g[1..k], rest[k + 1])
    BY <1>g, <2>1
  <2> QED
    BY <2>1, <2>2, <2>3
<1>3. Nat \subseteq S
  <2> HIDE DEF S
  <2> QED
    BY <1>1, <1>2, NatInductionSet
<1> QED
  BY <1>3

LEMMA FoldEmpty ==
  ASSUME NEW map
  PROVE  FoldLeft(ApplyEvent, map, << >>) = map
<1>1. DOMAIN << >> = 1..0
  OBVIOUS
<1>2. IsIter(Iter(map, << >>, 1..0), map, << >>, 1..0)
  BY IterExists
<1>3. Iter(map, << >>, 1..0)[1..0] = map
  BY <1>2, IterStep
<1> QED
  BY <1>1, <1>3, FoldIsIter

(* An event that is appended is applied last.                              *)
LEMMA FoldAppend ==
  ASSUME NEW map, NEW E, NEW events \in Seq(E), NEW e \in E
  PROVE  FoldLeft(ApplyEvent, map, Append(events, e))
           = ApplyEvent(FoldLeft(ApplyEvent, map, events), e)
<1> DEFINE longer == Append(events, e)
<1>1. PICK n \in Nat : n = Len(events)
  OBVIOUS
<1>2. /\ DOMAIN events = 1..n /\ DOMAIN longer = 1..(n + 1) /\ longer[n + 1] = e
      /\ \A i \in 1..n : events[i] = longer[i]
  BY <1>1
<1> HIDE DEF longer
<1>3. PICK f : f = Iter(map, events, 1..n) /\ IsIter(f, map, events, 1..n)
  BY IterExists
<1>4. PICK g : g = Iter(map, longer, 1..(n + 1)) /\ IsIter(g, map, longer, 1..(n + 1))
  BY IterExists
<1>5. f[1..n] = g[1..n]
  BY <1>2, <1>3, <1>4, IterAgree
<1>6. g[1..(n + 1)] = ApplyEvent(g[1..n], longer[n + 1])
  <2>1. PICK l \in Nat : l = n + 1
    OBVIOUS
  <2>2. \A k \in Nat : k < l => g[1..(k + 1)] = ApplyEvent(g[1..k], longer[k + 1])
    <3>1. IsIter(g, map, longer, 1..l)
      BY <1>4, <2>1
    <3> QED
      BY ONLY IterStep, <3>1, l \in Nat
  <2> QED
    BY <2>1, <2>2
<1>7. FoldLeft(ApplyEvent, map, events) = f[1..n] /\ FoldLeft(ApplyEvent, map, longer) = g[1..(n + 1)]
  BY <1>2, <1>3, <1>4, FoldIsIter
<1> QED
  BY <1>2, <1>5, <1>6, <1>7 DEF longer

(* The first event can be applied on its own.                              *)
LEMMA FoldHead ==
  ASSUME NEW map, NEW E, NEW events \in Seq(E), events # << >>
  PROVE  FoldLeft(ApplyEvent, map, events)
           = FoldLeft(ApplyEvent, ApplyEvent(map, Head(events)), Tail(events))
<1> DEFINE rest == Tail(events)
<1>1. PICK n \in Nat : n + 1 = Len(events)
  <2>1. Len(events) \in Nat /\ Len(events) > 0
    OBVIOUS
  <2>2. Len(events) - 1 \in Nat /\ (Len(events) - 1) + 1 = Len(events)
    BY <2>1
  <2> QED
    BY <2>2
<1>2. /\ DOMAIN events = 1..(n + 1) /\ DOMAIN rest = 1..n /\ Head(events) = events[1]
      /\ \A i \in 1..n : rest[i] = events[i + 1]
  BY <1>1
<1> HIDE DEF rest
<1>3. PICK f : f = Iter(map, events, 1..(n + 1)) /\ IsIter(f, map, events, 1..(n + 1))
  BY IterExists
<1>4. PICK g : /\ g = Iter(ApplyEvent(map, events[1]), rest, 1..n)
               /\ IsIter(g, ApplyEvent(map, events[1]), rest, 1..n)
  BY IterExists
<1>5. f[1..(n + 1)] = g[1..n]
  BY <1>2, <1>3, <1>4, IterShift
<1>6. /\ FoldLeft(ApplyEvent, map, events) = f[1..(n + 1)]
      /\ FoldLeft(ApplyEvent, ApplyEvent(map, events[1]), rest) = g[1..n]
  BY <1>2, <1>3, <1>4, FoldIsIter
<1> QED
  BY <1>2, <1>5, <1>6 DEF rest

-----------------------------------------------------------------------------
(* Flat maps, events and the lists of applications.                        *)

LEMMA EventsTyped ==
  ASSUME NEW old \in FlatMaps, NEW new \in FlatMaps
  PROVE  EventsOf(old, new) \subseteq Event
<1>1. /\ DOMAIN old \subseteq Keys /\ \A k \in DOMAIN old : old[k] \in Vals
      /\ DOMAIN new \subseteq Keys /\ \A k \in DOMAIN new : new[k] \in Vals
  BY FlatMapParts
<1>2. DOMAIN Rank = {"add", "remove", "change"}
  BY DEF Rank
<1> QED
  BY <1>1, <1>2 DEF EventsOf, Event, Added, Removed, Changed

LEMMA ApplyTyped ==
  ASSUME NEW map \in FlatMaps, NEW e \in Event
  PROVE  ApplyEvent(map, e) \in FlatMaps
<1>1. DOMAIN map \subseteq Keys /\ \A k \in DOMAIN map : map[k] \in Vals
  BY FlatMapParts
<1>2. e.key \in Keys /\ e.current \in Vals
  BY DEF Event
<1>3. ApplyEvent(map, e) \in [DOMAIN ApplyEvent(map, e) -> Vals]
  BY <1>1, <1>2 DEF ApplyEvent
<1>4. DOMAIN ApplyEvent(map, e) \in SUBSET Keys
  BY <1>1, <1>2 DEF ApplyEvent
<1> QED
  BY <1>3, <1>4 DEF FlatMaps

(* What a file flattens to.                                                *)
LEMMA FlatsTyped ==
  ASSUME NEW fmt \in Formats, NEW f \in Files, NEW flat \in FlatsOf[fmt][f]
  PROVE  flat \in FlatMaps /\ (Whole(f, flat) => flat = Meaning[f])
<1>1. CASE f \in Docs => NoEntries \notin Range(f) /\ ~Ambiguous(f)
  BY <1>1, FlatsRight
<1>2. CASE ~(f \in Docs => NoEntries \notin Range(f) /\ ~Ambiguous(f))
  BY <1>2, FlatsRight DEF Whole, Doubtful
<1> QED
  BY <1>1, <1>2

LEMMA MapsTyped ==
  ASSUME NEW fmt \in Formats, NEW f \in Files, NEW g \in Files,
         NEW old \in OldMaps(fmt, f, g), NEW new \in NewMaps(fmt, g)
  PROVE  old \in FlatMaps /\ new \in FlatMaps
  BY EmptyMapTyped, FlatsTyped DEF OldMaps, NewMaps

-----------------------------------------------------------------------------
(* Types.                                                                  *)

Reasons == {"", "missed", "elsewhere"}
Pushes == [pc : {"list", "find", "send"}, todo : Seq(Apps), left : SUBSET Event,
           live : BOOLEAN, waited : 0..Tries]

PushInv ==
  /\ push \in [Nodes -> Pushes \cup {Idle}]
  /\ \A n \in Nodes : push[n] # Idle =>
       push[n].left \subseteq change /\ (push[n].pc = "send" => push[n].todo # << >>)
ReplicasInv ==
  /\ db \in [Nodes -> Files]
  /\ behind \in [Nodes -> Seq(Files)] /\ \A n \in Nodes : Len(behind[n]) <= MaxLag
TypeInv ==
  /\ format \in Formats /\ current \in Files
  /\ ReplicasInv
  /\ peers \subseteq Servers /\ peers # {}
  /\ conn \in [Apps -> Nodes \cup {None}]
  /\ view \in [Apps -> FlatMaps] /\ wire \in [Apps -> Seq(Event)]
  /\ change \subseteq Event /\ sound \in BOOLEAN
  /\ PushInv
  /\ forward \in [Nodes -> {"no", "sent", "accepted"}]
  /\ lost \in [Apps -> Reasons] /\ reached \subseteq Apps

LEMMA MissTyped ==
  ASSUME lost \in [Apps -> Reasons], NEW S, Miss(S)
  PROVE  lost' \in [Apps -> Reasons]
  BY DEF Miss, Reasons

LEMMA CommitTyped ==
  ASSUME ReplicasInv, NEW f \in Files, Commit(f), UNCHANGED db
  PROVE  ReplicasInv'
<1>1. ASSUME NEW n \in Nodes
      PROVE  behind'[n] \in Seq(Files) /\ Len(behind'[n]) <= MaxLag
  <2>1. behind[n] \in Seq(Files) /\ Len(behind[n]) < MaxLag /\ behind'[n] = Append(behind[n], f)
    BY DEF ReplicasInv, Commit
  <2>2. Len(Append(behind[n], f)) = Len(behind[n]) + 1 /\ Append(behind[n], f) \in Seq(Files)
    BY <2>1
  <2>3. MaxLag \in Nat /\ Len(behind[n]) \in Nat
    BY <2>1, StreamAssumption
  <2> QED
    BY <2>1, <2>2, <2>3
<1>2. behind' = [n \in Nodes |-> behind'[n]]
  BY DEF Commit
<1> QED
  BY <1>1, <1>2 DEF ReplicasInv

LEMMA ReplicasSame ==
  ASSUME ReplicasInv, UNCHANGED replicas
  PROVE  ReplicasInv'
  BY DEF ReplicasInv, replicas

(* A push that goes on.                                                    *)
PushFit(p) ==
  p # Idle => p \in Pushes /\ p.left \subseteq change /\ (p.pc = "send" => p.todo # << >>)

LEMMA GoesTyped ==
  ASSUME PushInv, NEW n \in Nodes, NEW p, PushFit(p), Goes(n, p), UNCHANGED change
  PROVE  PushInv'
  BY DEF PushInv, PushFit, Goes

LEMMA NextFit ==
  ASSUME NEW p \in Pushes, p.left \subseteq change, p.todo # << >>
  PROVE  /\ PushFit(NextInstance(p)) /\ NextInstance(p).pc = "find"
         /\ NextInstance(p).todo = Tail(p.todo)
<1>1. Tail(p.todo) \in Seq(Apps) /\ 0 \in 0..Tries
  BY StreamAssumption DEF Pushes
<1> QED
  BY <1>1 DEF NextInstance, PushFit, Pushes

LEMMA ListingFit == PushFit(Listing)
<1>1. << >> \in Seq(Apps) /\ 0 \in 0..Tries
  BY StreamAssumption
<1> QED
  BY <1>1 DEF PushFit, Listing, Pushes

LEMMA TypeInit == Init => TypeInv
<1> SUFFICES ASSUME Init PROVE TypeInv
  OBVIOUS
<1>0. ReplicasInv
  <2>1. Blank \in Files /\ << >> \in Seq(Files) /\ Len(<< >>) = 0 /\ MaxLag \in Nat
    BY StreamAssumption DEF Files
  <2> QED
    BY <2>1 DEF Init, ReplicasInv
<1>1. current \in Files /\ format \in Formats
  BY DEF Init, Files
<1>2. peers \subseteq Servers /\ peers # {}
  BY StreamAssumption DEF Init
<1>3. view \in [Apps -> FlatMaps] /\ wire \in [Apps -> Seq(Event)]
  BY EmptyMapTyped DEF Init
<1>4. PushInv
  BY DEF Init, PushInv
<1>5. conn \in [Apps -> Nodes \cup {None}] /\ change \subseteq Event
      /\ sound \in BOOLEAN /\ forward \in [Nodes -> {"no", "sent", "accepted"}]
      /\ lost \in [Apps -> Reasons] /\ reached \subseteq Apps
  BY DEF Init, Silent, Reasons
<1> QED
  BY <1>0, <1>1, <1>2, <1>3, <1>4, <1>5 DEF TypeInv

(* What the parts of TypeInv that a step leaves alone need.                *)
LEMMA PushSame ==
  ASSUME PushInv, UNCHANGED <<push, change>>
  PROVE  PushInv'
  BY DEF PushInv

LEMMA TypeRelease ==
  ASSUME TypeInv, NEW draft \in Drafts, Release(draft)
  PROVE  TypeInv'
<1>1. draft \in Files /\ db[Self] \in Files
  BY StreamAssumption DEF TypeInv, ReplicasInv
<1>2. PICK old \in OldMaps(format, db[Self], draft), new \in NewMaps(format, draft) :
        /\ change' = EventsOf(old, new)
        /\ sound' = (/\ db[Self] = current
                     /\ Whole(IF format = Json THEN draft ELSE current, old)
                     /\ Whole(draft, new))
  BY DEF Release
<1>3. old \in FlatMaps /\ new \in FlatMaps
  BY <1>1, MapsTyped DEF TypeInv
<1>4. change' \subseteq Event /\ sound' \in BOOLEAN
  BY <1>2, <1>3, EventsTyped DEF Whole
<1>6. ReplicasInv'
  BY <1>1, CommitTyped DEF Release, TypeInv
<1>7. lost' \in [Apps -> Reasons] /\ reached' \subseteq Apps
  BY MissTyped DEF Release, TypeInv
<1>5. PushInv'
  <2>1. \A n \in Nodes : push[n] = Idle
    BY DEF Release, Quiet
  <2>2. Listing \in Pushes /\ Listing.left = {} /\ Listing.pc # "send"
    BY StreamAssumption DEF Pushes, Listing
  <2>3. push' = [push EXCEPT ![Self] = Listing]
    BY DEF Release
  <2> QED
    BY <2>1, <2>2, <2>3 DEF PushInv, TypeInv
<1> QED
  BY <1>1, <1>4, <1>5, <1>6, <1>7 DEF Release, TypeInv, apps

LEMMA TypeApply ==
  ASSUME TypeInv, NEW n \in Nodes, Apply(n)
  PROVE  TypeInv'
<1>1. ReplicasInv'
  <2>1. behind[n] \in Seq(Files) /\ behind[n] # << >> /\ Len(behind[n]) <= MaxLag
    BY DEF Apply, TypeInv, ReplicasInv
  <2>2. Head(behind[n]) \in Files /\ Tail(behind[n]) \in Seq(Files)
        /\ Len(Tail(behind[n])) = Len(behind[n]) - 1 /\ Len(behind[n]) \in Nat
    BY <2>1
  <2>3. MaxLag \in Nat
    BY StreamAssumption
  <2> QED
    BY <2>1, <2>2, <2>3 DEF Apply, TypeInv, ReplicasInv
<1>2. PushInv'
  BY PushSame DEF Apply, TypeInv, pushing
<1> QED
  BY <1>1, <1>2 DEF Apply, TypeInv, file, apps, pushing, told

LEMMA TypeServers ==
  ASSUME TypeInv, NEW s \in Servers, JoinServer(s) \/ RemoveServer(s)
  PROVE  TypeInv'
<1>1. peers' \subseteq Servers /\ peers' # {}
  BY DEF JoinServer, RemoveServer, TypeInv
<1>2. PushInv'
  BY PushSame DEF JoinServer, RemoveServer, TypeInv, pushing
<1>3. ReplicasInv'
  BY ReplicasSame DEF JoinServer, RemoveServer, TypeInv
<1>4. lost' \in [Apps -> Reasons] /\ reached' \subseteq Apps
  BY MissTyped DEF JoinServer, RemoveServer, TypeInv, told
<1> QED
  BY <1>1, <1>2, <1>3, <1>4 DEF JoinServer, RemoveServer, TypeInv, file, apps, pushing

LEMMA TypeDeliver ==
  ASSUME TypeInv, NEW i \in Apps, Deliver(i)
  PROVE  view' \in [Apps -> FlatMaps] /\ wire' \in [Apps -> Seq(Event)]
<1>1. wire[i] \in Seq(Event) /\ wire[i] # << >> /\ view[i] \in FlatMaps
  BY DEF Deliver, TypeInv
<1>2. Head(wire[i]) \in Event /\ Tail(wire[i]) \in Seq(Event)
  BY <1>1
<1>3. ApplyEvent(view[i], Head(wire[i])) \in FlatMaps
  BY <1>1, <1>2, ApplyTyped
<1> QED
  BY <1>2, <1>3 DEF Deliver, TypeInv

LEMMA TypeApps ==
  ASSUME TypeInv, NEW i \in Apps,
         \/ \E n \in Nodes : Connect(i, n) \/ Fetch(i, n)
         \/ Disconnect(i) \/ Deliver(i)
  PROVE  TypeInv'
<1>0. ReplicasInv'
  BY ReplicasSame DEF Connect, Fetch, Disconnect, Deliver, TypeInv
<1>1. CASE \E n \in Nodes : Connect(i, n)
  <2>1. PushInv'
    BY <1>1, PushSame DEF Connect, TypeInv, pushing
  <2>2. lost' \in [Apps -> Reasons] /\ reached' \subseteq Apps
    BY <1>1 DEF Connect, TypeInv
  <2> QED
    BY <1>0, <1>1, <2>1, <2>2 DEF Connect, TypeInv, file, pushing
<1>2. CASE Disconnect(i)
  <2>1. PushInv'
    <3>1. ASSUME NEW n \in Nodes
          PROVE  /\ push'[n] \in Pushes \cup {Idle}
                 /\ push'[n] # Idle => push[n] # Idle /\ push'[n].left = push[n].left
                      /\ push'[n].pc = push[n].pc /\ push'[n].todo = push[n].todo
      <4>1. push[n] \in Pushes \cup {Idle}
        BY DEF TypeInv, PushInv
      <4>2. Idle.pc # "send"
        BY DEF Idle
      <4> QED
        BY <1>2, <4>1, <4>2 DEF Disconnect, Pushes
    <3>2. push' = [n \in Nodes |-> push'[n]]
      BY <1>2 DEF Disconnect
    <3> QED
      BY <1>2, <3>1, <3>2 DEF Disconnect, TypeInv, PushInv
  <2>2. lost' \in [Apps -> Reasons] /\ reached' \subseteq Apps
    BY <1>2, MissTyped DEF Disconnect, TypeInv
  <2>3. conn' \in [Apps -> Nodes \cup {None}] /\ wire' \in [Apps -> Seq(Event)]
    BY <1>2 DEF Disconnect, TypeInv
  <2> QED
    BY <1>0, <1>2, <2>1, <2>2, <2>3 DEF Disconnect, TypeInv, file
<1>4. ASSUME NEW n \in Nodes, Fetch(i, n)
      PROVE  TypeInv'
  <2>1. PICK flat \in FlatsOf[format][db[n]] :
          /\ view' = [view EXCEPT ![i] = flat]
          /\ lost' = [lost EXCEPT ![i] =
                        IF db[n] = current /\ Whole(current, flat) /\ wire[i] = << >>
                        THEN "" ELSE "missed"]
    BY <1>4 DEF Fetch
  <2>2. flat \in FlatMaps
    BY FlatsTyped DEF TypeInv, ReplicasInv
  <2>3. PushInv'
    BY <1>4, PushSame DEF Fetch, TypeInv, pushing
  <2> QED
    BY <1>0, <1>4, <2>1, <2>2, <2>3 DEF Fetch, TypeInv, file, pushing, Reasons
<1>5. CASE Deliver(i)
  <2>1. PushInv'
    BY <1>5, PushSame DEF Deliver, TypeInv, pushing
  <2> QED
    BY <1>0, <1>5, <2>1, TypeDeliver DEF Deliver, TypeInv, file, pushing, told
<1> QED
  BY <1>1, <1>2, <1>4, <1>5

LEMMA FoundTyped ==
  ASSUME TypeInv, NEW n \in Nodes, NEW p \in Pushes, p.left \subseteq change,
         p.todo # << >>, p.pc = "find", NEW i, NEW seen, FoundIn(n, i, p, seen), UNCHANGED change
  PROVE  PushInv' /\ lost' \in [Apps -> Reasons]
<1>1. CASE seen
  <2> DEFINE q == [p EXCEPT !.pc = "send", !.left = change, !.live = TRUE]
  <2>1. PushFit(q)
    BY DEF PushFit, Pushes, TypeInv
  <2>2. Goes(n, q)
    BY <1>1 DEF FoundIn
  <2>3. PushInv'
    <3> HIDE DEF q
    <3> QED
      BY <2>1, <2>2, GoesTyped DEF TypeInv
  <2> QED
    BY <1>1, <2>3 DEF FoundIn, TypeInv
<1>2. CASE ~seen /\ p.waited < Tries
  <2> DEFINE q == [p EXCEPT !.waited = @ + 1]
  <2>1. p.waited + 1 \in 0..Tries
    BY <1>2, StreamAssumption DEF Pushes
  <2>2. PushFit(q)
    BY <2>1 DEF PushFit, Pushes
  <2>3. Goes(n, q)
    BY <1>2 DEF FoundIn
  <2>4. PushInv'
    <3> HIDE DEF q
    <3> QED
      BY <2>2, <2>3, GoesTyped DEF TypeInv
  <2> QED
    BY <1>2, <2>4 DEF FoundIn, TypeInv
<1>3. CASE ~seen /\ ~(p.waited < Tries)
  <2>1. PushFit(NextInstance(p)) /\ Goes(n, NextInstance(p))
    BY <1>3, NextFit DEF FoundIn
  <2>2. PushInv'
    BY <2>1, GoesTyped DEF TypeInv
  <2>3. lost' \in [Apps -> Reasons]
    BY <1>3 DEF FoundIn, TypeInv, Reasons
  <2> QED
    BY <2>2, <2>3
<1> QED
  BY <1>1, <1>2, <1>3

LEMMA SendTyped ==
  ASSUME TypeInv, NEW n \in Nodes, push[n] # Idle, Send(n, push[n])
  PROVE  PushInv' /\ lost' \in [Apps -> Reasons] /\ wire' \in [Apps -> Seq(Event)]
<1> DEFINE p == push[n]
           i == Head(p.todo)
<1>1. p \in Pushes /\ p.left \subseteq change /\ p.todo # << >> /\ UNCHANGED change
  BY DEF TypeInv, PushInv, Send
<1>2. CASE /\ p.left = {} /\ Goes(n, NextInstance(p)) /\ UNCHANGED wire
           /\ lost' = IF n # Self /\ p.live /\ lost[i] = "elsewhere"
                      THEN [lost EXCEPT ![i] = ""] ELSE lost
  <2>1. PushFit(NextInstance(p))
    BY <1>1, NextFit
  <2>2. PushInv'
    BY <1>1, <1>2, <2>1, GoesTyped DEF TypeInv
  <2> QED
    BY <1>2, <2>2 DEF TypeInv, Reasons
<1>3. ASSUME NEW e \in p.left,
             Goes(n, [p EXCEPT !.left = @ \ {e}]),
             IF p.live THEN wire' = [wire EXCEPT ![i] = Append(@, e)] ELSE UNCHANGED wire,
             IF sound /\ (p.live \/ n # Self) THEN UNCHANGED lost ELSE Miss({i})
      PROVE  PushInv' /\ lost' \in [Apps -> Reasons] /\ wire' \in [Apps -> Seq(Event)]
  <2> DEFINE q == [p EXCEPT !.left = @ \ {e}]
  <2>1. PushFit(q)
    BY <1>1 DEF PushFit, Pushes
  <2>2. PushInv'
    <3>1. Goes(n, q)
      BY <1>3
    <3> HIDE DEF q, p
    <3> QED
      BY <1>1, <2>1, <3>1, GoesTyped DEF TypeInv
  <2>3. wire' \in [Apps -> Seq(Event)]
    <3>1. e \in Event /\ i \in Apps
      BY <1>1 DEF Pushes, TypeInv
    <3>2. wire[i] \in Seq(Event) /\ Append(wire[i], e) \in Seq(Event)
      BY <3>1 DEF TypeInv
    <3> HIDE DEF i, p
    <3> QED
      BY <1>3, <3>1, <3>2 DEF TypeInv
  <2>4. lost' \in [Apps -> Reasons]
    BY <1>3, MissTyped DEF TypeInv
  <2> QED
    BY <2>2, <2>3, <2>4
<1> QED
  BY <1>2, <1>3 DEF Send

LEMMA TypePush ==
  ASSUME TypeInv, NEW n \in Nodes, PushStep(n)
  PROVE  TypeInv'
<1> DEFINE p == push[n]
<1>1. p \in Pushes /\ p.left \subseteq change /\ push[n] # Idle
  BY DEF TypeInv, PushInv, PushStep
<1>0. ReplicasInv'
  BY ReplicasSame DEF PushStep, TypeInv
<1>2. CASE List(n, p)
  <2>1. PICK listed \in SUBSET Apps :
          /\ \E todo \in SetToSeqs(listed) : Goes(n, [p EXCEPT !.pc = "find", !.todo = todo])
          /\ IF n = Self
             THEN Miss(Apps \ listed) /\ reached' = reached \cap listed
             ELSE Miss({i \in PassedOver : conn[i] = n} \ listed) /\ UNCHANGED reached
    BY <1>2 DEF List
  <2>0. PICK todo \in SetToSeqs(listed) : Goes(n, [p EXCEPT !.pc = "find", !.todo = todo])
    BY <2>1
  <2>2. todo \in Seq(Apps)
    <3>1. IsFiniteSet(listed)
      BY FS_Subset, StreamAssumption
    <3>2. todo \in Seq(listed)
      BY <3>1, Scanned
    <3> QED
      BY <3>2
  <2> DEFINE q == [p EXCEPT !.pc = "find", !.todo = todo]
  <2>3. PushFit(q) /\ Goes(n, q) /\ UNCHANGED change
    BY <1>1, <1>2, <2>0, <2>2 DEF PushFit, Pushes, List
  <2>4. PushInv'
    <3> HIDE DEF q
    <3> QED
      BY <2>3, GoesTyped DEF TypeInv
  <2>5. lost' \in [Apps -> Reasons] /\ reached' \subseteq Apps
    <3>1. \E S : Miss(S)
      BY <2>1
    <3> QED
      BY <2>1, <3>1, MissTyped DEF TypeInv
  <2> QED
    BY <1>0, <1>2, <2>4, <2>5 DEF List, PushStep, TypeInv, file, apps
<1>3. CASE Find(n, p)
  <2>1. PushInv' /\ lost' \in [Apps -> Reasons]
    BY <1>1, <1>3, FoundTyped DEF Find
  <2> QED
    BY <1>0, <1>3, <2>1 DEF Find, PushStep, TypeInv, file, apps
<1>4. CASE Send(n, p)
  <2>1. PushInv' /\ lost' \in [Apps -> Reasons] /\ wire' \in [Apps -> Seq(Event)]
    BY <1>1, <1>4, SendTyped
  <2> QED
    BY <1>0, <1>4, <2>1 DEF Send, PushStep, TypeInv, file
<1>5. CASE Done(n, p)
  <2>1. PushFit(Idle) /\ Goes(n, Idle)
    BY <1>5 DEF PushFit, Done
  <2>2. PushInv'
    BY <1>5, <2>1, GoesTyped DEF TypeInv, Done
  <2>3. forward' \in [Nodes -> {"no", "sent", "accepted"}]
    BY <1>5 DEF Done, TypeInv
  <2> QED
    BY <1>0, <1>5, <2>2, <2>3 DEF Done, PushStep, TypeInv, file, apps, told
<1> QED
  BY <1>2, <1>3, <1>4, <1>5 DEF PushStep

LEMMA TypeAccept ==
  ASSUME TypeInv, NEW n \in Nodes, Accept(n)
  PROVE  TypeInv'
<1>1. PushInv'
  BY ListingFit, GoesTyped DEF Accept, TypeInv
<1>2. forward' \in [Nodes -> {"no", "sent", "accepted"}]
  BY DEF Accept, TypeInv
<1>3. ReplicasInv'
  BY ReplicasSame DEF Accept, TypeInv
<1> QED
  BY <1>1, <1>2, <1>3 DEF Accept, TypeInv, file, apps, told

LEMMA TypeStop ==
  ASSUME TypeInv, Stop
  PROVE  TypeInv'
<1>1. PushInv'
  <2>1. push' = [push EXCEPT ![Self] = Idle] /\ UNCHANGED change
    BY DEF Stop
  <2> QED
    BY <2>1 DEF PushInv, TypeInv
<1>2. lost' \in [Apps -> Reasons] /\ reached' \subseteq Apps
  BY MissTyped DEF Stop, TypeInv
<1>0. ReplicasInv'
  BY ReplicasSame DEF Stop, TypeInv
<1>3. conn' \in [Apps -> Nodes \cup {None}] /\ wire' \in [Apps -> Seq(Event)]
  <2>1. << >> \in Seq(Event)
    OBVIOUS
  <2> QED
    BY <2>1 DEF Stop, TypeInv
<1>4. forward' \in [Nodes -> {"no", "sent", "accepted"}]
  BY DEF Stop, Silent
<1> QED
  BY <1>0, <1>1, <1>2, <1>3, <1>4 DEF Stop, TypeInv, file

LEMMA TypeStep ==
  ASSUME TypeInv, [Next]_vars
  PROVE  TypeInv'
<1>2. CASE UNCHANGED vars
  <2>1. PushInv'
    BY <1>2, PushSame DEF vars, TypeInv, pushing
  <2>2. ReplicasInv'
    BY <1>2, ReplicasSame DEF vars, TypeInv
  <2> QED
    BY <1>2, <2>1, <2>2 DEF vars, TypeInv, file, apps, pushing, told
<1> QED
  BY <1>2, TypeRelease, TypeApply, TypeServers, TypeApps, TypePush, TypeAccept, TypeStop DEF Next

LEMMA TypeInvariant == Spec => []TypeInv
  BY TypeInit, TypeStep, PTL DEF Spec

(* The types: what the nodes, their peers and the applications keep, the   *)
(* progress of a push, and what is under way to an application, which is   *)
(* events only (releaseNamespace, doPush, acceptConfigChange).             *)
THEOREM TypeCorrect == Spec => []TypeOK
<1>1. TypeInv => TypeOK
  <2> SUFFICES ASSUME TypeInv PROVE TypeOK
    OBVIOUS
  <2>1. \A i \in Apps : view[i] \in FlatMaps /\ Range(wire[i]) \subseteq Event
    BY DEF TypeInv, Range
  <2>2. \A n \in Nodes : push[n] # Idle => push[n].waited \in 0..Tries /\ push[n].left \subseteq change
    BY DEF TypeInv, PushInv, Pushes
  <2>3. \A n \in Nodes : db[n] \in Files /\ Len(behind[n]) <= MaxLag
    BY DEF TypeInv, ReplicasInv
  <2> QED
    BY <2>1, <2>2, <2>3 DEF TypeInv, TypeOK
<1> QED
  BY <1>1, TypeInvariant, PTL

-----------------------------------------------------------------------------
(* Applications follow the released file.                                  *)

(* m and the released file agree on k, up to case.                         *)
Agrees(m, k) ==
  /\ k \in DOMAIN m <=> k \in DOMAIN Meaning[current]
  /\ k \in DOMAIN m => EqualFold(m[k], Meaning[current][k])

(* An event after which a map agrees with the released file on its key.    *)
Told(e) ==
  IF e.type = "remove" THEN e.key \notin DOMAIN Meaning[current]
  ELSE e.key \in DOMAIN Meaning[current] /\ EqualFold(e.current, Meaning[current][e.key])

(* The events the push has still to send to i.                             *)
Due(i) ==
  {e \in change :
     /\ push[Self] # Idle
     /\ \/ push[Self].pc = "list"
        \/ push[Self].pc = "find" /\ i \in Range(push[Self].todo)
        \/ push[Self].pc = "send" /\ \/ i = Head(push[Self].todo) /\ e \in push[Self].left
                                     \/ i \in Range(Tail(push[Self].todo))}

ChangeTold == sound => \A e \in change : Told(e)

(* The configuration of i and the released file agree, but for D.          *)
Near(i, D) == \A k \in Keys : Agrees(Ahead(i), k) \/ \E e \in D : e.key = k

Follows(i) == lost[i] = "" /\ (sound \/ Due(i) = {}) => Near(i, Due(i))

(* Other nodes push only when Self does not.                               *)
Alone == push[Self] # Idle => forward = Silent /\ \A n \in Nodes \ {Self} : push[n] = Idle

(* Whoever Self gave up, and another node may tell, misses nothing but     *)
(* events of the newest release.                                           *)
Tells(n, i) == push[n] # Idle /\ push[n].pc = "send" /\ i = Head(push[n].todo) /\ push[n].live
Passed(i) ==
  lost[i] = "elsewhere" =>
    /\ sound /\ Near(i, change)
    /\ \A n \in Nodes \ {Self} : Tells(n, i) => Near(i, push[n].left)

FollowInv == ChangeTold /\ Alone /\ \A i \in Apps : Follows(i) /\ Passed(i)

LEMMA FoldTyped ==
  ASSUME NEW map \in FlatMaps, NEW events \in Seq(Event)
  PROVE  FoldLeft(ApplyEvent, map, events) \in FlatMaps
<1>1. PICK n \in Nat : n = Len(events)
  OBVIOUS
<1>2. DOMAIN events = 1..n /\ \A k \in 1..n : events[k] \in Event
  BY <1>1
<1>3. PICK f : f = Iter(map, events, 1..n) /\ IsIter(f, map, events, 1..n)
  BY IterExists
<1>4. f[1..0] = map /\ \A k \in Nat : k < n => f[1..(k + 1)] = ApplyEvent(f[1..k], events[k + 1])
  <2>1. IsIter(f, map, events, 1..n)
    BY <1>3
  <2> QED
    BY ONLY IterStep, <2>1, n \in Nat
<1> DEFINE S == {k \in Nat : k <= n => f[1..k] \in FlatMaps}
<1>5. 0 \in S
  BY <1>4
<1>6. ASSUME NEW k \in Nat, k \in S
      PROVE  k + 1 \in S
  <2> SUFFICES ASSUME k + 1 <= n PROVE f[1..(k + 1)] \in FlatMaps
    OBVIOUS
  <2>1. k < n /\ f[1..k] \in FlatMaps /\ events[k + 1] \in Event
    BY <1>2, <1>6
  <2>2. ApplyEvent(f[1..k], events[k + 1]) \in FlatMaps
    BY <2>1, ApplyTyped
  <2> QED
    BY <1>4, <2>1, <2>2
<1>7. Nat \subseteq S
  <2> HIDE DEF S
  <2> QED
    BY <1>5, <1>6, NatInductionSet
<1>8. f[1..n] \in FlatMaps
  BY <1>7
<1> QED
  BY <1>2, <1>3, <1>8, FoldIsIter

LEMMA AheadTyped ==
  ASSUME TypeInv, NEW i \in Apps
  PROVE  Ahead(i) \in FlatMaps
  BY FoldTyped DEF TypeInv, Ahead

LEMMA MeaningKeys ==
  ASSUME NEW f \in Files
  PROVE  DOMAIN Meaning[f] \subseteq Keys
<1>1. CASE f \in {Blank, Unparsable}
  BY <1>1 DEF Meaning, EmptyMap
<1>2. CASE f \notin {Blank, Unparsable}
  <2>1. f \in Docs
    BY <1>2 DEF Files
  <2>2. DOMAIN Meaning[f] = {FlattenSeq(p) : p \in {q \in DOMAIN f : f[q] # NoEntries}}
    BY <1>2 DEF Meaning
  <2>3. \A p \in DOMAIN f : FlattenSeq(p) \in Keys
    BY <2>1 DEF Keys, LineKey
  <2> QED
    BY <2>2, <2>3
<1> QED
  BY <1>1, <1>2

(* What is applied for one key leaves the others alone.                    *)
LEMMA AppliedAgrees ==
  ASSUME NEW m, NEW e, Told(e), NEW k, k = e.key \/ Agrees(m, k)
  PROVE  Agrees(ApplyEvent(m, e), k)
<1>1. CASE e.type = "remove"
  BY <1>1 DEF Told, Agrees, ApplyEvent
<1>2. CASE e.type # "remove"
  BY <1>2 DEF Told, Agrees, ApplyEvent
<1> QED
  BY <1>1, <1>2

LEMMA NothingDue ==
  ASSUME TypeInv, NEW i \in Apps, ~Outstanding(i)
  PROVE  Due(i) = {}
<1>1. CASE push[Self] = Idle
  BY <1>1 DEF Due
<1>2. CASE push[Self] # Idle
  <2>1. push[Self].pc # "list" /\ i \notin Range(push[Self].todo)
    BY <1>2 DEF Outstanding
  <2>2. push[Self].todo \in Seq(Apps) /\ (push[Self].pc = "send" => push[Self].todo # << >>)
    BY <1>2, StreamAssumption DEF TypeInv, PushInv, Pushes
  <2>3. push[Self].pc = "send" =>
          i # Head(push[Self].todo) /\ i \notin Range(Tail(push[Self].todo))
    BY <2>1, <2>2 DEF Range
  <2> QED
    BY <2>1, <2>3 DEF Due
<1> QED
  BY <1>1, <1>2

(* Nothing has been taken from what is due, or sent.                       *)
LEMMA FollowSame ==
  ASSUME NEW i \in Apps, Follows(i), lost'[i] = "" => lost[i] = "",
         UNCHANGED <<current, sound>>, UNCHANGED Ahead(i),
         Due(i) \subseteq Due(i)'
  PROVE  Follows(i)'
  BY DEF Follows, Near, Agrees

(* No other node has begun to tell i, or taken from what it has to.        *)
LEMMA PassedSame ==
  ASSUME NEW i \in Apps, Passed(i), lost'[i] = "elsewhere" => lost[i] = "elsewhere",
         UNCHANGED <<current, sound, change>>, UNCHANGED Ahead(i),
         \A n \in Nodes \ {Self} :
           Tells(n, i)' =>
             push'[n].left = change \/ (Tells(n, i) /\ push'[n].left = push[n].left)
  PROVE  Passed(i)'
<1> SUFFICES ASSUME lost'[i] = "elsewhere"
             PROVE  /\ sound' /\ Near(i, change)'
                    /\ \A n \in Nodes \ {Self} : Tells(n, i)' => Near(i, push[n].left)'
  BY DEF Passed
<1>1. sound /\ Near(i, change) /\ \A n \in Nodes \ {Self} : Tells(n, i) => Near(i, push[n].left)
  BY DEF Passed
<1>2. ASSUME NEW D, Near(i, D)
      PROVE  \A k \in Keys : Agrees(Ahead(i), k)' \/ \E e \in D : e.key = k
  BY <1>2 DEF Near, Agrees
<1>3. Near(i, change)'
  BY <1>1, <1>2 DEF Near
<1>4. ASSUME NEW n \in Nodes \ {Self}, Tells(n, i)'
      PROVE  Near(i, push[n].left)'
  <2>1. CASE push'[n].left = change
    BY <1>1, <1>2, <2>1 DEF Near
  <2>2. CASE Tells(n, i) /\ push'[n].left = push[n].left
    BY <1>1, <1>2, <2>2 DEF Near
  <2> QED
    BY <1>4, <2>1, <2>2
<1> QED
  BY <1>1, <1>3, <1>4

(* An event that is sent to i.                                             *)
LEMMA AheadSent ==
  ASSUME TypeInv, NEW i \in Apps, NEW e \in change,
         UNCHANGED view, wire'[i] = Append(wire[i], e)
  PROVE  Ahead(i)' = ApplyEvent(Ahead(i), e)
<1>1. PICK events \in Seq(Event), map \in FlatMaps : events = wire[i] /\ map = view[i] /\ e \in Event
  BY DEF TypeInv
<1>2. FoldLeft(ApplyEvent, map, Append(events, e)) = ApplyEvent(FoldLeft(ApplyEvent, map, events), e)
  BY ONLY <1>1, FoldAppend
<1>3. view'[i] = map /\ wire'[i] = Append(events, e)
  BY <1>1
<1> QED
  BY <1>1, <1>2, <1>3 DEF Ahead

LEMMA NearSent ==
  ASSUME NEW i \in Apps, NEW e, Told(e), Ahead(i)' = ApplyEvent(Ahead(i), e), UNCHANGED current,
         NEW D, Near(i, D), NEW k \in Keys
  PROVE  Agrees(Ahead(i), k)' \/ \E d \in D \ {e} : d.key = k
<1>1. Agrees(Ahead(i), k) \/ \E d \in D : d.key = k
  BY DEF Near
<1>2. Agrees(Ahead(i), k) \/ k = e.key => Agrees(ApplyEvent(Ahead(i), e), k)
  BY AppliedAgrees
<1>3. Agrees(ApplyEvent(Ahead(i), e), k) => Agrees(Ahead(i), k)'
  BY DEF Agrees
<1> QED
  BY <1>1, <1>2, <1>3

LEMMA FollowSent ==
  ASSUME TypeInv, ChangeTold, sound, NEW i \in Apps, Follows(i), Passed(i), NEW e \in change,
         UNCHANGED <<current, sound, change, view, lost>>, wire'[i] = Append(wire[i], e),
         Due(i) \ {e} \subseteq Due(i)',
         \A n \in Nodes \ {Self} :
           Tells(n, i)' => Tells(n, i) /\ push[n].left \ {e} \subseteq push'[n].left
  PROVE  Follows(i)' /\ Passed(i)'
<1>1. Ahead(i)' = ApplyEvent(Ahead(i), e) /\ Told(e)
  BY AheadSent DEF ChangeTold
<1>2. Follows(i)'
  <2> SUFFICES ASSUME lost[i] = "" PROVE Near(i, Due(i))'
    BY DEF Follows
  <2>1. PICK D : D = Due(i) /\ Near(i, D) /\ D \ {e} \subseteq Due(i)'
    BY DEF Follows
  <2>2. Told(e) /\ Ahead(i)' = ApplyEvent(Ahead(i), e) /\ UNCHANGED current /\ Near(i, D)
    BY <1>1, <2>1
  <2>3. \A k \in Keys : Agrees(Ahead(i), k)' \/ \E d \in D \ {e} : d.key = k
    BY ONLY <2>2, NearSent, i \in Apps
  <2> QED
    BY <2>1, <2>3 DEF Near
<1>3. Passed(i)'
  <2> SUFFICES ASSUME lost[i] = "elsewhere"
               PROVE  /\ Near(i, change)'
                      /\ \A n \in Nodes \ {Self} : Tells(n, i)' => Near(i, push[n].left)'
    BY DEF Passed
  <2>1. Near(i, change) /\ \A n \in Nodes \ {Self} : Tells(n, i) => Near(i, push[n].left)
    BY DEF Passed
  <2>2. Near(i, change)'
    <3>1. \A k \in Keys : Agrees(Ahead(i), k)' \/ \E d \in change \ {e} : d.key = k
      BY <1>1, <2>1, NearSent
    <3> QED
      BY <3>1 DEF Near
  <2>3. ASSUME NEW n \in Nodes \ {Self}, Tells(n, i)'
        PROVE  Near(i, push[n].left)'
    <3>1. PICK D : D = push[n].left /\ Near(i, D) /\ D \ {e} \subseteq push'[n].left
      BY <2>1, <2>3
    <3>2. \A k \in Keys : Agrees(Ahead(i), k)' \/ \E d \in D \ {e} : d.key = k
      BY <1>1, <3>1, NearSent
    <3> QED
      BY <3>1, <3>2 DEF Near
  <2> QED
    BY <2>2, <2>3
<1> QED
  BY <1>2, <1>3

LEMMA FollowInit == Init => FollowInv
  BY StreamAssumption DEF Init, FollowInv, ChangeTold, Follows, Passed, Alone, Silent

LEMMA ToldSame ==
  ASSUME ChangeTold, UNCHANGED <<current, change, sound>>
  PROVE  ChangeTold'
  BY DEF ChangeTold, Told

(* A release: the maps it compares are what the files say, unless it is    *)
(* not sound; and they differ.                                             *)
LEMMA FollowRelease ==
  ASSUME TypeInv, FollowInv, NEW draft \in Drafts, Release(draft)
  PROVE  FollowInv'
<1>1. draft \in Files /\ db[Self] \in Files /\ current' = draft /\ UNCHANGED <<format, apps>>
  BY StreamAssumption DEF Release, TypeInv, ReplicasInv
<1>2. PICK old \in OldMaps(format, db[Self], draft), new \in NewMaps(format, draft) :
        /\ ~SameMaps(old, new)
        /\ change' = EventsOf(old, new)
        /\ sound' = (/\ db[Self] = current
                     /\ Whole(IF format = Json THEN draft ELSE current, old)
                     /\ Whole(draft, new))
  BY DEF Release
<1>3. old \in FlatMaps /\ new \in FlatMaps
  BY <1>1, MapsTyped DEF TypeInv
<1>4. DOMAIN new # {} /\ Added(old, new) \cup Removed(old, new) \cup Changed(old, new) # {}
  BY <1>2 DEF SameMaps
<1>5. format # Yml
  <2>1. DOMAIN EmptyMap = {}
    BY DEF EmptyMap
  <2> QED
    BY <1>2, <1>4, <2>1 DEF NewMaps
<1>6. change' # {}
  BY <1>2, <1>4 DEF EventsOf
<1>7. ASSUME sound'
      PROVE  old = Meaning[current] /\ new = Meaning[draft]
  <2>1. new \in FlatsOf[format][draft] /\ new = Meaning[draft]
    <3>1. new \in FlatsOf[format][draft]
      BY <1>2, <1>5 DEF NewMaps
    <3> QED
      BY <1>1, <1>2, <1>7, <3>1, FlatsTyped DEF TypeInv
  <2>2. format # Json
    <3> SUFFICES ASSUME format = Json PROVE FALSE
      OBVIOUS
    <3>1. old \in FlatsOf[format][draft] /\ Whole(draft, old)
      BY <1>2, <1>7 DEF OldMaps, Json, Yml
    <3>2. old = new
      BY <1>1, <2>1, <3>1, FlatsTyped DEF TypeInv
    <3> QED
      BY <1>4, <3>2 DEF Added, Removed, Changed, EqualFold
  <2>3. old \in FlatsOf[format][current] /\ Whole(current, old)
    BY <1>2, <1>5, <1>7, <2>2 DEF OldMaps
  <2> QED
    BY <2>1, <2>3, FlatsTyped DEF TypeInv
<1>8. ChangeTold'
  <2> SUFFICES ASSUME sound', NEW e \in EventsOf(old, new) PROVE Told(e)'
    BY <1>2 DEF ChangeTold
  <2>1. Meaning[current'] = new
    BY <1>1, <1>7
  <2>2. IF e.type = "remove" THEN e.key \notin DOMAIN new
        ELSE e.key \in DOMAIN new /\ EqualFold(e.current, new[e.key])
    BY DEF EventsOf, Added, Removed, Changed, EqualFold
  <2> QED
    BY <2>1, <2>2 DEF Told
<1>9. ASSUME NEW i \in Apps
      PROVE  Follows(i)'
  <2>1. Due(i)' = change'
    <3>1. push'[Self] = Listing
      BY StreamAssumption DEF Release, TypeInv, PushInv
    <3>2. Listing # Idle /\ Listing.pc = "list"
      BY DEF Listing, Idle
    <3> QED
      BY <3>1, <3>2 DEF Due
  <2>0. lost'[i] = "" => lost[i] = ""
    BY DEF Release, Miss, TypeInv
  <2> SUFFICES ASSUME lost[i] = "", sound', NEW k \in Keys
               PROVE  Agrees(Ahead(i), k)' \/ \E e \in EventsOf(old, new) : e.key = k
    BY <1>1, <1>2, <1>6, <2>0, <2>1 DEF Follows, Near
  <2>2. Due(i) = {}
    BY StreamAssumption DEF Release, Quiet, Due
  <2>3. Agrees(Ahead(i), k)
    BY <2>2 DEF FollowInv, Follows, Near
  <2>4. PICK m : m = Ahead(i) /\ m = Ahead(i)'
    BY <1>1 DEF Ahead, apps
  <2>5. k \in DOMAIN m <=> k \in DOMAIN old
    BY <1>7, <2>3, <2>4 DEF Agrees
  <2>6. k \in DOMAIN m => EqualFold(m[k], old[k])
    BY <1>7, <2>3, <2>4 DEF Agrees
  <2>7. CASE k \in Added(old, new) \cup Removed(old, new) \cup Changed(old, new)
    <3>1. PICK type, val : [type |-> type, key |-> k, current |-> val] \in EventsOf(old, new)
      BY <2>7 DEF EventsOf, Rank
    <3> QED
      BY <3>1
  <2>8. CASE k \notin Added(old, new) \cup Removed(old, new) \cup Changed(old, new)
    <3>1. k \in DOMAIN m <=> k \in DOMAIN new
      BY <2>5, <2>8 DEF Added, Removed
    <3>2. k \in DOMAIN m => EqualFold(m[k], new[k])
      BY <2>5, <2>6, <2>8, <3>1 DEF Changed, EqualFold
    <3>3. Meaning[current'] = new
      BY <1>1, <1>7
    <3> QED
      BY <2>4, <3>1, <3>2, <3>3 DEF Agrees
  <2> QED
    BY <2>7, <2>8
<1>10. \A i \in Apps : Passed(i)'
  <2>1. \A i \in Apps : lost'[i] # "elsewhere"
    BY DEF Release, Miss, PassedOver
  <2> QED
    BY <2>1 DEF Passed
<1>11. Alone'
  BY DEF Release, Quiet, Alone, Silent, TypeInv, PushInv
<1> QED
  BY <1>8, <1>9, <1>10, <1>11 DEF FollowInv

LEMMA FollowFetch ==
  ASSUME TypeInv, FollowInv, NEW a \in Apps, NEW n \in Nodes, Fetch(a, n), NEW i \in Apps
  PROVE  Follows(i)' /\ Passed(i)'
<1>1. PICK flat \in FlatsOf[format][db[n]] :
        /\ view' = [view EXCEPT ![a] = flat]
        /\ lost' = [lost EXCEPT ![a] =
                      IF db[n] = current /\ Whole(current, flat) /\ wire[a] = << >>
                      THEN "" ELSE "missed"]
  BY DEF Fetch
<1>0. UNCHANGED <<current, sound, change, push, wire>> /\ Due(i)' = Due(i)
  BY DEF Fetch, file, pushing, Due
<1>2. CASE i = a
  <2>1. lost'[i] \in {"", "missed"}
    BY <1>1, <1>2 DEF TypeInv
  <2> SUFFICES ASSUME lost'[i] = "", NEW k \in Keys PROVE Agrees(Ahead(i), k)'
    BY <2>1 DEF Follows, Passed, Near
  <2>2. db[n] = current /\ Whole(current, flat) /\ wire[i] = << >>
    BY <1>1, <1>2 DEF TypeInv
  <2>3. flat = Meaning[current]
    BY <2>2, FlatsTyped DEF TypeInv
  <2>4. view'[i] = flat /\ wire'[i] = << >> /\ current' = current
    BY <1>0, <1>1, <1>2, <2>2 DEF TypeInv
  <2>5. Ahead(i)' = flat
    BY <2>4, FoldEmpty DEF Ahead
  <2> QED
    BY <2>3, <2>4, <2>5 DEF Agrees, EqualFold
<1>3. CASE i # a
  <2>1. lost'[i] = lost[i] /\ view'[i] = view[i]
    BY <1>1, <1>3 DEF TypeInv
  <2>2. UNCHANGED Ahead(i)
    BY <1>0, <2>1 DEF Ahead
  <2>3. \A m \in Nodes : Tells(m, i)' => Tells(m, i) /\ push'[m].left = push[m].left
    BY <1>0 DEF Tells
  <2> QED
    BY <1>0, <2>1, <2>2, <2>3, FollowSame, PassedSame DEF FollowInv
<1> QED
  BY <1>2, <1>3

LEMMA FollowDeliver ==
  ASSUME TypeInv, FollowInv, NEW a \in Apps, Deliver(a), NEW i \in Apps
  PROVE  Follows(i)' /\ Passed(i)'
<1>1. UNCHANGED Ahead(i)
  <2>1. CASE i = a
    <3>1. PICK events \in Seq(Event), map \in FlatMaps : events = wire[i] /\ map = view[i] /\ events # << >>
      BY <2>1 DEF TypeInv, Deliver
    <3>2. FoldLeft(ApplyEvent, map, events)
            = FoldLeft(ApplyEvent, ApplyEvent(map, Head(events)), Tail(events))
      BY ONLY <3>1, FoldHead
    <3>3. view'[i] = ApplyEvent(map, Head(events)) /\ wire'[i] = Tail(events)
      BY <2>1, <3>1 DEF TypeInv, Deliver
    <3> QED
      BY <3>1, <3>2, <3>3 DEF Ahead
  <2>2. CASE i # a
    BY <2>2 DEF TypeInv, Deliver, Ahead
  <2> QED
    BY <2>1, <2>2
<1>2. UNCHANGED <<current, sound, change, push, lost>> /\ Due(i)' = Due(i)
  BY DEF Deliver, file, pushing, told, Due
<1>3. \A m \in Nodes : Tells(m, i)' => Tells(m, i) /\ push'[m].left = push[m].left
  BY <1>2 DEF Tells
<1> QED
  BY <1>1, <1>2, <1>3, FollowSame, PassedSame DEF FollowInv

LEMMA FollowDisconnect ==
  ASSUME TypeInv, FollowInv, NEW a \in Apps, Disconnect(a), NEW i \in Apps
  PROVE  Follows(i)' /\ Passed(i)'
<1>0. ASSUME NEW n \in Nodes
      PROVE  /\ push'[n] = Idle <=> push[n] = Idle
             /\ push[n] # Idle => /\ push'[n].pc = push[n].pc
                                  /\ push'[n].todo = push[n].todo
                                  /\ push'[n].left = push[n].left
                                  /\ push'[n].live => push[n].live
  BY DEF Disconnect, TypeInv, PushInv, Pushes, Idle
<1>1. Due(i)' = Due(i)
  <2>1. change' = change /\ Self \in Nodes
    BY StreamAssumption DEF Disconnect
  <2> QED
    BY <1>0, <2>1 DEF Due
<1>2. lost'[i] # "missed" => lost'[i] = lost[i] /\ wire'[i] = wire[i]
  BY DEF Disconnect, Miss, TypeInv
<1>3. wire'[i] = wire[i] => UNCHANGED Ahead(i)
  BY DEF Disconnect, Ahead
<1>4. UNCHANGED <<current, sound, change>>
  BY DEF Disconnect, file
<1>5. CASE lost'[i] = "missed"
  BY <1>5 DEF Follows, Passed
<1>6. CASE lost'[i] # "missed"
  <2>1. \A n \in Nodes : Tells(n, i)' => Tells(n, i) /\ push'[n].left = push[n].left
    BY <1>0 DEF Tells
  <2> QED
    BY <1>1, <1>2, <1>3, <1>4, <1>6, <2>1, FollowSame, PassedSame DEF FollowInv
<1> QED
  BY <1>5, <1>6

LEMMA FollowStop ==
  ASSUME TypeInv, FollowInv, Stop, NEW i \in Apps
  PROVE  Follows(i)' /\ Passed(i)'
<1>1. lost'[i] = "" => lost[i] = "" /\ ~Outstanding(i) /\ wire'[i] = wire[i]
  BY DEF Stop, Miss, TypeInv
<1>2. wire'[i] = wire[i] => UNCHANGED Ahead(i)
  BY DEF Stop, Ahead
<1>3. UNCHANGED <<current, sound>>
  BY DEF Stop, file
<1>4. CASE lost'[i] # ""
  <2>1. lost'[i] # "elsewhere"
    BY DEF Stop, Miss, PassedOver
  <2> QED
    BY <1>4, <2>1 DEF Follows, Passed
<1>5. CASE lost'[i] = ""
  <2>1. Due(i) \subseteq Due(i)'
    BY <1>1, <1>5, NothingDue
  <2> QED
    BY <1>1, <1>2, <1>3, <1>5, <2>1, FollowSame DEF FollowInv, Passed
<1> QED
  BY <1>4, <1>5

LEMMA FollowRemove ==
  ASSUME TypeInv, FollowInv, NEW s \in Servers, RemoveServer(s), NEW i \in Apps
  PROVE  Follows(i)' /\ Passed(i)'
<1>1. UNCHANGED <<current, sound, change, push>> /\ UNCHANGED Ahead(i) /\ Due(i)' = Due(i)
  BY DEF RemoveServer, file, apps, pushing, Ahead, Due
<1>2. lost'[i] # "missed" => lost'[i] = lost[i]
  BY DEF RemoveServer, Miss, TypeInv
<1>3. \A m \in Nodes : Tells(m, i)' => Tells(m, i) /\ push'[m].left = push[m].left
  BY <1>1 DEF Tells
<1> QED
  BY <1>1, <1>2, <1>3, FollowSame, PassedSame DEF FollowInv

(* A step of doPush on one node leaves that on another as it is.           *)
LEMMA PushElsewhere ==
  ASSUME TypeInv, NEW n \in Nodes, PushStep(n), NEW m \in Nodes, m # n
  PROVE  push'[m] = push[m] /\ change' = change
<1>1. ASSUME NEW p, Goes(n, p)
      PROVE  push'[m] = push[m]
  BY <1>1 DEF Goes
<1>2. \E p : Goes(n, p)
  <2>1. CASE List(n, push[n]) \/ Done(n, push[n])
    BY <2>1 DEF List, Done
  <2>2. CASE Find(n, push[n])
    BY <2>2 DEF Find, FoundIn
  <2>3. CASE Send(n, push[n])
    BY <2>3 DEF Send
  <2> QED
    BY <2>1, <2>2, <2>3 DEF PushStep
<1>3. change' = change
  BY DEF PushStep, List, Find, Send, Done
<1> QED
  BY <1>1, <1>2, <1>3

(* What a step of node n need not be asked about.                          *)
LEMMA TellsElsewhere ==
  ASSUME TypeInv, NEW n \in Nodes, PushStep(n), NEW i \in Apps
  PROVE  /\ n # Self => Due(i)' = Due(i)
         /\ \A m \in Nodes \ {n} : Tells(m, i)' => Tells(m, i) /\ push'[m].left = push[m].left
<1>1. n # Self => Due(i)' = Due(i)
  <2> SUFFICES ASSUME n # Self PROVE Due(i)' = Due(i)
    OBVIOUS
  <2>1. push'[Self] = push[Self] /\ change' = change
    BY StreamAssumption, PushElsewhere
  <2> QED
    BY <2>1 DEF Due
<1>2. ASSUME NEW m \in Nodes \ {n}, Tells(m, i)'
      PROVE  Tells(m, i) /\ push'[m].left = push[m].left
  <2>1. push'[m] = push[m]
    BY PushElsewhere
  <2> QED
    BY <1>2, <2>1 DEF Tells
<1> QED
  BY <1>1, <1>2

LEMMA FollowList ==
  ASSUME TypeInv, FollowInv, NEW n \in Nodes, push[n] # Idle, PushStep(n), List(n, push[n]),
         NEW i \in Apps
  PROVE  Follows(i)' /\ Passed(i)'
<1>1. UNCHANGED <<current, sound, change>> /\ UNCHANGED Ahead(i)
  BY DEF PushStep, List, file, apps, Ahead
<1>2. PICK listed \in SUBSET Apps :
        /\ \E todo \in SetToSeqs(listed) : Goes(n, [push[n] EXCEPT !.pc = "find", !.todo = todo])
        /\ IF n = Self
           THEN Miss(Apps \ listed) /\ reached' = reached \cap listed
           ELSE Miss({j \in PassedOver : conn[j] = n} \ listed) /\ UNCHANGED reached
  BY DEF List
<1>3. PICK todo \in SetToSeqs(listed) : Goes(n, [push[n] EXCEPT !.pc = "find", !.todo = todo])
  BY <1>2
<1>4. push'[n] # Idle /\ push'[n].pc = "find" /\ push'[n].todo = todo
  BY <1>3 DEF Goes, TypeInv, PushInv, Pushes, Idle
<1>5. \A m \in Nodes : Tells(m, i)' => Tells(m, i) /\ push'[m].left = push[m].left
  <2>1. ~Tells(n, i)'
    BY <1>4 DEF Tells
  <2> QED
    BY <2>1, TellsElsewhere
<1>6. lost'[i] # "missed" => lost'[i] = lost[i] /\ (n = Self => i \in listed)
  BY <1>2 DEF Miss, TypeInv
<1>7. n = Self /\ i \in listed => Due(i) \subseteq Due(i)'
  <2> SUFFICES ASSUME n = Self, i \in listed PROVE Due(i) \subseteq Due(i)'
    OBVIOUS
  <2>1. Range(todo) = listed
    <3>1. IsFiniteSet(listed)
      BY FS_Subset, StreamAssumption
    <3> QED
      BY <3>1, Scanned
  <2> QED
    BY <1>1, <1>4, <2>1 DEF Due
<1>8. CASE lost'[i] = "missed"
  BY <1>8 DEF Follows, Passed
<1>9. CASE lost'[i] # "missed"
  BY <1>1, <1>5, <1>6, <1>7, <1>9, TellsElsewhere, FollowSame, PassedSame DEF FollowInv
<1> QED
  BY <1>8, <1>9

LEMMA HeadOrTail ==
  ASSUME NEW todo \in Seq(Apps), todo # << >>, NEW i \in Range(todo), i # Head(todo)
  PROVE  i \in Range(Tail(todo))
<1>1. PICK j \in 1..Len(todo) : todo[j] = i
  BY DEF Range
<1>2. j - 1 \in 1..Len(Tail(todo)) /\ Tail(todo)[j - 1] = i
  BY <1>1
<1>3. j - 1 \in DOMAIN Tail(todo)
  BY <1>2
<1> QED
  BY <1>2, <1>3 DEF Range

(* The next instance: nothing was left to send to the one before it.       *)
LEMMA NextDue ==
  ASSUME TypeInv, push[Self] # Idle, push[Self].todo # << >>, push[Self].pc \in {"find", "send"},
         Goes(Self, NextInstance(push[Self])), UNCHANGED change, NEW i \in Apps,
         \/ push[Self].pc = "send" /\ push[Self].left = {}
         \/ i # Head(push[Self].todo)
  PROVE  Due(i) \subseteq Due(i)'
<1> DEFINE p == push[Self]
<1>1. p \in Pushes /\ p.left \subseteq change /\ Self \in Nodes
  BY StreamAssumption DEF TypeInv, PushInv
<1>2. push'[Self] = NextInstance(p)
  BY <1>1 DEF Goes, TypeInv, PushInv
<1>3. NextInstance(p).pc = "find" /\ NextInstance(p).todo = Tail(p.todo)
  BY <1>1, NextFit
<1>4. push'[Self] # Idle
  BY <1>2, <1>3 DEF Idle
<1>5. i # Head(p.todo) /\ i \in Range(p.todo) => i \in Range(Tail(p.todo))
  BY <1>1, HeadOrTail DEF Pushes
<1>6. p.pc \in {"find", "send"}
  OBVIOUS
<1> HIDE DEF p
<1>7. ASSUME NEW e \in Due(i)
      PROVE  i \in Range(Tail(p.todo))
  <2>1. CASE p.pc = "find"
    BY <1>5, <1>7, <2>1 DEF Due, p
  <2>2. CASE p.pc = "send"
    BY <1>7, <2>2 DEF Due, p
  <2> QED
    BY <1>6, <2>1, <2>2
<1> QED
  BY <1>2, <1>3, <1>4, <1>7 DEF Due

LEMMA FollowFind ==
  ASSUME TypeInv, FollowInv, NEW n \in Nodes, push[n] # Idle, PushStep(n), Find(n, push[n]),
         NEW i \in Apps
  PROVE  Follows(i)' /\ Passed(i)'
<1> DEFINE p == push[n]
<1>1. UNCHANGED <<current, sound, change>> /\ UNCHANGED Ahead(i)
  BY DEF PushStep, Find, file, apps, Ahead
<1>2. p \in Pushes /\ p.pc = "find" /\ p.todo # << >> /\ p.left \subseteq change
  BY DEF TypeInv, PushInv, Find
<1>3. PICK a, seen : a = Head(p.todo) /\ FoundIn(n, a, p, seen)
  BY DEF Find
<1>4. /\ lost'[i] = "" => lost[i] = ""
      /\ lost'[i] = "elsewhere" /\ ~(n = Self /\ i = a) => lost[i] = "elsewhere"
  BY <1>3 DEF FoundIn, TypeInv
<1>5. n = Self => \A m \in Nodes \ {Self} : ~Tells(m, i)'
  <2> SUFFICES ASSUME n = Self, NEW m \in Nodes \ {Self} PROVE ~Tells(m, i)'
    OBVIOUS
  <2>1. push[m] = Idle /\ push'[m] = push[m]
    BY PushElsewhere DEF FollowInv, Alone
  <2> QED
    BY <2>1 DEF Tells
<1>6. CASE n # Self
  <2>1. Tells(n, i)' => push'[n].left = change
    <3>1. CASE seen
      <4>1. push'[n] = [p EXCEPT !.pc = "send", !.left = change, !.live = TRUE]
        BY <1>3, <3>1 DEF FoundIn, Goes, TypeInv, PushInv
      <4> QED
        BY <1>2, <4>1 DEF Pushes
    <3>2. CASE ~seen
      <4>1. push'[n].pc = "find"
        <5>1. \/ push'[n] = [p EXCEPT !.waited = @ + 1]
              \/ push'[n] = NextInstance(p)
          BY <1>3, <3>2 DEF FoundIn, Goes, TypeInv, PushInv
        <5> QED
          BY <1>2, <5>1, NextFit DEF Pushes
      <4> QED
        BY <4>1 DEF Tells
    <3> QED
      BY <3>1, <3>2
  <2>2. \A m \in Nodes \ {Self} :
          Tells(m, i)' => push'[m].left = change \/ (Tells(m, i) /\ push'[m].left = push[m].left)
    BY <2>1, TellsElsewhere
  <2>3. Due(i)' = Due(i)
    BY <1>6, TellsElsewhere
  <2> QED
    BY <1>1, <1>4, <1>6, <2>2, <2>3, FollowSame, PassedSame DEF FollowInv
<1>7. CASE n = Self /\ seen
  <2>1. push'[Self] = [p EXCEPT !.pc = "send", !.left = change, !.live = TRUE]
    BY <1>3, <1>7 DEF FoundIn, Goes, TypeInv, PushInv
  <2>2. push'[Self].pc = "send" /\ push'[Self].left = change /\ push'[Self].todo = p.todo
    BY <1>2, <2>1 DEF Pushes
  <2>3. push'[Self] # Idle
    BY <2>2 DEF Idle
  <2>4. i \in Range(p.todo) => i = Head(p.todo) \/ i \in Range(Tail(p.todo))
    BY <1>2, HeadOrTail DEF Pushes
  <2>5. Due(i) \subseteq Due(i)'
    BY <1>1, <1>2, <1>7, <2>2, <2>3, <2>4 DEF Due
  <2>6. UNCHANGED lost
    BY <1>3, <1>7 DEF FoundIn
  <2> QED
    BY <1>1, <1>5, <1>7, <2>5, <2>6, FollowSame, PassedSame DEF FollowInv
<1>8. CASE n = Self /\ ~seen /\ p.waited < Tries
  <2>1. push'[Self] = [p EXCEPT !.waited = @ + 1]
    BY <1>3, <1>8 DEF FoundIn, Goes, TypeInv, PushInv
  <2>2. push'[Self].pc = "find" /\ push'[Self].todo = p.todo
    BY <1>2, <2>1 DEF Pushes
  <2>3. push'[Self] # Idle
    BY <2>2 DEF Idle
  <2>4. Due(i) \subseteq Due(i)'
    BY <1>1, <1>2, <1>8, <2>2, <2>3 DEF Due
  <2>5. UNCHANGED lost
    BY <1>3, <1>8 DEF FoundIn
  <2> QED
    BY <1>1, <1>5, <1>8, <2>4, <2>5, FollowSame, PassedSame DEF FollowInv
<1>9. CASE n = Self /\ ~seen /\ ~(p.waited < Tries)
  <2>1. /\ Goes(Self, NextInstance(push[Self]))
        /\ lost' = [lost EXCEPT ![a] = IF lost[a] = "" /\ sound /\ Member(conn[a])
                                       THEN "elsewhere" ELSE "missed"]
    BY <1>3, <1>9 DEF FoundIn
  <2>2. CASE i = a
    <3>1. lost'[i] # "" /\ (lost'[i] = "elsewhere" => lost[i] = "" /\ sound)
      BY <2>1, <2>2 DEF TypeInv
    <3>2. lost'[i] = "elsewhere" => sound /\ Near(i, change)'
      <4>1. Due(i) \subseteq change
        BY DEF Due
      <4>2. lost'[i] = "elsewhere" => sound /\ Near(i, change)
        BY <3>1, <4>1 DEF FollowInv, Follows, Near
      <4> QED
        BY <1>1, <4>2 DEF Near, Agrees
    <3> QED
      BY <1>1, <1>5, <1>9, <3>1, <3>2 DEF Follows, Passed
  <2>3. CASE i # a
    <3>1. Due(i) \subseteq Due(i)'
      BY <1>1, <1>2, <1>3, <1>9, <2>1, <2>3, NextDue
    <3> QED
      BY <1>1, <1>4, <1>5, <1>9, <2>3, <3>1, FollowSame, PassedSame DEF FollowInv
  <2> QED
    BY <2>2, <2>3
<1> QED
  BY <1>6, <1>7, <1>8, <1>9

(* A node has sent everything to an application: who was passed over, and  *)
(* has been told by it, follows the file.                                  *)
LEMMA FollowSentAll ==
  ASSUME TypeInv, FollowInv, NEW n \in Nodes, push[n] # Idle, PushStep(n), NEW i \in Apps,
         UNCHANGED <<current, sound, change, view, wire>>,
         push[n].pc = "send", push[n].todo # << >>, push[n].left = {},
         Goes(n, NextInstance(push[n])),
         lost' = IF n # Self /\ push[n].live /\ lost[Head(push[n].todo)] = "elsewhere"
                 THEN [lost EXCEPT ![Head(push[n].todo)] = ""] ELSE lost
  PROVE  Follows(i)' /\ Passed(i)'
<1>1. UNCHANGED Ahead(i)
  BY DEF Ahead
<1>2. Due(i) \subseteq Due(i)'
  <2>1. CASE n = Self
    <3>1. Goes(Self, NextInstance(push[Self]))
      BY <2>1
    <3> QED
      BY <2>1, <3>1, NextDue
  <2>2. CASE n # Self
    BY <2>2, TellsElsewhere
  <2> QED
    BY <2>1, <2>2
<1>3. \A m \in Nodes : Tells(m, i)' => Tells(m, i) /\ push'[m].left = push[m].left
  <2>1. push[n] \in Pushes
    BY DEF TypeInv, PushInv
  <2>2. push'[n] = NextInstance(push[n]) /\ NextInstance(push[n]).pc = "find"
    BY <2>1, NextFit DEF Goes, TypeInv, PushInv
  <2> QED
    BY <2>2, TellsElsewhere DEF Tells
<1>4. CASE lost'[i] = lost[i]
  BY <1>1, <1>2, <1>3, <1>4, FollowSame, PassedSame DEF FollowInv
<1>5. CASE lost'[i] # lost[i]
  <2>1. n # Self /\ push[n].live /\ i = Head(push[n].todo) /\ lost[i] = "elsewhere" /\ lost'[i] = ""
    BY <1>5 DEF TypeInv
  <2>2. Tells(n, i)
    BY <2>1 DEF Tells
  <2>3. Near(i, {})
    BY <2>1, <2>2 DEF FollowInv, Passed
  <2>4. \A k \in Keys : Agrees(Ahead(i), k)'
    BY <1>1, <2>3 DEF Near, Agrees
  <2> QED
    BY <2>1, <2>4 DEF Follows, Passed, Near
<1> QED
  BY <1>4, <1>5

LEMMA FollowSend ==
  ASSUME TypeInv, FollowInv, NEW n \in Nodes, push[n] # Idle, PushStep(n), Send(n, push[n]),
         NEW i \in Apps
  PROVE  Follows(i)' /\ Passed(i)'
<1> DEFINE p == push[n]
           a == Head(p.todo)
<1>1. UNCHANGED <<current, sound, change, view>>
  BY DEF PushStep, Send, file
<1>2. p \in Pushes /\ p.pc = "send" /\ p.todo # << >> /\ p.left \subseteq change
  BY DEF TypeInv, PushInv, Send
<1>3. CASE /\ p.left = {} /\ Goes(n, NextInstance(p)) /\ UNCHANGED wire
           /\ lost' = IF n # Self /\ p.live /\ lost[a] = "elsewhere"
                      THEN [lost EXCEPT ![a] = ""] ELSE lost
  BY <1>1, <1>2, <1>3, FollowSentAll
<1>4. ASSUME NEW e \in p.left,
             Goes(n, [p EXCEPT !.left = @ \ {e}]),
             IF p.live THEN wire' = [wire EXCEPT ![a] = Append(@, e)] ELSE UNCHANGED wire,
             IF sound /\ (p.live \/ n # Self) THEN UNCHANGED lost ELSE Miss({a})
      PROVE  Follows(i)' /\ Passed(i)'
  <2>0. push'[n] = [p EXCEPT !.left = @ \ {e}]
    BY <1>4 DEF Goes, TypeInv, PushInv
  <2>1. /\ push'[n].pc = "send" /\ push'[n].todo = p.todo
        /\ push'[n].left = p.left \ {e} /\ push'[n].live = p.live
    BY <1>2, <2>0 DEF Pushes
  <2>2. push'[n] # Idle
    BY <2>1 DEF Idle
  <2>3. Due(i) \ {e} \subseteq Due(i)' /\ (i # a \/ n # Self => Due(i) \subseteq Due(i)')
    <3>1. CASE n # Self
      BY <3>1, TellsElsewhere
    <3>2. CASE n = Self
      BY <1>1, <1>2, <2>1, <2>2, <3>2 DEF Due
    <3> QED
      BY <3>1, <3>2
  <2>4. \A m \in Nodes : Tells(m, i)' =>
          /\ Tells(m, i) /\ push[m].left \ {e} \subseteq push'[m].left
          /\ ~(m = n /\ i = a /\ p.live) => push'[m].left = push[m].left
    <3>1. Tells(n, i)' => Tells(n, i) /\ i = a /\ p.live
      <4>1. Head(push'[n].todo) = a /\ Head(push[n].todo) = a
        BY <2>1
      <4>2. push[n].pc = "send" /\ push'[n].live = push[n].live
        BY <1>2, <2>1
      <4> QED
        BY <4>1, <4>2 DEF Tells
    <3>2. push[n].left \ {e} \subseteq push'[n].left
      BY <2>1
    <3> QED
      BY <3>1, <3>2, TellsElsewhere
  <2>5. CASE lost'[i] = "missed"
    BY <2>5 DEF Follows, Passed
  <2>6. CASE lost'[i] # "missed" /\ ~(i = a /\ p.live)
    <3>1. lost'[i] = lost[i] /\ (i # a \/ n # Self)
      BY <1>4, <2>6 DEF Miss, TypeInv
    <3>2. wire'[i] = wire[i]
      BY <1>4, <2>6 DEF TypeInv
    <3>3. UNCHANGED Ahead(i)
      BY <1>1, <3>2 DEF Ahead
    <3>4. \A m \in Nodes : Tells(m, i)' => Tells(m, i) /\ push'[m].left = push[m].left
      BY <2>4, <2>6
    <3> QED
      BY <1>1, <2>3, <3>1, <3>3, <3>4, FollowSame, PassedSame DEF FollowInv
  <2>7. CASE lost'[i] # "missed" /\ i = a /\ p.live
    <3>1. sound /\ UNCHANGED lost
      BY <1>4, <2>7 DEF Miss, TypeInv
    <3>2. wire'[i] = Append(wire[i], e) /\ e \in change
      BY <1>2, <1>4, <2>7 DEF TypeInv
    <3>3. \A m \in Nodes \ {Self} : Tells(m, i)' => Tells(m, i) /\ push[m].left \ {e} \subseteq push'[m].left
      BY <2>4
    <3> QED
      BY <1>1, <2>3, <3>1, <3>2, <3>3, FollowSent DEF FollowInv
  <2> QED
    BY <2>5, <2>6, <2>7
<1> QED
  BY <1>3, <1>4 DEF Send

LEMMA FollowDone ==
  ASSUME TypeInv, FollowInv, NEW n \in Nodes, push[n] # Idle, PushStep(n), Done(n, push[n]),
         NEW i \in Apps
  PROVE  Follows(i)' /\ Passed(i)'
<1>1. UNCHANGED <<current, sound, change, lost>> /\ UNCHANGED Ahead(i)
  BY DEF PushStep, Done, file, apps, told, Ahead
<1>2. Due(i) \subseteq Due(i)'
  <2>1. CASE n # Self
    BY <2>1, TellsElsewhere
  <2>2. CASE n = Self
    <3>1. push[Self].pc = "find" /\ i \notin Range(push[Self].todo)
      BY <2>2 DEF Done, Range
    <3> QED
      BY <3>1 DEF Due
  <2> QED
    BY <2>1, <2>2
<1>3. \A m \in Nodes : Tells(m, i)' => Tells(m, i) /\ push'[m].left = push[m].left
  <2>1. push'[n] = Idle
    BY DEF Done, Goes, TypeInv, PushInv
  <2> QED
    BY <2>1, TellsElsewhere DEF Tells
<1> QED
  BY <1>1, <1>2, <1>3, FollowSame, PassedSame DEF FollowInv

LEMMA FollowAccept ==
  ASSUME TypeInv, FollowInv, NEW n \in Nodes, Accept(n), NEW i \in Apps
  PROVE  Follows(i)' /\ Passed(i)'
<1>1. UNCHANGED <<current, sound, change, lost>> /\ UNCHANGED Ahead(i)
  BY DEF Accept, file, apps, told, Ahead
<1>2. n # Self /\ push'[n] = Listing /\ \A m \in Nodes \ {n} : push'[m] = push[m]
  BY DEF Accept, Goes, TypeInv, PushInv
<1>3. Due(i)' = Due(i)
  BY <1>1, <1>2, StreamAssumption DEF Due
<1>4. \A m \in Nodes : Tells(m, i)' => Tells(m, i) /\ push'[m].left = push[m].left
  BY <1>2 DEF Tells, Listing
<1> QED
  BY <1>1, <1>3, <1>4, FollowSame, PassedSame DEF FollowInv

LEMMA FollowOther ==
  ASSUME TypeInv, FollowInv, UNCHANGED <<current, sound, change, push, view, wire, lost>>, NEW i \in Apps
  PROVE  Follows(i)' /\ Passed(i)'
<1>1. UNCHANGED Ahead(i) /\ Due(i)' = Due(i)
  BY DEF Ahead, Due
<1>2. \A m \in Nodes : Tells(m, i)' => Tells(m, i) /\ push'[m].left = push[m].left
  BY DEF Tells
<1> QED
  BY <1>1, <1>2, FollowSame, PassedSame DEF FollowInv

LEMMA AlonePush ==
  ASSUME TypeInv, Alone, NEW n \in Nodes, PushStep(n)
  PROVE  Alone'
<1>1. CASE n # Self
  <2>1. push[Self] = Idle /\ push'[Self] = push[Self]
    BY <1>1, StreamAssumption, PushElsewhere DEF Alone, PushStep
  <2> QED
    BY <2>1 DEF Alone
<1>2. CASE n = Self
  <2>1. \A m \in Nodes \ {Self} : push'[m] = push[m]
    BY <1>2, PushElsewhere
  <2>2. push[Self] # Idle
    BY <1>2 DEF PushStep
  <2>3. CASE Done(n, push[n])
    <3>1. push'[Self] = Idle
      BY <1>2, <2>3 DEF Done, Goes, TypeInv, PushInv
    <3> QED
      BY <3>1 DEF Alone
  <2>4. CASE UNCHANGED forward
    BY <2>1, <2>2, <2>4 DEF Alone, Silent
  <2> QED
    BY <2>3, <2>4 DEF PushStep, List, Find, Send
<1> QED
  BY <1>1, <1>2

LEMMA AloneStep ==
  ASSUME TypeInv, Alone, [Next]_vars, ~\E draft \in Drafts : Release(draft)
  PROVE  Alone'
<1>1. ASSUME NEW n \in Nodes, Accept(n)
      PROVE  Alone'
  <2>1. push[Self] = Idle
    BY <1>1 DEF Accept, Alone, Silent
  <2>2. push'[Self] = push[Self]
    BY <1>1, StreamAssumption DEF Accept, Goes, TypeInv, PushInv
  <2> QED
    BY <2>1, <2>2 DEF Alone
<1>2. ASSUME NEW a \in Apps, Disconnect(a)
      PROVE  Alone'
  <2>1. \A n \in Nodes : push'[n] = Idle <=> push[n] = Idle
    BY <1>2 DEF Disconnect, TypeInv, PushInv, Pushes, Idle
  <2>2. UNCHANGED forward /\ Self \in Nodes
    BY <1>2, StreamAssumption DEF Disconnect
  <2> QED
    BY <2>1, <2>2 DEF Alone, Silent
<1>3. CASE Stop
  <2>1. push'[Self] = Idle
    BY <1>3, StreamAssumption DEF Stop, TypeInv, PushInv
  <2> QED
    BY <2>1 DEF Alone
<1>4. CASE UNCHANGED <<push, forward>>
  BY <1>4 DEF Alone, Silent
<1>5. \/ \E n \in Nodes : Accept(n) \/ PushStep(n)
      \/ \E a \in Apps : Disconnect(a)
      \/ Stop
      \/ UNCHANGED <<push, forward>>
  BY DEF Next, JoinServer, RemoveServer, Connect, Fetch, Deliver, Apply, vars, pushing
<1> QED
  BY <1>1, <1>2, <1>3, <1>4, <1>5, AlonePush

LEMMA FollowStep ==
  ASSUME TypeInv, FollowInv, [Next]_vars
  PROVE  FollowInv'
<1>1. ASSUME NEW draft \in Drafts, Release(draft)
      PROVE  FollowInv'
  BY <1>1, FollowRelease
<1>2. CASE ~\E draft \in Drafts : Release(draft)
  <2>1. Alone'
    BY <1>2, AloneStep DEF FollowInv
  <2>2. ChangeTold'
    <3>1. UNCHANGED <<current, change, sound>>
      BY <1>2 DEF Next, JoinServer, RemoveServer, Connect, Disconnect, Fetch, Deliver, Apply, Accept,
                  Stop, PushStep, List, Find, Send, Done, vars, file, pushing
    <3> QED
      BY <3>1, ToldSame DEF FollowInv
  <2>3. ASSUME NEW n \in Nodes, PushStep(n), NEW i \in Apps
        PROVE  Follows(i)' /\ Passed(i)'
    <3>1. push[n] # Idle /\ (List(n, push[n]) \/ Find(n, push[n]) \/ Send(n, push[n]) \/ Done(n, push[n]))
      BY <2>3 DEF PushStep
    <3> QED
      BY <2>3, <3>1, FollowList, FollowFind, FollowSend, FollowDone
  <2>4. ASSUME \/ \E s \in Servers : JoinServer(s)
               \/ \E a \in Apps, n \in Nodes : Connect(a, n)
               \/ \E n \in Nodes : Apply(n)
               \/ UNCHANGED vars
        PROVE  UNCHANGED <<current, sound, change, push, view, wire, lost>>
    BY <2>4 DEF JoinServer, Connect, Apply, vars, file, apps, pushing, told
  <2>5. \A i \in Apps : Follows(i)' /\ Passed(i)'
    BY <1>2, <2>3, <2>4, FollowDisconnect, FollowFetch, FollowDeliver, FollowStop, FollowRemove,
       FollowAccept, FollowOther DEF Next
  <2> QED
    BY <2>1, <2>2, <2>5 DEF FollowInv
<1> QED
  BY <1>1, <1>2

LEMMA FollowImplies ==
  ASSUME TypeInv, FollowInv
  PROVE  FollowsUpToCase
<1> SUFFICES ASSUME NEW i \in Apps, lost[i] = "", ~Outstanding(i)
             PROVE  EqualMaps(Ahead(i), Meaning[current])
  BY DEF FollowsUpToCase
<1>1. \A k \in Keys : Agrees(Ahead(i), k)
  <2>1. Due(i) = {}
    BY NothingDue
  <2> QED
    BY <2>1 DEF FollowInv, Follows, Near
<1>2. DOMAIN Ahead(i) \subseteq Keys
  BY AheadTyped, FlatMapParts
<1>3. DOMAIN Meaning[current] \subseteq Keys
  BY MeaningKeys DEF TypeInv
<1>4. DOMAIN Ahead(i) = DOMAIN Meaning[current]
  BY <1>1, <1>2, <1>3 DEF Agrees
<1>5. \A k \in DOMAIN Ahead(i) : EqualFold(Ahead(i)[k], Meaning[current][k])
  BY <1>1, <1>2 DEF Agrees
<1> QED
  BY <1>4, <1>5 DEF EqualMaps

(* An application that was given all events, by the releasing node or by   *)
(* another, has the released file, up to the case of values: for any number*)
(* of nodes, applications and releases, any wait, any files, and however   *)
(* far the nodes are behind.  Whoever fetched an older file, was concerned *)
(* by a release that compared with an older one, or by a parse in which an *)
(* empty map hid keys or the other spelling of a key won, does not count as*)
(* given all until it fetches again (buildNamespaceDiff, releaseNamespace, *)
(* appConfig, doPush).                                                     *)
THEOREM FollowsUpToCaseHolds == Spec => []FollowsUpToCase
<1>1. TypeInv /\ FollowInv => FollowsUpToCase
  BY FollowImplies
<1>2. TypeInv /\ FollowInv /\ [Next]_vars => FollowInv'
  BY FollowStep
<1> QED
  BY <1>1, <1>2, FollowInit, TypeInvariant, PTL DEF Spec

-----------------------------------------------------------------------------
(* Applications that stay in reach of Self.                                *)

(* doPush on Self sends to i and has seen it go.                           *)
Cut(i) ==
  /\ push[Self] # Idle /\ push[Self].pc = "send" /\ i = Head(push[Self].todo)
  /\ ~push[Self].live
Sure(i) == conn[i] = Self /\ (sound => lost[i] = "") /\ ~Cut(i)
ReachInv == \A i \in reached : Sure(i)

(* A step that touches neither i nor the push of Self.                     *)
LEMMA SureSame ==
  ASSUME NEW i \in Apps, Sure(i), UNCHANGED <<sound, push[Self]>>, conn'[i] = conn[i],
         lost[i] = "" => lost'[i] = ""
  PROVE  Sure(i)'
  BY DEF Sure, Cut

(* Who was told everything is not passed over.                             *)
LEMMA MissPassedOver ==
  ASSUME TypeInv, NEW S, S \subseteq PassedOver, Miss(S), NEW i \in Apps, lost[i] = ""
  PROVE  lost'[i] = ""
  BY DEF Miss, PassedOver, TypeInv

LEMMA ReachRelease ==
  ASSUME TypeInv, ReachInv, NEW draft \in Drafts, Release(draft)
  PROVE  ReachInv'
<1> SUFFICES ASSUME NEW i \in reached' PROVE Sure(i)'
  BY DEF ReachInv
<1>1. i \in Apps /\ lost[i] = "" /\ conn[i] = Self /\ conn' = conn
  BY DEF Release, apps
<1>2. lost'[i] = ""
  BY <1>1, MissPassedOver DEF Release
<1>3. push'[Self].pc = "list"
  BY StreamAssumption DEF Release, TypeInv, PushInv, Listing
<1> QED
  BY <1>1, <1>2, <1>3 DEF Sure, Cut

LEMMA ReachApps ==
  ASSUME TypeInv, ReachInv, NEW a \in Apps,
         \/ \E n \in Nodes : Connect(a, n) \/ Fetch(a, n)
         \/ Disconnect(a) \/ Deliver(a)
  PROVE  ReachInv'
<1>1. CASE \E n \in Nodes : Connect(a, n)
  <2>1. PICK n \in Nodes : Connect(a, n)
    BY <1>1
  <2>2. conn[a] = None /\ conn' = [conn EXCEPT ![a] = n] /\ UNCHANGED <<sound, push, lost>>
    BY <2>1 DEF Connect, pushing
  <2>3. ASSUME NEW i \in reached', i # a
        PROVE  Sure(i)'
    <3>1. i \in reached /\ conn'[i] = conn[i] /\ i \in Apps
      BY <2>1, <2>2, <2>3 DEF Connect, TypeInv
    <3> QED
      BY <2>2, <3>1, SureSame DEF ReachInv
  <2>4. ASSUME a \in reached'
        PROVE  Sure(a)'
    <3>1. a \notin reached
      BY <2>2, StreamAssumption DEF ReachInv, Sure
    <3>2. n = Self /\ lost[a] = "" /\ Awaited(a)
      BY <2>1, <2>4, <3>1 DEF Connect
    <3> QED
      BY <2>2, <3>2 DEF Sure, Cut, Awaited, TypeInv
  <2> QED
    BY <2>3, <2>4 DEF ReachInv
<1>2. CASE \E n \in Nodes : Fetch(a, n)
  <2>1. reached' = reached \ {a} /\ UNCHANGED <<sound, push, conn>>
        /\ \A i \in Apps \ {a} : lost'[i] = lost[i]
    BY <1>2 DEF Fetch, pushing, TypeInv
  <2>2. ASSUME NEW i \in reached'
        PROVE  Sure(i)'
    <3>1. i \in reached /\ i \in Apps /\ i # a
      BY <2>1 DEF TypeInv
    <3> QED
      BY <2>1, <3>1, SureSame DEF ReachInv
  <2> QED
    BY <2>2 DEF ReachInv
<1>3. CASE Disconnect(a)
  <2> SUFFICES ASSUME NEW i \in reached' PROVE Sure(i)'
    BY DEF ReachInv
  <2>1. i \in reached /\ i # a /\ i \in Apps /\ UNCHANGED sound
    BY <1>3 DEF Disconnect, TypeInv
  <2>2. conn'[i] = conn[i] /\ lost'[i] = lost[i]
    BY <1>3, <2>1 DEF Disconnect, Miss, TypeInv
  <2>3. push'[Self] = IF push[Self].pc = "send" /\ Head(push[Self].todo) = a
                      THEN [push[Self] EXCEPT !.live = FALSE] ELSE push[Self]
    BY <1>3, StreamAssumption DEF Disconnect
  <2>4. CASE push[Self].pc = "send" /\ Head(push[Self].todo) = a
    <3>1. push[Self] # Idle
      BY <2>4 DEF Idle
    <3>2. push'[Self].todo = push[Self].todo
      BY <2>3, <2>4, <3>1, StreamAssumption DEF TypeInv, PushInv, Pushes
    <3> QED
      BY <2>1, <2>2, <2>4, <3>2 DEF Sure, Cut, ReachInv
  <2>5. CASE ~(push[Self].pc = "send" /\ Head(push[Self].todo) = a)
    BY <2>1, <2>2, <2>3, <2>5, SureSame DEF ReachInv
  <2> QED
    BY <2>4, <2>5
<1>4. CASE Deliver(a)
  BY <1>4, SureSame DEF Deliver, pushing, told, ReachInv, TypeInv
<1> QED
  BY <1>1, <1>2, <1>3, <1>4

(* A step of doPush that keeps who is missing of those in reach.           *)
LEMMA ReachList ==
  ASSUME TypeInv, ReachInv, NEW n \in Nodes, push[n] # Idle, PushStep(n), List(n, push[n])
  PROVE  ReachInv'
<1> SUFFICES ASSUME NEW i \in reached' PROVE Sure(i)'
  BY DEF ReachInv
<1>1. PICK listed \in SUBSET Apps :
        /\ \E todo \in SetToSeqs(listed) : Goes(n, [push[n] EXCEPT !.pc = "find", !.todo = todo])
        /\ IF n = Self
           THEN Miss(Apps \ listed) /\ reached' = reached \cap listed
           ELSE Miss({j \in PassedOver : conn[j] = n} \ listed) /\ UNCHANGED reached
  BY DEF List
<1>2. i \in reached /\ i \in Apps /\ (n = Self => i \in listed) /\ UNCHANGED <<conn, sound>>
  BY <1>1 DEF List, TypeInv, apps
<1>3. lost[i] = "" => lost'[i] = ""
  <2>1. CASE n = Self
    BY <1>1, <1>2, <2>1 DEF Miss, TypeInv
  <2>2. CASE n # Self
    <3>1. Miss({j \in PassedOver : conn[j] = n} \ listed)
      BY <1>1, <2>2
    <3> QED
      BY <1>2, <3>1, MissPassedOver
  <2> QED
    BY <2>1, <2>2
<1>4. ~Cut(i)'
  <2>1. CASE n = Self
    <3>1. push'[n].pc = "find"
      BY <1>1 DEF Goes, TypeInv, PushInv, Pushes
    <3> QED
      BY <2>1, <3>1 DEF Cut
  <2>2. CASE n # Self
    <3>1. push'[Self] = push[Self]
      BY <2>2, PushElsewhere, StreamAssumption
    <3> QED
      BY <1>2, <3>1 DEF Cut, ReachInv, Sure
  <2> QED
    BY <2>1, <2>2
<1> QED
  BY <1>2, <1>3, <1>4 DEF Sure, ReachInv

LEMMA ReachFind ==
  ASSUME TypeInv, ReachInv, NEW n \in Nodes, push[n] # Idle, PushStep(n), Find(n, push[n])
  PROVE  ReachInv'
<1> SUFFICES ASSUME NEW i \in reached' PROVE Sure(i)'
  BY DEF ReachInv
<1> DEFINE a == Head(push[n].todo)
<1>1. i \in reached /\ i \in Apps /\ Sure(i) /\ UNCHANGED <<conn, sound>>
  BY DEF Find, TypeInv, apps, ReachInv
<1>2. FoundIn(n, a, push[n], conn[a] = n) /\ push[n] \in Pushes /\ push[n].todo # << >>
  BY DEF Find, TypeInv, PushInv
<1>3. CASE n # Self
  <2>1. UNCHANGED lost
    BY <1>2, <1>3 DEF FoundIn
  <2>2. push'[Self] = push[Self]
    BY <1>3, PushElsewhere, StreamAssumption
  <2> QED
    BY <1>1, <2>1, <2>2, SureSame
<1>4. CASE n = Self
  <2>1. CASE conn[a] = n
    <3>1. push'[n] = [push[n] EXCEPT !.pc = "send", !.left = change, !.live = TRUE] /\ UNCHANGED lost
      BY <1>2, <2>1 DEF FoundIn, Goes, TypeInv, PushInv
    <3>2. push'[n].live
      BY <1>2, <3>1 DEF Pushes
    <3> QED
      BY <1>1, <1>4, <3>1, <3>2 DEF Sure, Cut
  <2>2. CASE conn[a] # n /\ push[n].waited < Tries
    <3>1. push'[n] = [push[n] EXCEPT !.waited = @ + 1] /\ UNCHANGED lost
      BY <1>2, <2>2 DEF FoundIn, Goes, TypeInv, PushInv
    <3>2. push'[n].pc = "find"
      BY <1>2, <3>1 DEF Pushes, Find
    <3> QED
      BY <1>1, <1>4, <3>1, <3>2 DEF Sure, Cut
  <2>3. CASE conn[a] # n /\ ~(push[n].waited < Tries)
    <3>1. Goes(n, NextInstance(push[n]))
          /\ lost' = [lost EXCEPT ![a] = IF @ = "" /\ sound /\ Member(conn[a])
                                          THEN "elsewhere" ELSE "missed"]
      BY <1>2, <1>4, <2>3 DEF FoundIn
    <3>2. push'[n].pc = "find"
      <4>1. NextInstance(push[n]).pc = "find"
        BY <1>2, NextFit DEF TypeInv, PushInv
      <4> QED
        BY <3>1, <4>1 DEF Goes, TypeInv, PushInv
    <3>3. i # a
      BY <1>1, <1>4, <2>3 DEF Sure
    <3>4. lost'[i] = lost[i]
      <4>1. \E reason : lost' = [lost EXCEPT ![a] = reason]
        BY <3>1
      <4> HIDE DEF a
      <4> QED
        BY <1>1, <3>3, <4>1 DEF TypeInv
    <3> QED
      BY <1>1, <1>4, <3>2, <3>4 DEF Sure, Cut
  <2> QED
    BY <2>1, <2>2, <2>3
<1> QED
  BY <1>3, <1>4

LEMMA ReachSend ==
  ASSUME TypeInv, ReachInv, NEW n \in Nodes, push[n] # Idle, PushStep(n), Send(n, push[n])
  PROVE  ReachInv'
<1> SUFFICES ASSUME NEW i \in reached' PROVE Sure(i)'
  BY DEF ReachInv
<1> DEFINE a == Head(push[n].todo)
<1>1. i \in reached /\ i \in Apps /\ Sure(i) /\ UNCHANGED <<conn, sound>>
  BY DEF Send, TypeInv, ReachInv
<1>2. push[n] \in Pushes /\ push[n].pc = "send" /\ push[n].todo # << >>
      /\ push[n].left \subseteq change
  BY DEF Send, TypeInv, PushInv
<1>3. CASE /\ Goes(n, NextInstance(push[n]))
           /\ lost' = IF n # Self /\ push[n].live /\ lost[a] = "elsewhere"
                      THEN [lost EXCEPT ![a] = ""] ELSE lost
  <2>1. lost[i] = "" => lost'[i] = ""
    BY <1>1, <1>3 DEF TypeInv
  <2>2. CASE n # Self
    <3>1. push'[Self] = push[Self]
      BY <2>2, PushElsewhere, StreamAssumption
    <3> QED
      BY <1>1, <2>1, <3>1, SureSame
  <2>3. CASE n = Self
    <3>1. NextInstance(push[n]).pc = "find"
      BY <1>2, NextFit
    <3>2. push'[n].pc = "find"
      BY <1>3, <3>1 DEF Goes, TypeInv, PushInv
    <3> QED
      BY <1>1, <2>1, <2>3, <3>2 DEF Sure, Cut
  <2> QED
    BY <2>2, <2>3
<1>4. ASSUME NEW e \in push[n].left,
             Goes(n, [push[n] EXCEPT !.left = @ \ {e}]),
             IF sound /\ (push[n].live \/ n # Self) THEN UNCHANGED lost ELSE Miss({a})
      PROVE  Sure(i)'
  <2>1. sound => lost'[i] = lost[i]
    <3> SUFFICES ASSUME sound, n = Self, ~push[n].live PROVE lost'[i] = lost[i]
      BY <1>4
    <3>1. i # a
      BY <1>1, <1>2 DEF Sure, Cut, Idle
    <3> QED
      BY <1>1, <1>4, <3>1 DEF Miss, TypeInv
  <2>2. CASE n # Self
    <3>1. push'[Self] = push[Self]
      BY <2>2, PushElsewhere, StreamAssumption
    <3> QED
      BY <1>1, <2>1, <3>1 DEF Sure, Cut
  <2>3. CASE n = Self
    <3>1. push'[n] = [push[n] EXCEPT !.left = @ \ {e}]
      BY <1>4 DEF Goes, TypeInv, PushInv
    <3>2. push'[n].todo = push[n].todo /\ push'[n].live = push[n].live
      BY <1>2, <3>1 DEF Pushes
    <3>3. ~Cut(i)'
      BY <1>1, <1>2, <2>3, <3>2 DEF Sure, Cut
    <3> QED
      BY <1>1, <2>1, <3>3 DEF Sure
  <2> QED
    BY <2>2, <2>3
<1> QED
  BY <1>3, <1>4 DEF Send

LEMMA ReachStep ==
  ASSUME TypeInv, ReachInv, [Next]_vars
  PROVE  ReachInv'
<1>1. ASSUME NEW s \in Servers, RemoveServer(s)
      PROVE  ReachInv'
  <2>1. UNCHANGED <<conn, push, sound, reached>>
    BY <1>1 DEF RemoveServer, apps, pushing
  <2>2. \A i \in Apps : lost[i] = "" => lost'[i] = ""
    BY <1>1, MissPassedOver DEF RemoveServer
  <2> QED
    BY <2>1, <2>2, SureSame DEF ReachInv, TypeInv
<1>2. ASSUME NEW n \in Nodes, PushStep(n)
      PROVE  ReachInv'
  <2>1. push[n] # Idle /\ (List(n, push[n]) \/ Find(n, push[n]) \/ Send(n, push[n]) \/ Done(n, push[n]))
    BY <1>2 DEF PushStep
  <2>2. CASE Done(n, push[n])
    <3>1. UNCHANGED <<conn, sound, lost, reached>>
      BY <2>2 DEF Done, apps, told
    <3>2. push'[n] = Idle /\ (n # Self => push'[Self] = push[Self])
      BY <1>2, <2>2, PushElsewhere, StreamAssumption DEF Done, Goes, TypeInv, PushInv
    <3> QED
      BY <3>1, <3>2, StreamAssumption DEF ReachInv, Sure, Cut
  <2> QED
    BY <1>2, <2>1, <2>2, ReachList, ReachFind, ReachSend
<1>3. ASSUME NEW n \in Nodes, Accept(n)
      PROVE  ReachInv'
  <2>1. UNCHANGED <<conn, sound, lost, reached>> /\ push'[Self] = push[Self]
    BY <1>3, StreamAssumption DEF Accept, Goes, apps, told, TypeInv, PushInv
  <2> QED
    BY <2>1 DEF ReachInv, Sure, Cut
<1>4. CASE Stop
  BY <1>4 DEF Stop, ReachInv
<1>5. ASSUME \/ \E s \in Servers : JoinServer(s)
             \/ \E n \in Nodes : Apply(n)
             \/ UNCHANGED vars
      PROVE  ReachInv'
  <2>1. UNCHANGED <<conn, push, sound, lost, reached>>
    BY <1>5 DEF JoinServer, Apply, vars, apps, pushing, told
  <2> QED
    BY <2>1 DEF ReachInv, Sure, Cut
<1> QED
  BY <1>1, <1>2, <1>3, <1>4, <1>5, ReachRelease, ReachApps DEF Next

(* Who was told everything before a release, is listed, and is in reach of *)
(* the releasing node throughout, or again before doPush looked for it for *)
(* the last time, is told of the release: for any nodes, applications and  *)
(* waits, whatever the other nodes and applications do (doPush's wait,     *)
(* change_listener.go:113).                                                *)
THEOREM ReachedIsToldHolds == Spec => []ReachedIsTold
<1>1. Init => ReachInv
  BY DEF Init, ReachInv
<1>2. TypeInv /\ ReachInv /\ [Next]_vars => ReachInv'
  BY ReachStep
<1>3. ReachInv => ReachedIsTold
  BY DEF ReachInv, Sure, ReachedIsTold
<1> QED
  BY <1>1, <1>2, <1>3, TypeInvariant, PTL DEF Spec

=============================================================================
