--------------------------- MODULE RegistryProofs ---------------------------
(***************************************************************************)
(* Theorems about Registry, for any nodes, requests and times to live, any *)
(* delay of the followers and any overlap of requests: types, that an      *)
(* instance which is listed has its metadata, that one which sends         *)
(* heartbeats is found, and that a heartbeat on its own changes nothing.   *)
(***************************************************************************)
EXTENDS Registry, NaturalsInduction, WellFoundedInduction, TLAPS

Values == Metas \cup States
ValuesOf(key) == IF key = Meta THEN Metas ELSE States
TtlsOf(key) == IF key = Meta THEN {MetaTtl} ELSE Ttls

Entries == [val : Values \cup {NoVal}, exp : Nat, ver : {0}]
Commands == [op : {CmdSetEx}, key : Keys, val : Values, exp : Nat]

EntryTyped(key, e) ==
  /\ e \in Entries /\ e.exp \in Deadlines
  /\ e.val \in ValuesOf(key) \cup {NoVal}
  /\ e.val # NoVal => e.exp > 0

(* What badger makes of the deadline of a command, and of one for metadata.*)
Life(c) == WholeSeconds(c.exp)
MetaLife(t) == WholeSeconds(t + MetaTtl)

CommandTyped(c) ==
  /\ c \in Commands /\ c.val \in ValuesOf(c.key)
  /\ Life(c) \in Deadlines /\ Life(c) \in Nat /\ 0 < Life(c) /\ Life(c) <= c.exp

(* The steps of a registration, and those of a heartbeat.                  *)
RegSteps == {"regMeta", "regSpaces"}
BeatSteps == {"readMeta", "beatMeta", "readInst", "beatInst", "beatSpaces"}
Tasks == [pc : RegSteps \cup BeatSteps, node : Nodes, info : Registrations \cup Heartbeats,
          todo : Seq(Listened), got : Values \cup {NoVal}, start : Nat, alone : BOOLEAN]

TaskTyped(t) ==
  /\ t \in Tasks
  /\ Second <= t.start /\ t.start <= LastStart /\ t.start <= now /\ now <= t.start + Patience
  /\ t.pc \in RegSteps => t.info \in Registrations
  /\ t.pc \in BeatSteps => t.info \in Heartbeats
  /\ t.pc = "beatMeta" => t.got \in Metas \cup {NoVal}
  /\ t.pc = "beatInst" => t.got \in States \cup {NoVal}

StoreInv ==
  /\ db \in [Nodes -> [Keys -> Entries]]
  /\ \A n \in Nodes, k \in Keys : EntryTyped(k, db[n][k])
  /\ behind \in [Nodes -> Seq(Commands)] /\ behind[Leader] = << >>
  /\ \A n \in Nodes : Len(behind[n]) <= MaxLag
  /\ \A n \in Nodes, i \in Nat : i \in 1..Len(behind[n]) => CommandTyped(behind[n][i])
  /\ now \in Nat /\ Second <= now /\ now <= Horizon
TaskInv ==
  /\ task \in [Handlers -> Tasks \cup {Idle}]
  /\ \A h \in Handlers : task[h] # Idle => TaskTyped(task[h])
TypeInv ==
  /\ StoreInv /\ TaskInv /\ failures \in Nat
  /\ beaten \in Int /\ -1 <= beaten /\ beaten <= LastStart

-----------------------------------------------------------------------------
(* Keys, times to live, entries and commands.                              *)

LEMMA KeyFacts ==
  /\ Meta \in Keys /\ Inst \in Keys /\ Inst # Meta
  /\ \A s \in Listened :
       /\ NsKey(s) \in Keys \ {Meta, Inst} /\ SharedKey(s) \in Keys \ {Meta, Inst}
  BY DEF Meta, Inst, Keys, NsKey, SharedKey

LEMMA SharedKeysDiffer ==
  ASSUME NEW s \in Listened, NEW r \in Listened, SharedKey(s) = SharedKey(r)
  PROVE  s = r
  BY DEF SharedKey

LEMMA Times ==
  /\ MetaTtl \in Nat /\ MetaTtl > 0 /\ Patience \in Nat /\ LastStart \in Nat /\ Horizon \in Nat
  /\ \A t \in Ttls : t \in Nat /\ t > 0
  /\ \A t \in Ttls \cup {MetaTtl} : t \in Nat /\ t >= Second
  /\ \A k : \A t \in TtlsOf(k) : t \in Ttls \cup {MetaTtl}
<1>1. \A k : \A t \in TtlsOf(k) : t \in Ttls \cup {MetaTtl}
  BY DEF TtlsOf
<1>2. \A t \in Ttls \cup {MetaTtl} : t \in Nat /\ t >= Second
  BY RegistryAssumption
<1>3. \A t \in {Patience, LastStart, Horizon} : t \in Nat
  BY RegistryAssumption
<1>4. \A t \in Ttls \cup {MetaTtl} : t \in Nat /\ t > 0
  BY <1>2, FsmAssumption
<1> QED
  BY <1>1, <1>2, <1>3, <1>4

(* Badger's deadline is less than a second before the one it is given,     *)
LEMMA SecondsBounds ==
  ASSUME NEW t \in Nat
  PROVE  /\ WholeSeconds(t) \in Nat /\ WholeSeconds(t) <= t
         /\ t < WholeSeconds(t) + Second
<1>1. t % Second \in 0..(Second - 1)
  BY FsmAssumption
<1>2. t % Second <= t
  BY FsmAssumption
<1> QED
  BY <1>1, <1>2, FsmAssumption DEF WholeSeconds

(* and it keeps the order of deadlines.                                    *)
LEMMA SecondsOrder ==
  ASSUME NEW s \in Nat, NEW t \in Nat, s <= t
  PROVE  WholeSeconds(s) <= WholeSeconds(t)
<1> DEFINE a == s \div Second
           b == t \div Second
<1>1. a \in Nat /\ b \in Nat
  BY FsmAssumption
<1>2. WholeSeconds(s) = Second * a /\ WholeSeconds(t) = Second * b
  BY FsmAssumption DEF WholeSeconds
<1>3. WholeSeconds(s) <= s /\ t < WholeSeconds(t) + Second
  BY SecondsBounds
<1> HIDE DEF a, b
<1>4. Second * a < Second * b + Second
  <2>1. Second * a \in Nat /\ Second * b \in Nat /\ Second \in Nat
    BY <1>1, FsmAssumption
  <2> QED
    BY <1>2, <1>3, <2>1
<1>5. Second * b + Second = Second * (b + 1)
  BY <1>1, FsmAssumption
<1>6. a <= b
  <2> SUFFICES ASSUME b + 1 <= a PROVE FALSE
    BY <1>1
  <2>1. Second * (b + 1) <= Second * a
    BY <1>1, FsmAssumption
  <2>2. Second * a \in Nat /\ Second * (b + 1) \in Nat
    BY <1>1, FsmAssumption
  <2> QED
    BY <1>4, <1>5, <2>1, <2>2
<1>7. Second * a <= Second * b
  BY <1>1, <1>6, FsmAssumption
<1> QED
  BY <1>2, <1>7

LEMMA SoonestTtl == Soonest \in Ttls /\ \A t \in Ttls : Soonest <= t
<1>1. Ttls \subseteq Nat /\ DefaultTtl \in Ttls
  BY RegistryAssumption DEF Ttls
<1>2. \E t \in Ttls : \A s \in Ttls : t <= s
  <2> DEFINE Less == {p \in Nat \X Nat : p[1] < p[2]}
  <2>1. IsWellFoundedOn(Less, Nat)
    BY NatLessThanWellFounded, Zenon DEF OpToRel
  <2>2. PICK t \in Ttls : \A s \in Ttls : ~(<<s, t>> \in Less)
    BY <1>1, <2>1, WFMin
  <2>3. \A s \in Ttls : ~(s < t)
    BY <1>1, <2>2
  <2>4. \A s \in Ttls : t <= s
    BY <1>1, <2>3
  <2> QED
    BY <2>4
<1> QED
  BY <1>2 DEF Soonest

LEMMA InitEntry == \A k \in Keys : EntryTyped(k, NoEntry)
  BY DEF EntryTyped, NoEntry, Entries, Deadlines, NoExpiry

(* A node drops what has expired before it applies it.                     *)
Entry(c) == [val |-> c.val, exp |-> Life(c), ver |-> 0]

LEMMA Applied ==
  ASSUME NEW d, NEW c \in Commands
  PROVE  ApplyCommand(d, c, 0, now, 0) = IF now <= c.exp THEN [d EXCEPT ![c.key] = Entry(c)] ELSE d
<1>1. c.exp + 0 = c.exp
  BY DEF Commands
<1> QED
  BY <1>1 DEF ApplyCommand, Writes, EntryOf, Entry, Life, Commands, CmdSet, CmdSetEx, CmdDel

LEMMA EntryOfCommand ==
  ASSUME NEW c, CommandTyped(c)
  PROVE  /\ c.key \in Keys /\ EntryTyped(c.key, Entry(c)) /\ Entry(c) \in Entries
         /\ Entry(c).val = c.val /\ Entry(c).exp = Life(c) /\ c.val # NoVal
<1>1. c.val # NoVal /\ c.val \in Values
  BY RegistryAssumption DEF CommandTyped, ValuesOf, Values
<1> QED
  BY <1>1 DEF CommandTyped, Commands, Entry, Entries, EntryTyped

(* What is written is a command.                                           *)
LEMMA CommandOfSet ==
  ASSUME now \in Nat, Second <= now, now <= Horizon, NEW key \in Keys, NEW val \in ValuesOf(key),
         NEW ttl \in TtlsOf(key)
  PROVE  LET c == SetExCommand(key, val, now, ttl) IN
         /\ CommandTyped(c) /\ c.key = key /\ c.val = val /\ c.exp = now + ttl
         /\ now < c.exp /\ Life(c) = WholeSeconds(now + ttl) /\ now < Life(c)
         /\ now + ttl < Life(c) + Second
<1> DEFINE c == SetExCommand(key, val, now, ttl)
<1>1. c.key = key /\ c.val = val /\ c.exp = now + ttl /\ c.op = CmdSetEx
  BY DEF SetExCommand
<1>2. /\ ttl \in Nat /\ ttl >= Second /\ ttl \in Ttls \cup {MetaTtl}
      /\ Second \in Nat /\ Second > 0
  BY Times, FsmAssumption
<1>3. now + ttl \in Nat /\ now < now + ttl
  BY <1>2
<1>4. c \in Commands
  BY <1>1, <1>3 DEF SetExCommand, Commands, ValuesOf, Values
<1>5. Life(c) = WholeSeconds(now + ttl)
  BY <1>1 DEF Life
<1>6. Life(c) \in Nat /\ Life(c) <= now + ttl /\ now + ttl < Life(c) + Second
  BY <1>3, <1>5, SecondsBounds
<1>7. now < Life(c) /\ 0 < Life(c)
  BY <1>2, <1>6
<1>8. Life(c) \in Deadlines
  <2>1. Horizon \in Nat /\ now \in Second .. Horizon
    BY <1>2, Times
  <2> QED
    BY <1>2, <1>5, <2>1 DEF Deadlines
<1> QED
  BY <1>1, <1>3, <1>4, <1>5, <1>6, <1>7, <1>8 DEF CommandTyped

(* The write of a value by h that succeeds.                                *)
Written(h, key, val, ttl, next) ==
  LET c == SetExCommand(key, val, now, ttl) IN
  /\ \A n \in Nodes : Len(behind[n]) < MaxLag
  /\ db' = [db EXCEPT ![Leader] = ApplyCommand(@, c, 0, now, 0)]
  /\ behind' = [n \in Nodes |-> IF n = Leader THEN << >> ELSE Append(behind[n], c)]
  /\ task' = [g \in Handlers |->
                CASE g = h -> next
                  [] g # h /\ task[g] # Idle -> [task[g] EXCEPT !.alone = FALSE]
                  [] OTHER -> Idle]
  /\ UNCHANGED failures
Failed(h, otherwise) ==
  failures < MaxFailures /\ failures' = failures + 1 /\ Become(h, otherwise) /\ UNCHANGED store

LEMMA SetCases ==
  ASSUME NEW h \in Handlers, NEW key, NEW val, NEW ttl, NEW next, NEW otherwise,
         Set(h, key, val, ttl, next, otherwise)
  PROVE  Written(h, key, val, ttl, next) \/ Failed(h, otherwise)
  BY DEF Set, Written, Failed

-----------------------------------------------------------------------------
(* What a write, the application of a command and a step of a request do.  *)

LEMMA WrittenStore ==
  ASSUME StoreInv, NEW h \in Handlers, NEW key \in Keys, NEW val \in ValuesOf(key),
         NEW ttl \in TtlsOf(key), NEW next, Written(h, key, val, ttl, next), now' = now
  PROVE  LET c == SetExCommand(key, val, now, ttl) IN
         /\ StoreInv'
         /\ CommandTyped(c) /\ c.key = key /\ c.val = val /\ val # NoVal
         /\ Life(c) = WholeSeconds(now + ttl) /\ now < Life(c) /\ now + ttl < Life(c) + Second
         /\ \A n \in Nodes, k \in Keys :
              db'[n][k] = IF n = Leader /\ k = key THEN Entry(c) ELSE db[n][k]
         /\ \A n \in Nodes \ {Leader} : behind'[n] = Append(behind[n], c)
<1> DEFINE c == SetExCommand(key, val, now, ttl)
<1>1. now \in Nat /\ Second <= now /\ now <= Horizon
  BY DEF StoreInv
<1>2. /\ CommandTyped(c) /\ c.key = key /\ c.val = val /\ now < c.exp
      /\ Life(c) = WholeSeconds(now + ttl) /\ now < Life(c) /\ now + ttl < Life(c) + Second
  BY <1>1, CommandOfSet
<1> HIDE DEF c
<1>3. /\ EntryTyped(key, Entry(c)) /\ Entry(c) \in Entries /\ c.val # NoVal
      /\ c \in Commands /\ c.exp \in Nat
  BY <1>2, EntryOfCommand DEF CommandTyped, Commands
<1>4. Leader \in Nodes /\ MaxLag \in Nat
  BY RegistryAssumption
<1>5. db' = [db EXCEPT ![Leader] = [db[Leader] EXCEPT ![key] = Entry(c)]]
  <2>1. db' = [db EXCEPT ![Leader] = ApplyCommand(db[Leader], c, 0, now, 0)]
    BY DEF Written, c
  <2>2. ApplyCommand(db[Leader], c, 0, now, 0) = [db[Leader] EXCEPT ![key] = Entry(c)]
    BY <1>1, <1>2, <1>3, Applied
  <2> QED
    BY <2>1, <2>2
<1>6. behind' = [n \in Nodes |-> IF n = Leader THEN << >> ELSE Append(behind[n], c)]
  BY DEF Written, c
<1>7. /\ db \in [Nodes -> [Keys -> Entries]] /\ behind \in [Nodes -> Seq(Commands)]
      /\ \A n \in Nodes, k \in Keys : EntryTyped(k, db[n][k])
      /\ \A n \in Nodes, i \in Nat : i \in 1..Len(behind[n]) => CommandTyped(behind[n][i])
  BY DEF StoreInv
<1>8. \A n \in Nodes, k \in Keys :
        db'[n][k] = IF n = Leader /\ k = key THEN Entry(c) ELSE db[n][k]
  BY <1>4, <1>5, <1>7
<1>9. db' \in [Nodes -> [Keys -> Entries]] /\ behind' \in [Nodes -> Seq(Commands)]
  BY <1>3, <1>4, <1>5, <1>6, <1>7
<1>10. \A n \in Nodes, k \in Keys : EntryTyped(k, db'[n][k])
  BY <1>3, <1>7, <1>8
<1>11. ASSUME NEW n \in Nodes
       PROVE  /\ Len(behind'[n]) <= MaxLag
              /\ \A i \in Nat : i \in 1..Len(behind'[n]) => CommandTyped(behind'[n][i])
  <2>1. CASE n = Leader
    BY <1>4, <1>6, <2>1
  <2>2. CASE n # Leader
    <3>1. behind[n] \in Seq(Commands) /\ behind'[n] = Append(behind[n], c)
      BY <1>6, <1>7, <2>2
    <3>2. Len(behind[n]) < MaxLag
      BY DEF Written
    <3>3. /\ Len(behind'[n]) = Len(behind[n]) + 1 /\ behind'[n][Len(behind[n]) + 1] = c
          /\ \A i \in 1..Len(behind[n]) : behind'[n][i] = behind[n][i]
      BY <1>3, <3>1
    <3>4. Len(behind[n]) \in Nat
      BY <3>1
    <3>5. \A i \in Nat : i \in 1..Len(behind'[n]) => i \in 1..Len(behind[n]) \/ i = Len(behind[n]) + 1
      BY <3>3, <3>4
    <3>6. \A i \in Nat : i \in 1..Len(behind[n]) => CommandTyped(behind[n][i])
      BY <1>7
    <3>7. \A i \in Nat : i \in 1..Len(behind'[n]) => CommandTyped(behind'[n][i])
      BY <1>2, <3>3, <3>5, <3>6
    <3>8. Len(behind'[n]) <= MaxLag
      BY <1>4, <3>2, <3>3, <3>4
    <3> QED
      BY <3>7, <3>8
  <2> QED
    BY <2>1, <2>2
<1>12. StoreInv'
  BY <1>1, <1>4, <1>6, <1>9, <1>10, <1>11 DEF StoreInv, EntryTyped, CommandTyped
<1> QED
  BY <1>2, <1>3, <1>6, <1>8, <1>12 DEF c

LEMMA AppliedStore ==
  ASSUME StoreInv, NEW n \in Nodes, Apply(n)
  PROVE  LET c == behind[n][1] IN
         /\ StoreInv' /\ n # Leader /\ CommandTyped(c)
         /\ \A m \in Nodes \ {n} : db'[m] = db[m] /\ behind'[m] = behind[m]
         /\ \A k \in Keys :
              db'[n][k] = IF k = c.key /\ now <= c.exp THEN Entry(c) ELSE db[n][k]
         /\ Len(behind[n]) \in Nat /\ Len(behind'[n]) = Len(behind[n]) - 1 /\ Len(behind[n]) > 0
         /\ \A i \in 1..Len(behind'[n]) : behind'[n][i] = behind[n][i + 1]
<1> DEFINE c == behind[n][1]
<1>1. /\ db \in [Nodes -> [Keys -> Entries]] /\ behind \in [Nodes -> Seq(Commands)]
      /\ behind[Leader] = << >> /\ now \in Nat
      /\ \A m \in Nodes, k \in Keys : EntryTyped(k, db[m][k])
      /\ \A m \in Nodes, i \in Nat : i \in 1..Len(behind[m]) => CommandTyped(behind[m][i])
  BY DEF StoreInv
<1>2. behind[n] # << >> /\ behind[n] \in Seq(Commands)
  BY <1>1 DEF Apply
<1>3. Len(behind[n]) \in Nat /\ Len(behind[n]) > 0 /\ 1 \in 1..Len(behind[n]) /\ Head(behind[n]) = c
  BY <1>2
<1>4. CommandTyped(c)
  BY <1>1, <1>3
<1>5. behind' = [behind EXCEPT ![n] = Tail(behind[n])]
  BY DEF Apply
<1>6. db' = [db EXCEPT ![n] = ApplyCommand(db[n], c, 0, now, 0)]
  BY <1>3 DEF Apply
<1> HIDE DEF c
<1>7. c \in Commands /\ c.key \in Keys /\ EntryTyped(c.key, Entry(c)) /\ Entry(c) \in Entries
  BY <1>4, EntryOfCommand DEF CommandTyped
<1>8. db' = [db EXCEPT ![n] = IF now <= c.exp THEN [db[n] EXCEPT ![c.key] = Entry(c)] ELSE db[n]]
  BY <1>6, <1>7, Applied
<1>9. /\ \A m \in Nodes \ {n} : db'[m] = db[m] /\ behind'[m] = behind[m]
      /\ behind'[n] = Tail(behind[n])
  BY <1>1, <1>5, <1>8
<1>10. \A k \in Keys : db'[n][k] = IF k = c.key /\ now <= c.exp THEN Entry(c) ELSE db[n][k]
  BY <1>1, <1>8
<1>11. db' \in [Nodes -> [Keys -> Entries]]
  BY <1>1, <1>7, <1>8
<1>12. /\ behind' \in [Nodes -> Seq(Commands)] /\ Len(behind'[n]) = Len(behind[n]) - 1
       /\ \A i \in 1..Len(behind'[n]) : behind'[n][i] = behind[n][i + 1]
  <2>1. /\ Tail(behind[n]) \in Seq(Commands) /\ Len(Tail(behind[n])) = Len(behind[n]) - 1
        /\ \A i \in 1..Len(Tail(behind[n])) : Tail(behind[n])[i] = behind[n][i + 1]
    BY <1>2
  <2> QED
    BY <1>1, <1>5, <1>9, <2>1
<1>13. \A m \in Nodes, k \in Keys : EntryTyped(k, db'[m][k])
  BY <1>1, <1>7, <1>9, <1>10
<1>14. \A m \in Nodes, i \in Nat : i \in 1..Len(behind'[m]) => CommandTyped(behind'[m][i])
  <2>1. \A i \in Nat : i \in 1..Len(behind'[n]) => i + 1 \in 1..Len(behind[n]) /\ i + 1 \in Nat
    BY <1>3, <1>12
  <2> QED
    BY <1>1, <1>9, <1>12, <2>1
<1>15. n # Leader /\ behind'[Leader] = << >>
  BY <1>1, <1>2, <1>9, RegistryAssumption
<1>16. \A m \in Nodes : Len(behind'[m]) <= MaxLag
  <2>1. Len(behind[n]) <= MaxLag /\ \A m \in Nodes : Len(behind[m]) <= MaxLag
    BY DEF StoreInv
  <2>2. MaxLag \in Nat
    BY RegistryAssumption
  <2> QED
    BY <1>3, <1>9, <1>12, <2>1, <2>2
<1>17. StoreInv'
  <2>1. now' = now /\ Second <= now /\ now <= Horizon
    BY DEF Apply, StoreInv
  <2> QED
    BY <1>1, <1>11, <1>12, <1>13, <1>14, <1>15, <1>16, <2>1 DEF StoreInv, EntryTyped, CommandTyped
<1> QED
  BY <1>3, <1>4, <1>9, <1>10, <1>12, <1>15, <1>17 DEF c

(* What others do to a task: they note that it is not alone.               *)
SameTask(u, t) ==
  /\ u.pc = t.pc /\ u.node = t.node /\ u.info = t.info /\ u.todo = t.todo
  /\ u.got = t.got /\ u.start = t.start /\ (u.alone => t.alone)

Fit(t) == t # Idle => TaskTyped(t)

LEMMA TasksTyped ==
  ASSUME TaskInv, NEW h \in Handlers, NEW new, Fit(new), now' = now,
         \/ task' = [task EXCEPT ![h] = new]
         \/ task' = [g \in Handlers |->
                       CASE g = h -> new
                         [] g # h /\ task[g] # Idle -> [task[g] EXCEPT !.alone = FALSE]
                         [] OTHER -> Idle]
  PROVE  /\ TaskInv' /\ task'[h] = new
         /\ \A g \in Handlers \ {h} : task'[g] # Idle => task[g] # Idle /\ SameTask(task'[g], task[g])
<1>1. task \in [Handlers -> Tasks \cup {Idle}] /\ \A g \in Handlers : task[g] # Idle => TaskTyped(task[g])
  BY DEF TaskInv
<1>2. task'[h] = new
  BY <1>1
<1>3. ASSUME NEW g \in Handlers \ {h}, task'[g] # Idle
      PROVE  /\ task[g] # Idle /\ SameTask(task'[g], task[g])
             /\ TaskTyped(task'[g]) /\ task'[g] \in Tasks
  <2>1. task'[g] = task[g] \/ (task[g] # Idle /\ task'[g] = [task[g] EXCEPT !.alone = FALSE])
    BY <1>1, <1>3
  <2>2. CASE task'[g] = task[g]
    BY <1>1, <1>3, <2>2 DEF SameTask, TaskTyped
  <2>3. CASE task[g] # Idle /\ task'[g] = [task[g] EXCEPT !.alone = FALSE]
    <3> DEFINE t == task[g]
               u == [task[g] EXCEPT !.alone = FALSE]
    <3>1. TaskTyped(t) /\ t \in Tasks
      BY <1>1, <2>3 DEF TaskTyped
    <3>2. u \in Tasks /\ SameTask(u, t)
      BY <3>1 DEF Tasks, SameTask
    <3> HIDE DEF t, u
    <3>3. TaskTyped(u)
      BY <3>1, <3>2 DEF TaskTyped, SameTask
    <3> QED
      BY <2>3, <3>2, <3>3 DEF t, u
  <2> QED
    BY <2>1, <2>2, <2>3
<1>4. DOMAIN task' = Handlers /\ task' = [g \in Handlers |-> task'[g]]
  BY <1>1
<1>5. new = Idle \/ (new \in Tasks /\ TaskTyped(new))
  BY DEF Fit, TaskTyped
<1>6. \A g \in Handlers : task'[g] \in Tasks \cup {Idle} /\ (task'[g] # Idle => TaskTyped(task'[g]))
  BY <1>2, <1>3, <1>5
<1>7. TaskInv'
  BY <1>4, <1>6 DEF TaskInv, TaskTyped
<1> QED
  BY <1>2, <1>3, <1>7

-----------------------------------------------------------------------------
(* The steps of a request, as the invariants see them.                     *)

Left(t, s) == \E i \in DOMAIN t.todo : t.todo[i] = s
(* The steps of a request that has written the metadata.                   *)
Later == {"regSpaces", "readInst", "beatInst", "beatSpaces"}

(* A write, after which the request goes on as next.                       *)
Call(h, t, key, val, ttl, next, otherwise) ==
  /\ Set(h, key, val, ttl, next, otherwise)
  /\ key \in Keys /\ val \in ValuesOf(key) /\ ttl \in TtlsOf(key)
  /\ otherwise \in {next, Idle}
  /\ key = Inst => t.pc \in Later
  /\ next # Idle =>
       /\ TaskTyped(next) /\ next.start = t.start /\ next.info = t.info
       /\ next.pc \in Later => t.pc \in Later \/ key = Meta
       /\ next.pc \notin {"beatMeta", "beatInst"}
       /\ next.pc \in BeatSteps =>
            /\ t.pc \in BeatSteps
            /\ next.pc = "beatSpaces" => t.pc = "beatSpaces" \/ key = Inst
            /\ \A s \in Listened : Left(t, s) => Left(next, s) \/ key = SharedKey(s)
  /\ t.pc = "beatSpaces" => next # Idle /\ otherwise # Idle
  /\ t.pc = "beatMeta" => key = Meta /\ val = NewMeta(t)
  /\ t.pc = "beatInst" => key = Inst /\ val = NewState(t)

(* A read of a key, before its write.                                      *)
Reads(h, t, key, new) ==
  /\ task' = [task EXCEPT ![h] = new] /\ UNCHANGED <<store, failures>>
  /\ TaskTyped(new) /\ new # Idle /\ new.start = t.start /\ new.info = t.info
  /\ new.todo = t.todo /\ new.got = Shows(t.node, key) /\ new.alone = (behind[t.node] = << >>)
  /\ \/ key = Meta /\ t.pc = "readMeta" /\ new.pc = "beatMeta"
     \/ key = Inst /\ t.pc = "readInst" /\ new.pc = "beatInst"

Ends(h, t) ==
  /\ t.pc = "beatSpaces" /\ t.todo = << >>
  /\ task' = [task EXCEPT ![h] = Idle] /\ UNCHANGED <<store, failures>>

LEMMA ShowsTyped ==
  ASSUME StoreInv, NEW n \in Nodes, NEW key \in Keys
  PROVE  Shows(n, key) \in ValuesOf(key) \cup {NoVal}
  BY DEF StoreInv, Shows, Get, EntryTyped

(* One namespace less.                                                     *)
LEMMA NextTask ==
  ASSUME NEW t \in Tasks, t.todo # << >>
  PROVE  LET u == [t EXCEPT !.todo = Tail(@)] IN
         /\ u \in Tasks /\ u.pc = t.pc /\ u.node = t.node /\ u.info = t.info
         /\ u.todo = Tail(t.todo) /\ u.start = t.start /\ u.got = t.got
<1>1. t.todo \in Seq(Listened)
  BY DEF Tasks
<1>2. Tail(t.todo) \in Seq(Listened)
  BY <1>1
<1> QED
  BY <1>2 DEF Tasks

LEMMA LeftTail ==
  ASSUME NEW todo \in Seq(Listened), todo # << >>, NEW s, NEW i \in DOMAIN todo, todo[i] = s
  PROVE  s = Head(todo) \/ \E j \in DOMAIN Tail(todo) : Tail(todo)[j] = s
<1>1. i \in Nat /\ 1 <= i /\ i <= Len(todo) /\ Len(todo) \in Nat
  OBVIOUS
<1>2. CASE i = 1
  BY <1>2
<1>3. CASE i # 1
  <2>1. i - 1 \in DOMAIN Tail(todo) /\ Tail(todo)[i - 1] = todo[i]
    BY <1>1, <1>3
  <2> QED
    BY <2>1
<1> QED
  BY <1>2, <1>3

LEMMA RegShape ==
  ASSUME TypeInv, NEW h \in Handlers, NEW t, t = task[h], t # Idle,
         RegMeta(h, t) \/ RegSpace(h, t) \/ RegInst(h, t)
  PROVE  \E key, val, ttl, next, otherwise : Call(h, t, key, val, ttl, next, otherwise)
<1>1. t \in Tasks /\ TaskTyped(t)
  BY DEF TypeInv, TaskInv, TaskTyped
<1>2. t.info \in Registrations /\ t.todo \in Seq(Listened)
  BY <1>1 DEF RegMeta, RegSpace, RegInst, TaskTyped, Tasks, RegSteps
<1>3. InstTtl \in TtlsOf(Inst) /\ \A s \in Listened : InstTtl \in TtlsOf(NsKey(s))
  BY KeyFacts DEF TtlsOf, Ttls
<1>4. CASE RegMeta(h, t)
  <2> DEFINE next == [t EXCEPT !.pc = "regSpaces"]
  <2>1. Set(h, Meta, t.info.meta, MetaTtl, next, Idle) /\ t.pc = "regMeta"
    BY <1>4 DEF RegMeta
  <2>2. /\ next \in Tasks /\ next.pc = "regSpaces" /\ next.info = t.info /\ next.start = t.start
    BY <1>1 DEF Tasks, RegSteps
  <2> HIDE DEF next
  <2>3. TaskTyped(next)
    BY <1>1, <1>2, <2>2 DEF TaskTyped, BeatSteps
  <2>4. /\ Meta \in Keys /\ Meta # Inst /\ t.info.meta \in ValuesOf(Meta)
        /\ MetaTtl \in TtlsOf(Meta)
    BY <1>2, KeyFacts DEF ValuesOf, Metas, TtlsOf
  <2>5. Call(h, t, Meta, t.info.meta, MetaTtl, next, Idle)
    BY <2>1, <2>2, <2>3, <2>4 DEF Call, BeatSteps
  <2> QED
    BY <2>5
<1>5. CASE RegSpace(h, t)
  <2> DEFINE next == [t EXCEPT !.todo = Tail(@)]
             key == NsKey(Head(t.todo))
  <2>1. Set(h, key, "UP", InstTtl, next, next) /\ t.pc = "regSpaces" /\ t.todo # << >>
    BY <1>5 DEF RegSpace
  <2>2. /\ next \in Tasks /\ next.pc = t.pc /\ next.info = t.info /\ next.start = t.start
    BY <1>1, <2>1, NextTask
  <2>3. Head(t.todo) \in Listened
    BY <1>2, <2>1
  <2>4. key \in Keys /\ key # Meta /\ key # Inst /\ "UP" \in ValuesOf(key) /\ InstTtl \in TtlsOf(key)
    BY <1>3, <2>3, KeyFacts DEF ValuesOf, States
  <2> HIDE DEF next, key
  <2>5. TaskTyped(next) /\ next # Idle
    BY <1>1, <1>2, <2>1, <2>2 DEF TaskTyped, BeatSteps, Idle
  <2>6. Call(h, t, key, "UP", InstTtl, next, next)
    BY <2>1, <2>2, <2>4, <2>5 DEF Call, BeatSteps, Later
  <2> QED
    BY <2>6
<1>6. CASE RegInst(h, t)
  <2>1. Set(h, Inst, t.info.state, InstTtl, Idle, Idle) /\ t.pc = "regSpaces"
    BY <1>6 DEF RegInst
  <2>2. Inst \in Keys /\ t.info.state \in ValuesOf(Inst)
    BY <1>2, KeyFacts DEF ValuesOf, States
  <2>3. Call(h, t, Inst, t.info.state, InstTtl, Idle, Idle)
    BY <1>3, <2>1, <2>2 DEF Call, Later
  <2> QED
    BY <2>3
<1> QED
  BY <1>4, <1>5, <1>6

LEMMA BeatShape ==
  ASSUME TypeInv, NEW h \in Handlers, NEW t, t = task[h], t # Idle,
         BeatMeta(h, t) \/ BeatInst(h, t) \/ BeatSpace(h, t)
  PROVE  \E key, val, ttl, next, otherwise : Call(h, t, key, val, ttl, next, otherwise)
<1>1. t \in Tasks /\ TaskTyped(t)
  BY DEF TypeInv, TaskInv, TaskTyped
<1>2. t.info \in Heartbeats /\ t.todo \in Seq(Listened)
  BY <1>1 DEF BeatMeta, BeatInst, BeatSpace, TaskTyped, Tasks, BeatSteps
<1>3. TimeoutOf(t) \in Ttls
  BY <1>2 DEF TimeoutOf, Ttls, Timeouts
<1>4. ASSUME NEW step \in {"readInst", "beatSpaces"}, NEW u,
             u = [t EXCEPT !.pc = step] \/ u = [t EXCEPT !.pc = step, !.got = NoVal]
      PROVE  /\ TaskTyped(u) /\ u # Idle /\ u.pc = step /\ u.info = t.info /\ u.start = t.start
             /\ u.todo = t.todo
  <2>1. u \in Tasks /\ u.pc = step /\ u.info = t.info /\ u.start = t.start /\ u.todo = t.todo
    BY <1>1, <1>4 DEF Tasks, BeatSteps
  <2>2. TaskTyped(u) /\ u # Idle
    BY <1>1, <1>2, <2>1 DEF TaskTyped, RegSteps, Idle
  <2> QED
    BY <2>1, <2>2
<1>5. CASE BeatMeta(h, t)
  <2> DEFINE next == [t EXCEPT !.pc = "readInst"]
  <2>1. Set(h, Meta, NewMeta(t), MetaTtl, next, next) /\ t.pc = "beatMeta"
    BY <1>5 DEF BeatMeta
  <2>2. /\ TaskTyped(next) /\ next # Idle /\ next.pc = "readInst" /\ next.info = t.info
        /\ next.start = t.start /\ next.todo = t.todo
    BY <1>4
  <2> HIDE DEF next
  <2>3. NewMeta(t) \in Metas
    <3>1. t.got \in Metas \cup {NoVal}
      BY <1>1, <2>1 DEF TaskTyped
    <3> QED
      BY <1>2, <3>1 DEF NewMeta, Metas
  <2>4. Meta \in Keys /\ Meta # Inst /\ NewMeta(t) \in ValuesOf(Meta) /\ MetaTtl \in TtlsOf(Meta)
    BY <2>3, KeyFacts DEF ValuesOf, TtlsOf
  <2>5. Call(h, t, Meta, NewMeta(t), MetaTtl, next, next)
    BY <2>1, <2>2, <2>4 DEF Call, BeatSteps, Left
  <2> QED
    BY <2>5
<1>6. CASE BeatInst(h, t)
  <2> DEFINE next == [t EXCEPT !.pc = "beatSpaces", !.got = NoVal]
  <2>1. Set(h, Inst, NewState(t), TimeoutOf(t), next, next) /\ t.pc = "beatInst"
    BY <1>6 DEF BeatInst
  <2>2. /\ TaskTyped(next) /\ next # Idle /\ next.pc = "beatSpaces" /\ next.info = t.info
        /\ next.start = t.start /\ next.todo = t.todo
    BY <1>4
  <2> HIDE DEF next
  <2>3. NewState(t) \in States
    <3>1. t.got \in States \cup {NoVal}
      BY <1>1, <2>1 DEF TaskTyped
    <3> QED
      BY <3>1 DEF NewState, States
  <2>4. Inst \in Keys /\ Inst # Meta /\ NewState(t) \in ValuesOf(Inst) /\ TimeoutOf(t) \in TtlsOf(Inst)
    BY <1>3, <2>3, KeyFacts DEF ValuesOf, TtlsOf
  <2>5. Call(h, t, Inst, NewState(t), TimeoutOf(t), next, next)
    BY <2>1, <2>2, <2>4 DEF Call, BeatSteps, Left, Later
  <2> QED
    BY <2>5
<1>7. CASE BeatSpace(h, t)
  <2> DEFINE next == [t EXCEPT !.todo = Tail(@)]
             key == SharedKey(Head(t.todo))
  <2>1. Set(h, key, "UP", TimeoutOf(t), next, next) /\ t.pc = "beatSpaces" /\ t.todo # << >>
    BY <1>7 DEF BeatSpace
  <2>2. /\ next \in Tasks /\ next.pc = t.pc /\ next.info = t.info /\ next.start = t.start
        /\ next.todo = Tail(t.todo)
    BY <1>1, <2>1, NextTask
  <2>3. Head(t.todo) \in Listened
    BY <1>2, <2>1
  <2>4. key \in Keys /\ key # Meta /\ key # Inst /\ "UP" \in ValuesOf(key)
        /\ TimeoutOf(t) \in TtlsOf(key)
    BY <1>3, <2>3, KeyFacts DEF ValuesOf, TtlsOf, States
  <2>5. \A s \in Listened : Left(t, s) => Left(next, s) \/ key = SharedKey(s)
    <3>1. ASSUME NEW s \in Listened, Left(t, s)
          PROVE  s = Head(t.todo) \/ Left(next, s)
      <4>1. PICK i \in DOMAIN t.todo : t.todo[i] = s
        BY <3>1 DEF Left
      <4>2. s = Head(t.todo) \/ \E j \in DOMAIN Tail(t.todo) : Tail(t.todo)[j] = s
        BY <1>2, <2>1, <4>1, LeftTail
      <4> QED
        BY <2>2, <4>2 DEF Left
    <3> QED
      BY <3>1
  <2> HIDE DEF next, key
  <2>6. TaskTyped(next) /\ next # Idle
    BY <1>1, <1>2, <2>1, <2>2 DEF TaskTyped, RegSteps, Idle
  <2>7. Call(h, t, key, "UP", TimeoutOf(t), next, next)
    BY <2>1, <2>2, <2>4, <2>5, <2>6 DEF Call, BeatSteps, Later
  <2> QED
    BY <2>7
<1> QED
  BY <1>5, <1>6, <1>7

LEMMA ReadShape ==
  ASSUME TypeInv, NEW h \in Handlers, NEW t, t = task[h], t # Idle,
         ReadMeta(h, t) \/ ReadInst(h, t) \/ BeatDone(h, t)
  PROVE  (\E key \in {Meta, Inst} : \E new : Reads(h, t, key, new)) \/ Ends(h, t)
<1>1. t \in Tasks /\ TaskTyped(t) /\ t.node \in Nodes
  BY DEF TypeInv, TaskInv, TaskTyped, Tasks
<1>2. ASSUME NEW key \in {Meta, Inst}, NEW step, ReadKey(h, t, key, step),
             \/ key = Meta /\ t.pc = "readMeta" /\ step = "beatMeta"
             \/ key = Inst /\ t.pc = "readInst" /\ step = "beatInst"
      PROVE  \E new : Reads(h, t, key, new)
  <2> DEFINE got == Shows(t.node, key)
             new == [t EXCEPT !.pc = step, !.got = got, !.alone = (behind[t.node] = << >>)]
  <2>1. got \in ValuesOf(key) \cup {NoVal} /\ key \in Keys
    BY <1>1, ShowsTyped, KeyFacts DEF TypeInv
  <2>2. /\ key = Meta => got \in Metas \cup {NoVal}
        /\ key = Inst => got \in States \cup {NoVal}
    BY <2>1, KeyFacts DEF ValuesOf
  <2>3. got \in Values \cup {NoVal}
    BY <2>2 DEF Values
  <2>4. step \in RegSteps \cup BeatSteps
    BY <1>2 DEF BeatSteps
  <2>got. got = Shows(t.node, key)
    OBVIOUS
  <2>new. task' = [task EXCEPT ![h] = new] /\ UNCHANGED <<store, failures>>
    BY <1>2 DEF ReadKey, Become
  <2> HIDE DEF got
  <2>5. /\ new \in Tasks /\ new.pc = step /\ new.got = got /\ new.start = t.start
        /\ new.info = t.info /\ new.todo = t.todo /\ new.alone = (behind[t.node] = << >>)
    BY <1>1, <2>3, <2>4 DEF Tasks
  <2> HIDE DEF new
  <2>6. t.info \in Heartbeats
    BY <1>1, <1>2 DEF TaskTyped, BeatSteps
  <2>7. TaskTyped(new) /\ new # Idle
    BY <1>1, <1>2, <2>2, <2>5, <2>6, KeyFacts DEF TaskTyped, RegSteps, Idle
  <2> QED
    BY <1>2, <2>5, <2>7, <2>got, <2>new DEF Reads
<1>3. CASE ReadMeta(h, t)
  BY <1>2, <1>3 DEF ReadMeta
<1>4. CASE ReadInst(h, t)
  BY <1>2, <1>4 DEF ReadInst
<1>5. CASE BeatDone(h, t)
  BY <1>5 DEF BeatDone, Ends, Become
<1> QED
  BY <1>3, <1>4, <1>5

LEMMA StepShape ==
  ASSUME TypeInv, NEW h \in Handlers, Step(h)
  PROVE  /\ task[h] # Idle /\ TaskTyped(task[h])
         /\ \/ \E key, val, ttl, next, otherwise : Call(h, task[h], key, val, ttl, next, otherwise)
            \/ \E key \in {Meta, Inst} : \E new : Reads(h, task[h], key, new)
            \/ Ends(h, task[h])
<1> DEFINE t == task[h]
<1>1. t # Idle /\ TaskTyped(t)
  BY DEF Step, TypeInv, TaskInv
<1>2. \/ RegMeta(h, t) \/ RegSpace(h, t) \/ RegInst(h, t)
      \/ ReadMeta(h, t) \/ BeatMeta(h, t) \/ ReadInst(h, t)
      \/ BeatInst(h, t) \/ BeatSpace(h, t) \/ BeatDone(h, t)
  BY DEF Step
<1> QED
  BY <1>1, <1>2, RegShape, BeatShape, ReadShape

(* The task of a new request.                                              *)
NewTask(n, p, step, spaces) ==
  [pc |-> step, node |-> n, info |-> p, todo |-> spaces, got |-> NoVal,
   start |-> now, alone |-> FALSE]
Begins(h, n, new) ==
  /\ task' = [task EXCEPT ![h] = new] /\ UNCHANGED <<store, now, failures, beaten>>
  /\ TaskTyped(new) /\ new # Idle /\ new.start = now /\ ~new.alone
  /\ new.pc \in {"regMeta", "readMeta"}
  /\ new.pc = "readMeta" /\ new.info.cfg => new.todo = Spaces

LEMMA StartShape ==
  ASSUME TypeInv, NEW h \in Handlers, NEW n \in Nodes, Register(h, n) \/ Heartbeat(h, n)
  PROVE  \E new : Begins(h, n, new)
<1>1. now \in Nat /\ Second <= now /\ Patience \in Nat
  BY RegistryAssumption, Times DEF TypeInv, StoreInv
<1>2. ASSUME NEW p, NEW step, NEW spaces \in Seq(Listened), Start(h, n, p, step, spaces),
             \/ p \in Registrations /\ step = "regMeta"
             \/ p \in Heartbeats /\ step = "readMeta" /\ (p.cfg => spaces = Spaces)
      PROVE  \E new : Begins(h, n, new)
  <2> DEFINE new == NewTask(n, p, step, spaces)
  <2>1. /\ task' = [task EXCEPT ![h] = new] /\ UNCHANGED <<store, now, failures, beaten>>
        /\ now <= LastStart
    BY <1>2 DEF Start, Become, NewTask
  <2>2. /\ new \in Tasks /\ new.pc = step /\ new.info = p /\ new.todo = spaces
        /\ new.start = now /\ new.alone = FALSE /\ new.got = NoVal
    BY <1>1, <1>2 DEF Tasks, NewTask, RegSteps, BeatSteps
  <2> HIDE DEF new
  <2>3. TaskTyped(new) /\ new # Idle
    BY <1>1, <1>2, <2>1, <2>2 DEF TaskTyped, RegSteps, BeatSteps, Idle
  <2> QED
    BY <1>2, <2>1, <2>2, <2>3 DEF Begins
<1>3. CASE Register(h, n)
  <2>1. PICK p \in Registrations : Start(h, n, p, "regMeta", Spaces)
    BY <1>3 DEF Register
  <2>2. Spaces \in Seq(Listened)
    BY RegistryAssumption
  <2> QED
    BY <1>2, <2>1, <2>2
<1>4. CASE Heartbeat(h, n)
  <2>1. PICK p \in Heartbeats : Start(h, n, p, "readMeta", IF p.cfg THEN Spaces ELSE << >>)
    BY <1>4 DEF Heartbeat
  <2>2. Spaces \in Seq(Listened) /\ << >> \in Seq(Listened)
    BY RegistryAssumption
  <2> QED
    BY <1>2, <2>1, <2>2
<1> QED
  BY <1>3, <1>4

-----------------------------------------------------------------------------
(* Types.                                                                  *)

LEMMA InitType == Init => TypeInv
<1> SUFFICES ASSUME Init PROVE TypeInv
  OBVIOUS
<1>1. \A n \in Nodes, k \in Keys : db[n][k] = NoEntry /\ EntryTyped(k, db[n][k])
  BY InitEntry DEF Init
<1>2. NoEntry \in Entries
  BY DEF NoEntry, Entries, NoExpiry
<1>3. db \in [Nodes -> [Keys -> Entries]]
  BY <1>2 DEF Init
<1>4. /\ behind \in [Nodes -> Seq(Commands)] /\ \A n \in Nodes : behind[n] = << >>
  BY DEF Init
<1>5. \A n \in Nodes : Len(behind[n]) = 0
  BY <1>4
<1>6. /\ MaxLag \in Nat /\ Horizon \in Nat /\ LastStart \in Nat /\ Leader \in Nodes
      /\ Second \in Nat /\ Second <= Horizon
  <2>1. \A m \in {Horizon, LastStart, MaxLag} : m \in Nat
    BY RegistryAssumption
  <2> QED
    BY <2>1, RegistryAssumption, FsmAssumption
<1>7. StoreInv
  BY <1>1, <1>3, <1>4, <1>5, <1>6 DEF StoreInv, Init
<1>8. TaskInv
  BY DEF TaskInv, Init
<1> QED
  BY <1>6, <1>7, <1>8 DEF TypeInv, Init

(* The step of a request keeps the types of the store and of the tasks.    *)
LEMMA StepType ==
  ASSUME TypeInv, NEW h \in Handlers, Step(h)
  PROVE  TypeInv'
<1> DEFINE t == task[h]
<1>1. t # Idle /\ TaskTyped(t) /\ StoreInv /\ TaskInv /\ now' = now
  BY StepShape DEF TypeInv, Step
<1>2. ASSUME UNCHANGED store PROVE StoreInv'
  BY <1>1, <1>2 DEF store, StoreInv, EntryTyped, CommandTyped
<1>3. StoreInv' /\ TaskInv'
  <2>1. ASSUME NEW key, NEW val, NEW ttl, NEW next, NEW otherwise,
               Call(h, t, key, val, ttl, next, otherwise)
        PROVE  StoreInv' /\ TaskInv'
    <3>1. /\ key \in Keys /\ val \in ValuesOf(key) /\ ttl \in TtlsOf(key)
          /\ Fit(next) /\ Fit(otherwise)
      BY <2>1 DEF Call, Fit
    <3>2. CASE Written(h, key, val, ttl, next)
      <4>1. StoreInv'
        BY <1>1, <3>1, <3>2, WrittenStore
      <4>2. TaskInv'
        BY <1>1, <3>1, <3>2, TasksTyped DEF Written
      <4> QED
        BY <4>1, <4>2
    <3>3. CASE Failed(h, otherwise)
      <4>1. TaskInv'
        BY <1>1, <3>1, <3>3, TasksTyped DEF Failed, Become
      <4> QED
        BY <1>2, <3>3, <4>1 DEF Failed
    <3>4. Set(h, key, val, ttl, next, otherwise)
      BY <2>1 DEF Call
    <3> QED
      BY <3>2, <3>3, <3>4, SetCases
  <2>2. ASSUME NEW key \in {Meta, Inst}, NEW new, Reads(h, t, key, new)
        PROVE  StoreInv' /\ TaskInv'
    <3>1. Fit(new) /\ task' = [task EXCEPT ![h] = new] /\ UNCHANGED store
      BY <2>2 DEF Reads, Fit
    <3>2. TaskInv'
      BY <1>1, <3>1, TasksTyped
    <3> QED
      BY <1>2, <3>1, <3>2
  <2>3. ASSUME Ends(h, t)
        PROVE  StoreInv' /\ TaskInv'
    <3>1. Fit(Idle) /\ task' = [task EXCEPT ![h] = Idle] /\ UNCHANGED store
      BY <2>3 DEF Ends, Fit
    <3>2. TaskInv'
      BY <1>1, <3>1, TasksTyped
    <3> QED
      BY <1>2, <3>1, <3>2
  <2> QED
    BY <2>1, <2>2, <2>3, StepShape
<1>4. beaten' = beaten \/ beaten' = t.start
  BY DEF Step
<1>5. t.start \in Nat /\ t.start <= LastStart
  BY <1>1 DEF TaskTyped, Tasks
<1>6. beaten' \in Int /\ -1 <= beaten' /\ beaten' <= LastStart
  BY <1>4, <1>5 DEF TypeInv
<1>7. failures' = failures \/ failures' = failures + 1
  BY StepShape, SetCases DEF Call, Written, Failed, Reads, Ends
<1> QED
  BY <1>3, <1>6, <1>7 DEF TypeInv

LEMMA NextType == TypeInv /\ [Next]_vars => TypeInv'
<1> SUFFICES ASSUME TypeInv, [Next]_vars PROVE TypeInv'
  OBVIOUS
<1>1. StoreInv /\ TaskInv
  BY DEF TypeInv
<1>2. ASSUME NEW h \in Handlers, Step(h)
      PROVE  TypeInv'
  BY <1>2, StepType
<1>3. ASSUME NEW h \in Handlers, NEW n \in Nodes, Register(h, n) \/ Heartbeat(h, n)
      PROVE  TypeInv'
  <2>1. PICK new : Begins(h, n, new)
    BY <1>3, StartShape
  <2>2. StoreInv'
    BY <1>1, <2>1 DEF Begins, store, StoreInv, EntryTyped, CommandTyped
  <2>3. Fit(new) /\ now' = now /\ task' = [task EXCEPT ![h] = new]
    BY <2>1 DEF Begins, Fit
  <2>4. TaskInv'
    BY <1>1, <2>3, TasksTyped
  <2> QED
    BY <2>1, <2>2, <2>4 DEF TypeInv, Begins
<1>4. ASSUME NEW n \in Nodes, Apply(n)
      PROVE  TypeInv'
  <2>1. StoreInv'
    BY <1>1, <1>4, AppliedStore
  <2>2. TaskInv'
    BY <1>1, <1>4 DEF Apply, TaskInv, TaskTyped
  <2> QED
    BY <1>4, <2>1, <2>2 DEF Apply, TypeInv
<1>5. CASE Tick
  <2>1. now' = now + 1 /\ now < Horizon /\ UNCHANGED <<store, task, failures, beaten>> /\ now \in Nat
        /\ \A h \in Handlers : task[h] # Idle => now < task[h].start + Patience
    BY <1>1, <1>5 DEF Tick, StoreInv
  <2>2. Horizon \in Nat /\ Patience \in Nat /\ Second \in Nat /\ Second <= now
    BY <1>1, Times, FsmAssumption DEF StoreInv
  <2>3. now' \in Nat /\ Second <= now' /\ now' <= Horizon
    BY <2>1, <2>2
  <2>4. StoreInv'
    BY <1>1, <2>1, <2>3 DEF store, StoreInv, EntryTyped, CommandTyped
  <2>5. ASSUME NEW h \in Handlers, task[h] # Idle
        PROVE  TaskTyped(task[h])'
    <3>1. TaskTyped(task[h]) /\ now < task[h].start + Patience
      BY <1>1, <2>1, <2>5 DEF TaskInv
    <3>2. task[h].start \in Nat /\ task[h].start <= now
      BY <3>1 DEF TaskTyped, Tasks
    <3>3. task[h].start <= now' /\ now' <= task[h].start + Patience
      BY <2>1, <2>2, <3>1, <3>2
    <3> QED
      BY <2>1, <3>1, <3>3 DEF TaskTyped
  <2>6. TaskInv'
    BY <1>1, <2>1, <2>5 DEF TaskInv
  <2> QED
    BY <2>1, <2>4, <2>6 DEF TypeInv
<1>6. CASE UNCHANGED vars
  BY <1>6 DEF vars, store, TypeInv, StoreInv, TaskInv, EntryTyped, CommandTyped, TaskTyped
<1> QED
  BY <1>2, <1>3, <1>4, <1>5, <1>6 DEF Next

LEMMA Typed == Spec => []TypeInv
  BY InitType, NextType, PTL DEF Spec

(* Types: every deadline is a time of a write and one of the times to      *)
(* live, and a heartbeat writes back a state or metadata.                  *)
THEOREM TypeCorrect == Spec => []TypeOK
<1>1. TypeInv => TypeOK
  <2> SUFFICES ASSUME TypeInv PROVE TypeOK
    OBVIOUS
  <2>1. \A n \in Nodes, k \in Keys :
          /\ db[n][k].exp \in Deadlines
          /\ db[n][k].val \in {NoVal} \cup (IF k = Meta THEN Metas ELSE States)
    BY DEF TypeInv, StoreInv, EntryTyped, ValuesOf
  <2>2. \A h \in Handlers : task[h] # Idle => task[h].start \in Second .. LastStart
    BY RegistryAssumption, FsmAssumption, Times DEF TypeInv, TaskInv, TaskTyped, Tasks
  <2>3. now \in Second .. Horizon /\ beaten \in -1 .. LastStart
    BY FsmAssumption, Times DEF TypeInv, StoreInv
  <2> QED
    BY <2>1, <2>2, <2>3 DEF TypeInv, StoreInv, TypeOK
<1> QED
  BY <1>1, Typed, PTL

-----------------------------------------------------------------------------
(* Metadata.                                                               *)

(* Node n has metadata until e, in its database or among the first j of    *)
(* the commands it has still to apply, or it is too late for that.         *)
Outlived(n, j, e) ==
  \/ now > e
  \/ db[n][Meta].val # NoVal /\ db[n][Meta].exp >= e
  \/ \E i \in 1..j : behind[n][i].key = Meta /\ Life(behind[n][i]) >= e

(* Metadata that was written later lasts longer.                           *)
MetaOrder ==
  \A n \in Nodes :
    /\ db[n][Meta].exp <= MetaLife(now)
    /\ \A i \in 1..Len(behind[n]) : behind[n][i].key = Meta =>
         /\ db[n][Meta].exp <= Life(behind[n][i]) /\ Life(behind[n][i]) <= MetaLife(now)
         /\ \A j \in i..Len(behind[n]) :
              behind[n][j].key = Meta => Life(behind[n][i]) <= Life(behind[n][j])

(* A state comes after metadata that outlives it by the time of a request. *)
MetaFirst ==
  \A n \in Nodes :
    /\ db[n][Inst].val # NoVal => Outlived(n, 0, db[n][Inst].exp + Patience)
    /\ \A j \in 1..Len(behind[n]) :
         behind[n][j].key = Inst => Outlived(n, j, Life(behind[n][j]) + Patience)

MetaWritten ==
  \A h \in Handlers : task[h] # Idle /\ task[h].pc \in Later =>
    \A n \in Nodes : Outlived(n, Len(behind[n]), MetaLife(task[h].start))

ListedInv == MetaOrder /\ (failures = 0 => MetaFirst /\ MetaWritten)

LEMMA Sooner ==
  ASSUME StoreInv, NEW n \in Nodes, NEW j \in Nat, NEW i \in Nat, j <= i, NEW e \in Nat,
         NEW f \in Nat, f <= e, Outlived(n, j, e), i <= Len(behind[n])
  PROVE  Outlived(n, i, f)
<1>1. now \in Nat /\ db[n][Meta].exp \in Nat
  BY KeyFacts DEF StoreInv, Entries
<1>2. \A k \in 1..j : k \in 1..i /\ Life(behind[n][k]) \in Nat
  <2>1. Len(behind[n]) \in Nat
    BY DEF StoreInv
  <2>2. \A k \in 1..j : k \in Nat /\ k \in 1..i /\ k \in 1..Len(behind[n])
    BY <2>1
  <2> QED
    BY <2>2 DEF StoreInv, CommandTyped, Commands
<1>3. CASE now > e
  BY <1>1, <1>3 DEF Outlived
<1>4. CASE db[n][Meta].val # NoVal /\ db[n][Meta].exp >= e
  BY <1>1, <1>4 DEF Outlived
<1>5. ASSUME NEW k \in 1..j, behind[n][k].key = Meta, Life(behind[n][k]) >= e
      PROVE  Outlived(n, i, f)
  <2>1. k \in 1..i /\ Life(behind[n][k]) >= f
    BY <1>2, <1>5
  <2> QED
    BY <1>5, <2>1 DEF Outlived
<1> QED
  BY <1>3, <1>4, <1>5 DEF Outlived

LEMMA MetaLives ==
  /\ \A t \in Nat : MetaLife(t) \in Nat
  /\ \A s, t \in Nat : s <= t => MetaLife(s) <= MetaLife(t)
<1>1. \A t \in Nat : t + MetaTtl \in Nat
  BY Times
<1>2. \A s, t \in Nat : s <= t => s + MetaTtl <= t + MetaTtl
  BY Times
<1> QED
  BY <1>1, <1>2, SecondsBounds, SecondsOrder DEF MetaLife

LEMMA Lengths == StoreInv => \A n \in Nodes : Len(behind[n]) \in Nat
  BY DEF StoreInv

LEMMA OrderWritten ==
  ASSUME StoreInv, MetaOrder, NEW h \in Handlers, NEW key \in Keys, NEW val \in ValuesOf(key),
         NEW ttl \in TtlsOf(key), NEW next, Written(h, key, val, ttl, next), now' = now
  PROVE  /\ MetaOrder'
         /\ \A n \in Nodes : \A j \in 0..Len(behind[n]) : \A e \in Nat :
              Outlived(n, j, e) => Outlived(n, j, e)'
         /\ \A n \in Nodes : Len(behind'[n]) \in Nat /\ Len(behind[n]) <= Len(behind'[n])
<1> DEFINE c == SetExCommand(key, val, now, ttl)
<1>1. /\ CommandTyped(c) /\ c.key = key /\ c.val = val /\ val # NoVal
      /\ Life(c) = WholeSeconds(now + ttl)
      /\ \A n \in Nodes, k \in Keys :
           db'[n][k] = IF n = Leader /\ k = key THEN Entry(c) ELSE db[n][k]
      /\ \A n \in Nodes \ {Leader} : behind'[n] = Append(behind[n], c)
      /\ StoreInv'
  BY WrittenStore
<1>2. behind[Leader] = << >> /\ behind'[Leader] = << >> /\ Leader \in Nodes
  BY <1>1, RegistryAssumption DEF StoreInv
<1>3. now \in Nat /\ MetaLife(now) \in Nat /\ (key = Meta => Life(c) = MetaLife(now))
  BY <1>1, MetaLives DEF StoreInv, TtlsOf, MetaLife
<1>4. /\ behind \in [Nodes -> Seq(Commands)] /\ c \in Commands
      /\ \A n \in Nodes : db[n][Meta].exp \in Nat
  BY <1>1, KeyFacts DEF StoreInv, CommandTyped, Entries
<1> HIDE DEF c
<1>5. Entry(c).val = val /\ Entry(c).exp = Life(c) /\ Life(c) \in Nat
  BY <1>1 DEF Entry, CommandTyped
<1>6. ASSUME NEW n \in Nodes \ {Leader}
      PROVE  /\ Len(behind[n]) \in Nat /\ Len(behind'[n]) = Len(behind[n]) + 1
             /\ behind'[n][Len(behind[n]) + 1] = c
             /\ \A i \in 1..Len(behind[n]) : behind'[n][i] = behind[n][i]
             /\ db'[n][Meta] = db[n][Meta]
  <2>1. behind[n] \in Seq(Commands) /\ behind'[n] = Append(behind[n], c)
    BY <1>1, <1>4
  <2> QED
    BY <1>1, <1>4, <2>1, KeyFacts
<1>7. db'[Leader][Meta] = IF key = Meta THEN Entry(c) ELSE db[Leader][Meta]
  BY <1>1, <1>2, KeyFacts
<1>8. MetaOrder'
  <2>1. ASSUME NEW n \in Nodes
        PROVE  /\ db'[n][Meta].exp <= MetaLife(now)
               /\ \A i \in 1..Len(behind'[n]) : behind'[n][i].key = Meta =>
                    /\ db'[n][Meta].exp <= Life(behind'[n][i])
                    /\ Life(behind'[n][i]) <= MetaLife(now)
                    /\ \A j \in i..Len(behind'[n]) :
                         behind'[n][j].key = Meta => Life(behind'[n][i]) <= Life(behind'[n][j])
    <3>1. CASE n = Leader
      BY <1>2, <1>3, <1>5, <1>7, <3>1 DEF MetaOrder
    <3>2. CASE n # Leader
      <4> DEFINE l == Len(behind[n])
      <4>1. /\ l \in Nat /\ Len(behind'[n]) = l + 1 /\ behind'[n][l + 1] = c
            /\ \A i \in 1..l : behind'[n][i] = behind[n][i]
            /\ db'[n][Meta] = db[n][Meta]
        BY <1>6, <3>2
      <4>2. /\ db[n][Meta].exp <= MetaLife(now)
            /\ \A i \in 1..l : behind[n][i].key = Meta =>
                 /\ db[n][Meta].exp <= Life(behind[n][i]) /\ Life(behind[n][i]) <= MetaLife(now)
                 /\ \A j \in i..l :
                      behind[n][j].key = Meta => Life(behind[n][i]) <= Life(behind[n][j])
        BY DEF MetaOrder
      <4> HIDE DEF l
      <4>3. ASSUME NEW i \in 1..(l + 1), behind'[n][i].key = Meta
            PROVE  /\ db[n][Meta].exp <= Life(behind'[n][i]) /\ Life(behind'[n][i]) <= MetaLife(now)
                   /\ \A j \in i..(l + 1) :
                        behind'[n][j].key = Meta => Life(behind'[n][i]) <= Life(behind'[n][j])
        <5>1. CASE i \in 1..l
          <6>1. \A j \in i..(l + 1) : j \in i..l \/ j = l + 1
            BY <4>1
          <6>2. \A j \in i..l : behind'[n][j] = behind[n][j]
            BY <4>1, <5>1
          <6> QED
            BY <1>1, <1>3, <4>1, <4>2, <4>3, <5>1, <6>1, <6>2
        <5>2. CASE i = l + 1
          <6>1. \A j \in i..(l + 1) : j = i
            BY <4>1, <5>2
          <6>2. c.key = Meta /\ behind'[n][i] = c /\ Life(c) = MetaLife(now)
            BY <1>1, <1>3, <4>1, <4>3, <5>2
          <6> QED
            BY <1>3, <4>2, <6>1, <6>2
        <5> QED
          BY <4>1, <5>1, <5>2
      <4> QED
        BY <4>1, <4>2, <4>3
    <3> QED
      BY <3>1, <3>2
  <2> QED
    BY <2>1 DEF MetaOrder
<1>9. ASSUME NEW n \in Nodes, NEW j \in 0..Len(behind[n]), NEW e \in Nat, Outlived(n, j, e)
      PROVE  Outlived(n, j, e)'
  <2>1. CASE n = Leader
    <3>1. j = 0
      BY <1>2, <2>1
    <3>2. now > e \/ (db[n][Meta].val # NoVal /\ db[n][Meta].exp >= e)
      BY <1>9, <3>1 DEF Outlived
    <3>3. db[n][Meta].exp <= MetaLife(now)
      BY DEF MetaOrder
    <3>4. now > e \/ (db'[n][Meta].val # NoVal /\ db'[n][Meta].exp >= e)
      BY <1>1, <1>3, <1>4, <1>5, <1>7, <2>1, <3>2, <3>3
    <3> QED
      BY <3>4 DEF Outlived
  <2>2. CASE n # Leader
    <3>1. /\ db'[n][Meta] = db[n][Meta] /\ \A i \in 1..j : behind'[n][i] = behind[n][i]
      BY <1>6, <2>2
    <3> QED
      BY <1>9, <3>1 DEF Outlived
  <2> QED
    BY <2>1, <2>2
<1>10. \A n \in Nodes : Len(behind'[n]) \in Nat /\ Len(behind[n]) <= Len(behind'[n])
  <2> TAKE n \in Nodes
  <2>1. CASE n = Leader
    BY <1>2, <2>1
  <2>2. CASE n # Leader
    BY <1>6, <2>2
  <2> QED
    BY <2>1, <2>2
<1> QED
  BY <1>8, <1>9, <1>10

LEMMA OrderApplied ==
  ASSUME StoreInv, MetaOrder, NEW n \in Nodes, Apply(n)
  PROVE  /\ MetaOrder'
         /\ \A j \in 1..Len(behind[n]) : \A e \in Nat : Outlived(n, j, e) => Outlived(n, j - 1, e)'
         /\ \A e \in Nat : Outlived(n, 0, e) => Outlived(n, 0, e)'
         /\ \A m \in Nodes \ {n} : \A j, e : Outlived(m, j, e) => Outlived(m, j, e)'
<1> DEFINE c == behind[n][1]
           l == Len(behind[n])
<1>1. /\ CommandTyped(c)
      /\ \A m \in Nodes \ {n} : db'[m] = db[m] /\ behind'[m] = behind[m]
      /\ \A k \in Keys :
           db'[n][k] = IF k = c.key /\ now <= c.exp THEN Entry(c) ELSE db[n][k]
      /\ l \in Nat /\ Len(behind'[n]) = l - 1 /\ l > 0
      /\ \A i \in 1..Len(behind'[n]) : behind'[n][i] = behind[n][i + 1]
  BY AppliedStore
<1>2. now' = now /\ now \in Nat /\ MetaLife(now) \in Nat
  BY MetaLives DEF Apply, StoreInv
<1>3. /\ db'[n][Meta] = IF c.key = Meta /\ now <= c.exp THEN Entry(c) ELSE db[n][Meta]
      /\ db[n][Meta].exp \in Nat /\ c.exp \in Nat /\ Life(c) \in Nat /\ Life(c) <= c.exp
  <2>1. db[n][Meta].exp \in Nat
    BY KeyFacts DEF StoreInv, Entries
  <2>2. c.exp \in Nat /\ Life(c) \in Nat /\ Life(c) <= c.exp
    BY <1>1 DEF CommandTyped, Commands
  <2> HIDE DEF c
  <2>3. db'[n][Meta] = IF Meta = c.key /\ now <= c.exp THEN Entry(c) ELSE db[n][Meta]
    BY <1>1, KeyFacts
  <2> QED
    BY <2>1, <2>2, <2>3
<1>4. Entry(c).exp = Life(c) /\ Entry(c).val # NoVal
  BY <1>1, EntryOfCommand
<1>5. /\ db[n][Meta].exp <= MetaLife(now)
      /\ \A i \in 1..l : behind[n][i].key = Meta =>
           /\ db[n][Meta].exp <= Life(behind[n][i]) /\ Life(behind[n][i]) <= MetaLife(now)
           /\ \A j \in i..l : behind[n][j].key = Meta => Life(behind[n][i]) <= Life(behind[n][j])
  BY DEF MetaOrder
<1>6. \A i \in 1..l : Life(behind[n][i]) \in Nat
  <2>1. \A i \in 1..l : CommandTyped(behind[n][i])
    BY <1>1 DEF StoreInv
  <2> QED
    BY <2>1 DEF CommandTyped
<1>7. 1 \in 1..l /\ \A i \in 1..(l - 1) : i + 1 \in 1..l /\ i + 1 \in 1..l
  BY <1>1
<1>first. c = behind[n][1]
  OBVIOUS
<1> HIDE DEF c, l
<1>8. MetaOrder'
  <2>1. \A m \in Nodes \ {n} :
          /\ db'[m][Meta].exp <= MetaLife(now')
          /\ \A i \in 1..Len(behind'[m]) : behind'[m][i].key = Meta =>
               /\ db'[m][Meta].exp <= Life(behind'[m][i]) /\ Life(behind'[m][i]) <= MetaLife(now')
               /\ \A j \in i..Len(behind'[m]) :
                    behind'[m][j].key = Meta => Life(behind'[m][i]) <= Life(behind'[m][j])
    BY <1>1, <1>2 DEF MetaOrder
  <2>2. db'[n][Meta].exp <= MetaLife(now')
    BY <1>2, <1>3, <1>4, <1>5, <1>7, <1>first
  <2>3. ASSUME NEW i \in 1..(l - 1), behind'[n][i].key = Meta
        PROVE  /\ db'[n][Meta].exp <= Life(behind'[n][i]) /\ Life(behind'[n][i]) <= MetaLife(now')
               /\ \A j \in i..(l - 1) :
                    behind'[n][j].key = Meta => Life(behind'[n][i]) <= Life(behind'[n][j])
    <3>1. behind'[n][i] = behind[n][i + 1] /\ i + 1 \in 1..l
      BY <1>1, <1>7
    <3>2. ASSUME NEW j \in i..(l - 1)
          PROVE  behind'[n][j] = behind[n][j + 1] /\ j + 1 \in (i + 1)..l
      BY <1>1, <1>7
    <3>3. db'[n][Meta].exp <= Life(behind[n][i + 1])
      <4>1. CASE c.key = Meta /\ now <= c.exp
        <5>1. i + 1 \in 1..l
          BY <3>1
        <5> QED
          BY <1>3, <1>4, <1>5, <1>7, <1>first, <2>3, <3>1, <4>1, <5>1
      <4>2. CASE ~(c.key = Meta /\ now <= c.exp)
        BY <1>3, <1>5, <2>3, <3>1, <4>2
      <4> QED
        BY <4>1, <4>2
    <3>4. \A j \in i..(l - 1) :
            behind'[n][j].key = Meta => Life(behind'[n][i]) <= Life(behind'[n][j])
      BY <1>5, <2>3, <3>1, <3>2
    <3>5. Life(behind'[n][i]) <= MetaLife(now')
      BY <1>2, <1>5, <2>3, <3>1
    <3> QED
      BY <3>1, <3>3, <3>4, <3>5
  <2> QED
    BY <1>1, <2>1, <2>2, <2>3 DEF MetaOrder
<1>9. ASSUME NEW e \in Nat, now > e \/ (db[n][Meta].val # NoVal /\ db[n][Meta].exp >= e)
      PROVE  now' > e \/ (db'[n][Meta].val # NoVal /\ db'[n][Meta].exp >= e)
  BY <1>2, <1>3, <1>4, <1>5, <1>7, <1>9, <1>first
<1>10. ASSUME NEW j \in 1..l, NEW e \in Nat, Outlived(n, j, e)
       PROVE  Outlived(n, j - 1, e)'
  <2>1. CASE now > e \/ (db[n][Meta].val # NoVal /\ db[n][Meta].exp >= e)
    BY <1>9, <2>1 DEF Outlived
  <2>2. ASSUME NEW i \in 1..j, behind[n][i].key = Meta, Life(behind[n][i]) >= e
        PROVE  Outlived(n, j - 1, e)'
    <3>1. CASE i = 1
      <4>1. now' > e \/ (db'[n][Meta].val # NoVal /\ db'[n][Meta].exp >= e)
        BY <1>2, <1>3, <1>4, <1>first, <2>2, <3>1
      <4> QED
        BY <4>1 DEF Outlived
    <3>2. CASE i # 1
      <4>1. i - 1 \in 1..(j - 1) /\ i - 1 \in 1..(l - 1) /\ (i - 1) + 1 = i
        BY <1>1, <3>2
      <4>2. behind'[n][i - 1] = behind[n][i]
        BY <1>1, <4>1
      <4> QED
        BY <2>2, <4>1, <4>2 DEF Outlived
    <3> QED
      BY <3>1, <3>2
  <2> QED
    BY <1>10, <2>1, <2>2 DEF Outlived
<1>11. \A e \in Nat : Outlived(n, 0, e) => Outlived(n, 0, e)'
  BY <1>9 DEF Outlived
<1>12. \A m \in Nodes \ {n} : \A j, e : Outlived(m, j, e) => Outlived(m, j, e)'
  BY <1>1, <1>2 DEF Outlived
<1> QED
  BY <1>8, <1>10, <1>11, <1>12 DEF l

LEMMA Terms ==
  ASSUME MetaOutlives
  PROVE  \A ttl \in Ttls : ttl + 2 * Patience + Second <= MetaTtl
  BY DEF MetaOutlives

(* What a request that has written the metadata finds for its state.       *)
LEMMA StateIsOutlived ==
  ASSUME MetaOutlives, StoreInv, MetaWritten, NEW h \in Handlers, task[h] # Idle,
         TaskTyped(task[h]), task[h].pc \in Later, NEW ttl \in Ttls, NEW n \in Nodes
  PROVE  Outlived(n, Len(behind[n]), WholeSeconds(now + ttl) + Patience)
<1> DEFINE start == task[h].start
           life == WholeSeconds(now + ttl)
<1>1. start \in Nat /\ start <= now /\ now <= start + Patience /\ now \in Nat
  BY DEF TaskTyped, Tasks, StoreInv
<1>2. Outlived(n, Len(behind[n]), MetaLife(start))
  BY DEF MetaWritten
<1>3. /\ ttl \in Nat /\ Patience \in Nat /\ MetaTtl \in Nat /\ Second \in Nat
      /\ ttl + 2 * Patience + Second <= MetaTtl
  BY Times, Terms, FsmAssumption
<1> HIDE DEF start
<1>life. life \in Nat /\ life <= now + ttl
  BY <1>1, <1>3, SecondsBounds
<1>meta. MetaLife(start) \in Nat /\ start + MetaTtl < MetaLife(start) + Second
  BY <1>1, <1>3, SecondsBounds DEF MetaLife
<1> HIDE DEF life
<1>4. life + Patience <= MetaLife(start) /\ life + Patience \in Nat
  BY <1>1, <1>3, <1>life, <1>meta
<1>5. Outlived(n, Len(behind[n]), life + Patience)
  BY <1>2, <1>4, <1>meta, Lengths, Sooner
<1> QED
  BY <1>5 DEF life

LEMMA ListedCall ==
  ASSUME MetaOutlives, TypeInv, ListedInv, NEW h \in Handlers, task[h] # Idle,
         TaskTyped(task[h]), NEW key, NEW val, NEW ttl, NEW next, NEW otherwise,
         Call(h, task[h], key, val, ttl, next, otherwise),
         Written(h, key, val, ttl, next), now' = now, failures = 0
  PROVE  MetaFirst' /\ MetaWritten'
<1> DEFINE c == SetExCommand(key, val, now, ttl)
           t == task[h]
<1>1. key \in Keys /\ val \in ValuesOf(key) /\ ttl \in TtlsOf(key) /\ StoreInv /\ TaskInv
  BY DEF Call, TypeInv
<1>2. MetaOrder /\ MetaFirst /\ MetaWritten
  BY DEF ListedInv
<1>3. /\ \A n \in Nodes : \A j \in 0..Len(behind[n]) : \A e \in Nat :
           Outlived(n, j, e) => Outlived(n, j, e)'
      /\ \A n \in Nodes : Len(behind'[n]) \in Nat /\ Len(behind[n]) <= Len(behind'[n])
  BY <1>1, <1>2, OrderWritten
<1>4. /\ StoreInv'
      /\ CommandTyped(c) /\ c.key = key /\ c.val = val /\ Life(c) = WholeSeconds(now + ttl)
      /\ val # NoVal
      /\ \A n \in Nodes, k \in Keys :
           db'[n][k] = IF n = Leader /\ k = key THEN Entry(c) ELSE db[n][k]
      /\ \A n \in Nodes \ {Leader} : behind'[n] = Append(behind[n], c)
  BY <1>1, WrittenStore
<1>5. /\ behind \in [Nodes -> Seq(Commands)] /\ c \in Commands /\ now \in Nat /\ Life(c) \in Nat
      /\ Patience \in Nat
      /\ behind[Leader] = << >> /\ behind'[Leader] = << >> /\ Leader \in Nodes
  BY <1>1, <1>4, Times, RegistryAssumption DEF StoreInv, CommandTyped, Commands
<1>6. Entry(c).val = val /\ Entry(c).exp = Life(c)
  BY <1>4 DEF Entry
<1>7. key = Inst => \A n \in Nodes : Outlived(n, Len(behind[n]), Life(c) + Patience)
  <2>1. key = Inst => ttl \in Ttls /\ t.pc \in Later
    BY <1>1, KeyFacts DEF Call, TtlsOf
  <2> QED
    BY <1>1, <1>2, <1>4, <2>1, StateIsOutlived
<1> HIDE DEF c
<1>8. \A n \in Nodes : Len(behind[n]) \in Nat
  BY <1>1, Lengths
<1>9. ASSUME NEW n \in Nodes, NEW e \in Nat, NEW l \in Nat, l = Len(behind[n]),
             Outlived(n, l, e), NEW j \in Nat, l <= j
      PROVE  Outlived(n, j, e)'
  <2>1. l \in 0..Len(behind[n])
    BY <1>9
  <2>2. Outlived(n, l, e)'
    BY <1>3, <1>9, <2>1
  <2>3. \A i \in 1..l : i \in 1..j
    BY <1>9
  <2> QED
    BY <2>2, <2>3 DEF Outlived
<1>10. ASSUME NEW n \in Nodes, NEW e \in Nat, e = db'[n][Inst].exp + Patience,
              db'[n][Inst].val # NoVal
       PROVE  Outlived(n, 0, e)'
  <2>1. 0 \in 0..Len(behind[n])
    BY <1>8
  <2>2. Outlived(n, 0, e)
    <3>1. CASE n = Leader /\ key = Inst
      <4>1. e = Life(c) + Patience /\ Len(behind[n]) = 0
        BY <1>4, <1>5, <1>6, <1>10, <3>1, KeyFacts
      <4> QED
        BY <1>7, <3>1, <4>1
    <3>2. CASE ~(n = Leader /\ key = Inst)
      <4>1. db'[n][Inst] = db[n][Inst]
        BY <1>4, <3>2, KeyFacts
      <4> QED
        BY <1>2, <1>10, <4>1 DEF MetaFirst
    <3> QED
      BY <3>1, <3>2
  <2> QED
    BY <1>3, <2>1, <2>2
<1>11. ASSUME NEW n \in Nodes, NEW j \in 1..Len(behind'[n]), NEW e \in Nat,
              e = Life(behind'[n][j]) + Patience, behind'[n][j].key = Inst
       PROVE  Outlived(n, j, e)'
  <2>1. n # Leader
    BY <1>5, <1>11
  <2>2. PICK l \in Nat : l = Len(behind[n])
    BY <1>8
  <2>3. /\ Len(behind'[n]) = l + 1 /\ behind'[n][l + 1] = c
        /\ \A i \in 1..l : behind'[n][i] = behind[n][i]
    <3>1. behind[n] \in Seq(Commands) /\ behind'[n] = Append(behind[n], c)
      BY <1>4, <1>5, <2>1
    <3> QED
      BY <1>5, <2>2, <3>1
  <2>4. CASE j \in 1..l
    <3>1. j \in 0..Len(behind[n]) /\ Outlived(n, j, e)
      BY <1>2, <1>11, <2>2, <2>3, <2>4 DEF MetaFirst
    <3> QED
      BY <1>3, <3>1
  <2>5. CASE j = l + 1
    <3>1. Outlived(n, l, e) /\ l <= j /\ j \in Nat
      BY <1>4, <1>7, <1>11, <2>2, <2>3, <2>5
    <3> QED
      BY <1>9, <2>2, <3>1
  <2> QED
    BY <2>3, <2>4, <2>5
<1>12. MetaFirst'
  <2>1. \A n \in Nodes : db'[n][Inst].exp + Patience \in Nat
    BY <1>4, <1>5, KeyFacts DEF StoreInv, Entries
  <2>2. \A n \in Nodes : \A j \in 1..Len(behind'[n]) : Life(behind'[n][j]) + Patience \in Nat
    BY <1>4, <1>5 DEF StoreInv, CommandTyped, Commands
  <2> QED
    BY <1>10, <1>11, <2>1, <2>2 DEF MetaFirst
<1>13. /\ TaskInv' /\ task'[h] = next
       /\ \A g \in Handlers \ {h} : task'[g] # Idle => task[g] # Idle /\ SameTask(task'[g], task[g])
  <2>1. Fit(next)
    BY DEF Call, Fit
  <2> QED
    BY <1>1, <2>1, TasksTyped DEF Written
<1>14. ASSUME NEW g \in Handlers, task'[g] # Idle, task'[g].pc \in Later, NEW n \in Nodes,
              NEW e \in Nat, e = MetaLife(task'[g].start), NEW j \in Nat, j = Len(behind'[n])
       PROVE  Outlived(n, j, e)'
  <2>1. PICK l \in Nat : l = Len(behind[n])
    BY <1>8
  <2>2. l <= j
    BY <1>3, <1>14, <2>1
  <2>3. CASE g # h \/ t.pc \in Later
    <3>1. /\ task[g] # Idle /\ task[g].pc \in Later /\ task'[g].start = task[g].start
      BY <1>13, <1>14, <2>3 DEF Call, SameTask
    <3>2. Outlived(n, l, e)
      BY <1>2, <1>14, <2>1, <3>1 DEF MetaWritten
    <3> QED
      BY <1>9, <1>14, <2>1, <2>2, <3>2
  <2>4. CASE g = h /\ t.pc \notin Later
    <3>1. key = Meta /\ task'[g].start = t.start
      BY <1>13, <1>14, <2>4 DEF Call
    <3>2. t.start \in Nat /\ t.start <= now /\ Life(c) = MetaLife(now) /\ c.val # NoVal
      BY <1>1, <1>4, <3>1 DEF TaskTyped, Tasks, TtlsOf, MetaLife
    <3>3. Life(c) >= e
      BY <1>5, <1>14, <3>1, <3>2, MetaLives
    <3>4. CASE n = Leader
      <4>1. db'[n][Meta].val # NoVal /\ db'[n][Meta].exp >= e
        BY <1>4, <1>6, <3>1, <3>3, <3>4, KeyFacts
      <4> QED
        BY <4>1 DEF Outlived
    <3>5. CASE n # Leader
      <4>1. behind[n] \in Seq(Commands) /\ behind'[n] = Append(behind[n], c)
        BY <1>4, <1>5, <3>5
      <4>2. Len(behind'[n]) = l + 1 /\ behind'[n][l + 1] = c
        BY <1>5, <2>1, <4>1
      <4>3. j \in 1..j /\ behind'[n][j].key = Meta /\ Life(behind'[n][j]) >= e
        BY <1>4, <1>14, <2>1, <3>1, <3>3, <4>2
      <4> QED
        BY <4>3 DEF Outlived
    <3> QED
      BY <3>4, <3>5
  <2> QED
    BY <2>3, <2>4
<1>15. MetaWritten'
  <2>1. \A g \in Handlers : task'[g] # Idle => MetaLife(task'[g].start) \in Nat
    BY <1>13, MetaLives DEF TaskInv, TaskTyped, Tasks
  <2> QED
    BY <1>3, <1>14, <2>1 DEF MetaWritten
<1> QED
  BY <1>12, <1>15

LEMMA ListedStep ==
  ASSUME MetaOutlives, TypeInv, ListedInv, NEW h \in Handlers, Step(h)
  PROVE  ListedInv'
<1> DEFINE t == task[h]
<1>1. /\ t # Idle /\ TaskTyped(t) /\ StoreInv /\ TaskInv /\ now' = now /\ MetaOrder
      /\ task \in [Handlers -> Tasks \cup {Idle}] /\ failures \in Nat
  BY StepShape DEF TypeInv, TaskInv, Step, ListedInv
<1>2. ASSUME UNCHANGED store, UNCHANGED failures, NEW new, task' = [task EXCEPT ![h] = new],
             new # Idle /\ new.pc \in Later => t.pc \in Later /\ new.start = t.start
      PROVE  ListedInv'
  <2>1. MetaOrder'
    BY <1>1, <1>2 DEF store, MetaOrder
  <2>2. MetaFirst => MetaFirst'
    BY <1>1, <1>2 DEF store, MetaFirst, Outlived
  <2>3. \A g \in Handlers : task'[g] = IF g = h THEN new ELSE task[g]
    BY <1>1, <1>2
  <2>4. \A g \in Handlers : task'[g] # Idle /\ task'[g].pc \in Later =>
          task[g] # Idle /\ task[g].pc \in Later /\ task'[g].start = task[g].start
    BY <1>1, <1>2, <2>3
  <2>5. MetaWritten => MetaWritten'
    BY <1>1, <1>2, <2>4 DEF store, MetaWritten, Outlived
  <2> QED
    BY <1>2, <2>1, <2>2, <2>5 DEF ListedInv
<1>3. ASSUME NEW key, NEW val, NEW ttl, NEW next, NEW otherwise,
             Call(h, t, key, val, ttl, next, otherwise)
      PROVE  ListedInv'
  <2>1. key \in Keys /\ val \in ValuesOf(key) /\ ttl \in TtlsOf(key)
    BY <1>3 DEF Call
  <2>2. CASE Written(h, key, val, ttl, next)
    <3>1. MetaOrder'
      BY <1>1, <2>1, <2>2, OrderWritten
    <3>2. failures = 0 => MetaFirst' /\ MetaWritten'
      BY <1>1, <1>3, <2>2, ListedCall
    <3>3. failures' = failures
      BY <2>2 DEF Written
    <3> QED
      BY <3>1, <3>2, <3>3 DEF ListedInv
  <2>3. CASE Failed(h, otherwise)
    <3>1. failures' # 0
      BY <1>1, <2>3 DEF Failed
    <3>2. MetaOrder'
      BY <1>1, <2>3 DEF Failed, store, MetaOrder
    <3> QED
      BY <3>1, <3>2 DEF ListedInv
  <2>4. Set(h, key, val, ttl, next, otherwise)
    BY <1>3 DEF Call
  <2> QED
    BY <2>2, <2>3, <2>4, SetCases
<1>4. ASSUME NEW key \in {Meta, Inst}, NEW new, Reads(h, t, key, new)
      PROVE  ListedInv'
  BY <1>2, <1>4 DEF Reads, Later
<1>5. ASSUME Ends(h, t)
      PROVE  ListedInv'
  BY <1>2, <1>5 DEF Ends
<1> QED
  BY <1>3, <1>4, <1>5, StepShape

LEMMA ListedApply ==
  ASSUME TypeInv, ListedInv, NEW n \in Nodes, Apply(n)
  PROVE  ListedInv'
<1> DEFINE c == behind[n][1]
<1>1. /\ StoreInv /\ TaskInv /\ now' = now /\ UNCHANGED <<task, failures>> /\ MetaOrder
      /\ (failures = 0 => MetaFirst /\ MetaWritten)
  BY DEF TypeInv, Apply, ListedInv
<1>2. /\ StoreInv' /\ CommandTyped(c)
      /\ \A m \in Nodes \ {n} : db'[m] = db[m] /\ behind'[m] = behind[m]
      /\ \A k \in Keys :
           db'[n][k] = IF k = c.key /\ now <= c.exp THEN Entry(c) ELSE db[n][k]
      /\ Len(behind[n]) \in Nat /\ Len(behind'[n]) = Len(behind[n]) - 1 /\ Len(behind[n]) > 0
      /\ \A i \in 1..Len(behind'[n]) : behind'[n][i] = behind[n][i + 1]
  BY <1>1, AppliedStore
<1>3. /\ MetaOrder'
      /\ \A j \in 1..Len(behind[n]) : \A e \in Nat : Outlived(n, j, e) => Outlived(n, j - 1, e)'
      /\ \A e \in Nat : Outlived(n, 0, e) => Outlived(n, 0, e)'
      /\ \A m \in Nodes \ {n} : \A j, e : Outlived(m, j, e) => Outlived(m, j, e)'
  BY <1>1, OrderApplied
<1>4. Patience \in Nat /\ Entry(c).exp = Life(c)
  BY <1>2, Times, EntryOfCommand
<1>head. c = behind[n][1]
  OBVIOUS
<1> HIDE DEF c
<1>5. ASSUME MetaFirst
      PROVE  MetaFirst'
  <2>1. ASSUME NEW m \in Nodes, NEW e \in Nat, e = db'[m][Inst].exp + Patience,
               db'[m][Inst].val # NoVal
        PROVE  Outlived(m, 0, e)'
    <3>1. CASE m # n
      BY <1>2, <1>3, <1>5, <2>1, <3>1 DEF MetaFirst
    <3>2. CASE m = n /\ c.key = Inst /\ now <= c.exp
      <4>1. e = Life(c) + Patience /\ 1 \in 1..Len(behind[n])
        BY <1>2, <1>4, <2>1, <3>2, KeyFacts
      <4>2. Outlived(n, 1, e)
        BY <1>5, <1>head, <3>2, <4>1 DEF MetaFirst
      <4>3. Outlived(n, 1 - 1, e)'
        BY <1>3, <4>1, <4>2
      <4> QED
        BY <3>2, <4>3
    <3>3. CASE m = n /\ ~(c.key = Inst /\ now <= c.exp)
      <4>1. db'[n][Inst] = db[n][Inst]
        BY <1>2, <3>3, KeyFacts
      <4> QED
        BY <1>3, <1>5, <2>1, <3>3, <4>1 DEF MetaFirst
    <3> QED
      BY <3>1, <3>2, <3>3
  <2>2. ASSUME NEW m \in Nodes, NEW j \in 1..Len(behind'[m]), NEW e \in Nat,
               e = Life(behind'[m][j]) + Patience, behind'[m][j].key = Inst
        PROVE  Outlived(m, j, e)'
    <3>1. CASE m # n
      BY <1>2, <1>3, <1>5, <2>2, <3>1 DEF MetaFirst
    <3>2. CASE m = n
      <4>1. j + 1 \in 1..Len(behind[n]) /\ behind'[n][j] = behind[n][j + 1] /\ (j + 1) - 1 = j
        BY <1>2, <2>2, <3>2
      <4>2. Outlived(n, j + 1, e)
        BY <1>5, <2>2, <3>2, <4>1 DEF MetaFirst
      <4>3. Outlived(n, (j + 1) - 1, e)'
        BY <1>3, <4>1, <4>2
      <4> QED
        BY <3>2, <4>1, <4>3
    <3> QED
      BY <3>1, <3>2
  <2>3. \A m \in Nodes : db'[m][Inst].exp + Patience \in Nat
    BY <1>2, <1>4, KeyFacts DEF StoreInv, Entries
  <2>4. \A m \in Nodes : \A j \in 1..Len(behind'[m]) : Life(behind'[m][j]) + Patience \in Nat
    BY <1>2, <1>4 DEF StoreInv, CommandTyped, Commands
  <2> QED
    BY <2>1, <2>2, <2>3, <2>4 DEF MetaFirst
<1>6. ASSUME MetaWritten
      PROVE  MetaWritten'
  <2>1. ASSUME NEW g \in Handlers, task'[g] # Idle, task'[g].pc \in Later, NEW m \in Nodes,
               NEW e \in Nat, e = MetaLife(task'[g].start), NEW j \in Nat, j = Len(behind'[m])
        PROVE  Outlived(m, j, e)'
    <3>1. Outlived(m, Len(behind[m]), e)
      BY <1>1, <1>6, <2>1 DEF MetaWritten
    <3>2. CASE m # n
      BY <1>2, <1>3, <2>1, <3>1, <3>2
    <3>3. CASE m = n
      <4>1. PICK l \in Nat : l = Len(behind[n])
        BY <1>2
      <4>2. l \in 1..Len(behind[n]) /\ j = l - 1
        BY <1>2, <2>1, <3>3, <4>1
      <4>3. Outlived(n, l - 1, e)'
        BY <1>3, <3>1, <3>3, <4>1, <4>2
      <4> QED
        BY <3>3, <4>2, <4>3
    <3> QED
      BY <3>2, <3>3
  <2>2. \A g \in Handlers : task'[g] # Idle => MetaLife(task'[g].start) \in Nat
    BY <1>1, MetaLives DEF TaskInv, TaskTyped, Tasks
  <2>3. \A m \in Nodes : Len(behind'[m]) \in Nat
    BY <1>2 DEF StoreInv
  <2> QED
    BY <2>1, <2>2, <2>3 DEF MetaWritten
<1> QED
  BY <1>1, <1>3, <1>5, <1>6 DEF ListedInv

LEMMA ListedTick ==
  ASSUME TypeInv, ListedInv, Tick
  PROVE  ListedInv'
<1>1. /\ now \in Nat /\ now' = now + 1 /\ UNCHANGED <<db, behind, task, failures>>
      /\ MetaLife(now) \in Nat /\ MetaLife(now') \in Nat /\ MetaLife(now) <= MetaLife(now')
  <2>1. now \in Nat /\ now' = now + 1 /\ UNCHANGED <<db, behind, task, failures>>
    BY DEF TypeInv, StoreInv, Tick, store
  <2>2. now' \in Nat /\ now <= now'
    BY <2>1
  <2> QED
    BY <2>1, <2>2, MetaLives
<1>2. \A n, j : \A e \in Nat : Outlived(n, j, e) => Outlived(n, j, e)'
  BY <1>1 DEF Outlived
<1>3. /\ \A n \in Nodes : db[n][Meta].exp \in Nat /\ db[n][Inst].exp + Patience \in Nat
      /\ \A n \in Nodes : \A j \in 1..Len(behind[n]) :
           Life(behind[n][j]) \in Nat /\ Life(behind[n][j]) + Patience \in Nat
  <2>1. \A n \in Nodes : db[n][Meta].exp \in Nat /\ db[n][Inst].exp \in Nat
    BY KeyFacts DEF TypeInv, StoreInv, Entries
  <2>2. \A n \in Nodes : \A j \in 1..Len(behind[n]) : Life(behind[n][j]) \in Nat
    BY DEF TypeInv, StoreInv, CommandTyped, Commands
  <2> QED
    BY <2>1, <2>2, Times
<1>4. \A h \in Handlers : task[h] # Idle => MetaLife(task[h].start) \in Nat
  BY MetaLives DEF TypeInv, TaskInv, TaskTyped, Tasks
<1>5. MetaOrder'
  BY <1>1, <1>3 DEF ListedInv, MetaOrder
<1>6. MetaFirst => MetaFirst'
  BY <1>1, <1>2, <1>3 DEF MetaFirst
<1>7. MetaWritten => MetaWritten'
  BY <1>1, <1>2, <1>4 DEF MetaWritten
<1> QED
  BY <1>1, <1>5, <1>6, <1>7 DEF ListedInv

(* Whatever instance a list finds on a node, it finds the metadata of, as  *)
(* long as no write fails: metadata is written before the state, for       *)
(* longer, and nodes apply and drop commands in their order.               *)
THEOREM ListedHasMetaHolds ==
  ASSUME MetaOutlives
  PROVE  Spec => []ListedHasMeta
<1>1. Init => ListedInv
  <2> SUFFICES ASSUME Init PROVE ListedInv
    OBVIOUS
  <2>1. \A n \in Nodes : behind[n] = << >> /\ Len(behind[n]) = 0
    BY DEF Init
  <2>2. \A n \in Nodes, k \in Keys : db[n][k].val = NoVal /\ db[n][k].exp = 0
    BY DEF Init, NoEntry, NoExpiry
  <2>3. MetaOrder
    BY <2>1, <2>2, KeyFacts, MetaLives, FsmAssumption DEF Init, MetaOrder
  <2>4. MetaFirst
    BY <2>1, <2>2, KeyFacts DEF MetaFirst
  <2>5. MetaWritten
    BY DEF Init, MetaWritten
  <2> QED
    BY <2>3, <2>4, <2>5 DEF ListedInv
<1>2. TypeInv /\ ListedInv /\ [Next]_vars => ListedInv'
  <2> SUFFICES ASSUME TypeInv, ListedInv, [Next]_vars PROVE ListedInv'
    OBVIOUS
  <2>1. ASSUME NEW h \in Handlers, NEW n \in Nodes, Register(h, n) \/ Heartbeat(h, n)
        PROVE  ListedInv'
    <3>1. PICK new : Begins(h, n, new)
      BY <2>1, StartShape
    <3>2. /\ task' = [task EXCEPT ![h] = new] /\ UNCHANGED <<db, behind, now, failures>>
          /\ new.pc \notin Later
      BY <3>1 DEF Begins, store, Later
    <3>3. \A g \in Handlers : task'[g] # Idle /\ task'[g].pc \in Later =>
            task[g] # Idle /\ task'[g] = task[g]
      BY <3>2 DEF TypeInv, TaskInv
    <3>4. MetaWritten => MetaWritten'
      BY <3>2, <3>3 DEF MetaWritten, Outlived
    <3> QED
      BY <3>2, <3>4 DEF ListedInv, MetaOrder, MetaFirst, Outlived
  <2>2. CASE UNCHANGED vars
    BY <2>2 DEF vars, store, ListedInv, MetaOrder, MetaFirst, MetaWritten, Outlived
  <2> QED
    BY <2>1, <2>2, ListedStep, ListedApply, ListedTick DEF Next
<1>3. TypeInv /\ ListedInv => ListedHasMeta
  <2> SUFFICES ASSUME TypeInv, ListedInv, failures = 0, NEW n \in Nodes, Shows(n, Inst) # NoVal
               PROVE  IsLive(db[n][Meta], now + Patience)
    BY DEF ListedHasMeta
  <2>1. db[n][Inst].exp > 0 /\ db[n][Inst].exp \in Nat /\ db[n][Meta].exp \in Nat
    <3>1. db[n][Inst].val # NoVal
      BY DEF Shows, Get, IsLive
    <3> QED
      BY <3>1, KeyFacts DEF TypeInv, StoreInv, EntryTyped, Entries
  <2>2. db[n][Inst].val # NoVal /\ now < db[n][Inst].exp /\ now \in Nat
    BY <2>1 DEF Shows, Get, IsLive, NoExpiry, TypeInv, StoreInv
  <2>3. Outlived(n, 0, db[n][Inst].exp + Patience)
    BY <2>2 DEF ListedInv, MetaFirst
  <2>4. /\ db[n][Meta].val # NoVal /\ db[n][Meta].exp >= db[n][Inst].exp + Patience
    BY <2>1, <2>2, <2>3, Times DEF Outlived
  <2>5. now + Patience < db[n][Meta].exp
    BY <2>1, <2>2, <2>4, Times
  <2> QED
    BY <2>4, <2>5 DEF IsLive
<1> QED
  BY <1>1, <1>2, <1>3, Typed, PTL DEF Spec

-----------------------------------------------------------------------------
(* Heartbeats.                                                             *)

(* Until a second before e.                                                *)
Lasting(key, e) == db[Leader][key].val # NoVal /\ e < db[Leader][key].exp + Second

(* What a heartbeat has written so far lasts.                              *)
BeatWritten(t) ==
  /\ t.pc = "beatSpaces" => Lasting(Inst, t.start + Soonest)
  /\ t.pc \in BeatSteps /\ t.info.cfg =>
       \A s \in Listened : Left(t, s) \/ Lasting(SharedKey(s), t.start + Soonest)

FreshInv ==
  /\ beaten <= now
  /\ failures = 0 =>
       /\ \A h \in Handlers : task[h] # Idle => BeatWritten(task[h])
       /\ beaten >= 0 =>
            /\ Lasting(Inst, beaten + Soonest)
            /\ \A s \in Listened : Lasting(SharedKey(s), beaten + Soonest)

(* A later write lasts longer.                                             *)
LEMMA LastingWritten ==
  ASSUME StoreInv, NEW h \in Handlers, NEW key \in Keys, NEW val \in ValuesOf(key),
         NEW ttl \in TtlsOf(key), NEW next, Written(h, key, val, ttl, next), now' = now,
         NEW k \in Keys \ {Meta}, NEW e \in Nat, e <= now + Soonest, Lasting(k, e) \/ k = key
  PROVE  Lasting(k, e)'
<1> DEFINE c == SetExCommand(key, val, now, ttl)
<1>1. /\ c.val = val /\ now + ttl < Life(c) + Second /\ val # NoVal /\ Leader \in Nodes
      /\ Life(c) \in Nat
      /\ \A m \in Keys : db'[Leader][m] = IF m = key THEN Entry(c) ELSE db[Leader][m]
  BY WrittenStore, RegistryAssumption DEF CommandTyped
<1>2. Entry(c).val = c.val /\ Entry(c).exp = Life(c)
  BY DEF Entry
<1> HIDE DEF c
<1>3. CASE k = key
  <2>1. ttl \in Ttls
    BY <1>3 DEF TtlsOf
  <2>2. Soonest <= ttl /\ ttl \in Nat /\ Soonest \in Nat /\ now \in Nat
    BY <2>1, SoonestTtl, Times DEF StoreInv
  <2>3. db'[Leader][k] = Entry(c) /\ e <= now + ttl
    BY <1>1, <1>3, <2>2
  <2>4. e < Life(c) + Second
    BY <1>1, <2>2, <2>3, FsmAssumption
  <2> QED
    BY <1>1, <1>2, <2>3, <2>4 DEF Lasting
<1>4. CASE k # key
  BY <1>1, <1>4 DEF Lasting
<1> QED
  BY <1>3, <1>4

LEMMA FreshCall ==
  ASSUME TypeInv, FreshInv, failures = 0, NEW h \in Handlers, NEW t, t = task[h], t # Idle,
         NEW key, NEW val, NEW ttl, NEW next, NEW otherwise,
         Call(h, t, key, val, ttl, next, otherwise), Written(h, key, val, ttl, next), now' = now
  PROVE  /\ \A g \in Handlers : task'[g] # Idle => BeatWritten(task[g])'
         /\ beaten >= 0 =>
              \A e \in Nat : e = beaten + Soonest =>
                /\ Lasting(Inst, e)' /\ \A s \in Listened : Lasting(SharedKey(s), e)'
<1>1. /\ StoreInv /\ TaskInv /\ key \in Keys /\ val \in ValuesOf(key) /\ ttl \in TtlsOf(key)
      /\ TaskTyped(t)
  BY DEF TypeInv, Call, TaskInv
<1>2. /\ task'[h] = next /\ TaskInv'
      /\ \A g \in Handlers \ {h} : task'[g] # Idle => task[g] # Idle /\ SameTask(task'[g], task[g])
  <2>1. Fit(next)
    BY DEF Call, Fit
  <2> QED
    BY <1>1, <2>1, TasksTyped DEF Written
<1>3. Soonest \in Nat /\ now \in Nat /\ Inst \in Keys \ {Meta}
      /\ \A s \in Listened : SharedKey(s) \in Keys \ {Meta}
  BY <1>1, SoonestTtl, Times, KeyFacts DEF StoreInv
<1>4. ASSUME NEW k \in Keys \ {Meta}, NEW e \in Nat, e <= now + Soonest, Lasting(k, e) \/ k = key
      PROVE  Lasting(k, e)'
  BY <1>1, <1>4, LastingWritten
<1>5. ASSUME NEW g \in Handlers, NEW u, u = task'[g], u # Idle, NEW v, v = task[g],
             v # Idle, TaskTyped(v), BeatWritten(v), u.start = v.start, u.info = v.info,
             u.pc = "beatSpaces" => v.pc = "beatSpaces" \/ key = Inst,
             u.pc \in BeatSteps =>
               /\ v.pc \in BeatSteps
               /\ \A s \in Listened : Left(v, s) => Left(u, s) \/ key = SharedKey(s)
      PROVE  BeatWritten(task[g])'
  <2>1. PICK e \in Nat : e = v.start + Soonest
    BY <1>3, <1>5 DEF TaskTyped, Tasks
  <2>2. v.start \in Nat /\ v.start <= now
    BY <1>5 DEF TaskTyped, Tasks
  <2>3. e <= now + Soonest
    BY <1>3, <2>1, <2>2
  <2>4. u.pc = "beatSpaces" => Lasting(Inst, e)'
    BY <1>3, <1>4, <1>5, <2>1, <2>3 DEF BeatWritten
  <2>5. u.pc \in BeatSteps /\ u.info.cfg =>
          \A s \in Listened : Left(u, s) \/ Lasting(SharedKey(s), e)'
    BY <1>3, <1>4, <1>5, <2>1, <2>3 DEF BeatWritten
  <2>6. e = task'[g].start + Soonest
    BY <1>5, <2>1
  <2> QED
    BY <1>5, <2>4, <2>5, <2>6 DEF BeatWritten, Left, Lasting
<1>6. ASSUME NEW g \in Handlers, task'[g] # Idle
      PROVE  BeatWritten(task[g])'
  <2>1. CASE g = h
    <3>1. TaskTyped(t) /\ BeatWritten(t)
      BY <1>1 DEF FreshInv
    <3>2. next = task'[g] /\ next # Idle /\ t = task[g]
      BY <1>2, <1>6, <2>1
    <3>3. /\ next.start = t.start /\ next.info = t.info
          /\ next.pc \in BeatSteps =>
               /\ t.pc \in BeatSteps
               /\ next.pc = "beatSpaces" => t.pc = "beatSpaces" \/ key = Inst
               /\ \A s \in Listened : Left(t, s) => Left(next, s) \/ key = SharedKey(s)
      BY <3>2 DEF Call
    <3>4. next.pc = "beatSpaces" => next.pc \in BeatSteps
      BY DEF BeatSteps
    <3> QED
      BY <1>5, <2>1, <3>1, <3>2, <3>3, <3>4
  <2>2. CASE g # h
    <3>1. task[g] # Idle /\ SameTask(task'[g], task[g])
      BY <1>2, <1>6, <2>2
    <3>2. TaskTyped(task[g]) /\ BeatWritten(task[g])
      BY <1>1, <3>1 DEF TaskInv, FreshInv
    <3>3. \A s : Left(task[g], s) => Left(task'[g], s)
      BY <3>1 DEF SameTask, Left
    <3> QED
      BY <1>5, <1>6, <3>1, <3>2, <3>3 DEF SameTask
  <2> QED
    BY <2>1, <2>2
<1>7. ASSUME beaten >= 0, NEW e \in Nat, e = beaten + Soonest
      PROVE  Lasting(Inst, e)' /\ \A s \in Listened : Lasting(SharedKey(s), e)'
  <2>1. e <= now + Soonest /\ Lasting(Inst, e) /\ \A s \in Listened : Lasting(SharedKey(s), e)
    BY <1>3, <1>7 DEF FreshInv, TypeInv
  <2> QED
    BY <1>3, <1>4, <2>1
<1> QED
  BY <1>6, <1>7

LEMMA FreshStep ==
  ASSUME TypeInv, FreshInv, NEW h \in Handlers, Step(h)
  PROVE  FreshInv'
<1> DEFINE t == task[h]
<1>1. /\ t # Idle /\ TaskTyped(t) /\ StoreInv /\ TaskInv /\ now' = now
      /\ task \in [Handlers -> Tasks \cup {Idle}] /\ failures \in Nat
  BY StepShape DEF TypeInv, TaskInv, Step
<1>2. t.start \in Nat /\ t.start <= now /\ now \in Nat /\ Soonest \in Nat
  BY <1>1, SoonestTtl, Times DEF TaskTyped, Tasks, StoreInv
<1>3. beaten' <= now'
  BY <1>1, <1>2 DEF Step, FreshInv
<1>4. ASSUME NEW key, NEW val, NEW ttl, NEW next, NEW otherwise,
             Call(h, t, key, val, ttl, next, otherwise)
      PROVE  FreshInv'
  <2>1. CASE Written(h, key, val, ttl, next)
    <3>1. task'[h] = next
      BY <1>1, <2>1 DEF Written
    <3>2. beaten' = beaten /\ failures' = failures
      BY <1>4, <2>1, <3>1 DEF Step, Call, Written
    <3>3. CASE failures = 0
      <4>1. /\ \A g \in Handlers : task'[g] # Idle => BeatWritten(task[g])'
            /\ beaten >= 0 =>
                 \A e \in Nat : e = beaten + Soonest =>
                   /\ Lasting(Inst, e)' /\ \A s \in Listened : Lasting(SharedKey(s), e)'
        BY <1>1, <1>4, <2>1, <3>3, FreshCall
      <4>2. beaten >= 0 => beaten + Soonest \in Nat
        BY <1>2 DEF TypeInv
      <4>3. beaten >= 0 =>
              /\ Lasting(Inst, beaten + Soonest)'
              /\ \A s \in Listened : Lasting(SharedKey(s), beaten + Soonest)'
        BY <3>2, <4>1, <4>2 DEF Lasting
      <4> QED
        BY <1>3, <3>2, <4>1, <4>3 DEF FreshInv
    <3>4. CASE failures # 0
      BY <1>3, <3>2, <3>4 DEF FreshInv
    <3> QED
      BY <3>3, <3>4
  <2>2. CASE Failed(h, otherwise)
    <3>1. failures' # 0
      BY <1>1, <2>2 DEF Failed
    <3> QED
      BY <1>3, <3>1 DEF FreshInv
  <2>3. Set(h, key, val, ttl, next, otherwise)
    BY <1>4 DEF Call
  <2> QED
    BY <2>1, <2>2, <2>3, SetCases
<1>5. ASSUME NEW key \in {Meta, Inst}, NEW new, Reads(h, t, key, new)
      PROVE  FreshInv'
  <2>1. /\ task' = [task EXCEPT ![h] = new] /\ UNCHANGED <<db, behind, failures>>
        /\ new # Idle /\ new.start = t.start /\ new.info = t.info /\ new.todo = t.todo
        /\ new.pc # "beatSpaces" /\ t.pc \in BeatSteps
    BY <1>5 DEF Reads, store, BeatSteps
  <2>2. task'[h] = new /\ \A g \in Handlers \ {h} : task'[g] = task[g]
    BY <1>1, <2>1
  <2>3. beaten' = beaten
    BY <2>1, <2>2 DEF Step
  <2>4. ASSUME failures = 0, NEW g \in Handlers, task'[g] # Idle
        PROVE  BeatWritten(task[g])'
    <3>1. CASE g = h
      <4>1. BeatWritten(t)
        BY <1>1, <2>4 DEF FreshInv
      <4> QED
        BY <2>1, <2>2, <3>1, <4>1 DEF BeatWritten, Left, Lasting
    <3>2. CASE g # h
      <4>1. BeatWritten(task[g]) /\ task'[g] = task[g]
        BY <2>2, <2>4, <3>2 DEF FreshInv
      <4> QED
        BY <2>1, <4>1 DEF BeatWritten, Left, Lasting
    <3> QED
      BY <3>1, <3>2
  <2> QED
    BY <1>3, <2>1, <2>3, <2>4 DEF FreshInv, Lasting
<1>6. ASSUME Ends(h, t)
      PROVE  FreshInv'
  <2>1. /\ t.pc = "beatSpaces" /\ t.todo = << >> /\ UNCHANGED <<db, failures>>
        /\ task'[h] = Idle /\ \A g \in Handlers \ {h} : task'[g] = task[g]
    BY <1>1, <1>6 DEF Ends, store
  <2>2. ASSUME failures = 0, NEW g \in Handlers, task'[g] # Idle
        PROVE  BeatWritten(task[g])'
    <3>1. g # h /\ task'[g] = task[g] /\ BeatWritten(task[g])
      BY <2>1, <2>2 DEF FreshInv
    <3> QED
      BY <2>1, <3>1 DEF BeatWritten, Left, Lasting
  <2>3. ASSUME failures = 0, beaten' >= 0
        PROVE  /\ Lasting(Inst, beaten + Soonest)'
               /\ \A s \in Listened : Lasting(SharedKey(s), beaten + Soonest)'
    <3>1. CASE beaten' = beaten
      BY <2>1, <2>3, <3>1 DEF FreshInv, Lasting
    <3>2. CASE beaten' # beaten
      <4>1. beaten' = t.start /\ t.info.cfg /\ BeatWritten(t)
        BY <1>1, <2>3, <3>2 DEF Step, FreshInv
      <4>2. \A s \in Listened : ~Left(t, s)
        BY <2>1 DEF Left
      <4>3. /\ Lasting(Inst, t.start + Soonest)
            /\ \A s \in Listened : Lasting(SharedKey(s), t.start + Soonest)
        BY <2>1, <4>1, <4>2 DEF BeatWritten, BeatSteps
      <4> QED
        BY <2>1, <4>1, <4>3 DEF Lasting
    <3> QED
      BY <3>1, <3>2
  <2> QED
    BY <1>3, <2>1, <2>2, <2>3 DEF FreshInv
<1> QED
  BY <1>4, <1>5, <1>6, StepShape

(* From the end of a heartbeat, and until a second before the shortest     *)
(* time to live after its start is over, the leader lists the instance and *)
(* finds it for each of its namespaces: no other request writes a sooner   *)
(* deadline, badger's whole seconds take less than a second from it, and a *)
(* heartbeat has written every namespace when it ends.                     *)
THEOREM FreshIsFoundHolds == Spec => []FreshIsFound
<1>1. Init => FreshInv
  BY FsmAssumption DEF Init, FreshInv, BeatWritten
<1>2. TypeInv /\ FreshInv /\ [Next]_vars => FreshInv'
  <2> SUFFICES ASSUME TypeInv, FreshInv, [Next]_vars PROVE FreshInv'
    OBVIOUS
  <2>1. ASSUME NEW h \in Handlers, NEW n \in Nodes, Register(h, n) \/ Heartbeat(h, n)
        PROVE  FreshInv'
    <3>1. PICK new : Begins(h, n, new)
      BY <2>1, StartShape
    <3>2. /\ task'[h] = new /\ \A g \in Handlers \ {h} : task'[g] = task[g]
          /\ UNCHANGED <<db, behind, now, failures, beaten>>
      BY <3>1 DEF Begins, store, TypeInv, TaskInv
    <3>3. new.pc # "beatSpaces" /\ (new.pc \in BeatSteps /\ new.info.cfg => new.todo = Spaces)
      BY <3>1 DEF Begins, BeatSteps
    <3>4. ASSUME failures = 0, NEW g \in Handlers, task'[g] # Idle
          PROVE  BeatWritten(task[g])'
      <4>1. CASE g = h
        BY <3>2, <3>3, <4>1 DEF BeatWritten, Left, Listened
      <4>2. CASE g # h
        <5>1. BeatWritten(task[g]) /\ task'[g] = task[g]
          BY <3>2, <3>4, <4>2 DEF FreshInv
        <5> QED
          BY <3>2, <5>1 DEF BeatWritten, Left, Lasting
      <4> QED
        BY <4>1, <4>2
    <3> QED
      BY <3>2, <3>4 DEF FreshInv, Lasting
  <2>2. ASSUME NEW n \in Nodes, Apply(n)
        PROVE  FreshInv'
    <3>1. n # Leader /\ db'[Leader] = db[Leader] /\ UNCHANGED <<now, task, failures, beaten>>
      BY <2>2, AppliedStore, RegistryAssumption DEF Apply, TypeInv
    <3> QED
      BY <3>1 DEF FreshInv, BeatWritten, Left, Lasting
  <2>3. CASE Tick
    <3>1. now' = now + 1 /\ UNCHANGED <<db, task, failures, beaten>> /\ now \in Nat /\ beaten \in Int
      BY <2>3 DEF Tick, store, TypeInv, StoreInv
    <3>2. beaten' <= now'
      BY <3>1 DEF FreshInv
    <3> QED
      BY <3>1, <3>2 DEF FreshInv, BeatWritten, Left, Lasting
  <2>4. CASE UNCHANGED vars
    BY <2>4 DEF vars, store, FreshInv, BeatWritten, Left, Lasting
  <2> QED
    BY <2>1, <2>2, <2>3, <2>4, FreshStep DEF Next
<1>3. TypeInv /\ FreshInv => FreshIsFound
  <2> SUFFICES ASSUME TypeInv, FreshInv, failures = 0, beaten >= 0, now + Second <= beaten + Soonest
               PROVE  Shows(Leader, Inst) # NoVal
                      /\ \A s \in Listened : Shows(Leader, SharedKey(s)) # NoVal
    BY DEF FreshIsFound
  <2>1. Lasting(Inst, beaten + Soonest) /\ \A s \in Listened : Lasting(SharedKey(s), beaten + Soonest)
    BY DEF FreshInv
  <2>2. ASSUME NEW k \in Keys, Lasting(k, beaten + Soonest)
        PROVE  Shows(Leader, k) # NoVal
    <3>1. /\ db[Leader][k].val # NoVal /\ beaten + Soonest < db[Leader][k].exp + Second
          /\ db[Leader][k].exp \in Nat
      BY <2>2, RegistryAssumption DEF Lasting, TypeInv, StoreInv, Entries
    <3>2. now < db[Leader][k].exp
      BY <3>1, SoonestTtl, Times, FsmAssumption DEF TypeInv, StoreInv
    <3> QED
      BY <3>1, <3>2 DEF Shows, Get, IsLive
  <2> QED
    BY <2>1, <2>2, KeyFacts
<1> QED
  BY <1>1, <1>2, <1>3, Typed, PTL DEF Spec

-----------------------------------------------------------------------------
(* What a node has not applied.                                            *)

(* Unless it has expired, the leader's entry is that of the last command   *)
(* for the key that n has still to apply, or n has it.                     *)
Replayed(n, k) ==
  \/ ~IsLive(db[Leader][k], now)
  \/ \E i \in 1..Len(behind[n]) :
       /\ behind[n][i].key = k /\ db[Leader][k] = Entry(behind[n][i])
       /\ \A j \in i + 1 .. Len(behind[n]) : behind[n][j].key # k
  \/ /\ db[n][k] = db[Leader][k]
     /\ \A i \in 1..Len(behind[n]) : behind[n][i].key # k

(* A task that is alone has read what the leader shows, unless that has    *)
(* expired since.                                                          *)
HasRead(t) ==
  t.alone =>
    /\ t.pc = "beatMeta" => Shows(Leader, Meta) \in {NoVal, t.got}
    /\ t.pc = "beatInst" => Shows(Leader, Inst) \in {NoVal, t.got}

SameInv ==
  /\ \A n \in Nodes, k \in Keys : Replayed(n, k)
  /\ \A h \in Handlers : task[h] # Idle => HasRead(task[h])

LEMMA ReplayedWritten ==
  ASSUME StoreInv, NEW h \in Handlers, NEW key \in Keys, NEW val \in ValuesOf(key),
         NEW ttl \in TtlsOf(key), NEW next, Written(h, key, val, ttl, next), now' = now,
         NEW n \in Nodes, NEW k \in Keys, Replayed(n, k)
  PROVE  Replayed(n, k)'
<1> DEFINE c == SetExCommand(key, val, now, ttl)
<1>1. /\ c.key = key /\ CommandTyped(c) /\ Leader \in Nodes
      /\ \A m \in Nodes, j \in Keys :
           db'[m][j] = IF m = Leader /\ j = key THEN Entry(c) ELSE db[m][j]
      /\ \A m \in Nodes \ {Leader} : behind'[m] = Append(behind[m], c)
      /\ StoreInv'
  BY WrittenStore, RegistryAssumption
<1> HIDE DEF c
<1>2. CASE n = Leader
  <2>1. behind'[n] = << >>
    BY <1>1, <1>2 DEF StoreInv
  <2> QED
    BY <1>2, <2>1 DEF Replayed
<1>3. CASE n # Leader
  <2>1. behind[n] \in Seq(Commands) /\ c \in Commands /\ behind'[n] = Append(behind[n], c)
    BY <1>1, <1>3 DEF StoreInv, CommandTyped
  <2>2. PICK l \in Nat : l = Len(behind[n])
    BY <2>1
  <2>3. /\ Len(behind'[n]) = l + 1 /\ behind'[n][l + 1] = c
        /\ \A i \in 1..l : behind'[n][i] = behind[n][i]
    BY <2>1, <2>2
  <2>4. CASE k = key
    <3>1. db'[Leader][k] = Entry(behind'[n][l + 1]) /\ behind'[n][l + 1].key = k
      BY <1>1, <2>3, <2>4
    <3>2. l + 1 \in 1..Len(behind'[n]) /\ \A j \in (l + 1) + 1 .. Len(behind'[n]) : FALSE
      BY <2>2, <2>3
    <3> QED
      BY <3>1, <3>2 DEF Replayed
  <2>5. CASE k # key
    <3>1. db'[Leader][k] = db[Leader][k] /\ db'[n][k] = db[n][k]
      BY <1>1, <1>3, <2>5
    <3>2. \A j \in 1..(l + 1) : j \in 1..l \/ behind'[n][j].key # k
      BY <1>1, <2>2, <2>3, <2>5
    <3>3. CASE ~IsLive(db[Leader][k], now)
      BY <3>1, <3>3 DEF Replayed
    <3>4. ASSUME NEW i \in 1..l, behind[n][i].key = k, db[Leader][k] = Entry(behind[n][i]),
                 \A j \in i + 1 .. l : behind[n][j].key # k
          PROVE  Replayed(n, k)'
      <4>1. i \in 1..Len(behind'[n]) /\ behind'[n][i] = behind[n][i]
        BY <2>2, <2>3, <3>4
      <4>2. \A j \in i + 1 .. l + 1 : behind'[n][j].key # k
        <5> SUFFICES ASSUME NEW j \in i + 1 .. l + 1 PROVE behind'[n][j].key # k
          OBVIOUS
        <5>1. j \in 1..(l + 1) /\ (j \in 1..l => j \in i + 1 .. l)
          BY <2>2
        <5> QED
          BY <2>3, <3>2, <3>4, <5>1
      <4> QED
        BY <2>3, <3>1, <3>4, <4>1, <4>2 DEF Replayed
    <3>5. CASE db[n][k] = db[Leader][k] /\ \A i \in 1..l : behind[n][i].key # k
      <4>1. \A j \in 1..(l + 1) : behind'[n][j].key # k
        BY <2>3, <3>2, <3>5
      <4> QED
        BY <2>3, <3>1, <3>5, <4>1 DEF Replayed
    <3> QED
      BY <2>2, <3>3, <3>4, <3>5 DEF Replayed
  <2> QED
    BY <2>4, <2>5
<1> QED
  BY <1>2, <1>3

LEMMA ReplayedApplied ==
  ASSUME StoreInv, NEW m \in Nodes, Apply(m), NEW n \in Nodes, NEW k \in Keys, Replayed(n, k)
  PROVE  Replayed(n, k)'
<1> DEFINE c == behind[m][1]
<1>1. /\ m # Leader /\ Leader \in Nodes /\ CommandTyped(c) /\ now' = now /\ now \in Nat
      /\ \A o \in Nodes \ {m} : db'[o] = db[o] /\ behind'[o] = behind[o]
      /\ \A j \in Keys :
           db'[m][j] = IF j = c.key /\ now <= c.exp THEN Entry(c) ELSE db[m][j]
      /\ Len(behind[m]) \in Nat /\ Len(behind'[m]) = Len(behind[m]) - 1 /\ Len(behind[m]) > 0
      /\ \A i \in 1..Len(behind'[m]) : behind'[m][i] = behind[m][i + 1]
  BY AppliedStore, RegistryAssumption DEF Apply, StoreInv
<1>2. c = behind[m][1] /\ c.exp \in Nat /\ Life(c) \in Nat /\ 0 < Life(c) /\ Life(c) <= c.exp
  BY <1>1 DEF CommandTyped, Commands
<1> HIDE DEF c
<1>3. db'[Leader] = db[Leader]
  BY <1>1
<1>4. CASE n # m
  BY <1>1, <1>3, <1>4 DEF Replayed
<1>5. CASE n = m
  <2>1. CASE ~IsLive(db[Leader][k], now)
    BY <1>1, <1>3, <2>1 DEF Replayed
  <2>2. PICK l \in Nat : l = Len(behind[n])
    BY <1>1, <1>5
  <2>3. /\ Len(behind'[n]) = l - 1 /\ l > 0
        /\ \A j \in 1..(l - 1) : behind'[n][j] = behind[n][j + 1] /\ j + 1 \in 1..l
    BY <1>1, <1>5, <2>2
  <2>4. ASSUME NEW i \in 1..l, behind[n][i].key = k, db[Leader][k] = Entry(behind[n][i]),
               \A j \in i + 1 .. l : behind[n][j].key # k
        PROVE  Replayed(n, k)'
    <3>1. CASE i = 1
      <4>1. \A j \in 1..(l - 1) : behind'[n][j].key # k
        BY <2>2, <2>3, <2>4, <3>1
      <4>2. c.key = k /\ db'[Leader][k] = Entry(c)
        BY <1>2, <1>3, <1>5, <2>4, <3>1
      <4>3. CASE now <= c.exp
        <5>1. db'[n][k] = Entry(c)
          BY <1>1, <1>5, <4>2, <4>3
        <5> QED
          BY <2>3, <4>1, <4>2, <5>1 DEF Replayed
      <4>4. CASE ~(now <= c.exp)
        <5>1. ~IsLive(Entry(c), now)
          BY <1>1, <1>2, <4>4 DEF IsLive, Entry, NoExpiry
        <5> QED
          BY <1>1, <4>2, <5>1 DEF Replayed
      <4> QED
        BY <4>3, <4>4
    <3>2. CASE i # 1
      <4>1. i - 1 \in 1..(l - 1) /\ behind'[n][i - 1] = behind[n][i]
        BY <2>2, <2>3, <3>2
      <4>2. \A j \in (i - 1) + 1 .. l - 1 : behind'[n][j].key # k
        <5> SUFFICES ASSUME NEW j \in (i - 1) + 1 .. l - 1 PROVE behind'[n][j].key # k
          OBVIOUS
        <5>1. j \in 1..(l - 1) /\ j + 1 \in i + 1 .. l
          BY <2>2, <3>2
        <5> QED
          BY <2>3, <2>4, <5>1
      <4> QED
        BY <1>3, <2>3, <2>4, <4>1, <4>2 DEF Replayed
    <3> QED
      BY <3>1, <3>2
  <2>5. CASE db[n][k] = db[Leader][k] /\ \A i \in 1..l : behind[n][i].key # k
    <3>1. c.key # k
      BY <1>2, <1>5, <2>2, <2>3, <2>5
    <3>2. db'[n][k] = db[n][k]
      BY <1>1, <1>5, <3>1
    <3>3. \A j \in 1..(l - 1) : behind'[n][j].key # k
      BY <2>3, <2>5
    <3> QED
      BY <1>3, <2>3, <2>5, <3>2, <3>3 DEF Replayed
  <2> QED
    BY <2>1, <2>2, <2>4, <2>5 DEF Replayed
<1> QED
  BY <1>4, <1>5

(* What a request that read alone has read, and its write.                 *)
LEMMA SameStep ==
  ASSUME TypeInv, SameInv, NEW h \in Handlers, Step(h)
  PROVE  SameInv'
<1> DEFINE t == task[h]
<1>1. /\ t # Idle /\ TaskTyped(t) /\ StoreInv /\ TaskInv /\ now' = now
      /\ task \in [Handlers -> Tasks \cup {Idle}]
  BY StepShape DEF TypeInv, TaskInv, Step
<1>2. ASSUME UNCHANGED store, NEW new, task' = [task EXCEPT ![h] = new],
             new # Idle => HasRead(new)
      PROVE  SameInv'
  <2>1. UNCHANGED <<db, behind>> /\ \A g \in Handlers : task'[g] = IF g = h THEN new ELSE task[g]
    BY <1>1, <1>2 DEF store
  <2>2. \A n \in Nodes, k \in Keys : Replayed(n, k)'
    BY <1>1, <2>1 DEF SameInv, Replayed
  <2>3. ASSUME NEW g \in Handlers, task'[g] # Idle
        PROVE  HasRead(task[g])'
    <3>1. PICK u : u = task'[g] /\ HasRead(u)
      BY <1>2, <2>1, <2>3 DEF SameInv
    <3> QED
      BY <1>1, <2>1, <3>1 DEF HasRead, Shows
  <2> QED
    BY <2>2, <2>3 DEF SameInv
<1>3. ASSUME NEW key, NEW val, NEW ttl, NEW next, NEW otherwise,
             Call(h, t, key, val, ttl, next, otherwise)
      PROVE  SameInv'
  <2>1. key \in Keys /\ val \in ValuesOf(key) /\ ttl \in TtlsOf(key)
    BY <1>3 DEF Call
  <2>2. CASE Written(h, key, val, ttl, next)
    <3>1. \A n \in Nodes, k \in Keys : Replayed(n, k)'
      BY <1>1, <2>1, <2>2, ReplayedWritten DEF SameInv
    <3>2. ASSUME NEW g \in Handlers, task'[g] # Idle
          PROVE  HasRead(task[g])'
      <4>1. CASE g = h
        <5>1. task'[g] = next /\ next.pc \notin {"beatMeta", "beatInst"}
          BY <1>1, <1>3, <2>2, <3>2, <4>1 DEF Written, Call
        <5> QED
          BY <5>1 DEF HasRead
      <4>2. CASE g # h
        <5>1. task[g] # Idle /\ task'[g] = [task[g] EXCEPT !.alone = FALSE]
          BY <2>2, <3>2, <4>2 DEF Written
        <5>2. ~task'[g].alone
          BY <1>1, <5>1 DEF Tasks
        <5> QED
          BY <5>2 DEF HasRead
      <4> QED
        BY <4>1, <4>2
    <3> QED
      BY <3>1, <3>2 DEF SameInv
  <2>3. CASE Failed(h, otherwise)
    <3>1. otherwise # Idle => HasRead(otherwise)
      BY <1>3 DEF Call, HasRead
    <3> QED
      BY <1>2, <2>3, <3>1 DEF Failed, Become
  <2>4. Set(h, key, val, ttl, next, otherwise)
    BY <1>3 DEF Call
  <2> QED
    BY <2>2, <2>3, <2>4, SetCases
<1>4. ASSUME NEW key \in {Meta, Inst}, NEW new, Reads(h, t, key, new)
      PROVE  SameInv'
  <2>1. /\ task' = [task EXCEPT ![h] = new] /\ UNCHANGED store
        /\ new.got = Shows(t.node, key) /\ new.alone = (behind[t.node] = << >>)
        /\ \/ key = Meta /\ new.pc = "beatMeta"
           \/ key = Inst /\ new.pc = "beatInst"
    BY <1>4 DEF Reads
  <2>2. t.node \in Nodes /\ key \in Keys
    BY <1>1, KeyFacts DEF TaskTyped, Tasks
  <2>3. ASSUME behind[t.node] = << >>
        PROVE  Shows(Leader, key) \in {NoVal, Shows(t.node, key)}
    <3>1. Replayed(t.node, key)
      BY <2>2 DEF SameInv
    <3>2. ~IsLive(db[Leader][key], now) \/ db[t.node][key] = db[Leader][key]
      BY <2>3, <3>1 DEF Replayed
    <3> QED
      BY <3>2 DEF Shows, Get
  <2>4. HasRead(new)
    BY <2>1, <2>3 DEF HasRead
  <2> QED
    BY <1>2, <2>1, <2>4
<1>5. ASSUME Ends(h, t)
      PROVE  SameInv'
  BY <1>2, <1>5 DEF Ends
<1> QED
  BY <1>3, <1>4, <1>5, StepShape

LEMMA SameNext == TypeInv /\ SameInv /\ [Next]_vars => SameInv'
<1> SUFFICES ASSUME TypeInv, SameInv, [Next]_vars PROVE SameInv'
  OBVIOUS
<1>1. ASSUME NEW h \in Handlers, NEW n \in Nodes, Register(h, n) \/ Heartbeat(h, n)
      PROVE  SameInv'
  <2>1. PICK new : Begins(h, n, new)
    BY <1>1, StartShape
  <2>2. /\ UNCHANGED <<db, behind, now>> /\ ~new.alone /\ task'[h] = new
        /\ \A g \in Handlers \ {h} : task'[g] = task[g]
    BY <2>1 DEF Begins, store, TypeInv, TaskInv
  <2>3. \A g \in Handlers : task'[g] # Idle => HasRead(task[g])'
    BY <2>2 DEF SameInv, HasRead, Shows
  <2>4. \A m \in Nodes, k \in Keys : Replayed(m, k)'
    BY <2>2 DEF SameInv, Replayed
  <2> QED
    BY <2>3, <2>4 DEF SameInv
<1>2. ASSUME NEW m \in Nodes, Apply(m)
      PROVE  SameInv'
  <2>1. m # Leader /\ db'[Leader] = db[Leader] /\ UNCHANGED <<now, task>>
    BY <1>2, AppliedStore, RegistryAssumption DEF Apply, TypeInv
  <2>2. \A n \in Nodes, k \in Keys : Replayed(n, k)'
    BY <1>2, ReplayedApplied DEF SameInv, TypeInv
  <2> QED
    BY <2>1, <2>2 DEF SameInv, HasRead, Shows
<1>3. CASE Tick
  <2>1. now' = now + 1 /\ now \in Nat /\ UNCHANGED <<db, behind, task>>
    BY <1>3 DEF Tick, store, TypeInv, StoreInv
  <2>2. ASSUME NEW k \in Keys, IsLive(db[Leader][k], now')
        PROVE  IsLive(db[Leader][k], now)
    <3>1. db[Leader][k].exp \in Nat
      BY RegistryAssumption DEF TypeInv, StoreInv, Entries
    <3> QED
      BY <2>1, <2>2, <3>1 DEF IsLive
  <2>3. ASSUME NEW n \in Nodes, NEW k \in Keys
        PROVE  Replayed(n, k)'
    <3>1. CASE IsLive(db[Leader][k], now')
      BY <2>1, <2>2, <3>1 DEF SameInv, Replayed
    <3>2. CASE ~IsLive(db[Leader][k], now')
      BY <2>1, <3>2 DEF Replayed
    <3> QED
      BY <3>1, <3>2
  <2>4. \A k \in Keys : Shows(Leader, k)' \in {NoVal, Shows(Leader, k)}
    BY <2>1, <2>2 DEF Shows, Get
  <2>5. \A h \in Handlers : task'[h] # Idle => HasRead(task[h])'
    BY <2>1, <2>4, KeyFacts DEF SameInv, HasRead
  <2> QED
    BY <2>3, <2>5 DEF SameInv
<1>4. CASE UNCHANGED vars
  BY <1>4 DEF vars, store, SameInv, HasRead, Replayed, Shows
<1> QED
  BY <1>1, <1>2, <1>3, <1>4, SameStep DEF Next

(* A write of h changes what the leader shows for the key to its value.    *)
LEMMA KeepsStep ==
  ASSUME TypeInv, SameInv, [Next]_vars, NEW h \in Handlers, task[h] # Idle, task[h].alone,
         NEW key \in {Meta, Inst},
         \/ key = Meta /\ task[h].pc = "beatMeta" /\ task'[h].pc # "beatMeta"
         \/ key = Inst /\ task[h].pc = "beatInst" /\ task'[h].pc # "beatInst" /\ task[h].info.svc,
         Shows(Leader, key) # NoVal
  PROVE  Shows(Leader, key)' = Shows(Leader, key)
<1> DEFINE t == task[h]
<1>1. /\ StoreInv /\ TaskInv /\ t \in Tasks /\ task \in [Handlers -> Tasks \cup {Idle}]
      /\ t.got = Shows(Leader, key) /\ Leader \in Nodes /\ t.pc \in {"beatMeta", "beatInst"}
      /\ task'[h].pc # t.pc
  BY RegistryAssumption DEF TypeInv, TaskInv, TaskTyped, SameInv, HasRead
<1>2. CASE Step(h)
  <2>1. PICK k, val, ttl, next, otherwise : Call(h, t, k, val, ttl, next, otherwise)
    BY <1>1, <1>2, StepShape DEF Reads, Ends
  <2>2. /\ k = key /\ k \in Keys /\ val \in ValuesOf(k) /\ ttl \in TtlsOf(k) /\ val = t.got
        /\ now' = now
    BY <1>1, <1>2, <2>1 DEF Call, NewMeta, NewState, Step
  <2>3. CASE Written(h, k, val, ttl, next)
    <3> DEFINE c == SetExCommand(k, val, now, ttl)
    <3>1. c.val = val /\ now < Life(c) /\ val # NoVal /\ db'[Leader][k] = Entry(c)
      BY <1>1, <2>2, <2>3, WrittenStore
    <3>2. IsLive(db'[Leader][k], now)
      BY <3>1 DEF IsLive, Entry
    <3> QED
      BY <1>1, <2>2, <3>1, <3>2 DEF Shows, Get, Entry
  <2>4. CASE Failed(h, otherwise)
    BY <2>2, <2>4 DEF Failed, store, Shows
  <2>5. Set(h, k, val, ttl, next, otherwise)
    BY <2>1 DEF Call
  <2> QED
    BY <2>3, <2>4, <2>5, SetCases
<1>3. ASSUME NEW g \in Handlers \ {h}, Step(g)
      PROVE  FALSE
  <2>1. task'[h] = task[h] \/ task'[h] = [task[h] EXCEPT !.alone = FALSE]
    <3>1. \/ \E k, val, ttl, next, otherwise : Call(g, task[g], k, val, ttl, next, otherwise)
          \/ \E k \in {Meta, Inst} : \E new : Reads(g, task[g], k, new)
          \/ Ends(g, task[g])
      BY <1>3, StepShape
    <3>2. ASSUME NEW k, NEW val, NEW ttl, NEW next, NEW otherwise,
                 Call(g, task[g], k, val, ttl, next, otherwise)
          PROVE  task'[h] = task[h] \/ task'[h] = [task[h] EXCEPT !.alone = FALSE]
      <4>1. Written(g, k, val, ttl, next) \/ Failed(g, otherwise)
        BY <3>2, SetCases DEF Call
      <4>2. CASE Written(g, k, val, ttl, next)
        BY <1>3, <4>2 DEF Written
      <4>3. CASE Failed(g, otherwise)
        BY <1>1, <1>3, <4>3 DEF Failed, Become
      <4> QED
        BY <4>1, <4>2, <4>3
    <3> QED
      BY <1>1, <1>3, <3>1, <3>2 DEF Reads, Ends
  <2> QED
    BY <1>1, <2>1 DEF Tasks
<1>4. ASSUME NEW g \in Handlers, NEW n \in Nodes, Register(g, n) \/ Heartbeat(g, n)
      PROVE  FALSE
  <2>1. task[g] = Idle
    BY <1>4 DEF Register, Heartbeat, Start
  <2>2. \E new : task' = [task EXCEPT ![g] = new]
    BY <1>4, StartShape DEF Begins
  <2> QED
    BY <1>1, <2>1, <2>2
<1>5. ASSUME task' = task
      PROVE  FALSE
  BY <1>1, <1>5
<1> QED
  BY <1>2, <1>3, <1>4, <1>5 DEF Next, Apply, Tick, vars

(* A heartbeat that read what nobody has written since leaves the metadata *)
(* and the state as they are: a node that has applied everything shows     *)
(* what the leader does, and the heartbeat writes that back.               *)
THEOREM KeepsContentHolds == Spec => KeepsContent
<1> DEFINE Kept ==
      \A h \in Handlers : task[h] # Idle /\ task[h].alone =>
        /\ Keeps(h, Meta, "beatMeta")
        /\ task[h].pc = "beatInst" /\ task[h].info.svc => Keeps(h, Inst, "beatInst")
<1>1. Init => SameInv
  <2> SUFFICES ASSUME Init PROVE SameInv
    OBVIOUS
  <2>1. \A n \in Nodes, k \in Keys : ~IsLive(db[Leader][k], now)
    BY RegistryAssumption DEF Init, NoEntry, IsLive
  <2> QED
    BY <2>1 DEF Init, SameInv, Replayed
<1>2. TypeInv /\ SameInv /\ [Next]_vars => [Kept]_vars
  BY KeepsStep DEF Keeps
<1>3. KeepsContent <=> [][Kept]_vars
  BY DEF KeepsContent
<1> QED
  BY <1>1, <1>2, <1>3, Typed, SameNext, PTL DEF Spec
=============================================================================
