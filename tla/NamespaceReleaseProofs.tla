----------------------- MODULE NamespaceReleaseProofs -----------------------
(***************************************************************************)
(* Theorems about NamespaceRelease, for any nodes, handlers and texts:     *)
(* with every fault, that the handlers keep their types and that what they *)
(* release and file was there before; without swallowed errors, that they  *)
(* push what was committed; one request after the other, that they         *)
(* implement VersionedFile.                                                *)
(***************************************************************************)
EXTENDS NamespaceRelease, FiniteSetTheorems, WellFoundedInduction, TLAPS

(* A node shows what is committed, and a handler has read or was given     *)
(* what it is about to write.                                              *)
InHand ==
  /\ \A n \in Nodes : applied[n] <= Len(log)
  /\ \A h \in Handlers :
       /\ pc[h] \in {"saveRead", "saveWrite", "writeHistory", "writeCurrent", "push"}
            => text[h] \in Files
       /\ pc[h] \in {"readDraft", "writeHistory", "writeCurrent", "push"}
            => cur[h] \in Files

TypeInv == TypeOK /\ InHand

-----------------------------------------------------------------------------
(* Reads.                                                                  *)

(* A bounded set of numbers that is not empty has a greatest element.      *)
LEMMA NatMaximum ==
  ASSUME NEW S, S \subseteq Nat, S # {}, NEW m \in Nat, \A i \in S : i <= m
  PROVE  \E x \in S : \A y \in S : y <= x
<1> DEFINE T == {n \in Nat : n <= m /\ m - n \in S}
<1> DEFINE Less == {p \in Nat \X Nat : p[1] < p[2]}
<1>1. T \subseteq Nat /\ T # {}
  <2> PICK s \in S : TRUE
    OBVIOUS
  <2>1. m - s \in T /\ m - (m - s) = s
    OBVIOUS
  <2> QED
    BY <2>1
<1> HIDE DEF T
<1>2. IsWellFoundedOn(Less, Nat)
  BY NatLessThanWellFounded, Zenon DEF OpToRel
<1>3. PICK x \in T : \A y \in T : ~ (<<y, x>> \in Less)
  BY <1>1, <1>2, WFMin
<1>4. \A y \in T : ~ (y < x)
  BY <1>1, <1>3
<1>5. \A y \in S : m - y \in T
  BY DEF T
<1>6. m - x \in S /\ \A y \in S : y <= m - x
  BY <1>1, <1>4, <1>5 DEF T
<1> QED
  BY <1>6

(* What ValueAt finds is the newest write of the key.                      *)
LEMMA NewestWrite ==
  ASSUME NEW key, NEW i \in Nat, WritesOf(key, i) # {}
  PROVE  \E j \in WritesOf(key, i) :
           /\ \A l \in WritesOf(key, i) : l <= j
           /\ ValueAt(key, i) = log[j].val
<1>1. WritesOf(key, i) \subseteq Nat /\ \A j \in WritesOf(key, i) : j <= i
  BY DEF WritesOf
<1>2. \E j \in WritesOf(key, i) : \A l \in WritesOf(key, i) : l <= j
  BY <1>1, NatMaximum
<1> DEFINE top == CHOOSE j \in WritesOf(key, i) : \A l \in WritesOf(key, i) : l <= j
<1>3. top \in WritesOf(key, i) /\ \A l \in WritesOf(key, i) : l <= top
  BY <1>2
<1>4. ValueAt(key, i) = log[top].val
  BY DEF ValueAt
<1> QED
  BY <1>3, <1>4

(* A read finds nothing or what was written.                               *)
LEMMA ReadIsWritten ==
  ASSUME TypeInv, NEW h \in Handlers, NEW key, Get(h, key) # NoVal
  PROVE  /\ Get(h, key) \in Files
         /\ \E j \in 1..Len(log) : log[j].key = key /\ log[j].val = Get(h, key)
<1> DEFINE i == applied[node[h]]
<1>1. i \in Nat /\ i <= Len(log) /\ Len(log) \in Nat
  BY DEF TypeInv, TypeOK, InHand
<1>2. WritesOf(key, i) # {}
  BY DEF Get, ValueAt
<1> HIDE DEF i
<1>3. PICK j \in WritesOf(key, i) : ValueAt(key, i) = log[j].val
  BY <1>1, <1>2, NewestWrite
<1>4. j \in 1..Len(log) /\ log[j].key = key
  BY <1>1 DEF WritesOf
<1>5. log[j] \in Writes
  BY <1>4 DEF TypeInv, TypeOK
<1> QED
  BY <1>3, <1>4, <1>5 DEF Get, i, Writes

-----------------------------------------------------------------------------
(* Types.                                                                  *)

LEMMA InitType == Init => TypeInv
  BY ReleaseAssumption DEF Init, TypeInv, TypeOK, InHand, Steps

(* A write that is committed leaves a log of writes, of which every node   *)
(* has applied a part.                                                     *)
LEMMA CommitType ==
  ASSUME TypeInv, NEW h \in Handlers, NEW w \in Writes, Commit(h, w) \/ UNCHANGED store
  PROVE  /\ log' \in Seq(Writes) /\ applied' \in [Nodes -> Nat] /\ orphans' \subseteq Writes
         /\ \A n \in Nodes : applied'[n] <= Len(log')
<1> USE ReleaseAssumption DEF TypeInv, TypeOK, InHand
<1>1. CASE UNCHANGED store
  BY <1>1 DEF store
<1>2. CASE Commit(h, w)
  <2>1. log' \in Seq(Writes) /\ Len(log') = Len(log) + 1 /\ Len(log) \in Nat
    BY <1>2 DEF Commit
  <2>2. applied' \in [Nodes -> Nat] /\ \A n \in Nodes : applied'[n] <= Len(log')
    BY <1>2, <2>1 DEF Commit
  <2> QED
    BY <1>2, <2>1, <2>2 DEF Commit
<1> QED
  BY <1>1, <1>2

(* So does a call of Set, whatever becomes of it; then its handler goes on *)
(* or is done.                                                             *)
LEMMA SetType ==
  ASSUME TypeInv, NEW h \in Handlers, NEW w \in Writes, NEW next \in Steps, Set(h, w, next)
  PROVE  /\ log' \in Seq(Writes) /\ applied' \in [Nodes -> Nat] /\ orphans' \subseteq Writes
         /\ \A n \in Nodes : applied'[n] <= Len(log')
         /\ pc' \in [Handlers -> Steps]
         /\ pc' = [pc EXCEPT ![h] = next] \/ pc' = [pc EXCEPT ![h] = "idle"]
<1>1. pc' = [pc EXCEPT ![h] = next] \/ pc' = [pc EXCEPT ![h] = "idle"]
  BY DEF Set, GoTo
<1>2. pc' \in [Handlers -> Steps]
  BY <1>1 DEF TypeInv, TypeOK, Steps
<1>3. \/ Commit(h, w) \/ UNCHANGED store
      \/ orphans' = orphans \cup {w} /\ UNCHANGED <<log, applied>>
  BY DEF Set
<1>4. CASE orphans' = orphans \cup {w} /\ UNCHANGED <<log, applied>>
  BY <1>1, <1>2, <1>4 DEF TypeInv, TypeOK, InHand
<1> QED
  BY <1>1, <1>2, <1>3, <1>4, CommitType

(* The handlers keep the types.                                            *)
LEMMA HandlerType ==
  ASSUME TypeInv, NEW h \in Handlers,
         \/ CreateRead(h) \/ CreateWrite(h) \/ SaveRead(h) \/ SaveWrite(h)
         \/ ReadCurrent(h) \/ ReadDraft(h) \/ WriteHistory(h) \/ WriteCurrent(h)
         \/ Push(h) \/ DeleteDraft(h)
  PROVE  TypeInv'
<1> USE ReleaseAssumption DEF TypeInv, TypeOK, InHand, store, locals, LocalStep, GoTo, Steps
<1>1. CASE CreateRead(h)
  BY <1>1 DEF CreateRead
<1>2. CASE CreateWrite(h)
  <2>1. Write("current", 0, Blank) \in Writes
    BY DEF Write, Writes
  <2>2. Set(h, Write("current", 0, Blank), "idle")
    BY <1>2 DEF CreateWrite
  <2>3. /\ log' \in Seq(Writes) /\ applied' \in [Nodes -> Nat] /\ orphans' \subseteq Writes
        /\ \A n \in Nodes : applied'[n] <= Len(log')
        /\ pc' \in [Handlers -> Steps]
        /\ pc' = [pc EXCEPT ![h] = "idle"] \/ pc' = [pc EXCEPT ![h] = "idle"]
    BY <2>1, <2>2, SetType
  <2> QED
    BY <1>2, <2>3 DEF CreateWrite
<1>3. CASE SaveRead(h)
  BY <1>3 DEF SaveRead
<1>4. CASE SaveWrite(h)
  <2>1. Write("draft", 0, text[h]) \in Writes
    BY <1>4 DEF Write, Writes, SaveWrite
  <2>2. Set(h, Write("draft", 0, text[h]), "idle")
    BY <1>4 DEF SaveWrite
  <2>3. /\ log' \in Seq(Writes) /\ applied' \in [Nodes -> Nat] /\ orphans' \subseteq Writes
        /\ \A n \in Nodes : applied'[n] <= Len(log')
        /\ pc' \in [Handlers -> Steps]
        /\ pc' = [pc EXCEPT ![h] = "idle"] \/ pc' = [pc EXCEPT ![h] = "idle"]
    BY <2>1, <2>2, SetType
  <2> QED
    BY <1>4, <2>3 DEF SaveWrite
<1>5. CASE ReadCurrent(h)
  BY <1>5, ReadIsWritten DEF ReadCurrent
<1>6. CASE ReadDraft(h)
  <2> DEFINE new == Get(h, "draft")
  <2>1. CASE NothingToRelease(cur[h], new)
    BY <1>6, <2>1 DEF ReadDraft
  <2>2. CASE ~NothingToRelease(cur[h], new)
    <3>1. new \in Files
      BY <2>2, ReadIsWritten DEF NothingToRelease
    <3> QED
      BY <1>6, <2>2, <3>1 DEF ReadDraft
  <2> QED
    BY <2>1, <2>2
<1>7. CASE WriteHistory(h)
  <2>1. Write("history", stamp[h], cur[h]) \in Writes
    BY <1>7 DEF Write, Writes, WriteHistory
  <2>2. Set(h, Write("history", stamp[h], cur[h]), "writeCurrent")
    BY <1>7 DEF WriteHistory
  <2>3. /\ log' \in Seq(Writes) /\ applied' \in [Nodes -> Nat] /\ orphans' \subseteq Writes
        /\ \A n \in Nodes : applied'[n] <= Len(log')
        /\ pc' \in [Handlers -> Steps]
        /\ pc' = [pc EXCEPT ![h] = "writeCurrent"] \/ pc' = [pc EXCEPT ![h] = "idle"]
    BY <2>1, <2>2, SetType
  <2> QED
    BY <1>7, <2>3 DEF WriteHistory
<1>8. CASE WriteCurrent(h)
  <2>1. Write("current", 0, text[h]) \in Writes
    BY <1>8 DEF Write, Writes, WriteCurrent
  <2>2. Set(h, Write("current", 0, text[h]), "push")
    BY <1>8 DEF WriteCurrent
  <2>3. /\ log' \in Seq(Writes) /\ applied' \in [Nodes -> Nat] /\ orphans' \subseteq Writes
        /\ \A n \in Nodes : applied'[n] <= Len(log')
        /\ pc' \in [Handlers -> Steps]
        /\ pc' = [pc EXCEPT ![h] = "push"] \/ pc' = [pc EXCEPT ![h] = "idle"]
    BY <2>1, <2>2, SetType
  <2> QED
    BY <1>8, <2>3 DEF WriteCurrent
<1>9. CASE Push(h)
  BY <1>9 DEF Push
<1>10. CASE DeleteDraft(h)
  BY <1>10 DEF DeleteDraft
<1> QED
  BY <1>1, <1>2, <1>3, <1>4, <1>5, <1>6, <1>7, <1>8, <1>9, <1>10

(* So does everything else.                                                *)
LEMMA NextType == TypeInv /\ [Next]_vars => TypeInv'
<1> SUFFICES ASSUME TypeInv, [Next]_vars PROVE TypeInv'
  OBVIOUS
<1> USE ReleaseAssumption DEF TypeInv, TypeOK, InHand, store, locals, GoTo, Steps
<1>1. ASSUME NEW h \in Handlers, NEW n \in Serving,
             Create(h, n) \/ (\E f \in Files : Save(h, n, f)) \/ Release(h, n)
      PROVE  TypeInv'
  <2> PICK step \in {"createRead", "saveRead", "readCurrent"}, f \in Files \cup {NoVal} :
        Start(h, n, step, f) /\ (step = "saveRead" => f \in Files)
    BY <1>1 DEF Create, Save, Release
  <2> QED
    BY DEF Start
<1>2. ASSUME NEW h \in Handlers,
             \/ CreateRead(h) \/ CreateWrite(h) \/ SaveRead(h) \/ SaveWrite(h)
             \/ ReadCurrent(h) \/ ReadDraft(h) \/ WriteHistory(h) \/ WriteCurrent(h)
             \/ Push(h) \/ DeleteDraft(h)
      PROVE  TypeInv'
  BY <1>2, HandlerType
<1>3. ASSUME NEW w \in orphans, CommitOrphan(w)
      PROVE  TypeInv'
  <2>1. log' \in Seq(Writes) /\ Len(log') = Len(log) + 1
    BY <1>3 DEF CommitOrphan
  <2> QED
    BY <1>3, <2>1 DEF CommitOrphan
<1>4. ASSUME NEW n \in Nodes, Apply(n)
      PROVE  TypeInv'
  BY <1>4 DEF Apply
<1>5. ASSUME NEW n \in Nodes, Crash(n)
      PROVE  TypeInv'
  BY <1>5 DEF Crash
<1>6. CASE Tick
  BY <1>6 DEF Tick
<1>7. CASE UNCHANGED vars
  BY <1>7 DEF vars
<1> QED
  BY <1>1, <1>2, <1>3, <1>4, <1>5, <1>6, <1>7 DEF Next

(* With every fault, the handlers and the log keep their types.            *)
THEOREM TypeCorrect == Spec => []TypeOK
<1>1. Spec => []TypeInv
  BY InitType, NextType, PTL DEF Spec
<1>2. TypeInv => TypeOK
  BY DEF TypeInv
<1> QED
  BY <1>1, <1>2, PTL

-----------------------------------------------------------------------------
(* Where texts come from.                                                  *)

Logged(key, v) == \E j \in 1..Len(log) : log[j].key = key /\ log[j].val = v

(* The log already holds what makes w legitimate.                          *)
Licensed(w) ==
  /\ w.key = "current" /\ w.val # Blank => Logged("draft", w.val)
  /\ w.key = "history" => Logged("current", w.val)

(* A release has read what it will file and what it will release, which    *)
(* stay in the log however old they become.                                *)
Sources ==
  /\ \A h \in Handlers :
       /\ pc[h] \in {"readDraft", "writeHistory", "writeCurrent"} => Logged("current", cur[h])
       /\ pc[h] \in {"writeHistory", "writeCurrent"} => Logged("draft", text[h])
  /\ \A w \in orphans : Licensed(w)

ProvenanceInv == Provenance /\ Sources

(* A write that is committed takes nothing away, and a legitimate one      *)
(* keeps Provenance.                                                       *)
LEMMA LogGrows ==
  ASSUME TypeInv, NEW w \in Writes, log' = Append(log, w) \/ log' = log
  PROVE  /\ \A key, v : Logged(key, v) => Logged(key, v)'
         /\ \A x : Licensed(x) => Licensed(x)'
<1>1. log \in Seq(Writes) /\ Len(log) \in Nat
  BY DEF TypeInv, TypeOK
<1>2. \A j \in 1..Len(log) : j \in 1..Len(log') /\ log'[j] = log[j]
  BY <1>1
<1>3. \A key, v : Logged(key, v) => Logged(key, v)'
  BY <1>2 DEF Logged
<1> QED
  BY <1>3 DEF Licensed

LEMMA LicensedWrite ==
  ASSUME TypeInv, Provenance, NEW w \in Writes, Licensed(w), log' = Append(log, w)
  PROVE  Provenance'
<1>1. log \in Seq(Writes) /\ Len(log) \in Nat
  BY DEF TypeInv, TypeOK
<1>2. Len(log') = Len(log) + 1 /\ log'[Len(log) + 1] = w
  BY <1>1
<1>3. \A j \in 1..Len(log) : log'[j] = log[j]
  BY <1>1
<1> SUFFICES ASSUME NEW i \in 1..Len(log')
             PROVE  /\ log'[i].key = "current" /\ log'[i].val # Blank
                         => \E j \in 1..(i - 1) : log'[j].key = "draft" /\ log'[j].val = log'[i].val
                    /\ log'[i].key = "history"
                         => \E j \in 1..(i - 1) : log'[j].key = "current" /\ log'[j].val = log'[i].val
  BY Zenon DEF Provenance, WrittenBefore
<1>4. CASE i = Len(log) + 1
  BY <1>1, <1>2, <1>3, <1>4 DEF Licensed, Logged
<1>5. CASE i \in 1..Len(log)
  <2>1. \A j \in 1..(i - 1) : log'[j] = log[j]
    BY <1>1, <1>3, <1>5
  <2> QED
    BY <1>3, <1>5, <2>1 DEF Provenance, WrittenBefore
<1> QED
  BY <1>1, <1>2, <1>4, <1>5

(* A call of Set with a legitimate write keeps Provenance and what the     *)
(* other handlers rely on.                                                 *)
LEMMA SetProvenance ==
  ASSUME TypeInv, ProvenanceInv, NEW h \in Handlers, NEW w \in Writes, Licensed(w),
         NEW next \in Steps, Set(h, w, next), UNCHANGED <<text, cur>>,
         next \in {"writeHistory", "writeCurrent"} =>
           Logged("current", cur[h]) /\ Logged("draft", text[h]),
         next # "readDraft"
  PROVE  ProvenanceInv'
<1>1. \/ log' = Append(log, w) /\ orphans' = orphans
      \/ log' = log /\ orphans' \subseteq orphans \cup {w}
  BY DEF Set, Commit, store
<1>2. pc' = [pc EXCEPT ![h] = next] \/ pc' = [pc EXCEPT ![h] = "idle"]
  BY SetType
<1>3. /\ \A key, v : Logged(key, v) => Logged(key, v)'
      /\ \A x : Licensed(x) => Licensed(x)'
  BY <1>1, LogGrows
<1>4. Provenance'
  <2>1. CASE log' = Append(log, w)
    BY <2>1, LicensedWrite DEF ProvenanceInv
  <2>2. CASE log' = log
    BY <2>2 DEF ProvenanceInv, Provenance, WrittenBefore
  <2> QED
    BY <1>1, <2>1, <2>2
<1>5. \A x \in orphans' : Licensed(x)'
  BY <1>1, <1>3 DEF ProvenanceInv, Sources
<1>6. ASSUME NEW g \in Handlers
      PROVE  /\ pc'[g] \in {"readDraft", "writeHistory", "writeCurrent"}
                  => Logged("current", cur[g])'
             /\ pc'[g] \in {"writeHistory", "writeCurrent"} => Logged("draft", text[g])'
  <2>1. cur' = cur /\ text' = text /\ pc \in [Handlers -> Steps]
    BY DEF TypeInv, TypeOK
  <2>2. pc'[g] = pc[g] \/ (g = h /\ pc'[g] \in {next, "idle"})
    BY <1>2, <2>1
  <2>3. /\ pc'[g] \in {"readDraft", "writeHistory", "writeCurrent"} => Logged("current", cur[g])
        /\ pc'[g] \in {"writeHistory", "writeCurrent"} => Logged("draft", text[g])
    BY <2>2 DEF ProvenanceInv, Sources
  <2> QED
    BY <1>3, <2>1, <2>3
<1> QED
  BY <1>4, <1>5, <1>6 DEF ProvenanceInv, Sources

(* A step that writes nothing keeps ProvenanceInv, as long as its handlers *)
(* have read what they go on with.                                         *)
LEMMA ReadProvenance ==
  ASSUME TypeInv, ProvenanceInv, UNCHANGED <<log, orphans>>,
         \A g \in Handlers :
           /\ pc'[g] \in {"readDraft", "writeHistory", "writeCurrent"} => Logged("current", cur'[g])
           /\ pc'[g] \in {"writeHistory", "writeCurrent"} => Logged("draft", text'[g])
  PROVE  ProvenanceInv'
<1>1. Provenance' /\ \A w \in orphans' : Licensed(w)'
  BY DEF ProvenanceInv, Provenance, WrittenBefore, Sources, Licensed, Logged
<1> QED
  BY <1>1 DEF ProvenanceInv, Sources, Logged

(* The handlers keep ProvenanceInv.                                        *)
LEMMA HandlerProvenance ==
  ASSUME TypeInv, ProvenanceInv, NEW h \in Handlers,
         \/ CreateRead(h) \/ CreateWrite(h) \/ SaveRead(h) \/ SaveWrite(h)
         \/ ReadCurrent(h) \/ ReadDraft(h) \/ WriteHistory(h) \/ WriteCurrent(h)
         \/ Push(h) \/ DeleteDraft(h)
  PROVE  ProvenanceInv'
<1> USE ReleaseAssumption
<1> DEFINE Quotes == \A g \in Handlers :
             /\ pc'[g] \in {"readDraft", "writeHistory", "writeCurrent"} => Logged("current", cur'[g])
             /\ pc'[g] \in {"writeHistory", "writeCurrent"} => Logged("draft", text'[g])
<1>0. /\ pc \in [Handlers -> Steps] /\ text \in [Handlers -> Files \cup {NoVal}]
      /\ cur \in [Handlers -> Files \cup {NoVal}] /\ stamp \in [Handlers -> Nat]
  BY DEF TypeInv, TypeOK
<1>1. CASE CreateRead(h) \/ SaveRead(h) \/ Push(h) \/ DeleteDraft(h)
  <2>1. UNCHANGED <<log, orphans, text, cur>>
    BY <1>1 DEF CreateRead, SaveRead, Push, DeleteDraft, LocalStep, store, locals
  <2>2. PICK step \in {"createWrite", "saveWrite", "deleteDraft", "idle"} :
          pc' = [pc EXCEPT ![h] = step]
    BY <1>1 DEF CreateRead, SaveRead, Push, DeleteDraft, LocalStep, GoTo
  <2>3. Quotes
    BY <1>0, <2>1, <2>2 DEF ProvenanceInv, Sources
  <2> QED
    BY <2>1, <2>3, ReadProvenance
<1>2. CASE CreateWrite(h)
  <2> DEFINE w == Write("current", 0, Blank)
  <2>1. w \in Writes /\ Licensed(w)
    BY DEF Write, Writes, Licensed
  <2>2. Set(h, w, "idle") /\ UNCHANGED <<text, cur>>
    BY <1>2 DEF CreateWrite, locals
  <2> QED
    BY <2>1, <2>2, SetProvenance DEF Steps
<1>3. CASE SaveWrite(h)
  <2> DEFINE w == Write("draft", 0, text[h])
  <2>1. w \in Writes /\ Licensed(w)
    BY <1>3 DEF Write, Writes, Licensed, SaveWrite, TypeInv, InHand
  <2>2. Set(h, w, "idle") /\ UNCHANGED <<text, cur>>
    BY <1>3 DEF SaveWrite, locals
  <2> QED
    BY <2>1, <2>2, SetProvenance DEF Steps
<1>4. CASE ReadCurrent(h)
  <2> DEFINE old == Get(h, "current")
  <2>1. old # NoVal => Logged("current", old)
    BY ReadIsWritten DEF Logged
  <2>2. UNCHANGED <<log, orphans, text>> /\ cur' = [cur EXCEPT ![h] = old]
    BY <1>4 DEF ReadCurrent, LocalStep, store
  <2>3. pc' = [pc EXCEPT ![h] = IF old = NoVal THEN "idle" ELSE "readDraft"]
    BY <1>4 DEF ReadCurrent, LocalStep, GoTo
  <2>4. Quotes
    BY <1>0, <2>1, <2>2, <2>3 DEF ProvenanceInv, Sources
  <2> QED
    BY <2>2, <2>4, ReadProvenance
<1>5. CASE ReadDraft(h)
  <2> DEFINE new == Get(h, "draft")
  <2>1. UNCHANGED <<log, orphans, cur>> /\ pc[h] = "readDraft"
    BY <1>5 DEF ReadDraft, LocalStep, store, locals
  <2>2. CASE NothingToRelease(cur[h], new)
    <3>1. text' = text /\ pc' = [pc EXCEPT ![h] = "idle"]
      BY <1>5, <2>2 DEF ReadDraft, LocalStep, GoTo, locals
    <3>2. Quotes
      BY <1>0, <2>1, <3>1 DEF ProvenanceInv, Sources
    <3> QED
      BY <2>1, <3>2, ReadProvenance
  <2>3. CASE ~NothingToRelease(cur[h], new)
    <3>1. text' = [text EXCEPT ![h] = new] /\ pc' = [pc EXCEPT ![h] = "writeHistory"]
      BY <1>5, <2>3 DEF ReadDraft, LocalStep, GoTo
    <3>2. Logged("draft", new)
      BY <2>3, ReadIsWritten DEF Logged, NothingToRelease
    <3>3. Quotes
      BY <1>0, <2>1, <3>1, <3>2 DEF ProvenanceInv, Sources
    <3> QED
      BY <2>1, <3>3, ReadProvenance
  <2> QED
    BY <2>2, <2>3
<1>6. CASE WriteHistory(h)
  <2> DEFINE w == Write("history", stamp[h], cur[h])
  <2>1. Logged("current", cur[h]) /\ Logged("draft", text[h])
    BY <1>6 DEF WriteHistory, ProvenanceInv, Sources
  <2>2. w \in Writes /\ Licensed(w)
    BY <1>0, <1>6, <2>1 DEF Write, Writes, Licensed, WriteHistory, TypeInv, InHand
  <2>3. Set(h, w, "writeCurrent") /\ UNCHANGED <<text, cur>>
    BY <1>6 DEF WriteHistory, locals
  <2> QED
    BY <2>1, <2>2, <2>3, SetProvenance DEF Steps
<1>7. CASE WriteCurrent(h)
  <2> DEFINE w == Write("current", 0, text[h])
  <2>1. Logged("draft", text[h])
    BY <1>7 DEF WriteCurrent, ProvenanceInv, Sources
  <2>2. w \in Writes /\ Licensed(w)
    BY <1>7, <2>1 DEF Write, Writes, Licensed, WriteCurrent, TypeInv, InHand
  <2>3. Set(h, w, "push") /\ UNCHANGED <<text, cur>>
    BY <1>7 DEF WriteCurrent, locals
  <2> QED
    BY <2>2, <2>3, SetProvenance DEF Steps
<1> QED
  BY <1>1, <1>2, <1>3, <1>4, <1>5, <1>6, <1>7

(* So do requests, late writes, replication, crashes and time.             *)
LEMMA NextProvenance == TypeInv /\ ProvenanceInv /\ [Next]_vars => ProvenanceInv'
<1> SUFFICES ASSUME TypeInv, ProvenanceInv, [Next]_vars PROVE ProvenanceInv'
  OBVIOUS
<1> USE DEF store, locals
<1>1. ASSUME NEW h \in Handlers, NEW n \in Serving,
             Create(h, n) \/ (\E f \in Files : Save(h, n, f)) \/ Release(h, n)
      PROVE  ProvenanceInv'
  <2> PICK step \in {"createRead", "saveRead", "readCurrent"}, f \in Files \cup {NoVal} :
        Start(h, n, step, f)
    BY <1>1, ReleaseAssumption DEF Create, Save, Release
  <2>1. UNCHANGED <<log, orphans>> /\ pc' = [pc EXCEPT ![h] = step]
    BY DEF Start, GoTo
  <2>2. \A g \in Handlers : g # h => cur'[g] = cur[g] /\ text'[g] = text[g]
    BY DEF Start, TypeInv, TypeOK
  <2>3. \A g \in Handlers :
          pc'[g] \in {"readDraft", "writeHistory", "writeCurrent"} => g # h /\ pc'[g] = pc[g]
    BY <2>1 DEF TypeInv, TypeOK
  <2> QED
    BY <2>1, <2>2, <2>3, ReadProvenance DEF ProvenanceInv, Sources
<1>2. ASSUME NEW h \in Handlers,
             \/ CreateRead(h) \/ CreateWrite(h) \/ SaveRead(h) \/ SaveWrite(h)
             \/ ReadCurrent(h) \/ ReadDraft(h) \/ WriteHistory(h) \/ WriteCurrent(h)
             \/ Push(h) \/ DeleteDraft(h)
      PROVE  ProvenanceInv'
  BY <1>2, HandlerProvenance
<1>3. ASSUME NEW w \in orphans, CommitOrphan(w)
      PROVE  ProvenanceInv'
  <2>1. w \in Writes /\ Licensed(w) /\ log' = Append(log, w)
    BY <1>3 DEF TypeInv, TypeOK, ProvenanceInv, Sources, CommitOrphan
  <2>2. Provenance'
    BY <2>1, LicensedWrite DEF ProvenanceInv
  <2>3. /\ \A key, v : Logged(key, v) => Logged(key, v)'
        /\ \A x : Licensed(x) => Licensed(x)'
    BY <2>1, LogGrows
  <2>4. UNCHANGED <<pc, cur, text>> /\ orphans' \subseteq orphans
    BY <1>3 DEF CommitOrphan
  <2> QED
    BY <2>2, <2>3, <2>4 DEF ProvenanceInv, Sources
<1>4. ASSUME NEW n \in Nodes, Crash(n)
      PROVE  ProvenanceInv'
  <2>1. \A h \in Handlers : pc'[h] = pc[h] \/ pc'[h] = "idle"
    BY <1>4 DEF Crash
  <2> QED
    BY <1>4, <2>1, ReadProvenance DEF Crash, ProvenanceInv, Sources
<1>5. CASE (\E n \in Nodes : Apply(n)) \/ Tick \/ UNCHANGED vars
  <2>1. UNCHANGED <<log, orphans, pc, cur, text>>
    BY <1>5 DEF Apply, Tick, vars
  <2> QED
    BY <2>1, ReadProvenance DEF ProvenanceInv, Sources
<1> QED
  BY <1>1, <1>2, <1>3, <1>4, <1>5 DEF Next

(* Only saved drafts are released and only current texts are filed: with   *)
(* every fault, any number of requests at once and on any nodes.           *)
THEOREM ProvenanceHolds == Spec => []Provenance
<1>1. Init => ProvenanceInv
  BY DEF Init, ProvenanceInv, Provenance, Sources
<1>2. Spec => []TypeInv
  BY InitType, NextType, PTL DEF Spec
<1>3. Spec => []ProvenanceInv
  BY <1>1, <1>2, NextProvenance, PTL DEF Spec
<1>4. ProvenanceInv => Provenance
  BY DEF ProvenanceInv
<1> QED
  BY <1>3, <1>4, PTL

-----------------------------------------------------------------------------
(* What applications are told.                                             *)

(* A write that is reported as done was committed.                         *)
Truthful == "swallowed" \notin Faults \/ Serving \subseteq {Leader}

(* A handler runs where requests are taken; whoever is about to push has   *)
(* committed what it pushes.                                               *)
PushInv ==
  /\ \A h \in Handlers : node[h] \in Serving \cup {Leader}
  /\ \A h \in Handlers : pc[h] = "push" => Logged("current", text[h])
  /\ PushedWasCurrent

(* A handler that goes on after a write has committed it.                  *)
LEMMA TruthfulSet ==
  ASSUME Truthful, TypeInv, PushInv, NEW h \in Handlers, NEW w \in Writes,
         NEW next \in Steps, Set(h, w, next)
  PROVE  \/ Commit(h, w) /\ pc' = [pc EXCEPT ![h] = next]
         \/ (log' = Append(log, w) \/ log' = log) /\ pc' = [pc EXCEPT ![h] = "idle"]
<1>1. "swallowed" \in Faults => node[h] = Leader
  BY DEF Truthful, PushInv
<1> QED
  BY <1>1 DEF Set, GoTo, Commit, store

(* The three parts of PushInv grow with the log and with what is pushed.   *)
LEMMA PushKept ==
  ASSUME TypeInv, PushInv,
         NEW w \in Writes, log' = Append(log, w) \/ log' = log,
         UNCHANGED <<pushes, text>>,
         \A g \in Handlers : node'[g] \in Serving \cup {Leader},
         \A g \in Handlers : pc'[g] = "push" =>
           pc[g] = "push" \/ (w = Write("current", 0, text[g]) /\ log' = Append(log, w))
  PROVE  PushInv'
<1>1. \A key, v : Logged(key, v) => Logged(key, v)'
  BY LogGrows
<1>2. PushedWasCurrent'
  <2>1. \A i \in 1..Len(pushes) : Logged("current", pushes[i].to)'
    BY <1>1 DEF PushInv, PushedWasCurrent, Logged
  <2> QED
    BY <2>1 DEF PushedWasCurrent, Logged
<1>3. log' = Append(log, w) => Logged(w.key, w.val)'
  <2>1. log \in Seq(Writes) /\ Len(log) \in Nat
    BY DEF TypeInv, TypeOK
  <2> QED
    BY <2>1 DEF Logged
<1>4. \A g \in Handlers : pc'[g] = "push" => Logged("current", text[g])'
  BY <1>1, <1>3 DEF PushInv, Write
<1> QED
  BY <1>2, <1>4 DEF PushInv

(* Without swallowed errors, every step keeps PushInv.                     *)
LEMMA NextPush == Truthful /\ TypeInv /\ PushInv /\ [Next]_vars => PushInv'
<1> SUFFICES ASSUME Truthful, TypeInv, PushInv, [Next]_vars PROVE PushInv'
  OBVIOUS
<1> USE ReleaseAssumption DEF store, locals
<1> DEFINE SomeWrite == Write("current", 0, Blank)
<1>0. /\ SomeWrite \in Writes
      /\ pc \in [Handlers -> Steps] /\ text \in [Handlers -> Files \cup {NoVal}]
      /\ cur \in [Handlers -> Files \cup {NoVal}] /\ stamp \in [Handlers -> Nat]
      /\ node \in [Handlers -> Nodes]
      /\ \A g \in Handlers : node[g] \in Serving \cup {Leader}
  BY DEF TypeInv, TypeOK, Write, Writes, PushInv
<1> HIDE DEF SomeWrite
<1>1. ASSUME NEW h \in Handlers, NEW n \in Serving,
             Create(h, n) \/ (\E f \in Files : Save(h, n, f)) \/ Release(h, n)
      PROVE  PushInv'
  <2> PICK step \in {"createRead", "saveRead", "readCurrent"}, f \in Files \cup {NoVal} :
        Start(h, n, step, f)
    BY <1>1 DEF Create, Save, Release
  <2>1. \A g \in Handlers : node'[g] \in Serving \cup {Leader}
    BY <1>0 DEF Start
  <2>2. \A g \in Handlers : pc'[g] = "push" => pc[g] = "push" /\ text'[g] = text[g]
    BY <1>0 DEF Start, GoTo
  <2>3. PushedWasCurrent' /\ \A v : Logged("current", v)' <=> Logged("current", v)
    BY DEF Start, PushInv, PushedWasCurrent, Logged
  <2> QED
    BY <2>1, <2>2, <2>3 DEF PushInv
<1>2. ASSUME NEW h \in Handlers,
             CreateRead(h) \/ SaveRead(h) \/ ReadCurrent(h) \/ DeleteDraft(h)
      PROVE  PushInv'
  <2>1. UNCHANGED <<log, pushes, text, node>>
    BY <1>2 DEF CreateRead, SaveRead, ReadCurrent, DeleteDraft, LocalStep
  <2>2. PICK step \in {"createWrite", "saveWrite", "readDraft", "idle"} :
          pc' = [pc EXCEPT ![h] = step]
    BY <1>2 DEF CreateRead, SaveRead, ReadCurrent, DeleteDraft, LocalStep, GoTo
  <2>3. \A g \in Handlers : pc'[g] = "push" => pc[g] = "push"
    BY <1>0, <2>2
  <2> QED
    BY <1>0, <2>1, <2>3, PushKept
<1>3. ASSUME NEW h \in Handlers, ReadDraft(h)
      PROVE  PushInv'
  <2>1. UNCHANGED <<log, pushes, node>>
    BY <1>3 DEF ReadDraft, LocalStep
  <2>2. \A g \in Handlers : pc'[g] = "push" => pc[g] = "push" /\ text'[g] = text[g]
    BY <1>0, <1>3 DEF ReadDraft, LocalStep, GoTo
  <2>3. PushedWasCurrent' /\ \A v : Logged("current", v)' <=> Logged("current", v)
    BY <2>1 DEF PushInv, PushedWasCurrent, Logged
  <2> QED
    BY <1>0, <2>1, <2>2, <2>3 DEF PushInv
<1>4. ASSUME NEW h \in Handlers, CreateWrite(h) \/ SaveWrite(h) \/ WriteHistory(h)
      PROVE  PushInv'
  <2>1. PICK w \in Writes, next \in {"idle", "writeCurrent"} :
          Set(h, w, next) /\ UNCHANGED <<pushes, text, node>>
    <3>1. CASE CreateWrite(h)
      BY <3>1 DEF CreateWrite, Write, Writes
    <3>2. CASE SaveWrite(h)
      <4>1. Write("draft", 0, text[h]) \in Writes
        BY <3>2 DEF SaveWrite, Write, Writes, TypeInv, InHand
      <4> QED
        BY <3>2, <4>1 DEF SaveWrite
    <3>3. CASE WriteHistory(h)
      <4>1. Write("history", stamp[h], cur[h]) \in Writes
        BY <1>0, <3>3 DEF WriteHistory, Write, Writes, TypeInv, InHand
      <4> QED
        BY <3>3, <4>1 DEF WriteHistory
    <3> QED
      BY <1>4, <3>1, <3>2, <3>3
  <2>2. log' = Append(log, w) \/ log' = log
    BY <2>1 DEF Set, Commit
  <2>3. \A g \in Handlers : pc'[g] = "push" => pc[g] = "push"
    BY <1>0, <2>1 DEF Set, GoTo
  <2> QED
    BY <1>0, <2>1, <2>2, <2>3, PushKept
<1>5. ASSUME NEW h \in Handlers, WriteCurrent(h)
      PROVE  PushInv'
  <2> DEFINE w == Write("current", 0, text[h])
  <2>1. w \in Writes
    BY <1>5 DEF WriteCurrent, Write, Writes, TypeInv, InHand
  <2>2. Set(h, w, "push") /\ UNCHANGED <<pushes, text, node>>
    BY <1>5 DEF WriteCurrent
  <2>3. \/ log' = Append(log, w) /\ pc' = [pc EXCEPT ![h] = "push"]
        \/ (log' = Append(log, w) \/ log' = log) /\ pc' = [pc EXCEPT ![h] = "idle"]
    BY <2>1, <2>2, TruthfulSet DEF Steps, Commit
  <2>4. \A g \in Handlers : pc'[g] = "push" =>
          pc[g] = "push" \/ (w = Write("current", 0, text[g]) /\ log' = Append(log, w))
    BY <1>0, <2>3
  <2> QED
    BY <1>0, <2>1, <2>2, <2>3, <2>4, PushKept
<1>6. ASSUME NEW h \in Handlers, Push(h)
      PROVE  PushInv'
  <2>1. UNCHANGED <<log, text, node>> /\ pc[h] = "push"
        /\ pushes' = Append(pushes, [from |-> cur[h], to |-> text[h]])
    BY <1>6 DEF Push
  <2>2. \A g \in Handlers : pc'[g] = "push" => pc[g] = "push"
    BY <1>0, <1>6 DEF Push, GoTo
  <2>3. Logged("current", text[h])
    BY <2>1 DEF PushInv
  <2>4. PushedWasCurrent'
    <3>1. pushes \in Seq([from : Files, to : Files]) /\ Len(pushes) \in Nat
      BY DEF TypeInv, TypeOK
    <3>2. \A i \in 1..Len(pushes') : i \in 1..Len(pushes) \/ pushes'[i].to = text[h]
      BY <2>1, <3>1
    <3>3. \A i \in 1..Len(pushes) : pushes'[i] = pushes[i]
      BY <2>1, <3>1
    <3> QED
      BY <2>1, <2>3, <3>2, <3>3 DEF PushInv, PushedWasCurrent, Logged
  <2> QED
    BY <1>0, <2>1, <2>2, <2>4 DEF PushInv, Logged
<1>7. ASSUME NEW w \in orphans, CommitOrphan(w)
      PROVE  PushInv'
  <2>1. w \in Writes
    BY DEF TypeInv, TypeOK
  <2> QED
    BY <1>0, <1>7, <2>1, PushKept DEF CommitOrphan
<1>8. ASSUME NEW n \in Nodes, Crash(n)
      PROVE  PushInv'
  <2>1. \A g \in Handlers : pc'[g] = "push" => pc[g] = "push"
    BY <1>8 DEF Crash
  <2> QED
    BY <1>0, <1>8, <2>1, PushKept DEF Crash
<1>9. CASE (\E n \in Nodes : Apply(n)) \/ Tick \/ UNCHANGED vars
  <2>1. UNCHANGED <<log, pushes, pc, text, node>>
    BY <1>9 DEF Apply, Tick, vars
  <2> QED
    BY <1>0, <2>1, PushKept
<1> QED
  BY <1>1, <1>2, <1>3, <1>4, <1>5, <1>6, <1>7, <1>8, <1>9 DEF Next

(* Unless an error is swallowed, the applications are told only of what    *)
(* was committed as the current text, whichever requests overlap, fail     *)
(* late, or are cut off.                                                   *)
THEOREM PushedWasCurrentHolds ==
  ASSUME Truthful
  PROVE  Spec => []PushedWasCurrent
<1>1. Init => PushInv
  BY DEF Init, PushInv, PushedWasCurrent
<1>2. Spec => []TypeInv
  BY InitType, NextType, PTL DEF Spec
<1>3. TypeInv /\ PushInv /\ [Next]_vars => PushInv'
  BY NextPush
<1>4. Spec => []PushInv
  BY <1>1, <1>2, <1>3, PTL DEF Spec
<1>5. PushInv => PushedWasCurrent
  BY DEF PushInv
<1> QED
  BY <1>4, <1>5, PTL

-----------------------------------------------------------------------------
(* One request after the other on the leader.                              *)

(* Where VersionedFile is promised: the requests are served by the leader, *)
(* one at a time, a write does not come late, and releases are a second    *)
(* apart.  Writes may fail, committed or not, and the leader may stop.     *)
Sequential ==
  Serving \subseteq {Leader} /\ MaxActive <= 1 /\ "late" \notin Faults /\ ~Hurried

(* One request is under way, on a node that shows all writes.              *)
Alone ==
  /\ orphans = {} /\ applied[Leader] = Len(log)
  /\ \A h \in Handlers : node[h] = Leader
  /\ \A g, h \in Handlers : pc[g] # "idle" /\ pc[h] # "idle" => g = h

(* A release that has not filed yet is later than whatever is filed.       *)
Seconds ==
  /\ last <= now
  /\ \A j \in 1..Len(log) : log[j].key = "history" => log[j].at <= last
  /\ \A h \in Handlers :
       /\ pc[h] \in {"readCurrent", "readDraft"} => last < now
       /\ pc[h] = "writeHistory" =>
            \A j \in 1..Len(log) : log[j].key = "history" => log[j].at < stamp[h]
       /\ pc[h] = "writeHistory" => stamp[h] = last

(* What the request has read is what the store still holds.                *)
Fresh ==
  \A h \in Handlers :
    /\ pc[h] = "createWrite" => Current = NoVal
    /\ pc[h] = "saveWrite" => Current # NoVal
    /\ pc[h] \in {"readDraft", "writeHistory", "writeCurrent"} => Current = cur[h]
    /\ pc[h] \in {"writeHistory", "writeCurrent"} =>
         Draft = text[h] /\ text[h] \notin {NoVal, Blank, Broken}
    /\ pc[h] = "writeCurrent" => cur[h] \in History

SequentialInv == Alone /\ Seconds /\ Fresh

(* A write changes the value of its key and of no other.                   *)
LEMMA AppendedValue ==
  ASSUME TypeInv, NEW w \in Writes, log' = Append(log, w), NEW key
  PROVE  ValueAt(key, Len(log))' = IF w.key = key THEN w.val ELSE ValueAt(key, Len(log))
<1> DEFINE S == WritesOf(key, Len(log))
           T == WritesOf(key, Len(log))'
           top == CHOOSE j \in T : \A l \in T : l <= j
<1>1. log \in Seq(Writes) /\ Len(log) \in Nat
  BY DEF TypeInv, TypeOK
<1>2. /\ Len(log') = Len(log) + 1 /\ log'[Len(log) + 1] = w
      /\ \A j \in 1..Len(log) : log'[j] = log[j]
  BY <1>1
<1>3. T = IF w.key = key THEN S \cup {Len(log) + 1} ELSE S
  BY <1>1, <1>2 DEF WritesOf
<1>4. S \subseteq 1..Len(log) /\ T \subseteq Nat /\ \A j \in T : j <= Len(log) + 1
  BY <1>1, <1>3 DEF WritesOf
<1>5. ValueAt(key, Len(log))' = IF T = {} THEN NoVal ELSE log'[top].val
  BY DEF ValueAt
<1> HIDE DEF S, T
<1>6. T # {} => top \in T /\ \A l \in T : l <= top
  <2>1. Len(log) + 1 \in Nat
    BY <1>1
  <2>2. T # {} => \E j \in T : \A l \in T : l <= j
    BY <1>4, <2>1, NatMaximum
  <2> QED
    BY <2>2
<1> HIDE DEF top
<1>7. CASE w.key = key
  <2>1. Len(log) + 1 \in T
    BY <1>3, <1>7
  <2>2. top = Len(log) + 1
    <3>1. top \in Nat /\ top <= Len(log) + 1 /\ Len(log) + 1 <= top
      BY <1>4, <1>6, <2>1
    <3> QED
      BY <1>1, <3>1
  <2> QED
    BY <1>2, <1>5, <1>7, <2>1, <2>2
<1>8. CASE w.key # key
  <2>1. T = S
    BY <1>3, <1>8
  <2>2. CASE S = {}
    BY <1>5, <1>8, <2>1, <2>2 DEF ValueAt, S
  <2>3. CASE S # {}
    <3>1. PICK j \in S : (\A l \in S : l <= j) /\ ValueAt(key, Len(log)) = log[j].val
      BY <1>1, <2>3, NewestWrite DEF S
    <3>2. top = j
      <4>1. top \in Nat /\ j \in Nat /\ top <= j /\ j <= top
        BY <1>4, <1>6, <2>1, <2>3, <3>1
      <4> QED
        BY <4>1
    <3>3. log'[top] = log[j]
      BY <1>2, <1>4, <3>2
    <3> QED
      BY <1>5, <1>8, <2>1, <2>3, <3>1, <3>3
  <2> QED
    BY <2>2, <2>3
<1> QED
  BY <1>7, <1>8

(* Every write has a second; 0, unless it files a text.                    *)
LEMMA LoggedAt ==
  ASSUME TypeInv, NEW j \in 1..Len(log)
  PROVE  log[j].at \in Nat
<1>1. log[j] \in Writes
  BY DEF TypeInv, TypeOK
<1> QED
  BY <1>1 DEF Writes

(* A text that is filed under a second of its own is added to the history. *)
LEMMA AppendedHistory ==
  ASSUME TypeInv, NEW w \in Writes, log' = Append(log, w)
  PROVE  /\ w.key # "history" => History' = History
         /\ w.key = "history"
              /\ (\A j \in 1..Len(log) : log[j].key = "history" => log[j].at < w.at)
              => History' = History \cup {w.val}
<1> DEFINE S == WritesOf("history", Len(log))
           T == WritesOf("history", Len(log))'
           Kept == {j \in S : \A l \in S : log[l].at = log[j].at => l <= j}
           KeptNext == {j \in T : \A l \in T : log'[l].at = log'[j].at => l <= j}
<1>1. log \in Seq(Writes) /\ Len(log) \in Nat
  BY DEF TypeInv, TypeOK
<1>2. /\ Len(log') = Len(log) + 1 /\ log'[Len(log) + 1] = w
      /\ \A j \in 1..Len(log) : log'[j] = log[j]
  BY <1>1
<1>3. T = IF w.key = "history" THEN S \cup {Len(log) + 1} ELSE S
  BY <1>1, <1>2 DEF WritesOf
<1>4. S \subseteq 1..Len(log) /\ \A j \in S : log[j].key = "history"
  BY <1>1 DEF WritesOf
<1>5. History = {log[i].val : i \in Kept} /\ History' = {log'[i].val : i \in KeptNext}
  BY DEF History
<1> HIDE DEF S, T
<1>6. \A j \in 1..Len(log) : log[j].at \in Nat
  BY LoggedAt
<1>7. CASE w.key # "history"
  <2>1. KeptNext = Kept /\ Kept \subseteq 1..Len(log)
    BY <1>2, <1>3, <1>4, <1>7
  <2> QED
    BY <1>2, <1>5, <1>7, <2>1
<1>8. CASE w.key = "history"
           /\ \A j \in 1..Len(log) : log[j].key = "history" => log[j].at < w.at
  <2>1. T = S \cup {Len(log) + 1}
    BY <1>3, <1>8
  <2>2. \A j \in S : log'[j].at = log[j].at /\ log[j].at # w.at
    BY <1>2, <1>4, <1>6, <1>8 DEF Writes
  <2>3. \A j \in S : j \in Kept <=> j \in KeptNext
    BY <1>2, <1>4, <2>1, <2>2
  <2>4. Len(log) + 1 \in KeptNext
    BY <1>1, <1>2, <1>4, <2>1, <2>2
  <2>5. KeptNext = Kept \cup {Len(log) + 1} /\ Kept \subseteq 1..Len(log)
    BY <1>4, <2>1, <2>3, <2>4
  <2> HIDE DEF Kept, KeptNext
  <2> QED
    BY <1>2, <1>5, <1>8, <2>5
<1> QED
  BY <1>7, <1>8

(* What the store holds changes with the log only.                         *)
LEMMA SameLog ==
  ASSUME log' = log
  PROVE  Current' = Current /\ Draft' = Draft /\ History' = History
<1>1. \A key : WritesOf(key, Len(log))' = WritesOf(key, Len(log))
  BY DEF WritesOf
<1>2. \A key : ValueAt(key, Len(log))' = ValueAt(key, Len(log))
  BY DEF ValueAt, WritesOf
<1> QED
  BY <1>1, <1>2 DEF Current, Draft, History

(* In a sequential system a read shows what the store holds.               *)
LEMMA ReadIsCurrent ==
  ASSUME Alone, NEW h \in Handlers
  PROVE  Get(h, "current") = Current /\ Get(h, "draft") = Draft
  BY DEF Alone, Get, Current, Draft

(* A handler whose request goes on is the only one.                        *)
LEMMA OnlyOne ==
  ASSUME Alone, NEW h \in Handlers, pc[h] # "idle", NEW step \in Steps,
         pc' = [pc EXCEPT ![h] = step], TypeInv
  PROVE  /\ \A g \in Handlers : pc'[g] # "idle" => g = h /\ pc'[g] = step
         /\ \A f, g \in Handlers : pc'[f] # "idle" /\ pc'[g] # "idle" => f = g
  BY DEF Alone, TypeInv, TypeOK

(* A write is made on the leader: it is committed before the request goes  *)
(* on, or the request ends.                                                *)
LEMMA SequentialSet ==
  ASSUME Sequential, TypeInv, Alone, NEW h \in Handlers, pc[h] # "idle",
         NEW w \in Writes, NEW next \in Steps, Set(h, w, next), node' = node
  PROVE  /\ Alone'
         /\ \A g \in Handlers : g # h => pc'[g] = "idle"
         /\ \/ log' = Append(log, w) /\ pc'[h] \in {next, "idle"}
            \/ log' = log /\ pc'[h] = "idle"
<1>1. node[h] = Leader /\ "late" \notin Faults /\ Leader \in Nodes
  BY ReleaseAssumption DEF Alone, Sequential
<1>2. \/ Commit(h, w) /\ pc' = [pc EXCEPT ![h] = next]
      \/ (Commit(h, w) \/ UNCHANGED store) /\ pc' = [pc EXCEPT ![h] = "idle"]
  BY <1>1 DEF Set, GoTo
<1>3. log \in Seq(Writes) /\ applied \in [Nodes -> Nat] /\ pc \in [Handlers -> Steps]
  BY DEF TypeInv, TypeOK
<1>4. /\ orphans' = {} /\ applied'[Leader] = Len(log')
      /\ log' = Append(log, w) \/ log' = log
  <2>1. CASE Commit(h, w)
    <3>1. applied' = [applied EXCEPT ![Leader] = Len(log) + 1] /\ log' = Append(log, w)
      BY <1>1, <2>1 DEF Commit
    <3>2. Len(log') = Len(log) + 1
      BY <1>3, <3>1
    <3> QED
      BY <1>1, <1>3, <2>1, <3>1, <3>2 DEF Commit, Alone
  <2>2. CASE UNCHANGED store
    BY <2>2 DEF store, Alone
  <2> QED
    BY <1>2, <2>1, <2>2
<1>5. "idle" \in Steps
  BY DEF Steps
<1>6. /\ \A g \in Handlers : g # h => pc'[g] = "idle"
      /\ \A f, g \in Handlers : pc'[f] # "idle" /\ pc'[g] # "idle" => f = g
  BY <1>2, <1>5, OnlyOne
<1>7. \/ log' = Append(log, w) /\ pc'[h] \in {next, "idle"}
      \/ log' = log /\ pc'[h] = "idle"
  BY <1>2, <1>3 DEF Commit, store
<1> QED
  BY <1>4, <1>6, <1>7 DEF Alone

(* Unless it files a text, a write leaves the seconds of the history.      *)
LEMMA SameHistory ==
  ASSUME TypeInv, Seconds, NEW w \in Writes, log' = Append(log, w) \/ log' = log,
         w.key = "history" => w.at = last
  PROVE  \A j \in 1..Len(log') : log'[j].key = "history" => log'[j].at <= last
<1>1. log \in Seq(Writes) /\ Len(log) \in Nat /\ last \in Int
  BY DEF TypeInv, TypeOK
<1>2. CASE log' = log
  BY <1>2 DEF Seconds
<1>3. CASE log' = Append(log, w)
  <2>1. /\ Len(log') = Len(log) + 1 /\ log'[Len(log) + 1] = w
        /\ \A j \in 1..Len(log) : log'[j] = log[j]
    BY <1>1, <1>3
  <2>2. \A j \in 1..Len(log') : j \in 1..Len(log) \/ j = Len(log) + 1
    BY <1>1, <2>1
  <2> QED
    BY <1>1, <2>1, <2>2 DEF Seconds
<1> QED
  BY <1>2, <1>3

(* What SequentialInv asks of a request that is over, or just begun.       *)
LEMMA Harmless ==
  ASSUME Alone', last' <= now',
         \A j \in 1..Len(log') : log'[j].key = "history" => log'[j].at <= last',
         \A h \in Handlers :
           /\ pc'[h] \in {"idle", "createRead", "saveRead", "readCurrent", "push", "deleteDraft"}
           /\ pc'[h] = "readCurrent" => last' < now'
  PROVE  SequentialInv'
  BY DEF SequentialInv, Seconds, Fresh

AbstractStep == [Versions!Next]_<<Current, Draft, History>>

(* The requests that only read, or that push or delete.                    *)
LEMMA QuietStep ==
  ASSUME Sequential, TypeInv, SequentialInv, NEW h \in Handlers,
         \/ CreateRead(h) \/ SaveRead(h) \/ ReadCurrent(h) \/ ReadDraft(h)
         \/ Push(h) \/ DeleteDraft(h)
  PROVE  SequentialInv' /\ AbstractStep
<1>1. UNCHANGED <<store, now, node>>
  BY DEF CreateRead, SaveRead, ReadCurrent, ReadDraft, Push, DeleteDraft, LocalStep, locals
<1>2. Current' = Current /\ Draft' = Draft /\ History' = History
  BY <1>1, SameLog DEF store
<1>3. pc[h] # "idle" /\ \E step \in Steps : pc' = [pc EXCEPT ![h] = step]
  BY DEF CreateRead, SaveRead, ReadCurrent, ReadDraft, Push, DeleteDraft, LocalStep, GoTo, Steps
<1>4. /\ \A f, g \in Handlers : pc'[f] # "idle" /\ pc'[g] # "idle" => f = g
      /\ \A g \in Handlers : g # h => pc'[g] = "idle"
  BY <1>3, OnlyOne DEF SequentialInv
<1>5. Alone'
  BY <1>1, <1>4 DEF SequentialInv, Alone, store
<1>6. /\ pc \in [Handlers -> Steps] /\ text \in [Handlers -> Files \cup {NoVal}]
      /\ cur \in [Handlers -> Files \cup {NoVal}] /\ stamp \in [Handlers -> Nat]
      /\ now \in Nat /\ last \in Int /\ log \in Seq(Writes)
  BY DEF TypeInv, TypeOK
<1>7. Get(h, "current") = Current /\ Get(h, "draft") = Draft
  BY ReadIsCurrent DEF SequentialInv
<1>8. CASE ReadDraft(h) /\ ~NothingToRelease(cur[h], Draft)
  <2>1. /\ pc[h] = "readDraft" /\ pc'[h] = "writeHistory" /\ text'[h] = Draft
        /\ stamp'[h] = now /\ last' = now /\ cur' = cur
    BY <1>6, <1>7, <1>8 DEF ReadDraft, LocalStep, GoTo
  <2>2. Draft \notin {NoVal, Blank, Broken} /\ Current = cur[h] /\ last < now
    BY <1>8, <2>1 DEF NothingToRelease, SequentialInv, Fresh, Seconds
  <2>3. Fresh'
    BY <1>2, <1>4, <2>1, <2>2 DEF Fresh
  <2>4. \A j \in 1..Len(log) : log[j].at \in Nat
    BY LoggedAt
  <2>5. \A j \in 1..Len(log) : log[j].key = "history" => log[j].at < now
    BY <1>6, <2>2, <2>4 DEF SequentialInv, Seconds
  <2>6. log' = log /\ now' = now
    BY <1>1 DEF store
  <2>7. Seconds'
    <3>1. \A j \in 1..Len(log) : log[j].key = "history" => log[j].at <= now
      BY <1>6, <2>4, <2>5
    <3>2. \A g \in Handlers : pc'[g] # "idle" => g = h
      BY <1>4
    <3> QED
      BY <1>6, <2>1, <2>5, <2>6, <3>1, <3>2 DEF Seconds
  <2> QED
    BY <1>2, <1>5, <2>3, <2>7 DEF SequentialInv, AbstractStep
<1>9. CASE ~(ReadDraft(h) /\ ~NothingToRelease(cur[h], Draft))
  <2>1. /\ last' = last
        /\ pc'[h] \in {"idle", "createWrite", "saveWrite", "readDraft", "deleteDraft"}
    BY <1>6, <1>7, <1>9
    DEF CreateRead, SaveRead, ReadCurrent, ReadDraft, Push, DeleteDraft, LocalStep, GoTo, locals
  <2>2. Seconds'
    <3>1. pc'[h] = "readDraft" => last < now
      <4>1. pc'[h] = "readDraft" => pc[h] = "readCurrent"
        BY <1>6, <1>9
        DEF CreateRead, SaveRead, ReadCurrent, ReadDraft, Push, DeleteDraft, LocalStep, GoTo
      <4> QED
        BY <4>1 DEF SequentialInv, Seconds
    <3> QED
      BY <1>1, <1>4, <2>1, <3>1 DEF SequentialInv, Seconds, store
  <2>3. /\ pc'[h] = "createWrite" => Current = NoVal
        /\ pc'[h] = "saveWrite" => Current # NoVal
        /\ pc'[h] = "readDraft" => Current = cur'[h]
    BY <1>6, <1>7, <1>9
    DEF CreateRead, SaveRead, ReadCurrent, ReadDraft, Push, DeleteDraft, LocalStep, GoTo
  <2>4. Fresh'
    BY <1>2, <1>4, <2>1, <2>3 DEF Fresh
  <2> QED
    BY <1>2, <1>5, <2>2, <2>4 DEF SequentialInv, AbstractStep
<1> QED
  BY <1>8, <1>9

(* The requests that write: each write is a step of VersionedFile.         *)
LEMMA WritingStep ==
  ASSUME Sequential, TypeInv, SequentialInv, NEW h \in Handlers,
         CreateWrite(h) \/ SaveWrite(h) \/ WriteHistory(h) \/ WriteCurrent(h)
  PROVE  SequentialInv' /\ AbstractStep
<1> USE ReleaseAssumption
<1>1. UNCHANGED <<now, last, node, text, cur, stamp>> /\ pc[h] # "idle"
  BY DEF CreateWrite, SaveWrite, WriteHistory, WriteCurrent, locals
<1>2. /\ text \in [Handlers -> Files \cup {NoVal}] /\ stamp \in [Handlers -> Nat]
      /\ pc[h] \in {"saveWrite", "writeHistory", "writeCurrent"} => text[h] \in Files
      /\ pc[h] \in {"writeHistory", "writeCurrent"} => cur[h] \in Files
  BY DEF TypeInv, TypeOK, InHand
<1>3. ASSUME log' = log, NEW w \in Writes, NEW next \in Steps, Set(h, w, next), pc'[h] = "idle"
      PROVE  SequentialInv' /\ AbstractStep
  <2>1. Alone' /\ \A g \in Handlers : pc'[g] = "idle"
    BY <1>1, <1>3, SequentialSet DEF SequentialInv
  <2>2. SequentialInv'
    BY <1>1, <1>3, <2>1, Harmless DEF SequentialInv, Seconds
  <2>3. Current' = Current /\ Draft' = Draft /\ History' = History
    BY <1>3, SameLog
  <2> QED
    BY <2>2, <2>3 DEF AbstractStep
<1>4. ASSUME NEW w \in Writes, log' = Append(log, w)
      PROVE  /\ Current' = IF w.key = "current" THEN w.val ELSE Current
             /\ Draft' = IF w.key = "draft" THEN w.val ELSE Draft
             /\ w.key # "history" => History' = History
  BY <1>4, AppendedValue, AppendedHistory DEF Current, Draft
<1>5. CASE CreateWrite(h)
  <2> DEFINE w == Write("current", 0, Blank)
  <2>1. w \in Writes /\ "idle" \in Steps /\ Set(h, w, "idle")
    BY <1>5 DEF CreateWrite, Write, Writes, Steps
  <2>2. /\ Alone' /\ \A g \in Handlers : pc'[g] = "idle"
        /\ log' = Append(log, w) \/ log' = log
    BY <1>1, <2>1, SequentialSet DEF SequentialInv
  <2>3. CASE log' = Append(log, w)
    <3>1. Current = NoVal
      BY <1>5 DEF CreateWrite, SequentialInv, Fresh
    <3>2. Current' = Blank /\ Draft' = Draft /\ History' = History
      BY <1>4, <2>1, <2>3 DEF Write
    <3>3. SequentialInv'
      BY <1>1, <2>1, <2>2, SameHistory, Harmless DEF SequentialInv, Seconds, Write
    <3> QED
      BY <3>1, <3>2, <3>3 DEF AbstractStep, Versions!Next, Versions!Create
  <2> QED
    BY <1>3, <2>1, <2>2, <2>3
<1>6. CASE SaveWrite(h)
  <2> DEFINE w == Write("draft", 0, text[h])
  <2>1. w \in Writes /\ "idle" \in Steps /\ Set(h, w, "idle")
    BY <1>2, <1>6 DEF SaveWrite, Write, Writes, Steps
  <2>2. /\ Alone' /\ \A g \in Handlers : pc'[g] = "idle"
        /\ log' = Append(log, w) \/ log' = log
    BY <1>1, <2>1, SequentialSet DEF SequentialInv
  <2>3. CASE log' = Append(log, w)
    <3>1. Current # NoVal /\ text[h] \in Files
      BY <1>2, <1>6 DEF SaveWrite, SequentialInv, Fresh
    <3>2. Current' = Current /\ Draft' = text[h] /\ History' = History
      BY <1>4, <2>1, <2>3 DEF Write
    <3>3. SequentialInv'
      BY <1>1, <2>1, <2>2, SameHistory, Harmless DEF SequentialInv, Seconds, Write
    <3> QED
      BY <3>1, <3>2, <3>3 DEF AbstractStep, Versions!Next, Versions!SaveDraft
  <2> QED
    BY <1>3, <2>1, <2>2, <2>3
<1>7. CASE WriteHistory(h)
  <2> DEFINE w == Write("history", stamp[h], cur[h])
  <2>1. w \in Writes /\ "writeCurrent" \in Steps /\ Set(h, w, "writeCurrent")
    BY <1>2, <1>7 DEF WriteHistory, Write, Writes, Steps
  <2>2. /\ Alone' /\ \A g \in Handlers : g # h => pc'[g] = "idle"
        /\ \/ log' = Append(log, w) /\ pc'[h] \in {"writeCurrent", "idle"}
           \/ log' = log /\ pc'[h] = "idle"
    BY <1>1, <2>1, SequentialSet DEF SequentialInv
  <2>3. CASE log' = Append(log, w)
    <3>1. /\ Current = cur[h] /\ Current # NoVal /\ stamp[h] = last
          /\ Draft = text[h] /\ text[h] \notin {NoVal, Blank, Broken}
          /\ \A j \in 1..Len(log) : log[j].key = "history" => log[j].at < stamp[h]
      BY <1>2, <1>7 DEF WriteHistory, SequentialInv, Fresh, Seconds
    <3>2. Current' = Current /\ Draft' = Draft /\ History' = History \cup {cur[h]}
      BY <1>4, <2>1, <2>3, <3>1, AppendedHistory DEF Write
    <3>3. Fresh'
      BY <1>1, <2>2, <2>3, <3>1, <3>2 DEF Fresh
    <3>4. Seconds'
      <4>1. \A j \in 1..Len(log') : log'[j].key = "history" => log'[j].at <= last
        BY <2>1, <2>3, <3>1, SameHistory DEF SequentialInv, Write
      <4>2. \A g \in Handlers : pc'[g] \in {"idle", "writeCurrent"}
        BY <2>2
      <4> QED
        BY <1>1, <4>1, <4>2 DEF SequentialInv, Seconds
    <3> QED
      BY <2>2, <3>1, <3>2, <3>3, <3>4
      DEF SequentialInv, AbstractStep, Versions!Next, Versions!File
  <2> QED
    BY <1>3, <2>1, <2>2, <2>3
<1>8. CASE WriteCurrent(h)
  <2> DEFINE w == Write("current", 0, text[h])
  <2>1. w \in Writes /\ "push" \in Steps /\ Set(h, w, "push")
    BY <1>2, <1>8 DEF WriteCurrent, Write, Writes, Steps
  <2>2. /\ Alone' /\ \A g \in Handlers : pc'[g] \in {"idle", "push"}
        /\ \/ log' = Append(log, w)
           \/ log' = log /\ pc'[h] = "idle"
    BY <1>1, <2>1, SequentialSet DEF SequentialInv
  <2>3. CASE log' = Append(log, w)
    <3>1. /\ Current \in History
          /\ Draft = text[h] /\ text[h] \notin {NoVal, Blank, Broken}
      BY <1>8 DEF WriteCurrent, SequentialInv, Fresh
    <3>2. Current' = text[h] /\ Draft' = Draft /\ History' = History
      BY <1>4, <2>1, <2>3 DEF Write
    <3>3. SequentialInv'
      BY <1>1, <2>1, <2>2, SameHistory, Harmless DEF SequentialInv, Seconds, Write
    <3> QED
      BY <3>1, <3>2, <3>3 DEF AbstractStep, Versions!Next, Versions!Release
  <2> QED
    BY <1>3, <2>1, <2>2, <2>3
<1> QED
  BY <1>5, <1>6, <1>7, <1>8

(* A request starts only when none is under way: the set whose size        *)
(* MaxActive bounds has one element at most.                               *)
LEMMA StartsAlone ==
  ASSUME Sequential, Alone, NEW h \in Handlers,
         Cardinality({g \in Handlers : pc[g] # "idle"}) < MaxActive
  PROVE  \A g \in Handlers : pc[g] = "idle"
<1> DEFINE busy == {g \in Handlers : pc[g] # "idle"}
<1> SUFFICES ASSUME NEW g \in Handlers, pc[g] # "idle" PROVE FALSE
  OBVIOUS
<1>1. busy = {g}
  BY DEF Alone
<1>2. Cardinality(busy) = 1
  BY <1>1, FS_Singleton
<1> QED
  BY <1>2, ReleaseAssumption DEF Sequential

(* Everything else is a stuttering step of VersionedFile.                  *)
LEMMA NextSequential ==
  Sequential /\ TypeInv /\ SequentialInv /\ [Next]_vars => SequentialInv' /\ AbstractStep
<1> SUFFICES ASSUME Sequential, TypeInv, SequentialInv, [Next]_vars
             PROVE  SequentialInv' /\ AbstractStep
  OBVIOUS
<1> USE DEF store, locals
<1>1. ASSUME NEW h \in Handlers, NEW n \in Serving,
             Create(h, n) \/ (\E f \in Files : Save(h, n, f)) \/ Release(h, n)
      PROVE  SequentialInv' /\ AbstractStep
  <2> PICK step \in {"createRead", "saveRead", "readCurrent"}, f \in Files \cup {NoVal} :
        Start(h, n, step, f) /\ (step = "readCurrent" => last < now)
    BY <1>1, ReleaseAssumption DEF Create, Save, Release, Sequential, TypeInv, TypeOK
  <2>1. \A g \in Handlers : pc[g] = "idle"
    BY StartsAlone DEF Start, SequentialInv
  <2>2. /\ \A g \in Handlers : pc'[g] = IF g = h THEN step ELSE "idle"
        /\ \A g \in Handlers : node'[g] = Leader
    BY <2>1 DEF Start, GoTo, TypeInv, TypeOK, SequentialInv, Alone, Sequential
  <2>3. UNCHANGED <<log, applied, orphans, now, last>>
    BY DEF Start
  <2>4. Alone'
    BY <2>2, <2>3 DEF SequentialInv, Alone
  <2>5. SequentialInv'
    BY <2>2, <2>3, <2>4, Harmless DEF SequentialInv, Seconds
  <2> QED
    BY <2>3, <2>5, SameLog DEF AbstractStep
<1>2. ASSUME NEW h \in Handlers,
             \/ CreateRead(h) \/ CreateWrite(h) \/ SaveRead(h) \/ SaveWrite(h)
             \/ ReadCurrent(h) \/ ReadDraft(h) \/ WriteHistory(h) \/ WriteCurrent(h)
             \/ Push(h) \/ DeleteDraft(h)
      PROVE  SequentialInv' /\ AbstractStep
  BY <1>2, QuietStep, WritingStep
<1>3. ASSUME NEW w \in orphans, CommitOrphan(w)
      PROVE  FALSE
  BY <1>3 DEF SequentialInv, Alone
<1>4. ASSUME NEW n \in Nodes, Apply(n)
      PROVE  SequentialInv' /\ AbstractStep
  <2>1. n # Leader
    BY <1>4, ReleaseAssumption DEF Apply, SequentialInv, Alone, TypeInv, TypeOK
  <2>2. applied'[Leader] = applied[Leader] /\ UNCHANGED <<log, orphans, now, last, pc, locals>>
    BY <1>4, <2>1, ReleaseAssumption DEF Apply, TypeInv, TypeOK
  <2>3. Current' = Current /\ Draft' = Draft /\ History' = History
    BY <2>2, SameLog
  <2>4. Alone' /\ Seconds' /\ Fresh'
    BY <2>2, <2>3 DEF SequentialInv, Alone, Seconds, Fresh
  <2> QED
    BY <2>3, <2>4 DEF SequentialInv, AbstractStep
<1>5. ASSUME NEW n \in Nodes, Crash(n)
      PROVE  SequentialInv' /\ AbstractStep
  <2>1. \A h \in Handlers : pc'[h] = "idle"
    BY <1>5 DEF Crash, SequentialInv, Alone
  <2>2. UNCHANGED <<log, applied, orphans, now, last, node>>
    BY <1>5 DEF Crash
  <2>3. SequentialInv'
    BY <2>1, <2>2, Harmless DEF SequentialInv, Alone, Seconds
  <2> QED
    BY <2>2, <2>3, SameLog DEF AbstractStep
<1>6. CASE Tick
  <2>1. now' = now + 1 /\ UNCHANGED <<log, applied, orphans, last, pc, locals>>
    BY <1>6 DEF Tick
  <2>2. Current' = Current /\ Draft' = Draft /\ History' = History
    BY <2>1, SameLog
  <2>3. Seconds'
    BY <2>1 DEF SequentialInv, Seconds, TypeInv, TypeOK
  <2>4. Alone' /\ Fresh'
    BY <2>1, <2>2 DEF SequentialInv, Alone, Fresh
  <2> QED
    BY <2>2, <2>3, <2>4 DEF SequentialInv, AbstractStep
<1>7. CASE UNCHANGED vars
  <2>1. Current' = Current /\ Draft' = Draft /\ History' = History
    BY <1>7, SameLog DEF vars
  <2>2. Alone' /\ Seconds' /\ Fresh'
    BY <1>7, <2>1 DEF vars, SequentialInv, Alone, Seconds, Fresh
  <2> QED
    BY <2>1, <2>2 DEF SequentialInv, AbstractStep
<1> QED
  BY <1>1, <1>2, <1>3, <1>4, <1>5, <1>6, <1>7 DEF Next

(* One request after the other on the leader is a VersionedFile: a text    *)
(* becomes current only when the one before it is in the history, and      *)
(* nothing leaves the history, although writes fail and requests are cut   *)
(* off between any two of their steps.                                     *)
THEOREM ImplementsVersionedFile ==
  ASSUME Sequential
  PROVE  Spec => VersionsSpec
<1>1. Init => SequentialInv /\ Versions!Init
  <2> SUFFICES ASSUME Init PROVE SequentialInv /\ Versions!Init
    OBVIOUS
  <2>1. log = << >> /\ Len(log) = 0
    BY DEF Init
  <2>2. \A key : WritesOf(key, Len(log)) = {}
    BY <2>1 DEF WritesOf
  <2>3. Current = NoVal /\ Draft = NoVal /\ History = {}
    BY <2>2 DEF Current, Draft, History, ValueAt
  <2>4. SequentialInv
    BY <2>1, ReleaseAssumption DEF Init, SequentialInv, Alone, Seconds, Fresh
  <2> QED
    BY <2>3, <2>4 DEF Versions!Init
<1>2. Spec => []TypeInv
  BY InitType, NextType, PTL DEF Spec
<1>3. TypeInv /\ SequentialInv /\ [Next]_vars
        => SequentialInv' /\ [Versions!Next]_<<Current, Draft, History>>
  BY NextSequential DEF AbstractStep
<1> QED
  BY <1>1, <1>2, <1>3, PTL DEF Spec, VersionsSpec, Versions!Spec
=============================================================================
