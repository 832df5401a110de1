---------------------------- MODULE DifferProofs ----------------------------
(***************************************************************************)
(* Theorems about what files flatten to, for documents of any shape, and   *)
(* about buildNamespaceDiff, for all flat maps.                            *)
(***************************************************************************)
EXTENDS Differ, FiniteSetTheorems, NaturalsInduction, WellFoundedInduction, TLAPS

(* Induction, over sets of numbers.                                        *)
LEMMA NatInductionSet ==
  ASSUME NEW S, 0 \in S, \A n \in Nat : n \in S => n + 1 \in S
  PROVE  Nat \subseteq S
<1> DEFINE Less == {p \in Nat \X Nat : p[1] < p[2]}
<1>1. IsWellFoundedOn(Less, Nat)
  BY NatLessThanWellFounded, Zenon DEF OpToRel
<1> SUFFICES ASSUME Nat \ S # {} PROVE FALSE
  OBVIOUS
<1>2. PICK n \in Nat \ S : \A m \in Nat \ S : ~(<<m, n>> \in Less)
  BY <1>1, WFMin
<1>3. \A m \in Nat \ S : ~(m < n)
  BY <1>2
<1>4. n # 0 /\ n - 1 \in Nat /\ (n - 1) + 1 = n
  BY <1>2
<1>5. n - 1 \in S
  BY <1>3, <1>4
<1> QED
  BY <1>2, <1>4, <1>5

LEMMA MaxIs ==
  ASSUME NEW n \in Nat, NEW s \in SUBSET (0..n), s # {}
  PROVE  Max(s) \in s /\ \A y \in s : Max(s) >= y
<1> DEFINE HasMax(t) == \E x \in t : \A y \in t : x >= y
           S == {m \in Nat : \A t \in SUBSET (0..m) : t # {} => HasMax(t)}
<1>1. 0 \in S
  <2>1. \A t \in SUBSET (0..0) : t # {} => 0 \in t /\ \A y \in t : 0 >= y
    <3>1. \A y \in 0..0 : y = 0
      OBVIOUS
    <3>2. 0 >= 0
      OBVIOUS
    <3> QED
      BY <3>1, <3>2
  <2> QED
    BY <2>1
<1>2. ASSUME NEW m \in Nat, m \in S
      PROVE  m + 1 \in S
  <2> SUFFICES ASSUME NEW t \in SUBSET (0..(m + 1)), t # {} PROVE HasMax(t)
    OBVIOUS
  <2>1. CASE m + 1 \in t
    <3>1. \A y \in t : m + 1 >= y
      OBVIOUS
    <3> QED
      BY <2>1, <3>1
  <2>2. CASE m + 1 \notin t
    <3>1. t \in SUBSET (0..m)
      <4>1. \A y \in 0..(m + 1) : y = m + 1 \/ y \in 0..m
        OBVIOUS
      <4> QED
        BY <2>2, <4>1
    <3> QED
      BY <1>2, <3>1
  <2> QED
    BY <2>1, <2>2
<1>3. Nat \subseteq S
  <2> HIDE DEF S
  <2> QED
    BY <1>1, <1>2, NatInductionSet
<1>4. HasMax(s)
  BY <1>3
<1> QED
  BY <1>4 DEF Max

-----------------------------------------------------------------------------
(* Sets in some order.                                                     *)

LEMMA Scanned ==
  ASSUME NEW S, IsFiniteSet(S), NEW todo \in SetToSeqs(S)
  PROVE  todo \in Seq(S) /\ Range(todo) = S /\ IsInjective(todo)
<1>1. PICK n \in Nat : n = Cardinality(S)
  BY FS_CardinalityType
<1>2. todo \in [1..n -> S] /\ \A i, j \in 1..n : i # j => todo[i] # todo[j]
  BY <1>1 DEF SetToSeqs
<1>3. todo \in Injection(1..n, S)
  BY <1>2 DEF Injection, IsInjective
<1>4. Cardinality(1..n) = n
  BY FS_Interval
<1>5. todo \in Surjection(1..n, S)
  BY <1>1, <1>3, <1>4, FS_Injection
<1>6. Range(todo) = S
  BY <1>2, <1>5 DEF Surjection, Range
<1> QED
  BY <1>2, <1>6 DEF IsInjective

LEMMA Enumerated ==
  ASSUME NEW S, IsFiniteSet(S)
  PROVE  SetToSeq(S) \in Seq(S) /\ Range(SetToSeq(S)) = S /\ IsInjective(SetToSeq(S))
<1>1. PICK n \in Nat : n = Cardinality(S) /\ ExistsBijection(1..n, S)
  BY FS_CardinalityType
<1>2. \E f \in [1..n -> S] : IsInjective(f)
  BY <1>1 DEF ExistsBijection, Bijection, Injection
<1>3. SetToSeq(S) \in [1..n -> S] /\ IsInjective(SetToSeq(S))
  BY <1>1, <1>2 DEF SetToSeq
<1>4. SetToSeq(S) \in SetToSeqs(S)
  BY <1>1, <1>3 DEF SetToSeqs, IsInjective
<1> QED
  BY <1>4, Scanned

-----------------------------------------------------------------------------
(* What files flatten to.                                                  *)

(* A flat map maps some of the keys to values.                             *)
LEMMA FlatMapParts ==
  ASSUME NEW m \in FlatMaps
  PROVE  /\ DOMAIN m \subseteq Keys
         /\ m = [k \in DOMAIN m |-> m[k]]
         /\ \A k \in DOMAIN m : m[k] \in Vals
<1>1. PICK S \in SUBSET Keys : m \in [S -> Vals]
  BY DEF FlatMaps
<1> QED
  BY <1>1

LEMMA EmptyMapTyped == EmptyMap \in FlatMaps
<1>1. {} \in SUBSET Keys /\ EmptyMap \in [{} -> Vals]
  BY DEF EmptyMap
<1> QED
  BY <1>1 DEF FlatMaps

LEMMA LineTyped ==
  ASSUME NEW doc \in Docs, NEW p \in DOMAIN doc, doc[p] # NoEntries, Line(doc, p).val # Lines
  PROVE  Line(doc, p).key \in Keys /\ Line(doc, p).val \in Vals
<1>1. Line(doc, p).key = LineKey(p) /\ Line(doc, p).val = IF doc[p] = Null THEN Empty ELSE doc[p]
  BY DEF Line
<1>2. LineKey(p) \in Keys
  BY DEF Keys
<1>3. doc[p] \in Vals \cup {Null, NoEntries, Lines} /\ Empty \in Vals
  BY CodecAssumption
<1> QED
  BY <1>1, <1>2, <1>3

LEMMA FlatTyped ==
  ASSUME NEW n \in Nat, NEW lines, DOMAIN lines = 1..n,
         \A i \in 1..n : lines[i].key \in Keys /\ lines[i].val \in Vals
  PROVE  FlatOf(lines) \in FlatMaps
<1> DEFINE K == {lines[i].key : i \in DOMAIN lines}
<1>1. K \in SUBSET Keys
  OBVIOUS
<1>2. ASSUME NEW k \in K
      PROVE  lines[Max({i \in DOMAIN lines : lines[i].key = k})].val \in Vals
  <2>1. PICK s : s = {i \in DOMAIN lines : lines[i].key = k}
    OBVIOUS
  <2>2. s \in SUBSET (0..n) /\ s # {} /\ s \subseteq DOMAIN lines
    BY <2>1
  <2>3. Max(s) \in s
    BY <2>2, MaxIs
  <2> QED
    BY <2>1, <2>2, <2>3
<1>3. FlatOf(lines) \in [K -> Vals]
  BY <1>2 DEF FlatOf
<1> QED
  BY <1>1, <1>3 DEF FlatMaps

(* The lines of leaves: those after the last empty map.                    *)
LEMMA LinesAre ==
  ASSUME NEW doc, NEW s \in Seq(DOMAIN doc)
  PROVE  \E dropped \in 0..Len(s) :
           /\ LinesOf(doc, s) = [i \in 1..(Len(s) - dropped) |-> Line(doc, s[dropped + i])]
           /\ \A i \in 1..(Len(s) - dropped) : doc[s[dropped + i]] # NoEntries
           /\ (\A p \in DOMAIN doc : doc[p] # NoEntries) => dropped = 0
<1> DEFINE D == {0} \cup {i \in DOMAIN s : doc[s[i]] = NoEntries}
<1>1. PICK n \in Nat : n = Len(s) /\ DOMAIN s = 1..n
  OBVIOUS
<1>2. D \in SUBSET (0..n) /\ D # {}
  BY <1>1
<1>3. PICK dropped : dropped = Max(D) /\ dropped \in D /\ \A i \in D : dropped >= i
  <2> HIDE DEF D
  <2> QED
    BY <1>2, MaxIs
<1>4. dropped \in 0..n
  BY <1>2, <1>3
<1>5. ASSUME NEW i \in 1..(n - dropped)
      PROVE  doc[s[dropped + i]] # NoEntries
  <2>1. dropped + i \in 1..n /\ ~(dropped >= dropped + i)
    BY <1>4
  <2>2. dropped + i \notin D
    BY <1>3, <2>1
  <2> QED
    BY <1>1, <2>1, <2>2
<1>6. (\A p \in DOMAIN doc : doc[p] # NoEntries) => dropped = 0
  <2>1. \A i \in DOMAIN s : s[i] \in DOMAIN doc
    OBVIOUS
  <2> QED
    BY <1>3, <2>1
<1>7. LinesOf(doc, s) = [i \in 1..(Len(s) - dropped) |-> Line(doc, s[dropped + i])]
  BY <1>3 DEF LinesOf
<1> QED
  BY <1>1, <1>4, <1>5, <1>6, <1>7

LEMMA LinesTyped ==
  ASSUME NEW doc \in Docs, NEW s \in Seq(DOMAIN doc),
         \A i \in DOMAIN LinesOf(doc, s) : LinesOf(doc, s)[i].val # Lines
  PROVE  FlatOf(LinesOf(doc, s)) \in FlatMaps
<1>1. PICK dropped \in 0..Len(s) :
        /\ LinesOf(doc, s) = [i \in 1..(Len(s) - dropped) |-> Line(doc, s[dropped + i])]
        /\ \A i \in 1..(Len(s) - dropped) : doc[s[dropped + i]] # NoEntries
  BY LinesAre
<1>2. PICK n \in Nat : n = Len(s) - dropped
  OBVIOUS
<1>3. PICK lines : lines = LinesOf(doc, s) /\ DOMAIN lines = 1..n
  BY <1>1, <1>2
<1>4. ASSUME NEW i \in 1..n
      PROVE  lines[i].key \in Keys /\ lines[i].val \in Vals
  <2>1. dropped + i \in 1..Len(s)
    BY <1>2
  <2>2. PICK p \in DOMAIN doc : p = s[dropped + i]
    BY <2>1
  <2>3. lines[i] = Line(doc, p) /\ doc[p] # NoEntries /\ Line(doc, p).val # Lines
    BY <1>1, <1>2, <1>3, <2>2
  <2> QED
    BY <2>3, LineTyped
<1> QED
  BY <1>3, <1>4, FlatTyped

(* Every leaf in a line of its own gives what the document says.           *)
LEMMA FlatSays ==
  ASSUME NEW doc \in Docs, ~Ambiguous(doc), \A p \in DOMAIN doc : doc[p] # NoEntries,
         NEW s \in Seq(DOMAIN doc), Range(s) = DOMAIN doc, IsInjective(s)
  PROVE  FlatOf(LinesOf(doc, s)) = Meaning[doc]
<1> DEFINE leaves == {p \in DOMAIN doc : doc[p] # NoEntries}
           Leaf(k) == CHOOSE p \in leaves : FlattenSeq(p) = k
           says == [k \in {FlattenSeq(p) : p \in leaves} |->
                      IF doc[Leaf(k)] = Null THEN Empty ELSE doc[Leaf(k)]]
<1>0. leaves = DOMAIN doc
  OBVIOUS
<1>1. Meaning[doc] = says
  <2>1. doc \in Files /\ doc \notin {Blank, Unparsable}
    BY CodecAssumption DEF Files
  <2> QED
    BY <2>1 DEF Meaning
<1>2. PICK n \in Nat : n = Len(s) /\ DOMAIN s = 1..n
  OBVIOUS
<1>3. PICK lines : lines = LinesOf(doc, s) /\ lines = [i \in 1..n |-> Line(doc, s[i])]
  <2>1. LinesOf(doc, s) = [i \in 1..(Len(s) - 0) |-> Line(doc, s[0 + i])]
    BY LinesAre
  <2>2. Len(s) - 0 = n /\ \A i \in 1..n : 0 + i = i
    BY <1>2
  <2> QED
    BY <2>1, <2>2
<1>4. DOMAIN lines = 1..n /\ \A i \in 1..n : lines[i] = Line(doc, s[i]) /\ lines[i].key = LineKey(s[i])
  BY <1>3 DEF Line
<1>5. ASSUME NEW p \in DOMAIN doc
      PROVE  lines[Max({i \in DOMAIN lines : lines[i].key = LineKey(p)})].val
               = IF doc[p] = Null THEN Empty ELSE doc[p]
  <2>1. PICK j \in 1..n : s[j] = p
    BY <1>2 DEF Range
  <2>2. ASSUME NEW i \in 1..n, LineKey(s[i]) = LineKey(p)
        PROVE  i = j
    <3>1. s[i] \in DOMAIN doc
      BY <1>2
    <3>2. s[i] = p
      BY <2>2, <3>1 DEF Ambiguous
    <3> QED
      BY <1>2, <2>1, <3>2 DEF IsInjective
  <2>3. PICK own : own = {i \in DOMAIN lines : lines[i].key = LineKey(p)} /\ own = {j}
    BY <1>4, <2>1, <2>2
  <2>4. Max(own) = j
    <3>1. own \in SUBSET (0..n) /\ own # {}
      <4>1. j \in 0..n
        OBVIOUS
      <4> QED
        BY <2>3, <4>1
    <3> QED
      BY <2>3, <3>1, MaxIs
  <2> QED
    BY <1>4, <2>1, <2>3, <2>4 DEF Line
<1>6. {lines[i].key : i \in DOMAIN lines} = {LineKey(p) : p \in DOMAIN doc}
  BY <1>2, <1>4 DEF Range
<1>7. ASSUME NEW p \in DOMAIN doc, NEW k, k = LineKey(p)
      PROVE  Leaf(k) = p
  <2>1. \A q \in leaves : FlattenSeq(q) = k <=> q = p
    BY <1>0, <1>7 DEF Ambiguous, LineKey
  <2>2. p \in leaves
    BY <1>0
  <2> HIDE DEF leaves
  <2> QED
    BY <2>1, <2>2
<1> HIDE DEF Leaf, leaves
<1>8. DOMAIN says = {LineKey(p) : p \in DOMAIN doc}
  BY <1>0 DEF LineKey
<1>9. ASSUME NEW k \in DOMAIN says
      PROVE  lines[Max({i \in DOMAIN lines : lines[i].key = k})].val = says[k]
  <2>1. PICK p \in DOMAIN doc : k = LineKey(p)
    BY <1>8
  <2>2. says[k] = IF doc[p] = Null THEN Empty ELSE doc[p]
    BY <1>7, <1>9, <2>1
  <2> QED
    BY <1>5, <2>1, <2>2
<1>10. says = [k \in DOMAIN says |-> says[k]]
  OBVIOUS
<1>11. FlatOf(lines) = [k \in DOMAIN says |-> lines[Max({i \in DOMAIN lines : lines[i].key = k})].val]
  BY <1>6, <1>8 DEF FlatOf
<1> HIDE DEF says
<1> QED
  BY <1>1, <1>3, <1>9, <1>10, <1>11

(* What a document is printed as: its leaves in some order.                *)
LEMMA Printed ==
  ASSUME NEW doc \in Docs, NEW lines \in TreeLines(doc) \cup FileLines(doc)
  PROVE  \E s \in Seq(DOMAIN doc) :
           /\ lines = LinesOf(doc, s) /\ IsInjective(s)
           /\ (\A p \in DOMAIN doc : doc[p] # NoEntries) => Range(s) = DOMAIN doc
<1>1. IsFiniteSet(DOMAIN doc)
  BY CodecAssumption
<1>2. CASE lines \in TreeLines(doc)
  <2>1. PICK s \in SetToSeqs(DOMAIN doc) : lines = LinesOf(doc, s)
    BY <1>2 DEF TreeLines, Walks
  <2> QED
    BY <1>1, <2>1, Scanned
<1>3. CASE lines \in FileLines(doc)
  <2> DEFINE leaves == {p \in DOMAIN doc : doc[p] # NoEntries}
  <2>1. IsFiniteSet(leaves) /\ leaves \subseteq DOMAIN doc
    BY <1>1, FS_Subset
  <2>2. PICK s : s = SetToSeq(leaves) /\ lines = LinesOf(doc, s)
    BY <1>3 DEF FileLines
  <2>3. s \in Seq(leaves) /\ Range(s) = leaves /\ IsInjective(s)
    <3> HIDE DEF leaves
    <3> QED
      BY <2>1, <2>2, Enumerated
  <2>4. s \in Seq(DOMAIN doc)
    BY <2>1, <2>3
  <2> QED
    BY <2>2, <2>3, <2>4
<1> QED
  BY <1>2, <1>3

(* A file of any format flattens to flat maps; and if there is no empty map*)
(* in it and no two of its leaves have the same key, to nothing but what it*)
(* says, in whatever order Go walks it (YamlToFlatMap, JsonToFlatMap,      *)
(* PropertiesToMap).                                                       *)
THEOREM FlatsRight ==
  ASSUME NEW fmt \in Formats, NEW f \in Files
  PROVE  /\ FlatsOf[fmt][f] \subseteq FlatMaps
         /\ (f \in Docs => NoEntries \notin Range(f) /\ ~Ambiguous(f))
              => FlatsOf[fmt][f] \subseteq {Meaning[f]}
<1>1. CASE f \in {Blank, Unparsable}
  <2>1. FlatsOf[fmt][f] = {EmptyMap} /\ Meaning[f] = EmptyMap
    BY <1>1 DEF FlatsOf, Meaning
  <2>2. EmptyMap \in FlatMaps
    BY EmptyMapTyped
  <2> QED
    BY <2>1, <2>2
<1>2. CASE f \in Docs
  <2> SUFFICES ASSUME NEW flat \in FlatsOf[fmt][f]
               PROVE  /\ flat \in FlatMaps
                      /\ NoEntries \notin Range(f) /\ ~Ambiguous(f) => flat = Meaning[f]
    BY <1>2
  <2>1. PICK lines \in TreeLines(f) \cup FileLines(f) :
          flat = FlatOf(lines) /\ \A i \in DOMAIN lines : lines[i].val # Lines
    <3>1. f \notin {Blank, Unparsable}
      BY <1>2, CodecAssumption
    <3>2. FlatsOf[fmt][f] \subseteq FlatsOfLines(TreeLines(f)) \cup FlatsOfLines(FileLines(f))
      BY <3>1 DEF FlatsOf
    <3> QED
      BY <3>2 DEF FlatsOfLines
  <2>2. PICK s \in Seq(DOMAIN f) :
          /\ lines = LinesOf(f, s) /\ IsInjective(s)
          /\ (\A p \in DOMAIN f : f[p] # NoEntries) => Range(s) = DOMAIN f
    BY <1>2, Printed
  <2>3. flat \in FlatMaps
    BY <1>2, <2>1, <2>2, LinesTyped
  <2>4. ASSUME NoEntries \notin Range(f), ~Ambiguous(f)
        PROVE  flat = Meaning[f]
    <3>1. \A p \in DOMAIN f : f[p] # NoEntries
      BY <2>4 DEF Range
    <3> QED
      BY <1>2, <2>1, <2>2, <2>4, <3>1, FlatSays
  <2> QED
    BY <2>3, <2>4
<1> QED
  BY <1>1, <1>2 DEF Files

-----------------------------------------------------------------------------
(* What a diff finds.                                                      *)

(* The differences between two flat maps are complete: applied to the old  *)
(* one they give a map that is equal to the new one up to case.            *)
THEOREM DiffComplete ==
  ASSUME NEW old \in FlatMaps, NEW new \in FlatMaps
  PROVE  EqualMaps(Patched(old, new), new)
<1>1. DOMAIN Patched(old, new) = DOMAIN new
  BY DEF Patched, Removed, Added
<1>2. ASSUME NEW k \in DOMAIN new
      PROVE  EqualFold(Patched(old, new)[k], new[k])
  <2>1. CASE k \in Added(old, new) \cup Changed(old, new)
    BY <1>1, <2>1 DEF Patched, EqualFold
  <2>2. CASE k \notin Added(old, new) \cup Changed(old, new)
    <3>1. k \in DOMAIN old /\ Patched(old, new)[k] = old[k]
      BY <1>1, <2>2 DEF Patched, Added
    <3> QED
      BY <2>2, <3>1 DEF Changed, EqualFold
  <2> QED
    BY <2>1, <2>2
<1> QED
  BY <1>1, <1>2 DEF EqualMaps

(* No key has two events in a diff, so the order in which Go iterates over *)
(* the maps of a diff cannot matter to the application that applies them.  *)
THEOREM OneEventPerKey ==
  ASSUME NEW old \in FlatMaps, NEW new \in FlatMaps,
         NEW d \in EventsOf(old, new), NEW e \in EventsOf(old, new), d.key = e.key
  PROVE  d = e
  BY DEF EventsOf, Added, Removed, Changed

(* A release that diff calls the same would not have changed anything but  *)
(* the case of values, unless the new file is empty.                       *)
THEOREM SameIsEqual ==
  ASSUME NEW old \in FlatMaps, NEW new \in FlatMaps,
         SameMaps(old, new), DOMAIN new # {}
  PROVE  EqualMaps(old, new)
<1>1. Added(old, new) = {} /\ Removed(old, new) = {} /\ Changed(old, new) = {}
  BY DEF SameMaps
<1>2. DOMAIN old = DOMAIN new
  BY <1>1 DEF Added, Removed
<1>3. \A k \in DOMAIN old : EqualFold(old[k], new[k])
  BY <1>1, <1>2 DEF Changed, EqualFold
<1> QED
  BY <1>2, <1>3 DEF EqualMaps
=============================================================================
