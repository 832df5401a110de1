-------------------------------- MODULE Codec --------------------------------
(***************************************************************************)
(* How the text of a namespace becomes a flat map (service/cfg/codec.go).  *)
(*                                                                         *)
(* A text that its format's parser accepts is a document: a function from  *)
(* the paths of its leaves to the leaves.  A step of a path is a name, as  *)
(* the sequence of the words between its dots, or the index of a list.     *)
(* YAML and JSON are flattened to lines key=value by walking the tree, in  *)
(* the random order of Go's maps; a properties file is a text of lines     *)
(* already.  Keys and values have no "=" in them.                          *)
(***************************************************************************)
EXTENDS Naturals, SequencesExt

CONSTANTS
  Docs,
  Vals,        \* scalars
  Empty,       \* the text ""
  Null,        \* the leaf null
  NoEntries,   \* the leaf {}
  Lines,       \* a leaf that is a text of several lines
  Blank,       \* the file "", which createNamespace writes
  Unparsable   \* a file its format's parser rejects

Yaml  == "yaml"
Json  == "json"
Props == "props"
Yml   == "yml"    \* accepted by NamespaceReq.Valid, unknown to diff
Formats == {Yaml, Json, Props, Yml}

Files == Docs \cup {Blank, Unparsable}
Index == <<<<"[0]">>, <<"[1]">>, <<"[2]">>>>

ASSUME CodecAssumption ==
  /\ Empty \in Vals /\ Vals \cap {Null, NoEntries, Lines} = {}
  /\ Blank \notin Docs /\ Unparsable \notin Docs /\ Blank # Unparsable
  /\ \A d \in Docs : /\ IsFiniteSet(DOMAIN d)
                     /\ \A p \in DOMAIN d : d[p] \in Vals \cup {Null, NoEntries, Lines}

EmptyMap == [k \in {} |-> k]

-----------------------------------------------------------------------------
(* MapToProperties and doMapToProperties.                                  *)

LineKey(path) == FlattenSeq(path)
Keys == {LineKey(p) : p \in UNION {DOMAIN d : d \in Docs}}

Fork(p, q) == Len(LongestCommonPrefix({p, q}))

(* The leaves below a node come one after the other, and those of a list   *)
(* in its order.                                                           *)
DepthFirst(s) ==
  \A i, j, k \in DOMAIN s : i < j /\ j < k => Fork(s[i], s[j]) >= Fork(s[i], s[k])
InListOrder(s) ==
  \A i, j \in DOMAIN s, m, n \in DOMAIN Index : i < j /\ n < m =>
    LET fork == Fork(s[i], s[j]) IN
      ~(s[i][fork + 1] = Index[m] /\ s[j][fork + 1] = Index[n])
Walks(doc) == {s \in SetToSeqs(DOMAIN doc) : DepthFirst(s) /\ InListOrder(s)}

(* The lines of the leaves s: for an empty map doMapToProperties returns a *)
(* list without the lines it was given.                                    *)
Line(doc, p) == [key |-> LineKey(p), val |-> IF doc[p] = Null THEN Empty ELSE doc[p]]
LinesOf(doc, s) ==
  LET dropped == Max({0} \cup {i \in DOMAIN s : doc[s[i]] = NoEntries})
  IN [i \in 1..(Len(s) - dropped) |-> Line(doc, s[dropped + i])]

(* MapToProperties asks for the type of every value of the outermost map,  *)
(* and null has none: it panics.                                           *)
TreeLines(doc) ==
  IF \E p \in DOMAIN doc : Len(p) = 1 /\ doc[p] = Null THEN {}
  ELSE {LinesOf(doc, s) : s \in Walks(doc)}

(* A properties file has the leaves in its lines, except {}.               *)
FileLines(doc) == {LinesOf(doc, SetToSeq({p \in DOMAIN doc : doc[p] # NoEntries}))}

(* YamlToKvList, YamlToFlatMap, PropertiesToMap: the last line of a key    *)
(* counts.  GetPropertiesItemLineList does not join the lines of a value,  *)
(* and a line without "=" makes its caller panic.                          *)
FlatOf(lines) ==
  [k \in {lines[i].key : i \in DOMAIN lines} |->
     lines[Max({i \in DOMAIN lines : lines[i].key = k})].val]
FlatsOfLines(printed) ==
  {FlatOf(lines) : lines \in {l \in printed : \A i \in DOMAIN l : l[i].val # Lines}}

(* What a file may flatten to, each time it is parsed: nothing where the   *)
(* parser panics.                                                          *)
FlatsOf ==
  [kind \in Formats |->
     [f \in Files |->
        IF f \in {Blank, Unparsable} THEN {EmptyMap}
        ELSE FlatsOfLines(IF kind = Props THEN FileLines(f) ELSE TreeLines(f))]]

(* The errors.  YamlToKvList takes a text without ":" and "-" for an empty *)
(* map; JsonToYaml and PropertiesToMap reject the empty file, and          *)
(* PropertiesToMap every file without a "=".                               *)
ParseFails(format, f) ==
  \/ f = Unparsable /\ format # Yml
  \/ f = Blank /\ format \in {Json, Props}
  \/ format = Props /\ f \in Docs /\ DOMAIN f = {}

-----------------------------------------------------------------------------
(* What a document says: a value for the key of every leaf.  Two leaves may*)
(* have the same key, as those of a: {b: 1}, a.b: 2; then one of them      *)
(* counts.                                                                 *)
Ambiguous(doc) == \E p, q \in DOMAIN doc : p # q /\ LineKey(p) = LineKey(q)
Meaning ==
  [f \in Files |->
     IF f \in {Blank, Unparsable} THEN EmptyMap
     ELSE LET leaves == {p \in DOMAIN f : f[p] # NoEntries}
              Value(p) == IF f[p] = Null THEN Empty ELSE f[p]
          IN [k \in {FlattenSeq(p) : p \in leaves} |->
                Value(CHOOSE p \in leaves : FlattenSeq(p) = k)]]
=============================================================================
