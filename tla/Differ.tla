------------------------------- MODULE Differ -------------------------------
(***************************************************************************)
(* How micro-conf compares two versions of a namespace                     *)
(* (service/cfg/differ.go).  A namespace is a file; its format is the      *)
(* suffix of its name.  Codec flattens a file to a map from keys to        *)
(* values, and the maps are compared key by key.                           *)
(***************************************************************************)
EXTENDS Codec

CONSTANT FoldOf   \* FoldOf[v]: v without its case

ASSUME DifferAssumption == DOMAIN FoldOf = Vals

FlatMaps == UNION {[S -> Vals] : S \in SUBSET Keys}

-----------------------------------------------------------------------------
(* buildNamespaceDiff.                                                     *)

EqualFold(v, w) == FoldOf[v] = FoldOf[w]

(* A plausible bug, for checking the properties: keys that only the old    *)
(* map has are never looked at.                                            *)
NoneRemoved(old, new) == {}

Added(old, new) == DOMAIN new \ DOMAIN old
Removed(old, new) == DOMAIN old \ DOMAIN new
Changed(old, new) ==
  {k \in DOMAIN old \cap DOMAIN new : ~EqualFold(new[k], old[k])}

(* An empty new map counts as no difference.                               *)
SameMaps(old, new) ==
  \/ DOMAIN new = {}
  \/ Added(old, new) = {} /\ Removed(old, new) = {} /\ Changed(old, new) = {}

-----------------------------------------------------------------------------
(* diff: which maps are compared.  The error of parsing the old file is    *)
(* overwritten; the old map of a JSON namespace is computed from the new   *)
(* file; a format without a case in the switch leaves both maps nil.  Each *)
(* of these is a set: parsing may give one map or another (Codec).         *)

OldMaps(format, old, new) ==
  CASE format = Json -> FlatsOf[format][new]
    [] format = Yml  -> {EmptyMap}
    [] OTHER         -> FlatsOf[format][old]

NewMaps(format, new) == IF format = Yml THEN {EmptyMap} ELSE FlatsOf[format][new]

DiffFails(format, new) == ParseFails(format, new)

(* A plausible bug: an event of an added key carries the key as its value. *)
EventsWithKeys(old, new) == {[type |-> "add", key |-> k, current |-> k] : k \in Added(old, new)}

(* The change events of a diff, as doPush turns its maps into them         *)
(* (change_listener.go).                                                   *)
EventsOf(old, new) ==
  {[type |-> "add", key |-> k, current |-> new[k]] : k \in Added(old, new)}
    \cup {[type |-> "remove", key |-> k, current |-> old[k]] : k \in Removed(old, new)}
    \cup {[type |-> "change", key |-> k, current |-> new[k]] : k \in Changed(old, new)}

-----------------------------------------------------------------------------
(* What a diff is for.                                                     *)

(* Equality of two flat maps as diff sees it.                              *)
EqualMaps(m, w) ==
  DOMAIN m = DOMAIN w /\ \A k \in DOMAIN m : EqualFold(m[k], w[k])

(* The old map with all the differences applied to it.                     *)
Patched(old, new) ==
  [k \in (DOMAIN old \ Removed(old, new)) \cup Added(old, new) |->
     IF k \in Added(old, new) \cup Changed(old, new) THEN new[k] ELSE old[k]]
=============================================================================
