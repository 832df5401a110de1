--------------------------- MODULE MCConfigStream ---------------------------
(* Model-checking instance of ConfigStream.                                *)
EXTENDS ConfigStream

CONSTANTS n1, n2, i1, on, ON, off

(* Two values that differ only in case, and a third.                       *)
Texts == {on, ON, off, Empty}
CaseFold == (on :> on) @@ (ON :> on) @@ (off :> off) @@ (Empty :> Empty)

Host == << <<"db">>, <<"host">> >>   \* db: {host: ...}
DottedHost == << <<"db", "host">> >> \* db.host: ...
User(i) == << <<"users">>, Index[i] >>

(* Steps that add, remove and change keys, one of them only in the case of *)
(* a value, in nested and in dotted spelling; a list with a null; a file   *)
(* with a key in two spellings and an empty map; one with a text that      *)
(* YamlToKvList splits, which stops every release.                         *)
FewDocs ==
  {Host :> off,
   (DottedHost :> ON) @@ (User(1) :> Null),
   (Host :> on) @@ (DottedHost :> off) @@ (<< <<"more">> >> :> NoEntries),
   Host :> Lines}
FewDrafts == FewDocs \cup {Blank, Unparsable}

TwoServers == {[id |-> n1, addr |-> n1], [id |-> n2, addr |-> n2]}
=============================================================================
