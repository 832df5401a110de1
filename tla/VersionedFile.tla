--------------------------- MODULE VersionedFile ---------------------------
(***************************************************************************)
(* What the administration of a namespace promises, without nodes, reads   *)
(* and requests: one file with a draft and a history.  The file is created *)
(* once, it changes only to the draft, and only after the text it had was  *)
(* filed in the history; nothing leaves the history.                       *)
(***************************************************************************)
CONSTANTS Files, Blank, Broken, NoVal

VARIABLES current, draft, history

Init ==
  /\ current = NoVal
  /\ draft = NoVal
  /\ history = {}

Create ==
  /\ current = NoVal
  /\ current' = Blank
  /\ UNCHANGED <<draft, history>>

SaveDraft(f) ==
  /\ current # NoVal
  /\ draft' = f
  /\ UNCHANGED <<current, history>>

File ==
  /\ current # NoVal
  /\ history' = history \cup {current}
  /\ UNCHANGED <<current, draft>>

Release ==
  /\ current \in history
  /\ draft \notin {NoVal, Blank, Broken}
  /\ current' = draft
  /\ UNCHANGED <<draft, history>>

Next == Create \/ (\E f \in Files : SaveDraft(f)) \/ File \/ Release

Spec == Init /\ [][Next]_<<current, draft, history>>
=============================================================================
