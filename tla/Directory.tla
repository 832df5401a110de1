----------------------------- MODULE Directory -----------------------------
(***************************************************************************)
(* What the administration of users and applications promises, without     *)
(* nodes, reads and requests: an account keeps its password, an            *)
(* application keeps its token, a change of an application touches what it *)
(* names and nothing else, and roles are granted to accounts only: to the  *)
(* names between the commas of the name of an account (Parts).             *)
(***************************************************************************)
CONSTANTS Apps, Users, Parts, Roles, Infos, Passwords, Applications, NoVal

VARIABLES apps, accounts, admins

dir == <<apps, accounts, admins>>

SignUp(u) ==
  /\ accounts[u] = NoVal
  /\ \E p \in Passwords : accounts' = [accounts EXCEPT ![u] = p]
  /\ UNCHANGED <<apps, admins>>

Promote(u) ==
  /\ accounts[u] # NoVal
  /\ admins' = admins \cup {u}
  /\ UNCHANGED <<apps, accounts>>

Create(a) ==
  /\ apps[a] = NoVal
  /\ apps'[a] \in Applications
  /\ apps' = [apps EXCEPT ![a] = apps'[a]]
  /\ UNCHANGED <<accounts, admins>>

Describe(a) ==
  /\ apps[a] # NoVal
  /\ \E i \in Infos : apps' = [apps EXCEPT ![a].about = i]
  /\ UNCHANGED <<accounts, admins>>

Grant(a, r, u) ==
  /\ apps[a] # NoVal /\ accounts[u] # NoVal
  /\ apps' = [apps EXCEPT ![a].roles[r] = @ \cup Parts[u]]
  /\ UNCHANGED <<accounts, admins>>

Revoke(a, r, u) ==
  /\ apps[a] # NoVal
  /\ apps' = [apps EXCEPT ![a].roles[r] = @ \ {u}]
  /\ UNCHANGED <<accounts, admins>>

Next ==
  \/ \E u \in Users : SignUp(u) \/ Promote(u)
  \/ \E a \in Apps : Create(a) \/ Describe(a)
  \/ \E a \in Apps, r \in Roles, u \in Users : Grant(a, r, u) \/ Revoke(a, r, u)
=============================================================================
