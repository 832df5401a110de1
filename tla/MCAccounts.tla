----------------------------- MODULE MCAccounts -----------------------------
(* Model-checking instance of Accounts.                                    *)
EXTENDS Accounts, TLC

CONSTANTS n1, n2, h1, h2, a1, a2, root, u1, bob, pair, p0, p1, t1, t2, i1, i2

(* The name of pair is made of those of bob and root, with a comma.        *)
SplitNames == [u \in Users |-> IF u = pair THEN {bob, root} ELSE {u}]

Empty == [k \in Keys |-> NoVal]
OwnedBy(u) == [r \in Roles |-> IF r = Owner THEN {u} ELSE {}]
App(t) == [token |-> t, about |-> i1, roles |-> OwnedBy(u1), given |-> {}]

(* A cluster that starts, and one with its administrator, a user and the   *)
(* application the user owns.                                              *)
FreshOrUsed ==
  {[db |-> Empty, started |-> Nodes],
   [db |-> [Empty EXCEPT ![UserKey(root)] = p0, ![AdminKey(root)] = TRUE,
                         ![UserKey(u1)] = p1, ![AppKey(a1)] = App(t1),
                         ![SpaceKey(a1)] = TRUE, ![ListKey("apps", u1)] = <<a1>>,
                         ![ListKey("bookmarks", u1)] = <<a1>>],
    started |-> {}]}

SomeRequests ==
  {[op |-> "new", app |-> a2, about |-> i1, roles |-> OwnedBy(root)],
   [op |-> "modify", app |-> a1, about |-> i2], [op |-> "modify", app |-> a1, about |-> NoVal],
   [op |-> "signup", user |-> pair, password |-> p0],
   [op |-> "unmark", app |-> a1, user |-> u1],
   [op |-> "add", app |-> a1, role |-> Owner, user |-> pair],
   [op |-> "remove", app |-> a1, role |-> Owner, user |-> u1],
   [op |-> "remove", app |-> a1, role |-> Owner, user |-> root]}

HandlerSymmetry == Permutations(Handlers)
=============================================================================
