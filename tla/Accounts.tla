------------------------------ MODULE Accounts ------------------------------
(***************************************************************************)
(* Users and applications: the accounts (user/store.go, user/user.go), the *)
(* administrator every node tries to create after its start                *)
(* (user/admin.go), the application records with their tokens and roles    *)
(* (service/app/app.go, service/app/api.go), and the two lists of          *)
(* applications of every user (service/app/user_app.go).  Every change     *)
(* reads the database of the node that serves it and writes through Raft.  *)
(*                                                                         *)
(* The databases are the sequence of states that the committed writes      *)
(* produce; a node shows one of them.  Names differ in more than case, and *)
(* the names of applications are equally long.  The name of an account may *)
(* contain commas (session.go:18,43: the pattern is not anchored), and the *)
(* text of a role is read as the names between its commas.                 *)
(***************************************************************************)
EXTENDS Naturals, Sequences, FiniteSets

CONSTANTS
  Nodes, Leader,
  Handlers,      \* request goroutines, and those that wait for the election
  Apps, Users, Roles,
  Parts,         \* Parts[u]: the names between the commas of the name u
  Owner,         \* the role that may change roles
  Admin,         \* the configured administrator
  AdminPassword,
  Passwords,
  Tokens,        \* what RandomNumAlphabets may return
  Infos,         \* name, department, detail and groups of an application
  Requests,      \* the bodies of the requests
  Earlier,       \* what has happened before: a database, the nodes just started
  NoVal,         \* badger.ErrKeyNotFound
  MaxRequests,   \* bound: requests and starts
  MaxLag,        \* bound: writes a node is behind
  MaxFailures    \* bound: writes that go wrong and stops of a node

AppKey(a) == <<"app", a>>
UserKey(u) == <<"user", u>>
AdminKey(u) == <<"admin", u>>
SpaceKey(a) == <<"namespace", a>>
ListKey(kind, u) == <<kind, u>>   \* kind: "apps" or "bookmarks"

(* The names that a role can hold: those without a comma.                  *)
Names == UNION {Parts[u] : u \in Users}

Applications == [token : Tokens, about : Infos, roles : [Roles -> SUBSET Names],
                 given : SUBSET Names]   \* ghost: who had a role from the start
ValuesOf(key) ==
  CASE key[1] = "app" -> Applications
    [] key[1] = "user" -> Passwords
    [] key[1] \in {"admin", "namespace"} -> {TRUE}
    [] OTHER -> Seq(Apps)
Keys == ({"app", "namespace"} \X Apps) \cup ({"user", "admin", "apps", "bookmarks"} \X Users)

(* Whoever is administrator has an account, and a name in a role is part   *)
(* of the name of an account, or was there at the creation.                *)
GroundedIn(d) ==
  /\ \A u \in Users : d[AdminKey(u)] # NoVal => d[UserKey(u)] # NoVal
  /\ \A a \in Apps, r \in Roles, u \in Names :
       d[AppKey(a)] # NoVal /\ u \in d[AppKey(a)].roles[r] =>
         \/ \E v \in Users : d[UserKey(v)] # NoVal /\ u \in Parts[v]
         \/ u \in d[AppKey(a)].given

RequestTypes ==
  [op : {"new"}, app : Apps, about : Infos, roles : [Roles -> SUBSET Names]]
    \cup [op : {"modify"}, app : Apps, about : Infos \cup {NoVal}]
    \cup [op : {"add", "remove"}, app : Apps, role : Roles, user : Users]
    \cup [op : {"mark", "unmark"}, app : Apps, user : Users]
    \cup [op : {"signup"}, user : Users, password : Passwords]

ASSUME AccountsAssumption ==
  /\ Leader \in Nodes /\ Admin \in Users /\ AdminPassword \in Passwords /\ Owner \in Roles
  /\ Parts \in [Users -> SUBSET Users]
  /\ \A u \in Users : \A v \in Parts[u] : Parts[v] = {v}
  /\ Requests \subseteq RequestTypes
  /\ NoVal \notin Applications \cup Passwords \cup {TRUE} \cup Seq(Apps)
  /\ {MaxRequests, MaxLag, MaxFailures} \subseteq Nat
ASSUME EarlierAssumption ==
  \A e \in Earlier :
    /\ e.db = [k \in Keys |-> e.db[k]]
    /\ \A k \in Keys : e.db[k] \in ValuesOf(k) \cup {NoVal}
    /\ GroundedIn(e.db)
    /\ e.started \subseteq Nodes

VARIABLES
  dbs,       \* the databases the log of writes has led to, in their order
  applied,   \* dbs[applied[n]]: the database of node n
  booting,   \* the nodes whose five seconds after the start are not over
  task,      \* task[h]: what h does, or Idle
  requests, failures

vars == <<dbs, applied, booting, task, requests, failures>>

Idle == [pc |-> "idle"]
Newest == dbs[Len(dbs)]

Init ==
  /\ \E e \in Earlier : dbs = <<e.db>> /\ booting = e.started
  /\ applied = [n \in Nodes |-> 1]
  /\ task = [h \in Handlers |-> Idle]
  /\ requests = 0 /\ failures = 0

-----------------------------------------------------------------------------
(* Reads, writes and requests.                                             *)

Become(h, t) == task' = [task EXCEPT ![h] = t]

(* rs.Get on the node of t.                                                *)
Look(t, key) == dbs[applied[t.node]][key]

Go(h, t, step) ==
  /\ Become(h, [t EXCEPT !.pc = step, !.at = applied[t.node]])
  /\ UNCHANGED <<dbs, applied, failures>>
Stop(h) == Become(h, Idle) /\ UNCHANGED <<dbs, applied, failures>>

(* rs.Set.  An error does not mean that nothing was committed, and a       *)
(* redirected write may be reported as done without being committed.       *)
Set(h, t, key, val, next, otherwise) ==
  \E committed, reported \in BOOLEAN :
    /\ IF committed /\ reported THEN UNCHANGED failures
       ELSE failures < MaxFailures /\ failures' = failures + 1
    /\ reported => committed \/ t.node # Leader
    /\ Become(h, IF reported THEN next ELSE otherwise)
    /\ IF committed
       THEN /\ \A n \in Nodes : Len(dbs) - applied[n] < MaxLag
            /\ dbs' = Append(dbs, [Newest EXCEPT ![key] = val])
            /\ applied' = [applied EXCEPT ![Leader] = Len(dbs) + 1]
       ELSE UNCHANGED <<dbs, applied>>

Start(h, n, r, step) ==
  /\ task[h] = Idle /\ requests < MaxRequests
  /\ requests' = requests + 1
  /\ Become(h, [pc |-> step, node |-> n, req |-> r, val |-> NoVal, at |-> 1])

IsAdmin(n, u) == dbs[applied[n]][AdminKey(u)] = TRUE

(* RequireAdmin; for a change of roles RequirePermission, which looks for  *)
(* the owners of the application that the query names.                     *)
Allowed(n, u, r) ==
  \/ r.op \in {"mark", "unmark"} /\ Newest[UserKey(r.user)] # NoVal
  \/ r.op = "signup"
  \/ IsAdmin(n, u)
  \/ /\ r.op \in {"add", "remove"}
     /\ \E a \in Apps : LET app == dbs[applied[n]][AppKey(a)] IN
          app # NoVal /\ u \in app.roles[Owner] /\ Newest[UserKey(u)] # NoVal

FirstStep(r) ==
  CASE r.op = "new" -> "findNew"
    [] r.op = "modify" -> "findModified"
    [] r.op \in {"add", "remove"} -> "findUser"
    [] r.op \in {"mark", "unmark"} -> "readList"
    [] r.op = "signup" -> "findName"

Request(h, n) ==
  /\ \E r \in Requests :
       /\ \E u \in Users : Allowed(n, u, r)
       /\ Start(h, n, r, FirstStep(r))
  /\ UNCHANGED <<dbs, applied, booting, failures>>

-----------------------------------------------------------------------------
(* newApp, with createDefaultNamespace, whose result is ignored.           *)

FindNew(h, t) ==
  /\ t.pc = "findNew"
  /\ IF Look(t, AppKey(t.req.app)) = NoVal THEN Go(h, t, "readSpace") ELSE Stop(h)

ReadSpace(h, t) ==
  /\ t.pc = "readSpace"
  /\ Become(h, [t EXCEPT !.pc = IF Look(t, SpaceKey(t.req.app)) = NoVal
                                THEN "writeSpace" ELSE "writeApp"])
  /\ UNCHANGED <<dbs, applied, failures>>

WriteSpace(h, t) ==
  /\ t.pc = "writeSpace"
  /\ LET next == [t EXCEPT !.pc = "writeApp"] IN
     Set(h, t, SpaceKey(t.req.app), TRUE, next, next)

WriteApp(h, t) ==
  /\ t.pc = "writeApp"
  /\ \E token \in Tokens :
       Set(h, t, AppKey(t.req.app),
           [token |-> token, about |-> t.req.about, roles |-> t.req.roles,
            given |-> UNION {t.req.roles[r] : r \in Roles}], Idle, Idle)

(* modifyAppInfo, which leaves alone what the request leaves empty; a      *)
(* plausible bug does not.                                                 *)
DescribedAll(app, r) == [app EXCEPT !.about = r.about]
Described(app, r) == [app EXCEPT !.about = IF r.about = NoVal THEN @ ELSE r.about]

FindModified(h, t) ==
  /\ t.pc = "findModified"
  /\ LET app == Look(t, AppKey(t.req.app)) IN
     IF app = NoVal THEN Stop(h)
     ELSE Go(h, [t EXCEPT !.val = Described(app, t.req)], "writeChange")

-----------------------------------------------------------------------------
(* manageRole: addRole or removeRole, then the user's list of              *)
(* applications, the error of which is only logged.                        *)

UserUnchecked(h, t) == t.pc = "findUser" /\ Go(h, t, "findApp")   \* plausible bug
FindUser(h, t) ==
  /\ t.pc = "findUser"
  /\ IF Look(t, UserKey(t.req.user)) = NoVal THEN Stop(h) ELSE Go(h, t, "findApp")

(* The name is appended to the text of the role, as names, and taken out   *)
(* as one name.  Plausible bug: the role is given to that user alone.      *)
WithRoleAlone(app, r) == [app EXCEPT !.roles[r.role] = IF r.op = "add" THEN Parts[r.user] ELSE {}]
WithRole(app, r) ==
  [app EXCEPT !.roles[r.role] = IF r.op = "add" THEN @ \cup Parts[r.user] ELSE @ \ {r.user}]

(* contains, which finds no name with a comma.                             *)
NothingToDo(app, r) == r.user \in app.roles[r.role] <=> r.op = "add"

FindApp(h, t) ==
  /\ t.pc = "findApp"
  /\ LET app == Look(t, AppKey(t.req.app)) IN
     CASE app = NoVal -> Stop(h)
       [] app # NoVal /\ NothingToDo(app, t.req) -> Go(h, t, "readList")
       [] OTHER -> Go(h, [t EXCEPT !.val = WithRole(app, t.req)], "writeChange")

WriteChange(h, t) ==
  /\ t.pc = "writeChange"
  /\ Set(h, t, AppKey(t.req.app), t.val,
         IF t.req.op = "modify" THEN Idle ELSE [t EXCEPT !.pc = "readList", !.val = NoVal], Idle)

-----------------------------------------------------------------------------
(* addApp and removeApp on one of the user's lists.                        *)

ListOf(r) == ListKey(IF r.op \in {"add", "remove"} THEN "apps" ELSE "bookmarks", r.user)

(* addApp finds nothing to do for an application that is in the list.      *)
Added(list, a) == IF \E i \in DOMAIN list : list[i] = a THEN list ELSE Append(list, a)

(* removeApp collects the removed application once for every other one,    *)
(* the empty text included, and leaves a list of the same length alone.    *)
Removed(list, a) ==
  LET others == IF list = << >> THEN 1 ELSE Cardinality({i \in DOMAIN list : list[i] # a})
  IN IF others = Len(list) THEN list ELSE [i \in 1..others |-> a]

(* A missing list is written with the one application, twice.              *)
ReadList(h, t) ==
  /\ t.pc = "readList"
  /\ LET list == Look(t, ListOf(t.req))
         adds == t.req.op \in {"add", "mark"}
         new == IF adds THEN Added(list, t.req.app) ELSE Removed(list, t.req.app)
     IN CASE list = NoVal /\ adds -> Go(h, [t EXCEPT !.val = <<t.req.app>>], "firstList")
          [] list = NoVal /\ ~adds -> Stop(h)
          [] list # NoVal /\ new = list -> Stop(h)
          [] OTHER -> Go(h, [t EXCEPT !.val = new], "writeList")

FirstList(h, t) ==
  /\ t.pc = "firstList"
  /\ Set(h, t, ListOf(t.req), t.val, [t EXCEPT !.pc = "writeList"], Idle)

WriteList(h, t) ==
  /\ t.pc = "writeList"
  /\ Set(h, t, ListOf(t.req), t.val, Idle, Idle)

-----------------------------------------------------------------------------
(* register.                                                               *)

FindName(h, t) ==
  /\ t.pc = "findName"
  /\ IF Look(t, UserKey(t.req.user)) = NoVal THEN Go(h, t, "writeUser") ELSE Stop(h)

WriteUser(h, t) ==
  /\ t.pc = "writeUser"
  /\ Set(h, t, UserKey(t.req.user), t.req.password, Idle, Idle)

(* initAdminUser, once in the life of the process.  addAdmin looks the     *)
(* account up again, in the database of this node.                         *)
Boot(h, n) ==
  /\ n \in booting
  /\ booting' = booting \ {n}
  /\ Start(h, n, [op |-> "boot"], "findAdmin")
  /\ UNCHANGED <<dbs, applied, failures>>

FindAdmin(h, t) ==
  /\ t.pc = "findAdmin"
  /\ IF Look(t, UserKey(Admin)) = NoVal THEN Go(h, t, "writeAdmin") ELSE Stop(h)

WriteAdmin(h, t) ==
  /\ t.pc = "writeAdmin"
  /\ Set(h, t, UserKey(Admin), AdminPassword, [t EXCEPT !.pc = "addAdmin"], Idle)

AddAdmin(h, t) ==
  /\ t.pc = "addAdmin"
  /\ IF Look(t, UserKey(Admin)) = NoVal THEN Stop(h) ELSE Go(h, t, "markAdmin")

MarkAdmin(h, t) ==
  /\ t.pc = "markAdmin"
  /\ Set(h, t, AdminKey(Admin), TRUE, Idle, Idle)

-----------------------------------------------------------------------------
Step(h) ==
  /\ task[h] # Idle
  /\ LET t == task[h] IN
       \/ FindNew(h, t) \/ ReadSpace(h, t) \/ WriteSpace(h, t) \/ WriteApp(h, t)
       \/ FindModified(h, t) \/ FindUser(h, t) \/ FindApp(h, t) \/ WriteChange(h, t)
       \/ ReadList(h, t) \/ FirstList(h, t) \/ WriteList(h, t)
       \/ FindName(h, t) \/ WriteUser(h, t)
       \/ FindAdmin(h, t) \/ WriteAdmin(h, t) \/ AddAdmin(h, t) \/ MarkAdmin(h, t)
  /\ UNCHANGED <<booting, requests>>

Apply(n) ==
  /\ applied[n] < Len(dbs)
  /\ applied' = [applied EXCEPT ![n] = @ + 1]
  /\ UNCHANGED <<dbs, booting, task, requests, failures>>

(* The process of a node stops and is started again.                       *)
Restart(n) ==
  /\ failures < MaxFailures
  /\ failures' = failures + 1
  /\ booting' = booting \cup {n}
  /\ task' = [h \in Handlers |-> IF task[h] # Idle /\ task[h].node = n THEN Idle ELSE task[h]]
  /\ UNCHANGED <<dbs, applied, requests>>

Next ==
  \/ \E h \in Handlers : Step(h) \/ \E n \in Nodes : Request(h, n) \/ Boot(h, n)
  \/ \E n \in Nodes : Apply(n) \/ Restart(n)

Spec == Init /\ [][Next]_vars

-----------------------------------------------------------------------------
(* Properties.                                                             *)

(* Types: a record that is read, changed and written back stays one.       *)
TypeOK ==
  /\ \A i \in 1..Len(dbs), k \in Keys : dbs[i][k] \in ValuesOf(k) \cup {NoVal}
  /\ \A n \in Nodes : applied[n] \in 1..Len(dbs)
  /\ booting \subseteq Nodes
  /\ \A h \in Handlers : task[h] # Idle => task[h].node \in Nodes /\ task[h].at \in 1..Len(dbs)

(* Every node, however far behind, shows an account for every              *)
(* administrator, and for every name in a role that was granted an account *)
(* whose name it is, or of whose name it is a part between commas (it need *)
(* not have an account of its own); and that although the account is       *)
(* looked up on one node and the role written on another, and although     *)
(* records are written back as they were read (manageRole, addAdmin,       *)
(* modifyAppInfo).                                                         *)
Grounded == \A i \in 1..Len(dbs) : GroundedIn(dbs[i])

(* h writes, and nobody has written what it writes since h read it.        *)
Undisturbed(h) ==
  \A k \in Keys : dbs'[Len(dbs')][k] # Newest[k] =>
    \A i \in task[h].at .. Len(dbs) : dbs[i][k] = Newest[k]

Promised == INSTANCE Directory
  WITH apps <- [a \in Apps |-> Newest[AppKey(a)]],
       accounts <- [u \in Users |-> Newest[UserKey(u)]],
       admins <- {u \in Users : Newest[AdminKey(u)] # NoVal}

(* As long as no two requests get in each other's way, and whatever fails  *)
(* or stops in the middle, every write does one thing of Directory: it     *)
(* keeps tokens and passwords and touches one role or the description.     *)
DirectorySteps ==
  [][(\A h \in Handlers : task'[h] # task[h] => Undisturbed(h)) =>
       [Promised!Next]_(Promised!dir)]_vars
=============================================================================
