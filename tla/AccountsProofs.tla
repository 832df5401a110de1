--------------------------- MODULE AccountsProofs ---------------------------
(***************************************************************************)
(* Theorems about Accounts, for any nodes, handlers, users, applications   *)
(* and requests, with every fault: types, that roles and the mark of the   *)
(* administrator come from accounts only, and that requests which do    *)
(* not get in each other's way do what Directory promises.                 *)
(***************************************************************************)
EXTENDS Accounts, FiniteSetTheorems, TLAPS

NewRequests == [op : {"new"}, app : Apps, about : Infos, roles : [Roles -> SUBSET Names]]
ModifyRequests == [op : {"modify"}, app : Apps, about : Infos \cup {NoVal}]
RoleRequests == [op : {"add", "remove"}, app : Apps, role : Roles, user : Users]
ListRequests == [op : {"mark", "unmark"}, app : Apps, user : Users]
SignUps == [op : {"signup"}, user : Users, password : Passwords]

(* What a record, a mark, an account or a list may be.                     *)
Values == Applications \cup Passwords \cup {TRUE} \cup Seq(Apps) \cup {NoVal}
Typed(d) == d \in [Keys -> Values] /\ \A k \in Keys : d[k] \in ValuesOf(k) \cup {NoVal}

Steps == {"findNew", "readSpace", "writeSpace", "writeApp", "findModified", "findUser",
          "findApp", "writeChange", "readList", "firstList", "writeList", "findName",
          "writeUser", "findAdmin", "writeAdmin", "addAdmin", "markAdmin"}
Tasks == [pc : Steps, node : Nodes, req : RequestTypes \cup {[op |-> "boot"]},
          val : Applications \cup Seq(Apps) \cup {NoVal}, at : Nat]

(* A task is at a step of its own request, and has the value it writes.    *)
TaskTyped(t) ==
  /\ t \in Tasks
  /\ t.pc \in {"findNew", "readSpace", "writeSpace", "writeApp"} => t.req \in NewRequests
  /\ t.pc = "findModified" => t.req \in ModifyRequests
  /\ t.pc \in {"findUser", "findApp"} => t.req \in RoleRequests
  /\ t.pc = "writeChange" => t.req \in ModifyRequests \cup RoleRequests /\ t.val \in Applications
  /\ t.pc \in {"readList", "firstList", "writeList"} => t.req \in RoleRequests \cup ListRequests
  /\ t.pc \in {"firstList", "writeList"} => t.val \in Seq(Apps)
  /\ t.pc \in {"findName", "writeUser"} => t.req \in SignUps

(* An account never goes away.                                             *)
HasAccount(u) == Newest[UserKey(u)] # NoVal
AccountsStay ==
  \A i \in 1..Len(dbs), u \in Users : dbs[i][UserKey(u)] # NoVal => HasAccount(u)

(* A name in a role of a record on its way back was there from the start   *)
(* or is part of the name of an account.                                   *)
Backed(u) == \E v \in Users : HasAccount(v) /\ u \in Parts[v]
GroundedApp(app) ==
  \A r \in Roles, u \in Names : u \in app.roles[r] => Backed(u) \/ u \in app.given

(* What a task has looked up before it writes, in the database it last     *)
(* read, and what of it cannot have changed since.                         *)
Seen(t) ==
  /\ t.at \in 1..Len(dbs)
  /\ t.pc \in {"readSpace", "writeSpace", "writeApp"} => dbs[t.at][AppKey(t.req.app)] = NoVal
  /\ t.pc = "findApp" => HasAccount(t.req.user)
  /\ t.pc = "writeChange" =>
       /\ dbs[t.at][AppKey(t.req.app)] # NoVal
       /\ GroundedApp(t.val)
       /\ t.req.op = "modify" => t.val = Described(dbs[t.at][AppKey(t.req.app)], t.req)
       /\ t.req.op \in {"add", "remove"} =>
            t.val = WithRole(dbs[t.at][AppKey(t.req.app)], t.req) /\ HasAccount(t.req.user)
  /\ t.pc = "writeUser" => dbs[t.at][UserKey(t.req.user)] = NoVal
  /\ t.pc = "writeAdmin" => dbs[t.at][UserKey(Admin)] = NoVal
  /\ t.pc = "markAdmin" => HasAccount(Admin)

TypeInv ==
  /\ dbs \in Seq([Keys -> Values]) /\ Len(dbs) > 0
  /\ \A i \in 1..Len(dbs) : Typed(dbs[i])
  /\ applied \in [Nodes -> 1..Len(dbs)]
  /\ booting \subseteq Nodes
  /\ task \in [Handlers -> Tasks \cup {Idle}]
  /\ \A h \in Handlers : task[h] # Idle => TaskTyped(task[h]) /\ task[h].at \in 1..Len(dbs)

AccountsInv ==
  /\ Grounded /\ AccountsStay
  /\ \A h \in Handlers : task[h] # Idle => Seen(task[h])

-----------------------------------------------------------------------------
(* Keys and values.                                                        *)

LEMMA AppKeys ==
  ASSUME NEW a \in Apps
  PROVE  /\ AppKey(a) \in Keys /\ ValuesOf(AppKey(a)) = Applications
         /\ SpaceKey(a) \in Keys /\ ValuesOf(SpaceKey(a)) = {TRUE}
  BY DEF AppKey, SpaceKey, Keys, ValuesOf

LEMMA UserKeys ==
  ASSUME NEW u \in Users
  PROVE  /\ UserKey(u) \in Keys /\ ValuesOf(UserKey(u)) = Passwords
         /\ AdminKey(u) \in Keys /\ ValuesOf(AdminKey(u)) = {TRUE}
         /\ \A kind \in {"apps", "bookmarks"} :
              ListKey(kind, u) \in Keys /\ ValuesOf(ListKey(kind, u)) = Seq(Apps)
  BY DEF UserKey, AdminKey, ListKey, Keys, ValuesOf

LEMMA KeysDiffer ==
  /\ \A a, b : AppKey(a) = AppKey(b) => a = b
  /\ \A u, v : UserKey(u) = UserKey(v) => u = v
  /\ \A u, v : AdminKey(u) = AdminKey(v) => u = v
  /\ \A a, u : /\ AppKey(a) # UserKey(u) /\ AppKey(a) # AdminKey(u) /\ UserKey(a) # AdminKey(u)
               /\ SpaceKey(a) \notin {AppKey(u), UserKey(u), AdminKey(u)}
               /\ \A kind \in {"apps", "bookmarks"} :
                    ListKey(kind, a) \notin {AppKey(u), UserKey(u), AdminKey(u)}
  BY DEF AppKey, UserKey, AdminKey, SpaceKey, ListKey

LEMMA ValuesAreValues ==
  ASSUME NEW k \in Keys
  PROVE  ValuesOf(k) \cup {NoVal} \subseteq Values
  BY DEF ValuesOf, Values, Keys

(* The missing value is no value.                                          *)
LEMMA ValuesExist ==
  ASSUME NEW k \in Keys
  PROVE  NoVal \notin ValuesOf(k)
  BY AccountsAssumption DEF ValuesOf, Keys

(* A write of the right type makes a database out of a database.           *)
LEMMA WriteTyped ==
  ASSUME NEW d, Typed(d), NEW key \in Keys, NEW val \in ValuesOf(key)
  PROVE  Typed([d EXCEPT ![key] = val])
<1>1. val \in Values
  BY ValuesAreValues
<1> QED
  BY <1>1 DEF Typed

(* What a request makes of a record or of a list.                          *)
LEMMA DescribedType ==
  ASSUME NEW app \in Applications, NEW r \in ModifyRequests
  PROVE  Described(app, r) \in Applications
  BY DEF Described, Applications, ModifyRequests

LEMMA WithRoleType ==
  ASSUME NEW app \in Applications, NEW r \in RoleRequests
  PROVE  /\ WithRole(app, r) \in Applications
         /\ WithRole(app, r).given = app.given
         /\ \A role \in Roles, u \in Names :
              u \in WithRole(app, r).roles[role] => u \in app.roles[role] \/ u \in Parts[r.user]
<1>0. Parts[r.user] \subseteq Names
  BY DEF Names, RoleRequests
<1>1. app.roles \in [Roles -> SUBSET Names] /\ r.role \in Roles /\ r.user \in Users
  BY DEF Applications, RoleRequests
<1> DEFINE new == IF r.op = "add" THEN app.roles[r.role] \cup Parts[r.user]
                  ELSE app.roles[r.role] \ {r.user}
<1>2. WithRole(app, r) = [app EXCEPT !.roles = [@ EXCEPT ![r.role] = new]]
  BY DEF WithRole
<1>3. new \in SUBSET Names /\ \A u \in new : u \in app.roles[r.role] \/ u \in Parts[r.user]
  BY <1>0, <1>1
<1> HIDE DEF new
<1>4. [app.roles EXCEPT ![r.role] = new] \in [Roles -> SUBSET Names]
  BY <1>1, <1>3
<1> QED
  BY <1>1, <1>2, <1>3, <1>4 DEF Applications

LEMMA AddedType ==
  ASSUME NEW list \in Seq(Apps), NEW a \in Apps
  PROVE  Added(list, a) \in Seq(Apps)
  BY DEF Added

LEMMA RemovedType ==
  ASSUME NEW list \in Seq(Apps), NEW a \in Apps
  PROVE  Removed(list, a) \in Seq(Apps)
<1>1. Cardinality({i \in DOMAIN list : list[i] # a}) \in Nat
  <2>1. IsFiniteSet(1..Len(list)) /\ DOMAIN list = 1..Len(list)
    BY FS_Interval
  <2>2. {i \in DOMAIN list : list[i] # a} \subseteq 1..Len(list)
    BY <2>1
  <2>3. IsFiniteSet({i \in DOMAIN list : list[i] # a})
    BY <2>1, <2>2, FS_Subset
  <2> QED
    BY <2>3, FS_CardinalityType
<1> QED
  BY <1>1 DEF Removed

-----------------------------------------------------------------------------
(* What a step leaves as it was.                                           *)

Fit(t) == t # Idle => TaskTyped(t) /\ Seen(t)

LEMMA IdleTask == Idle \notin Tasks /\ \A t \in Tasks : t.pc # "idle"
  BY DEF Idle, Tasks, Steps

(* The write of a value to a key by the leader.                            *)
Written(key, val) ==
  /\ dbs' = Append(dbs, [Newest EXCEPT ![key] = val])
  /\ applied' = [applied EXCEPT ![Leader] = Len(dbs) + 1]

LEMMA SetWrites ==
  ASSUME NEW h \in Handlers, NEW t, NEW key, NEW val, NEW next, NEW otherwise,
         Set(h, t, key, val, next, otherwise)
  PROVE  /\ \E new \in {next, otherwise} : task' = [task EXCEPT ![h] = new]
         /\ Written(key, val) \/ UNCHANGED <<dbs, applied>>
  BY DEF Set, Become, Written

LEMMA NewestTyped ==
  ASSUME TypeInv
  PROVE  /\ Len(dbs) \in Nat /\ Len(dbs) \in 1..Len(dbs)
         /\ Typed(Newest) /\ Newest \in [Keys -> Values]
  BY DEF TypeInv, Newest, Typed

LEMMA WrittenDbs ==
  ASSUME TypeInv, NEW key \in Keys, NEW val \in ValuesOf(key), Written(key, val)
  PROVE  /\ dbs' \in Seq([Keys -> Values]) /\ Len(dbs') = Len(dbs) + 1
         /\ \A i \in 1..Len(dbs) : dbs'[i] = dbs[i]
         /\ dbs'[Len(dbs) + 1] = [Newest EXCEPT ![key] = val]
         /\ Newest' = [Newest EXCEPT ![key] = val]
         /\ \A i \in 1..Len(dbs') : Typed(dbs'[i])
         /\ applied' \in [Nodes -> 1..Len(dbs')]
<1> DEFINE new == [Newest EXCEPT ![key] = val]
<1>1. Len(dbs) \in Nat /\ Len(dbs) \in 1..Len(dbs) /\ dbs \in Seq([Keys -> Values])
  BY DEF TypeInv
<1>2. Typed(Newest)
  BY <1>1 DEF TypeInv, Newest
<1>3. Typed(new) /\ new \in [Keys -> Values]
  BY <1>2, WriteTyped, Zenon DEF Typed
<1> HIDE DEF new
<1>4. dbs' = Append(dbs, new)
  BY DEF Written, new
<1>5. /\ dbs' \in Seq([Keys -> Values]) /\ Len(dbs') = Len(dbs) + 1
      /\ \A i \in 1..Len(dbs) : dbs'[i] = dbs[i]
      /\ dbs'[Len(dbs) + 1] = new
  BY <1>1, <1>3, <1>4
<1>6. Newest' = new
  BY <1>5 DEF Newest
<1>7. \A i \in 1..Len(dbs') : i \in 1..Len(dbs) \/ i = Len(dbs) + 1
  BY <1>1, <1>5
<1>8. \A i \in 1..Len(dbs') : Typed(dbs'[i])
  BY <1>3, <1>5, <1>7 DEF TypeInv
<1>9. applied' \in [Nodes -> 1..Len(dbs')]
  <2>1. applied' = [applied EXCEPT ![Leader] = Len(dbs) + 1]
    BY DEF Written
  <2>2. Len(dbs) + 1 \in 1..Len(dbs') /\ 1..Len(dbs) \subseteq 1..Len(dbs')
    BY <1>1, <1>5
  <2> QED
    BY <2>1, <2>2 DEF TypeInv
<1> QED
  BY <1>5, <1>6, <1>8, <1>9 DEF new

(* A step of h that writes at most a value that is as it should be, and    *)
(* leaves h with a task that is as it should be, keeps the types.          *)
LEMMA StepType ==
  ASSUME TypeInv, NEW h \in Handlers, NEW key \in Keys, NEW val \in ValuesOf(key),
         Written(key, val) \/ UNCHANGED <<dbs, applied>>,
         NEW new, Fit(new), task' = [task EXCEPT ![h] = new], booting' \subseteq Nodes
  PROVE  TypeInv'
<1>1. new = Idle \/ (TaskTyped(new) /\ new \in Tasks /\ new.at \in 1..Len(dbs))
  BY DEF Fit, Seen, TaskTyped
<1>2. Len(dbs) \in Nat /\ Len(dbs) > 0
  BY DEF TypeInv
<1>3. /\ dbs' \in Seq([Keys -> Values]) /\ Len(dbs') > 0
      /\ \A i \in 1..Len(dbs') : Typed(dbs'[i])
      /\ applied' \in [Nodes -> 1..Len(dbs')]
      /\ 1..Len(dbs) \subseteq 1..Len(dbs')
  <2>1. CASE UNCHANGED <<dbs, applied>>
    BY <2>1 DEF TypeInv
  <2>2. CASE Written(key, val)
    <3>1. /\ dbs' \in Seq([Keys -> Values]) /\ Len(dbs') = Len(dbs) + 1
          /\ \A i \in 1..Len(dbs') : Typed(dbs'[i])
          /\ applied' \in [Nodes -> 1..Len(dbs')]
      BY <2>2, WrittenDbs
    <3> QED
      BY <1>2, <3>1
  <2> QED
    BY <2>1, <2>2
<1>4. task' \in [Handlers -> Tasks \cup {Idle}]
  BY <1>1 DEF TypeInv
<1>5. ASSUME NEW g \in Handlers, task'[g] # Idle
      PROVE  TaskTyped(task'[g]) /\ task'[g].at \in 1..Len(dbs')
  <2>1. task'[g] = IF g = h THEN new ELSE task[g]
    BY DEF TypeInv
  <2> QED
    BY <1>1, <1>3, <1>5, <2>1 DEF TypeInv
<1>6. \A g \in Handlers : task'[g] # Idle => TaskTyped(task'[g]) /\ task'[g].at \in 1..Len(dbs')
  BY <1>5
<1> QED
  BY <1>3, <1>4, <1>6 DEF TypeInv, TaskTyped

(* A write takes no account away, and what a task has seen stays true.     *)
LEMMA SeenStays ==
  ASSUME TypeInv, NEW key \in Keys, NEW val \in ValuesOf(key),
         Written(key, val) \/ UNCHANGED <<dbs, applied>>
  PROVE  /\ \A u \in Users : HasAccount(u) => HasAccount(u)'
         /\ \A app : GroundedApp(app) => GroundedApp(app)'
         /\ \A t : TaskTyped(t) /\ Seen(t) => Seen(t)'
<1>1. CASE UNCHANGED <<dbs, applied>>
  BY <1>1 DEF HasAccount, Backed, GroundedApp, Seen, Newest
<1>2. CASE Written(key, val)
  <2>1. /\ Len(dbs) \in Nat /\ Len(dbs') = Len(dbs) + 1
        /\ \A i \in 1..Len(dbs) : dbs'[i] = dbs[i]
        /\ Newest' = [Newest EXCEPT ![key] = val]
    BY <1>2, WrittenDbs, NewestTyped
  <2>2. \A u \in Users : HasAccount(u) => HasAccount(u)'
    <3> TAKE u \in Users
    <3>1. val # NoVal
      BY ValuesExist
    <3>2. Newest \in [Keys -> Values] /\ UserKey(u) \in Keys
      BY UserKeys, NewestTyped
    <3> QED
      BY <2>1, <3>1, <3>2 DEF HasAccount
  <2>3. \A app : GroundedApp(app) => GroundedApp(app)'
    BY <2>2 DEF GroundedApp, Backed
  <2>4. \A t : TaskTyped(t) /\ Seen(t) => Seen(t)'
    <3> TAKE t
    <3> HAVE TaskTyped(t) /\ Seen(t)
    <3>1. t.at \in 1..Len(dbs) /\ t.at \in 1..Len(dbs') /\ dbs'[t.at] = dbs[t.at]
      BY <2>1 DEF Seen
    <3>2. t.pc = "findApp" => t.req.user \in Users
      BY DEF TaskTyped, RoleRequests
    <3>3. t.pc = "writeChange" /\ t.req.op \in {"add", "remove"} => t.req.user \in Users
      BY DEF TaskTyped, RoleRequests, ModifyRequests
    <3> QED
      BY <2>2, <2>3, <3>1, <3>2, <3>3, AccountsAssumption DEF Seen
  <2> QED
    BY <2>2, <2>3, <2>4
<1> QED
  BY <1>1, <1>2

(* A mark or a record that is as it should be leaves a grounded database.  *)
LEMMA WrittenGrounded ==
  ASSUME TypeInv, Grounded, NEW key \in Keys, NEW val \in ValuesOf(key), Written(key, val),
         \A u \in Users : key = AdminKey(u) => HasAccount(u),
         \A a \in Apps : key = AppKey(a) => GroundedApp(val)
  PROVE  Grounded'
<1> DEFINE new == [Newest EXCEPT ![key] = val]
<1>1. /\ Len(dbs') = Len(dbs) + 1 /\ dbs'[Len(dbs) + 1] = new
      /\ \A i \in 1..Len(dbs) : dbs'[i] = dbs[i]
  BY WrittenDbs
<1>2. Len(dbs) \in Nat /\ Len(dbs) \in 1..Len(dbs) /\ Newest \in [Keys -> Values]
  BY NewestTyped
<1>3. GroundedIn(Newest)
  BY <1>2 DEF Grounded, Newest
<1>4. \A u \in Users : HasAccount(u) => new[UserKey(u)] # NoVal
  BY <1>2, UserKeys, ValuesExist DEF HasAccount
<1>b. \A u : Backed(u) => \E v \in Users : new[UserKey(v)] # NoVal /\ u \in Parts[v]
  BY <1>4 DEF Backed
<1>5. ASSUME NEW u \in Users, new[AdminKey(u)] # NoVal
      PROVE  new[UserKey(u)] # NoVal
  <2>1. HasAccount(u)
    BY <1>2, <1>3, <1>5, UserKeys DEF GroundedIn, HasAccount
  <2> QED
    BY <1>4, <2>1
<1>6. ASSUME NEW a \in Apps, NEW r \in Roles, NEW u \in Names,
             new[AppKey(a)] # NoVal, u \in new[AppKey(a)].roles[r]
      PROVE  \/ \E v \in Users : new[UserKey(v)] # NoVal /\ u \in Parts[v]
             \/ u \in new[AppKey(a)].given
  <2>1. CASE key = AppKey(a)
    <3>1. new[AppKey(a)] = val
      BY <1>2, <2>1
    <3>2. Backed(u) \/ u \in val.given
      BY <1>6, <2>1, <3>1 DEF GroundedApp
    <3> QED
      BY <1>b, <3>1, <3>2
  <2>2. CASE key # AppKey(a)
    <3>1. new[AppKey(a)] = Newest[AppKey(a)]
      BY <1>2, <2>2, AppKeys
    <3>2. Backed(u) \/ u \in Newest[AppKey(a)].given
      BY <1>3, <1>6, <3>1 DEF GroundedIn, Backed, HasAccount
    <3> QED
      BY <1>b, <3>1, <3>2
  <2> QED
    BY <2>1, <2>2
<1>7. GroundedIn(new)
  BY <1>5, <1>6 DEF GroundedIn
<1> HIDE DEF new
<1>8. \A i \in 1..Len(dbs') : GroundedIn(dbs'[i])
  <2>1. \A i \in 1..Len(dbs') : i \in 1..Len(dbs) \/ i = Len(dbs) + 1
    BY <1>1, <1>2
  <2> QED
    BY <1>1, <1>7, <2>1 DEF Grounded
<1> QED
  BY <1>8 DEF Grounded

(* A step that only reads, and leaves h with a task that is as it should   *)
(* be.                                                                     *)
LEMMA ReadKeeps ==
  ASSUME TypeInv, AccountsInv, NEW h \in Handlers, NEW new, Fit(new),
         task' = [task EXCEPT ![h] = new], UNCHANGED <<dbs, applied, booting>>
  PROVE  TypeInv' /\ AccountsInv'
<1>1. TypeInv'
  <2>1. AdminKey(Admin) \in Keys /\ TRUE \in ValuesOf(AdminKey(Admin))
    BY UserKeys, AccountsAssumption
  <2>2. booting' \subseteq Nodes
    BY DEF TypeInv
  <2> QED
    BY <2>1, <2>2, StepType
<1>2. Grounded' /\ AccountsStay'
  BY DEF AccountsInv, Grounded, AccountsStay, HasAccount, Newest
<1>3. \A t : Seen(t) => Seen(t)'
  BY DEF Seen, HasAccount, Backed, GroundedApp, Newest
<1>4. \A g \in Handlers : task'[g] = IF g = h THEN new ELSE task[g]
  BY DEF TypeInv
<1>5. \A g \in Handlers : task'[g] # Idle => Seen(task[g])'
  BY <1>3, <1>4 DEF AccountsInv, Fit
<1> QED
  BY <1>1, <1>2, <1>5 DEF AccountsInv

(* A call of Set with a value that is as it should be, after which h is as *)
(* it should be, whatever becomes of the write.                            *)
LEMMA SetKeeps ==
  ASSUME TypeInv, AccountsInv, NEW h \in Handlers, NEW t, NEW key \in Keys,
         NEW val \in ValuesOf(key), NEW next, Fit(next), NEW otherwise, Fit(otherwise),
         Set(h, t, key, val, next, otherwise), booting' = booting,
         \A u \in Users : key = AdminKey(u) => HasAccount(u),
         \A a \in Apps : key = AppKey(a) => GroundedApp(val)
  PROVE  TypeInv' /\ AccountsInv'
<1>1. PICK new \in {next, otherwise} : task' = [task EXCEPT ![h] = new]
  BY SetWrites
<1>2. Fit(new)
  BY Zenon
<1>3. CASE UNCHANGED <<dbs, applied>>
  BY <1>1, <1>2, <1>3, ReadKeeps
<1>4. CASE Written(key, val)
  <2>1. TypeInv'
    <3>1. booting' \subseteq Nodes
      BY DEF TypeInv
    <3> QED
      BY <1>1, <1>2, <1>4, <3>1, StepType
  <2>2. Grounded'
    BY <1>4, WrittenGrounded DEF AccountsInv
  <2>3. /\ \A u \in Users : HasAccount(u) => HasAccount(u)'
        /\ \A s : TaskTyped(s) /\ Seen(s) => Seen(s)'
    BY <1>4, SeenStays
  <2>4. AccountsStay'
    <3>1. /\ Len(dbs) \in Nat /\ Len(dbs') = Len(dbs) + 1
          /\ \A i \in 1..Len(dbs) : dbs'[i] = dbs[i]
      BY <1>4, WrittenDbs, NewestTyped
    <3>2. \A i \in 1..Len(dbs') : i \in 1..Len(dbs) \/ dbs'[i] = Newest'
      BY <3>1 DEF Newest
    <3> QED
      BY <2>3, <3>1, <3>2 DEF AccountsInv, AccountsStay, HasAccount
  <2>5. \A g \in Handlers : task'[g] = IF g = h THEN new ELSE task[g]
    BY <1>1 DEF TypeInv
  <2>6. \A g \in Handlers : task'[g] # Idle => TaskTyped(task'[g]) /\ Seen(task'[g])
    BY <1>2, <2>5 DEF AccountsInv, TypeInv, Fit
  <2>7. \A g \in Handlers : task'[g] # Idle => Seen(task[g])'
    BY <2>3, <2>6
  <2> QED
    BY <2>1, <2>2, <2>4, <2>7 DEF AccountsInv
<1> QED
  BY <1>3, <1>4, SetWrites

-----------------------------------------------------------------------------
(* The steps of a task.                                                    *)

(* The task that Go leaves.                                                *)
Went(t, step) == [t EXCEPT !.pc = step, !.at = applied[t.node]]

LEMMA WentTask ==
  ASSUME TypeInv, NEW t \in Tasks, NEW step \in Steps
  PROVE  /\ Went(t, step) \in Tasks /\ Went(t, step).pc = step
         /\ Went(t, step).req = t.req /\ Went(t, step).val = t.val
         /\ Went(t, step).node = t.node /\ Went(t, step).at = applied[t.node]
         /\ applied[t.node] \in 1..Len(dbs)
<1>1. t.node \in Nodes
  BY DEF Tasks
<1>2. applied[t.node] \in 1..Len(dbs) /\ Len(dbs) \in Nat
  BY <1>1 DEF TypeInv
<1>3. applied[t.node] \in Nat
  BY <1>2
<1> QED
  BY <1>2, <1>3 DEF Went, Tasks

LEMMA GoKeeps ==
  ASSUME TypeInv, AccountsInv, NEW h \in Handlers, NEW t, NEW step, Go(h, t, step),
         Fit(Went(t, step)), booting' = booting
  PROVE  TypeInv' /\ AccountsInv'
<1>1. task' = [task EXCEPT ![h] = Went(t, step)]
  BY DEF Go, Become, Went
<1>2. UNCHANGED <<dbs, applied, booting>>
  BY DEF Go
<1> QED
  BY <1>1, <1>2, ReadKeeps

LEMMA StopKeeps ==
  ASSUME TypeInv, AccountsInv, NEW h \in Handlers, Stop(h), booting' = booting
  PROVE  TypeInv' /\ AccountsInv'
<1>1. task' = [task EXCEPT ![h] = Idle] /\ UNCHANGED <<dbs, applied, booting>>
  BY DEF Stop, Become
<1>2. Fit(Idle)
  BY DEF Fit
<1> QED
  BY <1>1, <1>2, ReadKeeps

(* What a node shows is a value or missing; an account that it shows has   *)
(* not gone away, and a record that it shows is grounded.                  *)
LEMMA Looked ==
  ASSUME TypeInv, AccountsInv, NEW t \in Tasks
  PROVE  /\ \A k \in Keys : Look(t, k) \in ValuesOf(k) \cup {NoVal}
         /\ \A u \in Users : Look(t, UserKey(u)) # NoVal => HasAccount(u)
         /\ \A a \in Apps : Look(t, AppKey(a)) # NoVal => GroundedApp(Look(t, AppKey(a)))
<1>1. applied[t.node] \in 1..Len(dbs)
  BY DEF Tasks, TypeInv
<1>2. \A k \in Keys : Look(t, k) \in ValuesOf(k) \cup {NoVal}
  BY <1>1 DEF TypeInv, Typed, Look
<1>3. \A u \in Users : Look(t, UserKey(u)) # NoVal => HasAccount(u)
  BY <1>1 DEF AccountsInv, AccountsStay, Look
<1>4. ASSUME NEW a \in Apps, Look(t, AppKey(a)) # NoVal
      PROVE  GroundedApp(Look(t, AppKey(a)))
  <2>1. GroundedIn(dbs[applied[t.node]])
    BY <1>1 DEF AccountsInv, Grounded
  <2> QED
    BY <1>3, <1>4, <2>1 DEF GroundedIn, GroundedApp, Backed, Look
<1> QED
  BY <1>2, <1>3, <1>4

LEMMA NewSteps ==
  ASSUME TypeInv, AccountsInv, NEW h \in Handlers, NEW t, t = task[h], t # Idle,
         booting' = booting,
         FindNew(h, t) \/ ReadSpace(h, t) \/ WriteSpace(h, t) \/ WriteApp(h, t)
  PROVE  TypeInv' /\ AccountsInv'
<1>1. t \in Tasks /\ TaskTyped(t) /\ Seen(t)
  BY DEF TypeInv, AccountsInv, TaskTyped
<1>2. t.req \in NewRequests /\ t.req.app \in Apps
  BY <1>1 DEF FindNew, ReadSpace, WriteSpace, WriteApp, TaskTyped, NewRequests
<1>3. CASE FindNew(h, t)
  <2>1. CASE Look(t, AppKey(t.req.app)) = NoVal
    <3>1. Go(h, t, "readSpace")
      BY <1>3, <2>1 DEF FindNew
    <3>2. Fit(Went(t, "readSpace"))
      <4>1. "readSpace" \in Steps
        BY DEF Steps
      <4> QED
        BY <1>1, <1>2, <2>1, <4>1, WentTask DEF Fit, TaskTyped, Seen, Look
    <3> QED
      BY <3>1, <3>2, GoKeeps
  <2>2. CASE Look(t, AppKey(t.req.app)) # NoVal
    BY <1>3, <2>2, StopKeeps DEF FindNew
  <2> QED
    BY <2>1, <2>2
<1>4. ASSUME NEW step \in {"writeSpace", "writeApp"}, t.pc \in {"readSpace", "writeSpace"}
      PROVE  Fit([t EXCEPT !.pc = step])
  <2> DEFINE new == [t EXCEPT !.pc = step]
  <2>1. /\ new \in Tasks /\ new.pc = step /\ new.req = t.req /\ new.at = t.at
    BY <1>1 DEF Tasks, Steps
  <2> HIDE DEF new
  <2>2. TaskTyped(new) /\ Seen(new)
    BY <1>1, <1>2, <1>4, <2>1 DEF TaskTyped, Seen
  <2> QED
    BY <2>2 DEF Fit, new
<1>5. CASE ReadSpace(h, t)
  <2>1. PICK step \in {"writeSpace", "writeApp"} : task' = [task EXCEPT ![h] = [t EXCEPT !.pc = step]]
    BY <1>5 DEF ReadSpace, Become
  <2>2. Fit([t EXCEPT !.pc = step])
    BY <1>4, <1>5 DEF ReadSpace
  <2>3. UNCHANGED <<dbs, applied, booting>>
    BY <1>5 DEF ReadSpace
  <2> QED
    BY <2>1, <2>2, <2>3, ReadKeeps
<1>6. CASE WriteSpace(h, t)
  <2> DEFINE next == [t EXCEPT !.pc = "writeApp"]
  <2>1. Fit(next)
    BY <1>4, <1>6 DEF WriteSpace
  <2>2. Set(h, t, SpaceKey(t.req.app), TRUE, next, next)
    BY <1>6 DEF WriteSpace
  <2>3. /\ SpaceKey(t.req.app) \in Keys /\ TRUE \in ValuesOf(SpaceKey(t.req.app))
        /\ \A u \in Users : SpaceKey(t.req.app) # AdminKey(u)
        /\ \A a \in Apps : SpaceKey(t.req.app) # AppKey(a)
    BY <1>2, AppKeys, KeysDiffer
  <2> HIDE DEF next
  <2> QED
    BY <2>1, <2>2, <2>3, SetKeeps
<1>7. CASE WriteApp(h, t)
  <2> DEFINE app(token) == [token |-> token, about |-> t.req.about, roles |-> t.req.roles,
                            given |-> UNION {t.req.roles[r] : r \in Roles}]
  <2>1. PICK token \in Tokens : Set(h, t, AppKey(t.req.app), app(token), Idle, Idle)
    BY <1>7 DEF WriteApp
  <2>2. t.req.roles \in [Roles -> SUBSET Names] /\ t.req.about \in Infos
    BY <1>2 DEF NewRequests
  <2>3. app(token) \in Applications /\ GroundedApp(app(token))
    BY <2>2 DEF Applications, GroundedApp
  <2> HIDE DEF app
  <2>4. /\ AppKey(t.req.app) \in Keys /\ app(token) \in ValuesOf(AppKey(t.req.app))
        /\ \A u \in Users : AppKey(t.req.app) # AdminKey(u)
    BY <1>2, <2>3, AppKeys, KeysDiffer
  <2>5. Fit(Idle)
    BY DEF Fit
  <2> QED
    BY <2>1, <2>3, <2>4, <2>5, SetKeeps
<1> QED
  BY <1>3, <1>5, <1>6, <1>7

LEMMA ChangeSteps ==
  ASSUME TypeInv, AccountsInv, NEW h \in Handlers, NEW t, t = task[h], t # Idle,
         booting' = booting,
         FindModified(h, t) \/ FindUser(h, t) \/ FindApp(h, t) \/ WriteChange(h, t)
  PROVE  TypeInv' /\ AccountsInv'
<1>1. t \in Tasks /\ TaskTyped(t) /\ Seen(t)
  BY DEF TypeInv, AccountsInv, TaskTyped
<1>2. t.req \in ModifyRequests \cup RoleRequests /\ t.req.app \in Apps
  BY <1>1 DEF FindModified, FindUser, FindApp, WriteChange, TaskTyped, ModifyRequests, RoleRequests
<1> DEFINE app == Look(t, AppKey(t.req.app))
<1>3. app \in Applications \cup {NoVal} /\ (app # NoVal => GroundedApp(app))
  BY <1>1, <1>2, Looked, AppKeys
<1>app. app = dbs[applied[t.node]][AppKey(t.req.app)]
  BY DEF Look
<1> HIDE DEF app
<1>go. ASSUME NEW val \in Applications \cup Seq(Apps) \cup {NoVal}, NEW step \in Steps
       PROVE  LET new == Went([t EXCEPT !.val = val], step) IN
              /\ new \in Tasks /\ new.pc = step /\ new.req = t.req /\ new.val = val
              /\ new.at = applied[t.node] /\ applied[t.node] \in 1..Len(dbs)
  <2> DEFINE s == [t EXCEPT !.val = val]
  <2>1. s \in Tasks /\ s.val = val /\ s.req = t.req /\ s.node = t.node
    BY <1>1 DEF Tasks
  <2> HIDE DEF s
  <2> SUFFICES LET new == Went(s, step) IN
              /\ new \in Tasks /\ new.pc = step /\ new.req = t.req /\ new.val = val
              /\ new.at = applied[t.node] /\ applied[t.node] \in 1..Len(dbs)
    BY DEF s
  <2> QED
    BY <2>1, WentTask
<1>4. CASE FindModified(h, t)
  <2>1. t.req \in ModifyRequests
    BY <1>1, <1>4 DEF FindModified, TaskTyped
  <2>2. CASE app = NoVal
    BY <1>4, <2>2, StopKeeps DEF FindModified, app
  <2>3. CASE app # NoVal
    <3> DEFINE val == Described(app, t.req)
               new == Went([t EXCEPT !.val = val], "writeChange")
    <3>1. Go(h, [t EXCEPT !.val = val], "writeChange")
      BY <1>4, <2>3 DEF FindModified, app
    <3>2. val \in Applications
      BY <1>3, <2>1, <2>3, DescribedType
    <3>3. val.roles = app.roles /\ val.given = app.given
      BY <1>3, <2>3 DEF Described, Applications
    <3>4. GroundedApp(val)
      BY <1>3, <2>3, <3>3 DEF GroundedApp
    <3> HIDE DEF val
    <3>5. /\ new \in Tasks /\ new.pc = "writeChange" /\ new.req = t.req /\ new.val = val
          /\ new.at = applied[t.node] /\ applied[t.node] \in 1..Len(dbs)
      BY <1>go, <3>2 DEF Steps
    <3> HIDE DEF new
    <3>6. TaskTyped(new)
      BY <2>1, <3>2, <3>5 DEF TaskTyped
    <3>7. Seen(new)
      BY <1>app, <2>1, <2>3, <3>4, <3>5 DEF Seen, ModifyRequests, val
    <3>8. Fit(new)
      BY <3>6, <3>7 DEF Fit
    <3> QED
      BY <3>1, <3>8, GoKeeps DEF new
  <2> QED
    BY <2>2, <2>3
<1>5. CASE FindUser(h, t)
  <2>1. t.req \in RoleRequests /\ t.req.user \in Users
    BY <1>1, <1>5 DEF FindUser, TaskTyped, RoleRequests
  <2>2. CASE Look(t, UserKey(t.req.user)) = NoVal
    BY <1>5, <2>2, StopKeeps DEF FindUser
  <2>3. CASE Look(t, UserKey(t.req.user)) # NoVal
    <3>1. Go(h, t, "findApp")
      BY <1>5, <2>3 DEF FindUser
    <3>2. HasAccount(t.req.user)
      BY <1>1, <2>1, <2>3, Looked
    <3>3. "findApp" \in Steps
      BY DEF Steps
    <3>4. Fit(Went(t, "findApp"))
      BY <1>1, <2>1, <3>2, <3>3, WentTask DEF Fit, TaskTyped, Seen
    <3> QED
      BY <3>1, <3>4, GoKeeps
  <2> QED
    BY <2>2, <2>3
<1>6. CASE FindApp(h, t)
  <2>1. t.req \in RoleRequests /\ t.req.user \in Users /\ HasAccount(t.req.user)
    BY <1>1, <1>6 DEF FindApp, TaskTyped, Seen, RoleRequests
  <2>2. CASE app = NoVal
    BY <1>6, <2>2, StopKeeps DEF FindApp, app
  <2>3. CASE app # NoVal /\ NothingToDo(app, t.req)
    <3>1. Go(h, t, "readList")
      BY <1>6, <2>3 DEF FindApp, app
    <3>2. "readList" \in Steps
      BY DEF Steps
    <3>3. Fit(Went(t, "readList"))
      BY <1>1, <2>1, <3>2, WentTask DEF Fit, TaskTyped, Seen
    <3> QED
      BY <3>1, <3>3, GoKeeps
  <2>4. CASE app # NoVal /\ ~NothingToDo(app, t.req)
    <3> DEFINE val == WithRole(app, t.req)
               new == Went([t EXCEPT !.val = val], "writeChange")
    <3>1. Go(h, [t EXCEPT !.val = val], "writeChange")
      BY <1>6, <2>4 DEF FindApp, app
    <3>2. /\ val \in Applications /\ val.given = app.given
          /\ \A role \in Roles, u \in Names :
               u \in val.roles[role] => u \in app.roles[role] \/ u \in Parts[t.req.user]
      BY <1>3, <2>1, <2>4, WithRoleType
    <3>val. val = WithRole(app, t.req)
      OBVIOUS
    <3> HIDE DEF val
    <3>3. GroundedApp(val)
      BY <1>3, <2>1, <2>4, <3>2 DEF GroundedApp, Backed
    <3>4. /\ new \in Tasks /\ new.pc = "writeChange" /\ new.req = t.req /\ new.val = val
          /\ new.at = applied[t.node] /\ applied[t.node] \in 1..Len(dbs)
      BY <1>go, <3>2 DEF Steps
    <3> HIDE DEF new
    <3>5. TaskTyped(new)
      BY <2>1, <3>2, <3>4 DEF TaskTyped
    <3>6. Seen(new)
      BY <1>app, <2>1, <2>4, <3>3, <3>4, <3>val DEF Seen, RoleRequests
    <3>7. Fit(new)
      BY <3>5, <3>6 DEF Fit
    <3> QED
      BY <3>1, <3>7, GoKeeps DEF new
  <2> QED
    BY <2>2, <2>3, <2>4
<1>7. CASE WriteChange(h, t)
  <2> DEFINE next == IF t.req.op = "modify" THEN Idle
                     ELSE [t EXCEPT !.pc = "readList", !.val = NoVal]
  <2>1. Set(h, t, AppKey(t.req.app), t.val, next, Idle)
    BY <1>7 DEF WriteChange
  <2>2. t.val \in Applications /\ GroundedApp(t.val)
    BY <1>1, <1>7 DEF WriteChange, TaskTyped, Seen
  <2>3. Fit(next)
    <3>1. CASE t.req.op = "modify"
      BY <3>1 DEF Fit
    <3>2. CASE t.req.op # "modify"
      <4> DEFINE new == [t EXCEPT !.pc = "readList", !.val = NoVal]
      <4>1. t.req \in RoleRequests
        BY <1>2, <3>2 DEF ModifyRequests
      <4>2. new \in Tasks /\ new.pc = "readList" /\ new.req = t.req /\ new.at = t.at
        BY <1>1 DEF Tasks, Steps
      <4> HIDE DEF new
      <4>3. TaskTyped(new) /\ Seen(new)
        BY <1>1, <4>1, <4>2 DEF TaskTyped, Seen
      <4> QED
        BY <3>2, <4>3 DEF Fit, new
    <3> QED
      BY <3>1, <3>2
  <2>4. /\ AppKey(t.req.app) \in Keys /\ t.val \in ValuesOf(AppKey(t.req.app))
        /\ \A u \in Users : AppKey(t.req.app) # AdminKey(u)
    BY <1>2, <2>2, AppKeys, KeysDiffer
  <2>5. Fit(Idle)
    BY DEF Fit
  <2> HIDE DEF next
  <2> QED
    BY <2>1, <2>2, <2>3, <2>4, <2>5, SetKeeps
<1> QED
  BY <1>4, <1>5, <1>6, <1>7

LEMMA ListSteps ==
  ASSUME TypeInv, AccountsInv, NEW h \in Handlers, NEW t, t = task[h], t # Idle,
         booting' = booting, ReadList(h, t) \/ FirstList(h, t) \/ WriteList(h, t)
  PROVE  TypeInv' /\ AccountsInv'
<1>1. t \in Tasks /\ TaskTyped(t) /\ Seen(t)
  BY DEF TypeInv, AccountsInv, TaskTyped
<1>2. /\ t.req \in RoleRequests \cup ListRequests /\ t.req.app \in Apps /\ t.req.user \in Users
  BY <1>1 DEF ReadList, FirstList, WriteList, TaskTyped, RoleRequests, ListRequests
<1> DEFINE key == ListOf(t.req)
<1>3. /\ key \in Keys /\ ValuesOf(key) = Seq(Apps)
      /\ \A u \in Users : key # AdminKey(u)
      /\ \A a \in Apps : key # AppKey(a)
  BY <1>2, UserKeys, KeysDiffer DEF ListOf
<1>4. CASE ReadList(h, t)
  <2> DEFINE list == Look(t, key)
             new == IF t.req.op \in {"add", "mark"} THEN Added(list, t.req.app)
                    ELSE Removed(list, t.req.app)
  <2>1. list \in Seq(Apps) \cup {NoVal}
    BY <1>1, <1>3, Looked
  <2>2. ASSUME NEW val \in Seq(Apps), NEW step \in {"firstList", "writeList"}
        PROVE  Fit(Went([t EXCEPT !.val = val], step))
    <3> DEFINE s == [t EXCEPT !.val = val]
    <3>1. s \in Tasks /\ s.val = val /\ s.req = t.req
      BY <1>1 DEF Tasks
    <3>2. step \in Steps
      BY DEF Steps
    <3> HIDE DEF s
    <3>3. TaskTyped(Went(s, step)) /\ Seen(Went(s, step))
      BY <1>2, <3>1, <3>2, WentTask DEF TaskTyped, Seen
    <3> QED
      BY <3>3 DEF Fit, s
  <2>3. list # NoVal => new \in Seq(Apps)
    BY <1>2, <2>1, AddedType, RemovedType
  <2>4. <<t.req.app>> \in Seq(Apps)
    BY <1>2
  <2>5. \/ Go(h, [t EXCEPT !.val = <<t.req.app>>], "firstList")
        \/ Stop(h)
        \/ list # NoVal /\ Go(h, [t EXCEPT !.val = new], "writeList")
    BY <1>4 DEF ReadList
  <2> HIDE DEF new, list
  <2> QED
    BY <2>2, <2>3, <2>4, <2>5, GoKeeps, StopKeeps
<1> HIDE DEF key
<1>5. ASSUME NEW next, Set(h, t, key, t.val, next, Idle), Fit(next),
             t.pc \in {"firstList", "writeList"}
      PROVE  TypeInv' /\ AccountsInv'
  <2>1. t.val \in ValuesOf(key)
    BY <1>1, <1>3, <1>5 DEF TaskTyped
  <2>2. Fit(Idle)
    BY DEF Fit
  <2> QED
    BY <1>3, <1>5, <2>1, <2>2, SetKeeps
<1>6. CASE FirstList(h, t)
  <2> DEFINE next == [t EXCEPT !.pc = "writeList"]
  <2>1. next \in Tasks /\ next.pc = "writeList" /\ next.req = t.req /\ next.at = t.at
        /\ next.val = t.val
    BY <1>1 DEF Tasks, Steps
  <2>2. Set(h, t, key, t.val, next, Idle) /\ t.pc = "firstList"
    BY <1>6 DEF FirstList, key
  <2> HIDE DEF next
  <2>3. TaskTyped(next) /\ Seen(next)
    BY <1>1, <2>1, <2>2 DEF TaskTyped, Seen
  <2> QED
    BY <1>5, <2>2, <2>3 DEF Fit
<1>7. CASE WriteList(h, t)
  <2>1. Set(h, t, key, t.val, Idle, Idle) /\ t.pc = "writeList"
    BY <1>7 DEF WriteList, key
  <2> QED
    BY <1>5, <2>1 DEF Fit
<1> QED
  BY <1>4, <1>6, <1>7

LEMMA AccountSteps ==
  ASSUME TypeInv, AccountsInv, NEW h \in Handlers, NEW t, t = task[h], t # Idle,
         booting' = booting,
         \/ FindName(h, t) \/ WriteUser(h, t)
         \/ FindAdmin(h, t) \/ WriteAdmin(h, t) \/ AddAdmin(h, t) \/ MarkAdmin(h, t)
  PROVE  TypeInv' /\ AccountsInv'
<1>1. t \in Tasks /\ TaskTyped(t) /\ Seen(t)
  BY DEF TypeInv, AccountsInv, TaskTyped
<1>2. Fit(Idle)
  BY DEF Fit
<1>3. Admin \in Users /\ AdminPassword \in Passwords
  BY AccountsAssumption
<1>4. ASSUME NEW step \in {"writeUser", "writeAdmin", "markAdmin"}, Go(h, t, step),
             step = "writeUser" => t.req \in SignUps /\ Look(t, UserKey(t.req.user)) = NoVal,
             step = "writeAdmin" => Look(t, UserKey(Admin)) = NoVal,
             step = "markAdmin" => HasAccount(Admin)
      PROVE  TypeInv' /\ AccountsInv'
  <2>1. step \in Steps
    BY DEF Steps
  <2>2. TaskTyped(Went(t, step)) /\ Seen(Went(t, step))
    BY <1>1, <1>4, <2>1, WentTask DEF TaskTyped, Seen, Look
  <2> QED
    BY <1>4, <2>2, GoKeeps DEF Fit
<1>5. CASE FindName(h, t)
  <2>1. t.req \in SignUps
    BY <1>1, <1>5 DEF FindName, TaskTyped
  <2>2. Stop(h) \/ (Look(t, UserKey(t.req.user)) = NoVal /\ Go(h, t, "writeUser"))
    BY <1>5 DEF FindName
  <2> QED
    BY <1>4, <2>1, <2>2, StopKeeps
<1>6. CASE WriteUser(h, t)
  <2>1. t.req \in SignUps /\ t.req.user \in Users /\ t.req.password \in Passwords
    BY <1>1, <1>6 DEF WriteUser, TaskTyped, SignUps
  <2>2. Set(h, t, UserKey(t.req.user), t.req.password, Idle, Idle)
    BY <1>6 DEF WriteUser
  <2>3. /\ UserKey(t.req.user) \in Keys /\ t.req.password \in ValuesOf(UserKey(t.req.user))
        /\ \A u \in Users : UserKey(t.req.user) # AdminKey(u)
        /\ \A a \in Apps : UserKey(t.req.user) # AppKey(a)
    BY <2>1, UserKeys, KeysDiffer
  <2> QED
    BY <1>2, <2>2, <2>3, SetKeeps
<1>7. CASE FindAdmin(h, t)
  BY <1>4, <1>7, StopKeeps DEF FindAdmin
<1>8. CASE WriteAdmin(h, t)
  <2> DEFINE next == [t EXCEPT !.pc = "addAdmin"]
  <2>1. Set(h, t, UserKey(Admin), AdminPassword, next, Idle)
    BY <1>8 DEF WriteAdmin
  <2>2. next \in Tasks /\ next.pc = "addAdmin" /\ next.at = t.at
    BY <1>1 DEF Tasks, Steps
  <2> HIDE DEF next
  <2>3. TaskTyped(next) /\ Seen(next)
    BY <1>1, <2>2 DEF TaskTyped, Seen
  <2>4. Fit(next)
    BY <2>3 DEF Fit
  <2>5. /\ UserKey(Admin) \in Keys /\ AdminPassword \in ValuesOf(UserKey(Admin))
        /\ \A u \in Users : UserKey(Admin) # AdminKey(u)
        /\ \A a \in Apps : UserKey(Admin) # AppKey(a)
    BY <1>3, UserKeys, KeysDiffer
  <2> QED
    BY <1>2, <2>1, <2>4, <2>5, SetKeeps
<1>9. CASE AddAdmin(h, t)
  <2>1. Stop(h) \/ (Look(t, UserKey(Admin)) # NoVal /\ Go(h, t, "markAdmin"))
    BY <1>9 DEF AddAdmin
  <2>2. Look(t, UserKey(Admin)) # NoVal => HasAccount(Admin)
    BY <1>1, <1>3, Looked
  <2> QED
    BY <1>4, <2>1, <2>2, StopKeeps
<1>10. CASE MarkAdmin(h, t)
  <2>1. Set(h, t, AdminKey(Admin), TRUE, Idle, Idle)
    BY <1>10 DEF MarkAdmin
  <2>2. HasAccount(Admin)
    BY <1>1, <1>10 DEF MarkAdmin, Seen
  <2>3. /\ AdminKey(Admin) \in Keys /\ TRUE \in ValuesOf(AdminKey(Admin))
        /\ \A u \in Users : AdminKey(Admin) = AdminKey(u) => u = Admin
        /\ \A a \in Apps : AdminKey(Admin) # AppKey(a)
    BY <1>3, UserKeys, KeysDiffer
  <2> QED
    BY <1>2, <2>1, <2>2, <2>3, SetKeeps
<1> QED
  BY <1>5, <1>6, <1>7, <1>8, <1>9, <1>10

LEMMA StepKeeps ==
  ASSUME TypeInv, AccountsInv, NEW h \in Handlers, Step(h)
  PROVE  TypeInv' /\ AccountsInv'
<1>1. booting' = booting /\ task[h] # Idle
  BY DEF Step
<1> DEFINE t == task[h]
<1>2. \/ FindNew(h, t) \/ ReadSpace(h, t) \/ WriteSpace(h, t) \/ WriteApp(h, t)
      \/ FindModified(h, t) \/ FindUser(h, t) \/ FindApp(h, t) \/ WriteChange(h, t)
      \/ ReadList(h, t) \/ FirstList(h, t) \/ WriteList(h, t)
      \/ FindName(h, t) \/ WriteUser(h, t)
      \/ FindAdmin(h, t) \/ WriteAdmin(h, t) \/ AddAdmin(h, t) \/ MarkAdmin(h, t)
  BY DEF Step
<1> QED
  BY <1>1, <1>2, NewSteps, ChangeSteps, ListSteps, AccountSteps

-----------------------------------------------------------------------------
(* Requests, the start of a node, and the invariants.                      *)

LEMMA StartKeeps ==
  ASSUME TypeInv, AccountsInv, NEW h \in Handlers, NEW n \in Nodes, NEW r, NEW step \in Steps,
         Start(h, n, r, step), UNCHANGED <<dbs, applied>>, booting' \subseteq Nodes,
         \/ r \in NewRequests /\ step = "findNew"
         \/ r \in ModifyRequests /\ step = "findModified"
         \/ r \in RoleRequests /\ step = "findUser"
         \/ r \in ListRequests /\ step = "readList"
         \/ r \in SignUps /\ step = "findName"
         \/ r = [op |-> "boot"] /\ step = "findAdmin"
  PROVE  TypeInv' /\ AccountsInv'
<1> DEFINE new == [pc |-> step, node |-> n, req |-> r, val |-> NoVal, at |-> 1]
<1>1. task' = [task EXCEPT ![h] = new]
  BY DEF Start, Become
<1>2. r \in RequestTypes \cup {[op |-> "boot"]}
  BY DEF RequestTypes, NewRequests, ModifyRequests, RoleRequests, ListRequests, SignUps
<1>3. new \in Tasks /\ new.pc = step /\ new.req = r /\ new.at = 1
  BY <1>2 DEF Tasks
<1>4. 1 \in 1..Len(dbs)
  BY DEF TypeInv
<1> HIDE DEF new
<1>5. TaskTyped(new) /\ Seen(new)
  BY <1>3, <1>4 DEF TaskTyped, Seen
<1>6. Fit(new)
  BY <1>5 DEF Fit
<1>7. TypeInv'
  <2>1. AdminKey(Admin) \in Keys /\ TRUE \in ValuesOf(AdminKey(Admin))
    BY UserKeys, AccountsAssumption
  <2> QED
    BY <1>1, <1>6, <2>1, StepType
<1>8. AccountsInv'
  <2>1. Grounded' /\ AccountsStay'
    BY DEF AccountsInv, Grounded, AccountsStay, HasAccount, Newest
  <2>2. \A t : Seen(t) => Seen(t)'
    BY DEF Seen, HasAccount, Backed, GroundedApp, Newest
  <2>3. \A g \in Handlers : task'[g] = IF g = h THEN new ELSE task[g]
    BY <1>1 DEF TypeInv
  <2>4. \A g \in Handlers : task'[g] # Idle => Seen(task[g])'
    BY <1>5, <2>2, <2>3 DEF AccountsInv
  <2> QED
    BY <2>1, <2>4 DEF AccountsInv
<1> QED
  BY <1>7, <1>8

LEMMA AccountsNext ==
  ASSUME TypeInv, AccountsInv, [Next]_vars
  PROVE  TypeInv' /\ AccountsInv'
<1>1. ASSUME NEW h \in Handlers, Step(h)
      PROVE  TypeInv' /\ AccountsInv'
  BY <1>1, StepKeeps
<1>2. ASSUME NEW h \in Handlers, NEW n \in Nodes, Request(h, n)
      PROVE  TypeInv' /\ AccountsInv'
  <2>1. PICK r \in Requests : Start(h, n, r, FirstStep(r))
    BY <1>2 DEF Request
  <2>2. UNCHANGED <<dbs, applied>> /\ booting' \subseteq Nodes
    BY <1>2 DEF Request, TypeInv
  <2>3. r \in NewRequests \cup ModifyRequests \cup RoleRequests \cup ListRequests \cup SignUps
    BY AccountsAssumption
    DEF RequestTypes, NewRequests, ModifyRequests, RoleRequests, ListRequests, SignUps
  <2>4. /\ FirstStep(r) \in Steps
        /\ \/ r \in NewRequests /\ FirstStep(r) = "findNew"
           \/ r \in ModifyRequests /\ FirstStep(r) = "findModified"
           \/ r \in RoleRequests /\ FirstStep(r) = "findUser"
           \/ r \in ListRequests /\ FirstStep(r) = "readList"
           \/ r \in SignUps /\ FirstStep(r) = "findName"
    BY <2>3
    DEF FirstStep, Steps, NewRequests, ModifyRequests, RoleRequests, ListRequests, SignUps
  <2> QED
    BY <2>1, <2>2, <2>4, StartKeeps
<1>3. ASSUME NEW h \in Handlers, NEW n \in Nodes, Boot(h, n)
      PROVE  TypeInv' /\ AccountsInv'
  <2>1. /\ Start(h, n, [op |-> "boot"], "findAdmin") /\ UNCHANGED <<dbs, applied>>
        /\ booting' \subseteq Nodes
    BY <1>3 DEF Boot, TypeInv
  <2>2. "findAdmin" \in Steps
    BY DEF Steps
  <2> QED
    BY <2>1, <2>2, StartKeeps
<1>4. ASSUME NEW n \in Nodes, Apply(n)
      PROVE  TypeInv' /\ AccountsInv'
  <2>1. applied' \in [Nodes -> 1..Len(dbs)]
    BY <1>4 DEF Apply, TypeInv
  <2>2. TypeInv'
    BY <1>4, <2>1 DEF Apply, TypeInv
  <2>3. AccountsInv'
    BY <1>4 DEF Apply, AccountsInv, Grounded, AccountsStay, Seen, HasAccount, Backed, GroundedApp, Newest
  <2> QED
    BY <2>2, <2>3
<1>5. ASSUME NEW n \in Nodes, Restart(n)
      PROVE  TypeInv' /\ AccountsInv'
  <2>1. \A g \in Handlers : task'[g] \in {task[g], Idle}
    BY <1>5 DEF Restart
  <2>2. task' \in [Handlers -> Tasks \cup {Idle}]
    BY <1>5 DEF Restart, TypeInv
  <2>3. booting' \subseteq Nodes /\ UNCHANGED <<dbs, applied>>
    BY <1>5 DEF Restart, TypeInv
  <2>4. TypeInv'
    BY <2>1, <2>2, <2>3 DEF TypeInv, TaskTyped
  <2>5. \A t : Seen(t) => Seen(t)'
    BY <2>3 DEF Seen, HasAccount, Backed, GroundedApp, Newest
  <2>6. \A g \in Handlers : task'[g] # Idle => Seen(task[g])'
    BY <2>1, <2>5 DEF AccountsInv
  <2>7. Grounded' /\ AccountsStay'
    BY <2>3 DEF AccountsInv, Grounded, AccountsStay, HasAccount, Newest
  <2> QED
    BY <2>4, <2>6, <2>7 DEF AccountsInv
<1>6. CASE UNCHANGED vars
  <2>1. TypeInv'
    BY <1>6 DEF vars, TypeInv
  <2>2. AccountsInv'
    BY <1>6 DEF vars, AccountsInv, Grounded, AccountsStay, Seen, HasAccount, Backed, GroundedApp, Newest
  <2> QED
    BY <2>1, <2>2
<1> QED
  BY <1>1, <1>2, <1>3, <1>4, <1>5, <1>6 DEF Next

LEMMA AccountsInit == Init => TypeInv /\ AccountsInv
<1> SUFFICES ASSUME Init PROVE TypeInv /\ AccountsInv
  OBVIOUS
<1>1. PICK e \in Earlier : dbs = <<e.db>> /\ booting = e.started
  BY DEF Init
<1>2. /\ \A k \in Keys : e.db[k] \in ValuesOf(k) \cup {NoVal}
      /\ e.db = [k \in Keys |-> e.db[k]]
      /\ GroundedIn(e.db) /\ e.started \subseteq Nodes
  BY EarlierAssumption
<1>3. \A k \in Keys : e.db[k] \in Values
  BY <1>2, ValuesAreValues
<1>4. Typed(e.db) /\ e.db \in [Keys -> Values]
  BY <1>2, <1>3 DEF Typed
<1> DEFINE db == e.db
<1> HIDE DEF db
<1>5. /\ dbs = <<db>> /\ Typed(db) /\ db \in [Keys -> Values] /\ GroundedIn(db)
  BY <1>1, <1>2, <1>4 DEF db
<1>6. dbs \in Seq([Keys -> Values]) /\ Len(dbs) = 1 /\ dbs[1] = db
  BY <1>5
<1>7. \A i \in 1..Len(dbs) : i = 1
  BY <1>6
<1>8. TypeInv
  BY <1>1, <1>2, <1>5, <1>6, <1>7 DEF TypeInv, Init
<1>9. Grounded /\ AccountsStay
  BY <1>5, <1>6, <1>7 DEF Grounded, AccountsStay, HasAccount, Newest
<1>10. AccountsInv
  BY <1>9 DEF AccountsInv, Init
<1> QED
  BY <1>8, <1>10

LEMMA Invariant == Spec => [](TypeInv /\ AccountsInv)
<1>1. Init => TypeInv /\ AccountsInv
  BY AccountsInit
<1>2. TypeInv /\ AccountsInv /\ [Next]_vars => TypeInv' /\ AccountsInv'
  BY AccountsNext
<1> QED
  BY <1>1, <1>2, PTL DEF Spec

(* Types: every record, account and list of every database, and every task *)
(* that is under way, is one, whatever fails or stops between a read and   *)
(* the write of what was made of it.                                       *)
THEOREM TypeCorrect == Spec => []TypeOK
<1>1. TypeInv => TypeOK
  BY DEF TypeInv, TypeOK, Typed, TaskTyped, Tasks
<1> QED
  BY <1>1, Invariant, PTL

(* The mark of the administrator is given to accounts only, and a name     *)
(* that a granted role holds is the name of an account or a part of one    *)
(* between commas: an account never goes away, and what a task writes back *)
(* mentions nobody but those whom an account named when it read.           *)
THEOREM GroundedHolds == Spec => []Grounded
<1>1. AccountsInv => Grounded
  BY DEF AccountsInv
<1> QED
  BY <1>1, Invariant, PTL

-----------------------------------------------------------------------------
(* The promise of Directory.                                               *)

AppsNow == [a \in Apps |-> Newest[AppKey(a)]]
AccountsNow == [u \in Users |-> Newest[UserKey(u)]]
AdminsNow == {u \in Users : Newest[AdminKey(u)] # NoVal}

DirectoryStep == [Promised!Next]_(Promised!dir)

LEMMA SameDirectory ==
  ASSUME AppsNow' = AppsNow, AccountsNow' = AccountsNow, AdminsNow' = AdminsNow
  PROVE  DirectoryStep
BY DEF DirectoryStep, Promised!dir, AppsNow, AccountsNow, AdminsNow

LEMMA SameNewest ==
  ASSUME Newest' = Newest
  PROVE  DirectoryStep
<1>1. AppsNow' = AppsNow /\ AccountsNow' = AccountsNow /\ AdminsNow' = AdminsNow
  BY DEF AppsNow, AccountsNow, AdminsNow
<1> QED
  BY <1>1, SameDirectory

(* The one thing of the directory that a write changes.                    *)
LEMMA WrittenDirectory ==
  ASSUME TypeInv, NEW key \in Keys, NEW val \in ValuesOf(key), Written(key, val)
  PROVE  /\ \A a \in Apps : key = AppKey(a) =>
              /\ AppsNow' = [AppsNow EXCEPT ![a] = val]
              /\ AccountsNow' = AccountsNow /\ AdminsNow' = AdminsNow
         /\ \A u \in Users : key = UserKey(u) =>
              /\ AccountsNow' = [AccountsNow EXCEPT ![u] = val]
              /\ AppsNow' = AppsNow /\ AdminsNow' = AdminsNow
         /\ \A u \in Users : key = AdminKey(u) =>
              /\ AdminsNow' = AdminsNow \cup {u}
              /\ AppsNow' = AppsNow /\ AccountsNow' = AccountsNow
         /\ (/\ \A a \in Apps : key # AppKey(a)
             /\ \A u \in Users : key \notin {UserKey(u), AdminKey(u)}) => DirectoryStep
<1>1. Newest' = [Newest EXCEPT ![key] = val] /\ Newest \in [Keys -> Values]
  BY WrittenDbs, NewestTyped
<1>2. \A k \in Keys : Newest'[k] = IF k = key THEN val ELSE Newest[k]
  BY <1>1
<1>3. /\ \A a \in Apps : AppKey(a) \in Keys
      /\ \A u \in Users : UserKey(u) \in Keys /\ AdminKey(u) \in Keys
  BY AppKeys, UserKeys
<1>4. val # NoVal
  BY ValuesExist
<1>5. (\A a \in Apps : key # AppKey(a)) => AppsNow' = AppsNow
  BY <1>2, <1>3 DEF AppsNow
<1>6. (\A u \in Users : key # UserKey(u)) => AccountsNow' = AccountsNow
  BY <1>2, <1>3 DEF AccountsNow
<1>7. (\A u \in Users : key # AdminKey(u)) => AdminsNow' = AdminsNow
  BY <1>2, <1>3 DEF AdminsNow
<1>8. \A a \in Apps : key = AppKey(a) => AppsNow' = [AppsNow EXCEPT ![a] = val]
  <2> TAKE a \in Apps
  <2> HAVE key = AppKey(a)
  <2>1. \A b \in Apps : Newest'[AppKey(b)] = IF b = a THEN val ELSE Newest[AppKey(b)]
    BY <1>2, <1>3, KeysDiffer
  <2> QED
    BY <2>1 DEF AppsNow
<1>9. \A u \in Users : key = UserKey(u) => AccountsNow' = [AccountsNow EXCEPT ![u] = val]
  <2> TAKE u \in Users
  <2> HAVE key = UserKey(u)
  <2>1. \A v \in Users : Newest'[UserKey(v)] = IF v = u THEN val ELSE Newest[UserKey(v)]
    BY <1>2, <1>3, KeysDiffer
  <2> QED
    BY <2>1 DEF AccountsNow
<1>10. \A u \in Users : key = AdminKey(u) => AdminsNow' = AdminsNow \cup {u}
  <2> TAKE u \in Users
  <2> HAVE key = AdminKey(u)
  <2>1. \A v \in Users : Newest'[AdminKey(v)] = IF v = u THEN val ELSE Newest[AdminKey(v)]
    BY <1>2, <1>3, KeysDiffer
  <2> QED
    BY <1>4, <2>1 DEF AdminsNow
<1> QED
  BY <1>5, <1>6, <1>7, <1>8, <1>9, <1>10, KeysDiffer, SameDirectory

(* What an undisturbed task has read is what it replaces.                  *)
LEMMA Replaces ==
  ASSUME TypeInv, NEW t, t.at \in 1..Len(dbs), NEW h \in Handlers, t = task[h], Undisturbed(h),
         NEW key \in Keys, NEW val \in ValuesOf(key), Written(key, val), val # Newest[key]
  PROVE  dbs[t.at][key] = Newest[key]
<1>1. /\ Newest' = [Newest EXCEPT ![key] = val] /\ Newest \in [Keys -> Values]
      /\ Len(dbs) \in Nat
  BY WrittenDbs, NewestTyped
<1>2. Newest'[key] # Newest[key]
  BY <1>1
<1>3. dbs'[Len(dbs')][key] # Newest[key]
  BY <1>2 DEF Newest
<1>4. t.at \in t.at .. Len(dbs)
  BY <1>1
<1> QED
  BY <1>3, <1>4 DEF Undisturbed

(* A call of Set that does not change the value, and one that is not       *)
(* committed, changes nothing; it is enough to look at the others.         *)
LEMMA SetDirectory ==
  ASSUME TypeInv, AccountsInv, NEW h \in Handlers, NEW t, t = task[h], t # Idle,
         NEW key \in Keys, NEW val \in ValuesOf(key), NEW next, NEW otherwise,
         next # t, otherwise # t, Set(h, t, key, val, next, otherwise),
         \A g \in Handlers : task'[g] # task[g] => Undisturbed(g)
  PROVE  DirectoryStep \/ (Written(key, val) /\ dbs[t.at][key] = Newest[key])
<1>1. task \in [Handlers -> Tasks \cup {Idle}] /\ t.at \in 1..Len(dbs)
  BY DEF TypeInv
<1>2. task'[h] # task[h]
  BY <1>1, SetWrites
<1>3. Undisturbed(h)
  BY <1>2
<1>4. CASE UNCHANGED <<dbs, applied>>
  BY <1>4, SameNewest DEF Newest
<1>5. CASE Written(key, val) /\ val = Newest[key]
  <2>1. Newest' = [Newest EXCEPT ![key] = val] /\ Newest \in [Keys -> Values]
    BY <1>5, WrittenDbs, NewestTyped
  <2> QED
    BY <1>5, <2>1, SameNewest
<1>6. CASE Written(key, val) /\ val # Newest[key]
  BY <1>1, <1>3, <1>6, Replaces
<1> QED
  BY <1>4, <1>5, <1>6, SetWrites

LEMMA NewDirectory ==
  ASSUME TypeInv, AccountsInv, NEW h \in Handlers, NEW t, t = task[h], t # Idle,
         WriteSpace(h, t) \/ WriteApp(h, t),
         \A g \in Handlers : task'[g] # task[g] => Undisturbed(g)
  PROVE  DirectoryStep
<1>1. t \in Tasks /\ TaskTyped(t) /\ Seen(t)
  BY DEF TypeInv, AccountsInv, TaskTyped
<1>2. t.req \in NewRequests /\ t.req.app \in Apps
  BY <1>1 DEF WriteSpace, WriteApp, TaskTyped, NewRequests
<1>3. CASE WriteSpace(h, t)
  <2> DEFINE next == [t EXCEPT !.pc = "writeApp"]
  <2>1. Set(h, t, SpaceKey(t.req.app), TRUE, next, next)
    BY <1>3 DEF WriteSpace
  <2>2. next # t
    <3>1. next.pc = "writeApp" /\ t.pc = "writeSpace"
      BY <1>1, <1>3 DEF Tasks, WriteSpace
    <3> QED
      BY <3>1
  <2>3. /\ SpaceKey(t.req.app) \in Keys /\ TRUE \in ValuesOf(SpaceKey(t.req.app))
        /\ \A u \in Users : SpaceKey(t.req.app) \notin {UserKey(u), AdminKey(u)}
        /\ \A a \in Apps : SpaceKey(t.req.app) # AppKey(a)
    BY <1>2, AppKeys, KeysDiffer
  <2> HIDE DEF next
  <2>4. DirectoryStep \/ Written(SpaceKey(t.req.app), TRUE)
    BY <2>1, <2>2, <2>3, SetDirectory
  <2> QED
    BY <2>3, <2>4, WrittenDirectory
<1>4. CASE WriteApp(h, t)
  <2> DEFINE app(token) == [token |-> token, about |-> t.req.about, roles |-> t.req.roles,
                            given |-> UNION {t.req.roles[r] : r \in Roles}]
             a == t.req.app
  <2>1. PICK token \in Tokens : Set(h, t, AppKey(a), app(token), Idle, Idle)
    BY <1>4 DEF WriteApp
  <2>2. app(token) \in Applications
    BY <1>2 DEF Applications, NewRequests
  <2> HIDE DEF app
  <2>3. AppKey(a) \in Keys /\ app(token) \in ValuesOf(AppKey(a))
    BY <1>2, <2>2, AppKeys
  <2>4. DirectoryStep \/ (Written(AppKey(a), app(token)) /\ dbs[t.at][AppKey(a)] = Newest[AppKey(a)])
    BY <2>1, <2>3, SetDirectory
  <2>5. dbs[t.at][AppKey(a)] = NoVal
    BY <1>1, <1>4 DEF Seen, WriteApp
  <2>6. ASSUME Written(AppKey(a), app(token)), Newest[AppKey(a)] = NoVal
        PROVE  Promised!Create(a)
    <3>1. /\ AppsNow' = [AppsNow EXCEPT ![a] = app(token)]
          /\ AccountsNow' = AccountsNow /\ AdminsNow' = AdminsNow
      BY <1>2, <2>3, <2>6, WrittenDirectory
    <3>2. AppsNow[a] = NoVal /\ DOMAIN AppsNow = Apps
      BY <1>2, <2>6 DEF AppsNow
    <3>3. AppsNow'[a] = app(token)
      BY <1>2, <3>1, <3>2
    <3>4. /\ AppsNow[a] = NoVal /\ AppsNow'[a] \in Applications
          /\ AppsNow' = [AppsNow EXCEPT ![a] = AppsNow'[a]]
          /\ AccountsNow' = AccountsNow /\ AdminsNow' = AdminsNow
      BY <2>2, <3>1, <3>2, <3>3
    <3> QED
      BY <3>4 DEF Promised!Create, AppsNow, AccountsNow, AdminsNow
  <2>7. Promised!Create(a) => DirectoryStep
    BY <1>2 DEF DirectoryStep, Promised!Next
  <2> QED
    BY <2>4, <2>5, <2>6, <2>7
<1> QED
  BY <1>3, <1>4

(* A change of a record, by what it makes of the record it replaces.       *)
LEMMA ChangeDirectory ==
  ASSUME TypeInv, AccountsInv, NEW h \in Handlers, NEW t, t = task[h], t # Idle,
         WriteChange(h, t), \A g \in Handlers : task'[g] # task[g] => Undisturbed(g)
  PROVE  DirectoryStep
<1>1. t \in Tasks /\ TaskTyped(t) /\ Seen(t) /\ t.pc = "writeChange"
  BY DEF TypeInv, AccountsInv, TaskTyped, WriteChange
<1> DEFINE a == t.req.app
           key == AppKey(a)
           app == Newest[key]
           next == IF t.req.op = "modify" THEN Idle
                   ELSE [t EXCEPT !.pc = "readList", !.val = NoVal]
<1>2. t.req \in ModifyRequests \cup RoleRequests /\ a \in Apps
  BY <1>1 DEF TaskTyped, ModifyRequests, RoleRequests
<1>3. key \in Keys /\ ValuesOf(key) = Applications /\ t.val \in ValuesOf(key)
  BY <1>1, <1>2, AppKeys DEF TaskTyped
<1>4. next # t
  <2>1. t.req.op # "modify" => next.pc = "readList"
    BY <1>1 DEF Tasks
  <2> QED
    BY <1>1, <2>1
<1>5. Set(h, t, key, t.val, next, Idle)
  BY DEF WriteChange
<1> HIDE DEF next
<1>6. DirectoryStep \/ (Written(key, t.val) /\ dbs[t.at][key] = app)
  BY <1>3, <1>4, <1>5, SetDirectory
<1> SUFFICES ASSUME Written(key, t.val), dbs[t.at][key] = app
             PROVE  DirectoryStep
  BY <1>6
<1>7. app # NoVal /\ app \in Applications
  <2>1. Newest[key] \in ValuesOf(key) \cup {NoVal}
    BY <1>3, NewestTyped DEF Typed
  <2>2. dbs[t.at][key] # NoVal
    BY <1>1 DEF Seen
  <2> QED
    BY <1>3, <2>1, <2>2
<1>8. /\ AppsNow' = [AppsNow EXCEPT ![a] = t.val]
      /\ AccountsNow' = AccountsNow /\ AdminsNow' = AdminsNow
  BY <1>2, <1>3, WrittenDirectory
<1>9. AppsNow[a] = app /\ DOMAIN AppsNow = Apps
  BY <1>2 DEF AppsNow
<1>10. CASE t.req \in ModifyRequests
  <2>1. t.val = Described(app, t.req) /\ t.req.about \in Infos \cup {NoVal}
    BY <1>1, <1>10 DEF Seen, ModifyRequests
  <2>2. CASE t.req.about = NoVal
    <3>1. t.val = app
      BY <1>7, <2>1, <2>2 DEF Described, Applications
    <3>2. AppsNow' = AppsNow
      BY <1>8, <1>9, <3>1 DEF AppsNow
    <3> QED
      BY <1>8, <3>2, SameDirectory
  <2>3. CASE t.req.about # NoVal
    <3>1. t.val = [AppsNow[a] EXCEPT !.about = t.req.about] /\ t.req.about \in Infos
      BY <1>9, <2>1, <2>3 DEF Described
    <3>2. AppsNow' = [AppsNow EXCEPT ![a].about = t.req.about]
      BY <1>8, <3>1
    <3>3. Promised!Describe(a)
      BY <1>7, <1>8, <1>9, <3>1, <3>2 DEF Promised!Describe, AppsNow, AccountsNow, AdminsNow
    <3> QED
      BY <1>2, <3>3 DEF DirectoryStep, Promised!Next
  <2> QED
    BY <2>2, <2>3
<1>11. CASE t.req \in RoleRequests
  <2> DEFINE r == t.req.role
             u == t.req.user
  <2>1. r \in Roles /\ u \in Users /\ t.req.op \in {"add", "remove"}
    BY <1>11 DEF RoleRequests
  <2>2. t.val = WithRole(app, t.req) /\ HasAccount(u)
    BY <1>1, <2>1 DEF Seen
  <2>3. AccountsNow[u] # NoVal
    BY <2>1, <2>2 DEF AccountsNow, HasAccount
  <2>4. CASE t.req.op = "add"
    <3>1. AppsNow' = [AppsNow EXCEPT ![a].roles[r] = @ \cup Parts[u]]
      BY <1>8, <1>9, <2>2, <2>4 DEF WithRole
    <3>2. Promised!Grant(a, r, u)
      BY <1>7, <1>8, <1>9, <2>3, <3>1 DEF Promised!Grant, AppsNow, AccountsNow, AdminsNow
    <3> QED
      BY <1>2, <2>1, <3>2 DEF DirectoryStep, Promised!Next
  <2>5. CASE t.req.op = "remove"
    <3>1. AppsNow' = [AppsNow EXCEPT ![a].roles[r] = @ \ {u}]
      BY <1>8, <1>9, <2>2, <2>5 DEF WithRole
    <3>2. Promised!Revoke(a, r, u)
      BY <1>7, <1>8, <1>9, <3>1 DEF Promised!Revoke, AppsNow, AccountsNow, AdminsNow
    <3> QED
      BY <1>2, <2>1, <3>2 DEF DirectoryStep, Promised!Next
  <2> QED
    BY <2>1, <2>4, <2>5
<1> QED
  BY <1>2, <1>10, <1>11

LEMMA ListDirectory ==
  ASSUME TypeInv, AccountsInv, NEW h \in Handlers, NEW t, t = task[h], t # Idle,
         FirstList(h, t) \/ WriteList(h, t),
         \A g \in Handlers : task'[g] # task[g] => Undisturbed(g)
  PROVE  DirectoryStep
<1>1. t \in Tasks /\ TaskTyped(t) /\ t.pc \in {"firstList", "writeList"}
  BY DEF TypeInv, TaskTyped, FirstList, WriteList
<1> DEFINE key == ListOf(t.req)
<1>2. t.req.user \in Users /\ t.val \in Seq(Apps)
  BY <1>1 DEF TaskTyped, RoleRequests, ListRequests
<1>3. /\ key \in Keys /\ t.val \in ValuesOf(key)
      /\ \A u \in Users : key \notin {UserKey(u), AdminKey(u)}
      /\ \A a \in Apps : key # AppKey(a)
  BY <1>2, UserKeys, KeysDiffer DEF ListOf
<1>4. PICK next : Set(h, t, key, t.val, next, Idle) /\ next # t
  <2>1. CASE FirstList(h, t)
    <3> DEFINE new == [t EXCEPT !.pc = "writeList"]
    <3>1. new.pc = "writeList" /\ t.pc = "firstList"
      BY <1>1, <2>1 DEF Tasks, FirstList
    <3>2. Set(h, t, key, t.val, new, Idle)
      BY <2>1 DEF FirstList
    <3> QED
      BY <3>1, <3>2
  <2>2. CASE WriteList(h, t)
    BY <2>2 DEF WriteList
  <2> QED
    BY <2>1, <2>2
<1> HIDE DEF key
<1>5. DirectoryStep \/ Written(key, t.val)
  BY <1>3, <1>4, SetDirectory
<1> QED
  BY <1>3, <1>5, WrittenDirectory

LEMMA AccountDirectory ==
  ASSUME TypeInv, AccountsInv, NEW h \in Handlers, NEW t, t = task[h], t # Idle,
         WriteUser(h, t) \/ WriteAdmin(h, t) \/ MarkAdmin(h, t),
         \A g \in Handlers : task'[g] # task[g] => Undisturbed(g)
  PROVE  DirectoryStep
<1>1. t \in Tasks /\ TaskTyped(t) /\ Seen(t)
  BY DEF TypeInv, AccountsInv, TaskTyped
<1>2. Admin \in Users /\ AdminPassword \in Passwords
  BY AccountsAssumption
<1>3. ASSUME NEW u \in Users, NEW p \in Passwords, NEW next, next # t,
             Set(h, t, UserKey(u), p, next, Idle), dbs[t.at][UserKey(u)] = NoVal
      PROVE  DirectoryStep
  <2>1. UserKey(u) \in Keys /\ p \in ValuesOf(UserKey(u))
    BY UserKeys
  <2>2. DirectoryStep \/ (Written(UserKey(u), p) /\ dbs[t.at][UserKey(u)] = Newest[UserKey(u)])
    BY <1>3, <2>1, SetDirectory
  <2>3. ASSUME Written(UserKey(u), p), Newest[UserKey(u)] = NoVal
        PROVE  DirectoryStep
    <3>1. /\ AccountsNow' = [AccountsNow EXCEPT ![u] = p]
          /\ AppsNow' = AppsNow /\ AdminsNow' = AdminsNow
      BY <2>1, <2>3, WrittenDirectory
    <3>2. AccountsNow[u] = NoVal
      BY <2>3 DEF AccountsNow
    <3>3. Promised!SignUp(u)
      BY <3>1, <3>2 DEF Promised!SignUp, AppsNow, AccountsNow, AdminsNow
    <3> QED
      BY <3>3 DEF DirectoryStep, Promised!Next
  <2> QED
    BY <1>3, <2>2, <2>3
<1>4. CASE WriteUser(h, t)
  <2>1. t.req.user \in Users /\ t.req.password \in Passwords
    BY <1>1, <1>4 DEF WriteUser, TaskTyped, SignUps
  <2>2. Set(h, t, UserKey(t.req.user), t.req.password, Idle, Idle)
    BY <1>4 DEF WriteUser
  <2>3. dbs[t.at][UserKey(t.req.user)] = NoVal
    BY <1>1, <1>4 DEF WriteUser, Seen
  <2> QED
    BY <1>3, <2>1, <2>2, <2>3
<1>5. CASE WriteAdmin(h, t)
  <2> DEFINE next == [t EXCEPT !.pc = "addAdmin"]
  <2>1. Set(h, t, UserKey(Admin), AdminPassword, next, Idle)
    BY <1>5 DEF WriteAdmin
  <2>2. dbs[t.at][UserKey(Admin)] = NoVal /\ t.pc = "writeAdmin" /\ next.pc = "addAdmin"
    BY <1>1, <1>5 DEF WriteAdmin, Seen, Tasks
  <2>3. next # t
    BY <2>2
  <2> HIDE DEF next
  <2> QED
    BY <1>2, <1>3, <2>1, <2>2, <2>3
<1>6. CASE MarkAdmin(h, t)
  <2>1. Set(h, t, AdminKey(Admin), TRUE, Idle, Idle)
    BY <1>6 DEF MarkAdmin
  <2>2. HasAccount(Admin)
    BY <1>1, <1>6 DEF MarkAdmin, Seen
  <2>3. AdminKey(Admin) \in Keys /\ TRUE \in ValuesOf(AdminKey(Admin))
    BY <1>2, UserKeys
  <2>4. DirectoryStep \/ Written(AdminKey(Admin), TRUE)
    BY <2>1, <2>3, SetDirectory
  <2>5. ASSUME Written(AdminKey(Admin), TRUE)
        PROVE  DirectoryStep
    <3>1. /\ AdminsNow' = AdminsNow \cup {Admin}
          /\ AppsNow' = AppsNow /\ AccountsNow' = AccountsNow
      BY <1>2, <2>3, <2>5, WrittenDirectory
    <3>2. AccountsNow[Admin] # NoVal
      BY <1>2, <2>2 DEF AccountsNow, HasAccount
    <3>3. Promised!Promote(Admin)
      BY <3>1, <3>2 DEF Promised!Promote, AppsNow, AccountsNow, AdminsNow
    <3> QED
      BY <1>2, <3>3 DEF DirectoryStep, Promised!Next
  <2> QED
    BY <2>4, <2>5
<1> QED
  BY <1>4, <1>5, <1>6

(* As long as no two requests get in each other's way every step does one  *)
(* thing of Directory, or nothing: the token, the password, the roles and  *)
(* the description that it does not name stay, whatever fails or stops.    *)
THEOREM DirectoryStepsHolds == Spec => DirectorySteps
<1>1. ASSUME TypeInv, AccountsInv, [Next]_vars,
             \A g \in Handlers : task'[g] # task[g] => Undisturbed(g)
      PROVE  DirectoryStep
  <2>1. CASE dbs' = dbs
    BY <2>1, SameNewest DEF Newest
  <2>2. ASSUME NEW h \in Handlers, Step(h), dbs' # dbs
        PROVE  DirectoryStep
    <3> DEFINE t == task[h]
    <3>1. task[h] # Idle
      BY <2>2 DEF Step
    <3>2. \/ WriteSpace(h, t) \/ WriteApp(h, t) \/ WriteChange(h, t)
          \/ FirstList(h, t) \/ WriteList(h, t)
          \/ WriteUser(h, t) \/ WriteAdmin(h, t) \/ MarkAdmin(h, t)
      BY <2>2 DEF Step, FindNew, ReadSpace, FindModified, FindUser, FindApp, ReadList,
                  FindName, FindAdmin, AddAdmin, Go, Stop
    <3> QED
      BY <1>1, <3>1, <3>2, NewDirectory, ChangeDirectory, ListDirectory, AccountDirectory
  <2>3. (\E h \in Handlers : Step(h)) \/ dbs' = dbs
    BY <1>1 DEF Next, Request, Boot, Apply, Restart, vars
  <2> QED
    BY <2>1, <2>2, <2>3
<1>2. TypeInv /\ AccountsInv /\ [Next]_vars =>
        ((\A h \in Handlers : task'[h] # task[h] => Undisturbed(h)) => DirectoryStep)
  BY <1>1
<1> QED
  BY <1>2, Invariant, PTL DEF Spec, DirectorySteps, DirectoryStep
=============================================================================
