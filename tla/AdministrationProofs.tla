------------------------ MODULE AdministrationProofs ------------------------
(***************************************************************************)
(* Proofs about Administration, for any number of requests, any forms and  *)
(* any bounds: its type, that requests that overlap never leave the agent  *)
(* stopped, that neither settings page undoes the other, what the agent    *)
(* knows and reads once the requests that set it up are over, when there   *)
(* is one administrator, and when a change of a user is there to stay.     *)
(***************************************************************************)
EXTENDS Administration, TLAPS

-----------------------------------------------------------------------------
\* The type of a request.

Names == {"admin"} \cup {f.name : f \in Registrations}
Passwords == {"admin"} \cup {f.password : f \in Registrations} \cup {f.new : f \in Renewals}
Known == [id : Nat, name : Names, password : Passwords, role : Roles]

BodyAt == {"probe", "seed", "body", "save"}
SetupAt == {"read", "install", "stop", "create", "write", "start", "save", "dispose"}
AddAt == {"stop", "useradd", "start"}

Ops == {"none", "visit", "register", "password", "confirm", "remove", "post", "setup", "addUser"}
Ats == BodyAt \cup SetupAt \cup AddAt \cup {"none"}
Chosen == UNION Confirmations
Things == {"users", "settings", "agent"} \cup {f.name : f \in Renewals} \cup Chosen

Req == [op : Ops, at : Ats,
        form : {"none"} \cup Configs \cup SnmpUsers \cup Registrations \cup Renewals
                 \cup Flags \cup SUBSET Chosen,
        kept : Row \cup Roles \cup SUBSET Known,
        reads : SUBSET Things, writes : SUBSET Things]

\* What each handler has been posted, and holds at its statements.
Fits(q) ==
  /\ q.op = "none" => q.at = "none" /\ q.reads = {} /\ q.writes = {}
  /\ q.op = "setup" => /\ q.at \in SetupAt /\ q.form \in Configs
                       /\ {"settings", "agent"} \subseteq q.writes
                       /\ q.at # "read" => q.kept \in Row
  /\ q.op = "addUser" => q.at \in AddAt /\ q.form \in SnmpUsers /\ "agent" \in q.writes
  /\ q.op \notin {"none", "setup", "addUser"} => q.at \in BodyAt
  /\ q.op = "post" => /\ q.form \in Flags /\ "settings" \in q.writes
                      /\ q.at = "save" => q.kept \in Row
  /\ q.op = "register" => /\ q.form \in Registrations /\ "settings" \in q.reads
                          /\ q.at = "save" => q.kept \in Roles
  /\ q.op = "password" => /\ q.form \in Renewals /\ q.form.name \in q.writes
                          /\ q.at = "save" => q.kept \in SUBSET Known
  /\ q.op = "confirm" => q.form \in SUBSET Chosen /\ q.kept \in SUBSET Known
  /\ q.op = "remove" => (q.at = "save" => q.kept \in SUBSET Known)

Fitting == req \in [Requests -> Req] /\ \A r \in Requests : Fits(req[r])

LEMMA Keepers == {} \in Row \cup Roles \cup SUBSET Known
  OBVIOUS

\* A request that changes keeps fitting if what it changes to fits.
LEMMA Becomes ==
  ASSUME Fitting, NEW r \in Requests, NEW q \in Req, Fits(q), req' = [req EXCEPT ![r] = q]
  PROVE  Fitting'
<1>1. req' \in [Requests -> Req]
  BY DEF Fitting
<1>2. \A o \in Requests : req'[o] = IF o = r THEN q ELSE req[o]
  BY DEF Fitting
<1>3. \A o \in Requests : Fits(req'[o])
  BY <1>2 DEF Fitting
<1> QED BY <1>1, <1>3 DEF Fitting

LEMMA GoesFits ==
  ASSUME Fitting, NEW r \in Requests, NEW at \in Ats, Goes(r, at),
         Fits([req[r] EXCEPT !.at = at])
  PROVE  Fitting'
<1> DEFINE q == [req[r] EXCEPT !.at = at]
<1>1. q \in Req
  BY DEF Fitting, Req
<1>2. req' = [req EXCEPT ![r] = q]
  BY DEF Goes
<1> QED BY <1>1, <1>2, Becomes

LEMMA KeepsFits ==
  ASSUME Fitting, NEW r \in Requests, NEW at \in Ats, NEW kept \in Row \cup Roles \cup SUBSET Known,
         Keeps(r, kept, at), Fits([req[r] EXCEPT !.kept = kept, !.at = at])
  PROVE  Fitting'
<1> DEFINE q == [req[r] EXCEPT !.kept = kept, !.at = at]
<1>1. q \in Req
  BY DEF Fitting, Req
<1>2. req' = [req EXCEPT ![r] = q]
  BY DEF Keeps
<1> QED BY <1>1, <1>2, Becomes

LEMMA IdleFits == Idle \in Req /\ Fits(Idle)
  BY DEF Idle, Request, Req, Fits, Ops, Ats

LEMMA ReturnsFits ==
  ASSUME Fitting, NEW r \in Requests, Returns(r)
  PROVE  Fitting'
  BY IdleFits, Becomes DEF Returns

-----------------------------------------------------------------------------
\* Every step keeps requests fitting.

LEMMA AgentFits ==
  ASSUME Fitting, settings \in Row, AgentNext
  PROVE  Fitting'
<1> USE DEF Is
<1>1. ASSUME NEW r \in Requests, NEW c \in Configs, OpenSetup(r, c)
      PROVE  Fitting'
  <2> DEFINE q == Request("setup", "read", c, {}, {"settings", "agent"})
  <2>1. q \in Req /\ Fits(q)
    BY DEF Request, Req, Fits, Ops, Ats, SetupAt, Things
  <2> QED BY <1>1, <2>1, Becomes DEF OpenSetup, Begin
<1>2. ASSUME NEW r \in Requests, NEW u \in SnmpUsers, OpenAddUser(r, u)
      PROVE  Fitting'
  <2> DEFINE q == Request("addUser", "stop", u, {}, {"agent"})
  <2>1. q \in Req /\ Fits(q)
    BY DEF Request, Req, Fits, Ops, Ats, AddAt, Things
  <2> QED BY <1>2, <2>1, Becomes DEF OpenAddUser, Begin
<1>3. ASSUME NEW r \in Requests, SetupRead(r)
      PROVE  Fitting'
  <2>1. Fits([req[r] EXCEPT !.kept = settings, !.at = "install"])
    BY <1>3 DEF SetupRead, Fitting, Req, Fits, SetupAt
  <2> QED BY <1>3, <2>1, KeepsFits DEF SetupRead, Ats, SetupAt
<1>4. ASSUME NEW r \in Requests, NEW from, NEW to \in SetupAt,
             Is(r, "setup", from), from # "read", Goes(r, to)
      PROVE  Fitting'
  <2>1. Fits([req[r] EXCEPT !.at = to])
    BY <1>4 DEF Fitting, Req, Fits
  <2> QED BY <1>4, <2>1, GoesFits DEF Ats
<1>5. ASSUME NEW r \in Requests, NEW to \in AddAt, req[r].op = "addUser", Goes(r, to)
      PROVE  Fitting'
  <2>1. Fits([req[r] EXCEPT !.at = to])
    BY <1>5 DEF Fitting, Req, Fits
  <2> QED BY <1>5, <2>1, GoesFits DEF Ats
<1>6. ASSUME NEW r \in Requests,
             Install(r) \/ CreateText(r) \/ Write(r) \/ SetupSave(r)
      PROVE  Fitting'
  BY <1>4, <1>6 DEF Install, CreateText, Write, SetupSave, SetupAt
<1>7. ASSUME NEW r \in Requests, Stop(r) \/ Start(r) \/ UserAdd(r)
      PROVE  Fitting'
  BY <1>4, <1>5, <1>7, ReturnsFits DEF Stop, Start, UserAdd, SetupAt, AddAt
<1>8. ASSUME NEW r \in Requests, Dispose(r)
      PROVE  Fitting'
  BY <1>8, ReturnsFits DEF Dispose
<1>9. ASSUME NEW r \in Requests, Fail(r)
      PROVE  Fitting'
  <2>1. req[r].op = "setup" /\ req[r].at \in {"start", "save"} /\ Goes(r, "dispose") => Fitting'
    BY <1>4 DEF SetupAt
  <2> QED BY <1>9, <2>1, ReturnsFits DEF Fail
<1>10. CASE Boot
  BY <1>10 DEF Boot, Fitting
<1> QED BY <1>1, <1>2, <1>3, <1>6, <1>7, <1>8, <1>9, <1>10 DEF AgentNext

LEMMA UsersKnown ==
  ASSUME TypeOK
  PROVE  users \in SUBSET Known
  BY DEF TypeOK, AccountRows, Known, Names, Passwords

LEMMA OpenFits ==
  ASSUME Fitting, NEW r \in Requests, NEW op \in Ops \ {"none", "setup", "addUser"},
         NEW form \in {"none"} \cup Registrations \cup Renewals \cup Flags \cup SUBSET Chosen,
         NEW reads \in SUBSET Things, NEW writes \in SUBSET Things, Open(r, op, form, reads, writes),
         op = "post" => form \in Flags /\ "settings" \in writes,
         op = "register" => form \in Registrations /\ "settings" \in reads,
         op = "password" => form \in Renewals /\ form.name \in writes,
         op = "confirm" => form \in SUBSET Chosen
  PROVE  Fitting'
<1> DEFINE seeds == IF users = {} THEN {"users"} ELSE {}
           q == Request(op, "probe", form, reads \cup {"users"}, writes \cup seeds)
<1>1. q \in Req
  BY DEF Request, Req, Ats, BodyAt, Things
<1>2. Fits(q)
  BY DEF Request, Fits, BodyAt, Ops
<1> QED BY <1>1, <1>2, Becomes DEF Open, Begin

LEMMA OpenAnyFits ==
  ASSUME Fitting, NEW r \in Requests, OpenAny(r)
  PROVE  Fitting'
<1> USE DEF Ops, Things
<1>1. Open(r, "visit", "none", {}, {}) => Fitting'
  BY OpenFits
<1>2. ASSUME NEW f \in Registrations, Open(r, "register", f, {"settings"}, {}) PROVE Fitting'
  BY <1>2, OpenFits
<1>3. ASSUME NEW f \in Renewals, Open(r, "password", f, {}, {f.name}) PROVE Fitting'
  <2>1. {f.name} \in SUBSET Things
    <3>1. f.name \in {g.name : g \in Renewals}
      OBVIOUS
    <3> QED BY <3>1
  <2>2. f.name \in {f.name}
    OBVIOUS
  <2> DEFINE writes == {f.name}
  <2> HIDE DEF writes
  <2>3. writes \in SUBSET Things /\ f.name \in writes /\ Open(r, "password", f, {}, writes)
    BY <1>3, <2>1, <2>2 DEF writes
  <2> QED BY <2>3, OpenFits
<1>4. ASSUME NEW names \in Confirmations, Open(r, "confirm", names, {}, names) PROVE Fitting'
  <2>1. names \in SUBSET Chosen /\ names \in SUBSET Things
    BY DEF Chosen
  <2> QED BY <1>4, <2>1, OpenFits
<1>5. Open(r, "remove", "none", {}, {"users"}) => Fitting'
  BY OpenFits
<1>6. ASSUME NEW f \in Flags, Open(r, "post", f, {}, {"settings"}) PROVE Fitting'
  BY <1>6, OpenFits
<1> QED BY <1>1, <1>2, <1>3, <1>4, <1>5, <1>6 DEF OpenAny

LEMMA AccountsFits ==
  ASSUME Fitting, TypeOK, AccountsNext
  PROVE  Fitting'
<1> USE DEF Is
<1>0. users \in SUBSET Known /\ settings \in Row
  BY UsersKnown DEF TypeOK
<1>1. ASSUME NEW r \in Requests, OpenAny(r) PROVE Fitting'
  BY <1>1, OpenAnyFits
<1>2. ASSUME NEW r \in Requests, NEW to \in {"seed", "body"},
             req[r].at \in {"probe", "seed"}, Goes(r, to)
      PROVE  Fitting'
  <2>1. Fits([req[r] EXCEPT !.at = to])
    BY <1>2 DEF Fitting, Req, Fits, BodyAt, SetupAt, AddAt
  <2> QED BY <1>2, <2>1, GoesFits DEF Ats, BodyAt
<1>3. ASSUME NEW r \in Requests, Probe(r) \/ Seed(r) PROVE Fitting'
  BY <1>2, <1>3 DEF Probe, Seed, BodyAt
<1>4. ASSUME NEW r \in Requests,
             Visit(r) \/ Register(r) \/ SavePassword(r) \/ SaveConfirmed(r) \/ RemoveAll(r) \/ Post(r)
      PROVE  Fitting'
  BY <1>4, ReturnsFits DEF Visit, Register, SavePassword, SaveConfirmed, RemoveAll, Post
<1>5. ASSUME NEW r \in Requests, ReadFlags(r) PROVE Fitting'
  <2> DEFINE role == RoleBy(settings.flags)
  <2>1. role \in Roles
    BY DEF RoleBy, Roles
  <2>2. Fits([req[r] EXCEPT !.kept = role, !.at = "save"])
    BY <1>5, <2>1 DEF ReadFlags, Fitting, Req, Fits, BodyAt
  <2>3. Keeps(r, role, "save") => Fitting'
    BY <2>1, <2>2, KeepsFits DEF Ats, BodyAt
  <2> QED BY <1>5, <2>3, ReturnsFits DEF ReadFlags
<1>6. ASSUME NEW r \in Requests, FindUser(r) PROVE Fitting'
  <2> DEFINE found == {u \in First(req[r].form.name) : u.password = req[r].form.old}
  <2>1. found \in SUBSET Known
    BY <1>0 DEF First, Named
  <2>2. Fits([req[r] EXCEPT !.kept = found, !.at = "save"])
    BY <1>6, <2>1 DEF FindUser, Fitting, Req, Fits, BodyAt
  <2>3. Keeps(r, found, "save") => Fitting'
    BY <2>1, <2>2, KeepsFits DEF Ats, BodyAt
  <2> HIDE DEF found
  <2>4. Keeps(r, found, "save") \/ Returns(r)
    BY <1>6 DEF FindUser, found
  <2> QED BY <2>3, <2>4, ReturnsFits
<1>7. ASSUME NEW r \in Requests, FindNext(r) PROVE Fitting'
  <2>1. ASSUME NEW n \in req[r].form,
               req' = [req EXCEPT ![r].form = @ \ {n}, ![r].kept = @ \cup ToConfirm(n)]
        PROVE  Fitting'
    <3> DEFINE q == [req[r] EXCEPT !.form = @ \ {n}, !.kept = @ \cup ToConfirm(n)]
    <3>1. ToConfirm(n) \in SUBSET Known
      BY <1>0 DEF ToConfirm, First, Named
    <3>2. req[r] \in Req /\ Fits(req[r]) /\ req[r].op = "confirm" /\ req[r].at = "body"
      BY <1>7 DEF FindNext, Fitting
    <3>3. req[r].form \in SUBSET Chosen /\ req[r].kept \in SUBSET Known
      BY <3>2 DEF Fits
    <3>4. q \in Req /\ Fits(q)
      BY <3>1, <3>2, <3>3 DEF Req, Fits, BodyAt
    <3>5. req' = [req EXCEPT ![r] = q]
      BY <2>1, <3>2 DEF Fitting, Req
    <3> QED BY <3>4, <3>5, Becomes
  <2>2. Goes(r, "save") => Fitting'
    <3>1. Fits([req[r] EXCEPT !.at = "save"])
      BY <1>7 DEF FindNext, Fitting, Req, Fits, BodyAt
    <3> QED BY <3>1, GoesFits DEF Ats, BodyAt
  <2> QED BY <1>7, <2>1, <2>2 DEF FindNext
<1>8. ASSUME NEW r \in Requests, FindAll(r) PROVE Fitting'
  <2>1. Fits([req[r] EXCEPT !.kept = users, !.at = "save"])
    BY <1>0, <1>8 DEF FindAll, Fitting, Req, Fits, BodyAt
  <2> QED BY <1>0, <1>8, <2>1, KeepsFits DEF FindAll, Ats, BodyAt
<1>9. ASSUME NEW r \in Requests, ReadSettings(r) PROVE Fitting'
  <2>1. Fits([req[r] EXCEPT !.kept = settings, !.at = "save"])
    BY <1>0, <1>9 DEF ReadSettings, Fitting, Req, Fits, BodyAt
  <2> QED BY <1>0, <1>9, <2>1, KeepsFits DEF ReadSettings, Ats, BodyAt
<1> QED BY <1>1, <1>3, <1>4, <1>5, <1>6, <1>7, <1>8, <1>9 DEF AccountsNext

-----------------------------------------------------------------------------
\* Types.

TypeInv == TypeOK /\ Fitting

LEMMA TypeInit ==
  ASSUME Init
  PROVE  TypeInv
<1> USE SettingsAssumption, AgentAssumption, CrashAssumption
        DEF Init, SettingsInit, AccountsInit, AgentInit
<1>1. Fitting
  BY IdleFits DEF Fitting
<1>2. settings \in Row /\ asked \in Row
  BY DEF Row
<1>3. users \in SUBSET AccountRows /\ owed \in SUBSET AccountRows
  <2>1. CASE users = {}
    BY <2>1
  <2>2. ASSUME NEW f \in Registrations, NEW role \in Roles \ {"Admin"},
               users = {Default(1), Account(2, f.name, f.password, role)}
        PROVE  users \in SUBSET AccountRows
    BY <2>2 DEF AccountRows, Default, Account, Roles
  <2> QED BY <2>1, <2>2
<1>4. file \in File /\ agent \in [state : {"off", "starting", "on"}, read : File, users : SUBSET SnmpUsers]
  BY DEF File, Whole, Text
<1>5. started \in 0..MaxRequests /\ failures \in 0..MaxFailures /\ crashes \in 0..MaxCrashes
  OBVIOUS
<1>6. DOMAIN req = Requests /\ lastId \in Nat /\ pending = {} /\ wanted = {} /\ broken \in BOOLEAN
  OBVIOUS
<1> QED BY <1>1, <1>2, <1>3, <1>4, <1>5, <1>6 DEF TypeInv, TypeOK

LEMMA InsertTyped ==
  ASSUME TypeOK, NEW name \in Names, NEW password \in Passwords, NEW role \in Roles,
         Insert(Account(lastId + 1, name, password, role))
  PROVE  lastId' \in Nat /\ users' \in SUBSET AccountRows' /\ owed' \in SUBSET AccountRows'
<1> DEFINE row == Account(lastId + 1, name, password, role)
<1>1. lastId' = lastId + 1 /\ lastId' \in Nat /\ users' = users \cup {row} /\ owed' = owed \cup {row}
  BY DEF Insert, Account, TypeOK
<1>2. row \in AccountRows'
  BY <1>1 DEF Account, AccountRows, Names, Passwords, TypeOK
<1>3. AccountRows \subseteq AccountRows'
  BY <1>1 DEF AccountRows, TypeOK
<1> QED BY <1>1, <1>2, <1>3 DEF TypeOK

\* What a save puts in the place of rows it has read is typed if it has their ids.
LEMMA ReplaceTyped ==
  ASSUME TypeOK, NEW rows, NEW new \in SUBSET Known, \A n \in new : n.id \in Ids(rows)
  PROVE  Replace(rows, new) \in SUBSET AccountRows
<1>1. ASSUME Ids(rows) \subseteq Ids(users), NEW n \in new
      PROVE  n \in AccountRows
  <2>1. n.id \in 1..lastId
    BY <1>1 DEF Ids, TypeOK, AccountRows
  <2> QED BY <2>1 DEF AccountRows, Known, Names, Passwords
<1> QED BY <1>1 DEF Replace, TypeOK

LEMMA AccountsTyped ==
  ASSUME TypeInv, AccountsNext, UNCHANGED <<agentVars, crashes>>
  PROVE  TypeOK'
<1> USE DEF TypeInv
<1>1. ASSUME UNCHANGED accountVars, settings' \in Row, asked' \in Row, started' \in 0..MaxRequests,
             Fitting'
      PROVE  TypeOK'
  BY <1>1 DEF TypeOK, AccountRows, accountVars, agentVars, File, Fitting
<1>2. ASSUME UNCHANGED <<settings, asked, started>>, lastId' \in Nat,
             users' \in SUBSET AccountRows', owed' \in SUBSET AccountRows', Fitting'
      PROVE  TypeOK'
  BY <1>2 DEF TypeOK, agentVars, File, Fitting
<1>3. Fitting'
  BY AccountsFits
<1>4. ASSUME NEW r \in Requests, OpenAny(r) PROVE TypeOK'
  <2>1. UNCHANGED <<settings, asked, accountVars>> /\ started < MaxRequests /\ started' = started + 1
    BY <1>4 DEF OpenAny, Open, Begin
  <2> QED BY <1>1, <1>3, <2>1, SettingsAssumption DEF TypeOK
<1>5. ASSUME NEW r \in Requests,
             Probe(r) \/ Visit(r) \/ ReadFlags(r) \/ FindUser(r) \/ FindNext(r) \/ FindAll(r) \/ ReadSettings(r)
      PROVE  TypeOK'
  <2>1. UNCHANGED <<settings, asked, started, accountVars>>
    BY <1>5 DEF Probe, Visit, ReadFlags, FindUser, FindNext, FindAll, ReadSettings
  <2> QED BY <1>1, <1>3, <2>1 DEF TypeOK
<1>6. ASSUME NEW r \in Requests, Seed(r) PROVE TypeOK'
  BY <1>2, <1>3, <1>6, InsertTyped DEF Seed, Default, Names, Passwords, Roles
<1>7. ASSUME NEW r \in Requests, Register(r) PROVE TypeOK'
  <2>1. req[r].form.name \in Names /\ req[r].form.password \in Passwords /\ req[r].kept \in Roles
    BY <1>7 DEF Register, Is, Fitting, Fits, Names, Passwords
  <2> QED BY <1>2, <1>3, <1>7, <2>1, InsertTyped DEF Register
<1>8. ASSUME NEW r \in Requests, SavePassword(r) PROVE TypeOK'
  <2> DEFINE Told(u) == [u EXCEPT !.password = req[r].form.new]
  <2>1. req[r].kept \in SUBSET Known /\ req[r].form \in Renewals
    BY <1>8 DEF SavePassword, Is, Fitting, Fits
  <2>2. \A u \in Known : Told(u) \in Known /\ Told(u).id = u.id
    BY <2>1 DEF Known, Passwords
  <2>3. \A u \in AccountRows : Told(u) \in AccountRows
    BY <2>1 DEF AccountRows, Passwords, Roles
  <2> DEFINE new == {Told(u) : u \in req[r].kept}
  <2>4. new \in SUBSET Known /\ \A n \in new : n.id \in Ids(req[r].kept)
    BY <2>1, <2>2 DEF Ids
  <2> HIDE DEF new
  <2>5. Replace(req[r].kept, new) \in SUBSET AccountRows
    BY <2>4, ReplaceTyped
  <2>6. Owes(req[r].kept, Told) \in SUBSET AccountRows
    BY <2>3 DEF Owes, TypeOK
  <2>7. AccountRows' = AccountRows
    BY <1>8 DEF SavePassword, AccountRows
  <2> QED BY <1>2, <1>3, <1>8, <2>5, <2>6, <2>7 DEF SavePassword, TypeOK, new
<1>9. ASSUME NEW r \in Requests, SaveConfirmed(r) PROVE TypeOK'
  <2> DEFINE Told(u) == [u EXCEPT !.role = "User"]
  <2>1. req[r].kept \in SUBSET Known
    BY <1>9 DEF SaveConfirmed, Is, Fitting, Fits
  <2>2. \A u \in Known : Told(u) \in Known /\ Told(u).id = u.id
    BY <2>1 DEF Known, Roles
  <2>3. \A u \in AccountRows : Told(u) \in AccountRows
    BY <2>1 DEF AccountRows, Passwords, Roles
  <2> DEFINE new == {Told(u) : u \in req[r].kept}
  <2>4. new \in SUBSET Known /\ \A n \in new : n.id \in Ids(req[r].kept)
    BY <2>1, <2>2 DEF Ids
  <2> HIDE DEF new
  <2>5. Replace(req[r].kept, new) \in SUBSET AccountRows
    BY <2>4, ReplaceTyped
  <2>6. Owes(req[r].kept, Told) \in SUBSET AccountRows
    BY <2>3 DEF Owes, TypeOK
  <2>7. AccountRows' = AccountRows
    BY <1>9 DEF SaveConfirmed, AccountRows
  <2> QED BY <1>2, <1>3, <1>9, <2>5, <2>6, <2>7 DEF SaveConfirmed, TypeOK, new
<1>10. ASSUME NEW r \in Requests, RemoveAll(r) PROVE TypeOK'
  <2>1. users' \in SUBSET AccountRows /\ owed' \in SUBSET AccountRows /\ AccountRows' = AccountRows
    BY <1>10 DEF RemoveAll, Replace, TypeOK, AccountRows
  <2> QED BY <1>2, <1>3, <1>10, <2>1 DEF RemoveAll, TypeOK
<1>11. ASSUME NEW r \in Requests, Post(r) PROVE TypeOK'
  <2>1. settings \in Row /\ req[r].form \in Flags
    BY <1>11 DEF Post, Is, Fitting, Fits, TypeOK
  <2>2. settings' \in Row /\ asked' \in Row
    BY <1>11, <2>1 DEF Post, SaveFlags, Row, TypeOK
  <2> QED BY <1>1, <1>3, <1>11, <2>2 DEF Post, TypeOK
<1> QED BY <1>4, <1>5, <1>6, <1>7, <1>8, <1>9, <1>10, <1>11 DEF AccountsNext

\* What the two handlers of the agent assign.
AgentTypes == /\ settings \in Row /\ asked \in Row /\ started \in 0..MaxRequests
              /\ file \in File
              /\ agent \in [state : {"off", "starting", "on"}, read : File, users : SUBSET SnmpUsers]
              /\ pending \in SUBSET SnmpUsers /\ failures \in 0..MaxFailures
              /\ wanted \in SUBSET SnmpUsers /\ broken \in BOOLEAN

LEMMA AgentTyped ==
  ASSUME TypeInv, AgentNext, UNCHANGED <<accountVars, crashes>>
  PROVE  TypeOK'
<1> USE DEF TypeInv
<1>1. Fitting'
  BY AgentFits DEF TypeOK
<1>2. AccountRows' = AccountRows /\ UNCHANGED <<users, owed, lastId, crashes>>
  BY DEF accountVars, AccountRows
<1>3. AgentTypes
  BY DEF AgentTypes, TypeOK
<1>4. ASSUME NEW r \in Requests, NEW c \in Configs, OpenSetup(r, c) PROVE AgentTypes'
  BY <1>4, <1>3, SettingsAssumption DEF OpenSetup, Begin, AgentTypes, agentVars
<1>5. ASSUME NEW r \in Requests, NEW u \in SnmpUsers, OpenAddUser(r, u) PROVE AgentTypes'
  BY <1>5, <1>3, SettingsAssumption DEF OpenAddUser, Begin, AgentTypes
<1>6. ASSUME NEW r \in Requests, SetupRead(r) \/ Install(r) PROVE AgentTypes'
  BY <1>6, <1>3 DEF SetupRead, Install, AgentTypes, agentVars
<1>7. ASSUME NEW r \in Requests, Stop(r) PROVE AgentTypes'
  BY <1>7, <1>3 DEF Stop, AgentTypes
<1>8. ASSUME NEW r \in Requests, CreateText(r) PROVE AgentTypes'
  BY <1>8, <1>3 DEF CreateText, AgentTypes, Whole, File, Text
<1>9. ASSUME NEW r \in Requests, Write(r) \/ Dispose(r) PROVE AgentTypes'
  <2>1. req[r].form \in Text
    BY <1>9, <1>3 DEF Write, Dispose, Is, Fitting, Fits, Text
  <2> QED BY <1>9, <1>3, <2>1 DEF Write, Dispose, AgentTypes, File
<1>10. ASSUME NEW r \in Requests, UserAdd(r) PROVE AgentTypes'
  <2>1. req[r].form \in SnmpUsers
    BY <1>10, <1>3 DEF UserAdd, Is, Fitting, Fits
  <2> QED BY <1>10, <1>3, <2>1 DEF UserAdd, AgentTypes
<1>11. ASSUME NEW r \in Requests, Start(r) PROVE AgentTypes'
  BY <1>11, <1>3 DEF Start, AgentTypes
<1>12. ASSUME NEW r \in Requests, SetupSave(r) PROVE AgentTypes'
  <2>1. req[r].kept \in Row /\ req[r].form \in Configs
    BY <1>12, <1>3 DEF SetupSave, Is, Fitting, Fits
  <2> QED BY <1>12, <1>3, <2>1 DEF SetupSave, SaveConfig, AgentTypes, Row, agentVars
<1>13. ASSUME NEW r \in Requests, Fail(r) PROVE AgentTypes'
  <2>1. failures' \in 0..MaxFailures /\ broken' \in BOOLEAN
    BY <1>13, <1>3, AgentAssumption DEF Fail, AgentTypes, Holds
  <2> QED BY <1>13, <1>3, <2>1 DEF Fail, AgentTypes
<1>14. ASSUME Boot PROVE AgentTypes'
  BY <1>14, <1>3 DEF Boot, AgentTypes
<1>15. AgentTypes'
  BY <1>4, <1>5, <1>6, <1>7, <1>8, <1>9, <1>10, <1>11, <1>12, <1>13, <1>14 DEF AgentNext
<1> QED BY <1>1, <1>2, <1>15 DEF AgentTypes, TypeOK, Fitting

LEMMA TypeStep ==
  ASSUME TypeInv, [Next]_vars
  PROVE  TypeInv'
<1>1. CASE AccountsNext /\ UNCHANGED <<agentVars, crashes>>
  BY <1>1, AccountsTyped, AccountsFits DEF TypeInv
<1>2. CASE AgentNext /\ UNCHANGED <<accountVars, crashes>>
  BY <1>2, AgentTyped, AgentFits DEF TypeInv, TypeOK
<1>3. CASE Crash
  <2>1. Fitting'
    BY <1>3, IdleFits DEF Crash, Fitting
  <2>2. crashes' \in 0..MaxCrashes /\ broken' \in BOOLEAN
    BY <1>3, CrashAssumption DEF Crash, TypeInv, TypeOK, Holds
  <2> QED BY <1>3, <2>1, <2>2 DEF Crash, TypeInv, TypeOK, AccountRows, accountVars, Fitting
<1>4. CASE UNCHANGED vars
  BY <1>4 DEF vars, tableVars, accountVars, agentVars, TypeInv, TypeOK, Fitting, AccountRows, File
<1> QED BY <1>1, <1>2, <1>3, <1>4 DEF Next

\* The variables of the administration have their types, whatever requests overlap and
\* fail: no handler saves what another handler, or none, has read.
THEOREM TypeCorrect == Spec => []TypeOK
<1>1. Init => TypeInv
  BY TypeInit
<1>2. TypeInv /\ [Next]_vars => TypeInv'
  BY TypeStep
<1>3. TypeInv => TypeOK
  BY DEF TypeInv
<1> QED BY <1>1, <1>2, <1>3, PTL DEF Spec

LEMMA TypeAlways == Spec => []TypeInv
<1>1. Init => TypeInv
  BY TypeInit
<1>2. TypeInv /\ [Next]_vars => TypeInv'
  BY TypeStep
<1> QED BY <1>1, <1>2, PTL DEF Spec

-----------------------------------------------------------------------------
\* The agent comes back.

\* A step of a request that holds nothing, to where it holds nothing, leaves the others.
LEMMA HoldsOthers ==
  ASSUME Fitting, NEW r \in Requests, NEW q, req' = [req EXCEPT ![r] = q], ~ Holds(r)
  PROVE  (\E o \in Requests : Holds(o)) => (\E o \in Requests : Holds(o)')
<1>1. \A o \in Requests : o # r => req'[o] = req[o]
  BY DEF Fitting
<1> QED BY <1>1 DEF Holds

\* The requests of the accounts' pages never hold the agent.
LEMMA AccountsHoldNothing ==
  ASSUME TypeInv, AccountsNext
  PROVE  (\E o \in Requests : Holds(o)) => (\E o \in Requests : Holds(o)')
<1> USE DEF TypeInv
<1>1. ASSUME NEW r \in Requests, NEW q, req' = [req EXCEPT ![r] = q],
             req[r].op \notin {"setup", "addUser"}
      PROVE  (\E o \in Requests : Holds(o)) => (\E o \in Requests : Holds(o)')
  BY <1>1, HoldsOthers DEF Holds
<1>2. PICK r \in Requests :
        \/ OpenAny(r) \/ Probe(r) \/ Seed(r) \/ Visit(r) \/ ReadFlags(r) \/ Register(r)
        \/ FindUser(r) \/ SavePassword(r) \/ FindNext(r) \/ SaveConfirmed(r)
        \/ FindAll(r) \/ RemoveAll(r) \/ ReadSettings(r) \/ Post(r)
  BY DEF AccountsNext
<1>3. CASE OpenAny(r)
  <2>1. req[r].op = "none" /\ \E q : req' = [req EXCEPT ![r] = q]
    BY <1>3 DEF OpenAny, Open, Begin
  <2> QED BY <1>1, <2>1
<1>4. CASE Probe(r) \/ Seed(r)
  <2>1. req[r].op \notin {"setup", "addUser"}
    BY <1>4 DEF Probe, Seed, Fitting, Fits, SetupAt, AddAt
  <2>2. \E q : req' = [req EXCEPT ![r] = q]
    BY <1>4 DEF Probe, Seed, Goes
  <2> QED BY <1>1, <2>1, <2>2
<1>5. CASE \/ Visit(r) \/ ReadFlags(r) \/ Register(r) \/ FindUser(r) \/ SavePassword(r) \/ SaveConfirmed(r)
           \/ FindAll(r) \/ RemoveAll(r) \/ ReadSettings(r) \/ Post(r)
  <2>1. req[r].op \notin {"setup", "addUser"}
    BY <1>5 DEF Visit, ReadFlags, Register, FindUser, SavePassword, SaveConfirmed, FindAll, RemoveAll,
                ReadSettings, Post, Is
  <2>2. \E q : req' = [req EXCEPT ![r] = q]
    BY <1>5 DEF Visit, ReadFlags, Register, FindUser, SavePassword, SaveConfirmed, FindAll, RemoveAll,
                ReadSettings, Post, Keeps, Returns
  <2> QED BY <1>1, <2>1, <2>2
<1>6. CASE FindNext(r)
  <2>1. req[r].op \notin {"setup", "addUser"} /\ \E q : req' = [req EXCEPT ![r] = q]
    BY <1>6 DEF FindNext, Is, Goes
  <2> QED BY <1>1, <2>1
<1> QED BY <1>2, <1>3, <1>4, <1>5, <1>6

LEMMA ComesBackStep ==
  ASSUME TypeInv, AgentComesBack, [Next]_vars
  PROVE  AgentComesBack'
<1> USE DEF TypeInv
<1>1. CASE AccountsNext /\ UNCHANGED <<agentVars, crashes>>
  BY <1>1, AccountsHoldNothing DEF AgentComesBack, agentVars
<1>2. ASSUME AgentNext PROVE AgentComesBack'
  <2>1. ASSUME NEW r \in Requests, NEW q, req' = [req EXCEPT ![r] = q], ~ Holds(r),
               UNCHANGED <<agent, broken>>
        PROVE  AgentComesBack'
    BY <2>1, HoldsOthers DEF AgentComesBack
  <2>2. ASSUME NEW r \in Requests,
               \/ \E c \in Configs : OpenSetup(r, c)
               \/ \E u \in SnmpUsers : OpenAddUser(r, u)
        PROVE  AgentComesBack'
    <3>1. req[r].op = "none" /\ (\E q : req' = [req EXCEPT ![r] = q]) /\ UNCHANGED <<agent, broken>>
      BY <2>2 DEF OpenSetup, OpenAddUser, Begin, agentVars
    <3> QED BY <2>1, <3>1 DEF Holds
  <2>3. ASSUME NEW r \in Requests, SetupRead(r) \/ Install(r) \/ SetupSave(r) \/ Dispose(r)
        PROVE  AgentComesBack'
    <3>1. req[r].op = "setup" /\ req[r].at \notin {"create", "write", "start"}
      BY <2>3 DEF SetupRead, Install, SetupSave, Dispose, Is
    <3>2. (\E q : req' = [req EXCEPT ![r] = q]) /\ UNCHANGED <<agent, broken>>
      BY <2>3 DEF SetupRead, Install, SetupSave, Dispose, Keeps, Goes, Returns, agentVars
    <3> QED BY <2>1, <3>1, <3>2 DEF Holds
  <2>4. ASSUME NEW r \in Requests, Stop(r) \/ CreateText(r) \/ Write(r) PROVE AgentComesBack'
    <3>1. Holds(r)'
      BY <2>4 DEF Stop, CreateText, Write, Is, Goes, Holds, Fitting, Req
    <3> QED BY <3>1 DEF AgentComesBack
  <2>5. ASSUME NEW r \in Requests, UserAdd(r) PROVE AgentComesBack'
    <3>1. CASE agent.state = "off"
      <4>1. Holds(r)'
        BY <2>5, <3>1 DEF UserAdd, Is, Goes, Holds, Fitting, Req
      <4> QED BY <4>1 DEF AgentComesBack
    <3>2. CASE agent.state # "off"
      BY <2>5, <3>2 DEF UserAdd, AgentComesBack
    <3> QED BY <3>1, <3>2
  <2>6. ASSUME NEW r \in Requests, Start(r) PROVE AgentComesBack'
    BY <2>6 DEF Start, AgentComesBack, TypeOK
  <2>7. ASSUME NEW r \in Requests, Fail(r) PROVE AgentComesBack'
    <3>1. CASE Holds(r)
      BY <2>7, <3>1 DEF Fail, AgentComesBack
    <3>2. CASE ~ Holds(r)
      <4>1. \E q : req' = [req EXCEPT ![r] = q]
        BY <2>7 DEF Fail, Goes, Returns
      <4>2. agent' = agent /\ broken' = (broken \/ Holds(r))
        BY <2>7 DEF Fail
      <4>3. (\E o \in Requests : Holds(o)) => (\E o \in Requests : Holds(o)')
        BY <3>2, <4>1, HoldsOthers
      <4>4. broken => broken'
        BY <4>2
      <4> QED BY <4>2, <4>3, <4>4 DEF AgentComesBack
    <3> QED BY <3>1, <3>2
  <2>8. ASSUME Boot PROVE AgentComesBack'
    BY <2>8 DEF Boot, AgentComesBack
  <2> QED BY <1>2, <2>2, <2>3, <2>4, <2>5, <2>6, <2>7, <2>8 DEF AgentNext
<1>3. CASE Crash
  <2>1. agent' = agent /\ broken' = (broken \/ \E r \in Requests : Holds(r))
    BY <1>3 DEF Crash
  <2>2. CASE \E r \in Requests : Holds(r)
    BY <2>1, <2>2 DEF AgentComesBack
  <2>3. CASE ~ \E r \in Requests : Holds(r)
    BY <2>1, <2>3 DEF AgentComesBack
  <2> QED BY <2>2, <2>3
<1>4. CASE UNCHANGED vars
  BY <1>4 DEF vars, tableVars, agentVars, AgentComesBack, Holds
<1> QED BY <1>1, <1>2, <1>3, <1>4 DEF Next

\* Whatever requests overlap, the agent is off only while one that stopped it has still to
\* start it, or after one failed or died on the way (SNMPServices.Handle).
THEOREM AgentReturns == Spec => []AgentComesBack
<1>1. Init => AgentComesBack
  BY DEF Init, AgentInit, AgentComesBack
<1>2. TypeInv /\ AgentComesBack /\ [Next]_vars => AgentComesBack'
  BY ComesBackStep
<1> QED BY <1>1, <1>2, TypeAlways, PTL DEF Spec

-----------------------------------------------------------------------------
\* What two requests never work on at once, one of them to change it.

Exclusive(t) == t \notin clash => \A a, b \in Requests : a # b => t \notin Conflicts(req[a], req[b])

\* A request begins, or goes on with what it reads and changes, or is over; or all are.
Moves ==
  \/ \E r \in Requests, q \in Req : Begin(r, q)
  \/ \E r \in Requests, q \in Req :
       /\ req' = [req EXCEPT ![r] = q]
       /\ q = Idle \/ (q.reads = req[r].reads /\ q.writes = req[r].writes)
       /\ clash' = clash
  \/ req' = [r \in Requests |-> Idle] /\ clash' = clash
  \/ UNCHANGED <<req, clash>>

LEMMA MovesExclusive ==
  ASSUME Fitting, Moves, NEW t, Exclusive(t)
  PROVE  Exclusive(t)'
<1>1. ASSUME NEW r \in Requests, NEW q \in Req, Begin(r, q)
      PROVE  Exclusive(t)'
  <2>1. /\ clash \subseteq clash' /\ req' = [req EXCEPT ![r] = q]
        /\ \A o \in Requests : Conflicts(req[o], q) \subseteq clash'
    BY <1>1 DEF Begin
  <2>2. \A o \in Requests : req'[o] = IF o = r THEN q ELSE req[o]
    BY <2>1 DEF Fitting
  <2>3. \A o \in Requests : Conflicts(q, req[o]) = Conflicts(req[o], q)
    BY DEF Conflicts
  <2> QED BY <2>1, <2>2, <2>3 DEF Exclusive
<1>2. ASSUME NEW r \in Requests, NEW q \in Req, req' = [req EXCEPT ![r] = q], clash' = clash,
             q = Idle \/ (q.reads = req[r].reads /\ q.writes = req[r].writes)
      PROVE  Exclusive(t)'
  <2>1. \A o \in Requests : req'[o] = IF o = r THEN q ELSE req[o]
    BY <1>2 DEF Fitting
  <2>2. \A o \in Requests : t \in Conflicts(q, req[o]) => t \in Conflicts(req[r], req[o])
    BY <1>2 DEF Conflicts, Idle, Request
  <2>3. \A o \in Requests : t \in Conflicts(req[o], q) => t \in Conflicts(req[o], req[r])
    BY <1>2 DEF Conflicts, Idle, Request
  <2> QED BY <1>2, <2>1, <2>2, <2>3 DEF Exclusive
<1>3. ASSUME req' = [r \in Requests |-> Idle] PROVE Exclusive(t)'
  BY <1>3 DEF Exclusive, Conflicts, Idle, Request
<1>4. ASSUME UNCHANGED <<req, clash>> PROVE Exclusive(t)'
  BY <1>4 DEF Exclusive
<1> QED BY <1>1, <1>2, <1>3, <1>4 DEF Moves

\* How a request's own step moves it.
LEMMA OwnMoves ==
  ASSUME Fitting, Fitting', NEW r \in Requests, clash' = clash,
         \/ \E at : Goes(r, at)
         \/ \E kept, at : Keeps(r, kept, at)
         \/ Returns(r)
  PROVE  Moves
<1>1. req'[r] \in Req
  BY DEF Fitting
<1>2. req \in [Requests -> Req] /\ req[r] \in Req
  BY DEF Fitting
<1>3. ASSUME NEW at, Goes(r, at) PROVE Moves
  <2> DEFINE q == [req[r] EXCEPT !.at = at]
  <2>1. req' = [req EXCEPT ![r] = q]
    BY <1>3 DEF Goes
  <2>2. q = req'[r]
    BY <1>2, <2>1
  <2>3. q \in Req /\ q.reads = req[r].reads /\ q.writes = req[r].writes
    BY <1>1, <1>2, <2>2 DEF Req
  <2> QED BY <2>1, <2>3 DEF Moves
<1>4. ASSUME NEW kept, NEW at, Keeps(r, kept, at) PROVE Moves
  <2> DEFINE q == [req[r] EXCEPT !.kept = kept, !.at = at]
  <2>1. req' = [req EXCEPT ![r] = q]
    BY <1>4 DEF Keeps
  <2>2. q = req'[r]
    BY <1>2, <2>1
  <2>3. q \in Req /\ q.reads = req[r].reads /\ q.writes = req[r].writes
    BY <1>1, <1>2, <2>2 DEF Req
  <2> QED BY <2>1, <2>3 DEF Moves
<1>5. ASSUME Returns(r) PROVE Moves
  <2>1. Idle \in Req /\ req' = [req EXCEPT ![r] = Idle]
    BY <1>5, IdleFits DEF Returns
  <2>2. \E q \in Req : /\ req' = [req EXCEPT ![r] = q]
                       /\ q = Idle \/ (q.reads = req[r].reads /\ q.writes = req[r].writes)
    BY <2>1
  <2> QED BY <2>2 DEF Moves
<1> QED BY <1>3, <1>4, <1>5

LEMMA BeginMoves ==
  ASSUME Fitting, Fitting', NEW r \in Requests, NEW q, Begin(r, q)
  PROVE  Moves
<1>1. q = req'[r]
  BY DEF Begin, Fitting
<1>2. q \in Req
  BY <1>1 DEF Fitting
<1> QED BY <1>2 DEF Moves

LEMMA NextMoves ==
  ASSUME TypeInv, [Next]_vars
  PROVE  Moves
<1>1. Fitting /\ Fitting'
  BY TypeStep DEF TypeInv
<1>2. ASSUME AccountsNext PROVE Moves
  <2>1. ASSUME NEW r \in Requests, OpenAny(r) PROVE Moves
    <3>1. \E q : Begin(r, q)
      BY <2>1 DEF OpenAny, Open
    <3> QED BY <1>1, <3>1, BeginMoves
  <2>2. ASSUME NEW r \in Requests, Probe(r) \/ Seed(r) PROVE Moves
    BY <1>1, <2>2, OwnMoves DEF Probe, Seed
  <2>3. ASSUME NEW r \in Requests,
               \/ Visit(r) \/ Register(r) \/ SavePassword(r) \/ SaveConfirmed(r) \/ RemoveAll(r) \/ Post(r)
        PROVE  Moves
    BY <1>1, <2>3, OwnMoves DEF Visit, Register, SavePassword, SaveConfirmed, RemoveAll, Post
  <2>4. ASSUME NEW r \in Requests, ReadFlags(r) \/ FindUser(r) \/ FindAll(r) \/ ReadSettings(r)
        PROVE  Moves
    <3>1. clash' = clash /\ ((\E kept, at : Keeps(r, kept, at)) \/ Returns(r))
      BY <2>4 DEF ReadFlags, FindUser, FindAll, ReadSettings
    <3> QED BY <1>1, <3>1, OwnMoves
  <2>5. ASSUME NEW r \in Requests, FindNext(r) PROVE Moves
    <3>1. ASSUME NEW n \in req[r].form,
                 req' = [req EXCEPT ![r].form = @ \ {n}, ![r].kept = @ \cup ToConfirm(n)]
          PROVE  Moves
      <4> DEFINE q == [req[r] EXCEPT !.form = @ \ {n}, !.kept = @ \cup ToConfirm(n)]
      <4>1. req \in [Requests -> Req] /\ req[r] \in Req /\ req'[r] \in Req
        BY <1>1 DEF Fitting
      <4>2. req' = [req EXCEPT ![r] = q]
        BY <3>1, <4>1 DEF Req
      <4>3. q = req'[r]
        BY <4>1, <4>2
      <4>4. q \in Req /\ q.reads = req[r].reads /\ q.writes = req[r].writes
        BY <4>1, <4>3 DEF Req
      <4>5. clash' = clash
        BY <2>5 DEF FindNext
      <4> QED BY <4>2, <4>4, <4>5 DEF Moves
    <3>2. CASE Goes(r, "save")
      BY <1>1, <2>5, <3>2, OwnMoves DEF FindNext
    <3> QED BY <2>5, <3>1, <3>2 DEF FindNext
  <2> QED BY <1>2, <2>1, <2>2, <2>3, <2>4, <2>5 DEF AccountsNext
<1>3. ASSUME AgentNext PROVE Moves
  <2>1. ASSUME NEW r \in Requests,
               \/ \E c \in Configs : OpenSetup(r, c)
               \/ \E u \in SnmpUsers : OpenAddUser(r, u)
        PROVE  Moves
    <3>1. \E q : Begin(r, q)
      BY <2>1 DEF OpenSetup, OpenAddUser
    <3> QED BY <1>1, <3>1, BeginMoves
  <2>2. ASSUME NEW r \in Requests,
               \/ SetupRead(r) \/ Install(r) \/ Stop(r) \/ CreateText(r) \/ Write(r) \/ UserAdd(r)
               \/ Start(r) \/ SetupSave(r) \/ Dispose(r) \/ Fail(r)
        PROVE  Moves
    <3>1. /\ clash' = clash
          /\ (\E at : Goes(r, at)) \/ (\E kept, at : Keeps(r, kept, at)) \/ Returns(r)
      BY <2>2 DEF SetupRead, Install, Stop, CreateText, Write, UserAdd, Start, SetupSave, Dispose, Fail
    <3> QED BY <1>1, <3>1, OwnMoves
  <2>3. ASSUME Boot PROVE Moves
    BY <2>3 DEF Boot, Moves
  <2> QED BY <1>3, <2>1, <2>2, <2>3 DEF AgentNext
<1>4. CASE Crash
  BY <1>4 DEF Crash, Moves
<1>5. CASE UNCHANGED vars
  BY <1>5 DEF vars, tableVars, Moves
<1> QED BY <1>2, <1>3, <1>4, <1>5 DEF Next

AllExclusive == \A t : Exclusive(t)

LEMMA AlwaysExclusive == Spec => []AllExclusive
<1>1. Init => AllExclusive
  BY DEF Init, SettingsInit, AllExclusive, Exclusive, Conflicts, Idle, Request
<1>2. TypeInv /\ AllExclusive /\ [Next]_vars => AllExclusive'
  BY NextMoves, MovesExclusive DEF TypeInv, AllExclusive
<1> QED BY <1>1, <1>2, TypeAlways, PTL DEF Spec

-----------------------------------------------------------------------------
\* The settings.

\* What a request has read of the row is what the row holds.
Current(q, row) ==
  /\ q.op = "setup" /\ q.at \notin {"read", "dispose"} => q.kept = row
  /\ q.op = "post" /\ q.at = "save" => q.kept = row
  /\ q.op = "register" /\ q.at = "save" => row.flags.AllowRegistration /\ q.kept = RoleBy(row.flags)

\* The strengthening of SettingsKept: the copies are current as long as nobody clashed.
SettingsInv == "settings" \notin clash => /\ settings = asked
                                          /\ \A r \in Requests : Current(req[r], settings)

LEMMA SettingsRead ==
  ASSUME Fitting, SettingsInv, UNCHANGED <<settings, asked>>, clash \subseteq clash',
         NEW r \in Requests, NEW q, req' = [req EXCEPT ![r] = q],
         "settings" \notin clash => Current(q, settings)
  PROVE  SettingsInv'
<1>1. \A o \in Requests : req'[o] = IF o = r THEN q ELSE req[o]
  BY DEF Fitting
<1> QED BY <1>1 DEF SettingsInv

\* Who saves settings is alone with them.
LEMMA SettingsSaved ==
  ASSUME Fitting, Exclusive("settings"), clash' = clash, NEW r \in Requests,
         "settings" \in req[r].writes, NEW q, req' = [req EXCEPT ![r] = q],
         \A row : Current(q, row), "settings" \notin clash => settings' = asked'
  PROVE  SettingsInv'
<1>1. \A o \in Requests : req'[o] = IF o = r THEN q ELSE req[o]
  BY DEF Fitting
<1>2. ASSUME "settings" \notin clash, NEW o \in Requests, o # r
      PROVE  Current(req[o], settings')
  <2>1. "settings" \notin req[o].reads \cup req[o].writes
    BY <1>2 DEF Exclusive, Conflicts
  <2>2. req[o].op \notin {"setup", "post", "register"}
    BY <2>1 DEF Fitting, Fits
  <2> QED BY <2>2 DEF Current
<1> QED BY <1>1, <1>2 DEF SettingsInv

LEMMA IdleCurrent == \A row : Current(Idle, row)
  BY DEF Current, Idle, Request

LEMMA AccountsSettings ==
  ASSUME TypeInv, SettingsInv, Exclusive("settings"), AccountsNext
  PROVE  SettingsInv'
<1> USE DEF TypeInv, Is
<1>1. ASSUME NEW r \in Requests, OpenAny(r) PROVE SettingsInv'
  <2>1. /\ UNCHANGED <<settings, asked>> /\ clash \subseteq clash'
        /\ \E q : req' = [req EXCEPT ![r] = q] /\ q.at = "probe" /\ q.op # "setup"
    BY <1>1 DEF OpenAny, Open, Begin, Request
  <2> QED BY <2>1, SettingsRead DEF Current
<1>2. ASSUME NEW r \in Requests, Probe(r) \/ Seed(r) PROVE SettingsInv'
  <2>1. /\ UNCHANGED <<settings, asked, clash>>
        /\ \E at \in {"seed", "body"} : req' = [req EXCEPT ![r].at = at]
        /\ req[r].op # "setup"
    BY <1>2 DEF Probe, Seed, Goes, Fitting, Fits, SetupAt
  <2>2. PICK at \in {"seed", "body"} : req' = [req EXCEPT ![r].at = at]
    BY <2>1
  <2>3. \A row : Current([req[r] EXCEPT !.at = at], row)
    BY <2>1 DEF Current, Fitting, Req
  <2> QED BY <2>1, <2>2, <2>3, SettingsRead
<1>3. ASSUME NEW r \in Requests, Visit(r) \/ Register(r) \/ SavePassword(r) \/ SaveConfirmed(r) \/ RemoveAll(r)
      PROVE  SettingsInv'
  <2>1. UNCHANGED <<settings, asked, clash>> /\ req' = [req EXCEPT ![r] = Idle]
    BY <1>3 DEF Visit, Register, SavePassword, SaveConfirmed, RemoveAll, Returns
  <2> QED BY <2>1, SettingsRead, IdleCurrent
<1>4. ASSUME NEW r \in Requests, ReadFlags(r) PROVE SettingsInv'
  <2>1. UNCHANGED <<settings, asked, clash>> /\ req[r].op = "register"
    BY <1>4 DEF ReadFlags
  <2>2. CASE settings.flags.AllowRegistration
    <3> DEFINE q == [req[r] EXCEPT !.kept = RoleBy(settings.flags), !.at = "save"]
    <3>1. req' = [req EXCEPT ![r] = q]
      BY <1>4, <2>2 DEF ReadFlags, Keeps
    <3>2. Current(q, settings)
      BY <2>1, <2>2 DEF Current, Fitting, Req
    <3> QED BY <2>1, <3>1, <3>2, SettingsRead
  <2>3. CASE ~ settings.flags.AllowRegistration
    <3>1. req' = [req EXCEPT ![r] = Idle]
      BY <1>4, <2>3 DEF ReadFlags, Returns
    <3> QED BY <2>1, <3>1, SettingsRead, IdleCurrent
  <2> QED BY <2>2, <2>3
<1>5. ASSUME NEW r \in Requests, FindUser(r) \/ FindAll(r) PROVE SettingsInv'
  <2>1. /\ UNCHANGED <<settings, asked, clash>>
        /\ \/ req' = [req EXCEPT ![r] = Idle]
           \/ \E kept : req' = [req EXCEPT ![r].kept = kept, ![r].at = "save"]
        /\ req[r].op \in {"password", "remove"}
    BY <1>5 DEF FindUser, FindAll, Keeps, Returns
  <2>2. ASSUME NEW kept, req' = [req EXCEPT ![r].kept = kept, ![r].at = "save"] PROVE SettingsInv'
    <3> DEFINE q == [req[r] EXCEPT !.kept = kept, !.at = "save"]
    <3>1. Current(q, settings)
      BY <2>1 DEF Current, Fitting, Req
    <3>2. req' = [req EXCEPT ![r] = q]
      BY <2>2
    <3> QED BY <2>1, <3>1, <3>2, SettingsRead
  <2> QED BY <2>1, <2>2, SettingsRead, IdleCurrent
<1>6. ASSUME NEW r \in Requests, FindNext(r) PROVE SettingsInv'
  <2>1. UNCHANGED <<settings, asked, clash>> /\ req[r].op = "confirm" /\ req \in [Requests -> Req]
    BY <1>6 DEF FindNext, Fitting
  <2>2. \E q : req' = [req EXCEPT ![r] = q]
    BY <1>6 DEF FindNext, Goes
  <2>3. req'[r].op = "confirm"
    BY <1>6, <2>1 DEF FindNext, Goes, Req
  <2>4. PICK q : req' = [req EXCEPT ![r] = q]
    BY <2>2
  <2>5. q.op = "confirm"
    BY <2>1, <2>3, <2>4
  <2> QED BY <2>1, <2>4, <2>5, SettingsRead DEF Current
<1>7. ASSUME NEW r \in Requests, ReadSettings(r) PROVE SettingsInv'
  <2> DEFINE q == [req[r] EXCEPT !.kept = settings, !.at = "save"]
  <2>1. UNCHANGED <<settings, asked, clash>> /\ req[r].op = "post" /\ req' = [req EXCEPT ![r] = q]
    BY <1>7 DEF ReadSettings, Keeps
  <2>2. Current(q, settings)
    BY <2>1 DEF Current, Fitting, Req
  <2> QED BY <2>1, <2>2, SettingsRead
<1>8. ASSUME NEW r \in Requests, Post(r) PROVE SettingsInv'
  <2>1. clash' = clash /\ req' = [req EXCEPT ![r] = Idle] /\ SaveFlags(r)
    BY <1>8 DEF Post, Returns
  <2>2. "settings" \in req[r].writes
    BY <1>8 DEF Post, Fitting, Fits
  <2>3. "settings" \notin clash => settings' = asked'
    BY <1>8, <2>1 DEF Post, SaveFlags, SettingsInv, Current
  <2> QED BY <2>1, <2>2, <2>3, SettingsSaved, IdleCurrent
<1> QED BY <1>1, <1>2, <1>3, <1>4, <1>5, <1>6, <1>7, <1>8 DEF AccountsNext

LEMMA AgentSettings ==
  ASSUME TypeInv, SettingsInv, Exclusive("settings"), AgentNext
  PROVE  SettingsInv'
<1> USE DEF TypeInv, Is
<1>1. ASSUME NEW r \in Requests,
             \/ \E c \in Configs : OpenSetup(r, c)
             \/ \E u \in SnmpUsers : OpenAddUser(r, u)
      PROVE  SettingsInv'
  <2>1. /\ UNCHANGED <<settings, asked>> /\ clash \subseteq clash'
        /\ \E q : req' = [req EXCEPT ![r] = q] /\ q.op \in {"setup", "addUser"}
                    /\ (q.op = "setup" => q.at = "read")
    BY <1>1 DEF OpenSetup, OpenAddUser, Begin, Request
  <2> QED BY <2>1, SettingsRead DEF Current
<1>2. ASSUME NEW r \in Requests, SetupRead(r) PROVE SettingsInv'
  <2> DEFINE q == [req[r] EXCEPT !.kept = settings, !.at = "install"]
  <2>1. UNCHANGED <<settings, asked, clash>> /\ req[r].op = "setup" /\ req' = [req EXCEPT ![r] = q]
    BY <1>2 DEF SetupRead, Keeps
  <2>2. Current(q, settings)
    BY <2>1 DEF Current, Fitting, Req
  <2> QED BY <2>1, <2>2, SettingsRead
<1>3. ASSUME NEW r \in Requests, NEW at, UNCHANGED <<settings, asked, clash>>, Goes(r, at),
             \/ req[r].op = "addUser"
             \/ req[r].op = "setup" /\ (req[r].at \notin {"read", "dispose"} \/ at = "dispose")
      PROVE  SettingsInv'
  <2> DEFINE q == [req[r] EXCEPT !.at = at]
  <2>1. req' = [req EXCEPT ![r] = q]
    BY <1>3 DEF Goes
  <2>2. "settings" \notin clash => Current(q, settings)
    BY <1>3 DEF Current, Fitting, Req, SettingsInv
  <2> QED BY <1>3, <2>1, <2>2, SettingsRead
<1>4. ASSUME NEW r \in Requests, Returns(r), UNCHANGED <<settings, asked, clash>> PROVE SettingsInv'
  BY <1>4, SettingsRead, IdleCurrent DEF Returns
<1>5. ASSUME NEW r \in Requests, Install(r) \/ CreateText(r) \/ Write(r) PROVE SettingsInv'
  BY <1>3, <1>5 DEF Install, CreateText, Write
<1>6. ASSUME NEW r \in Requests, Stop(r) \/ UserAdd(r) \/ Start(r) PROVE SettingsInv'
  BY <1>3, <1>4, <1>6 DEF Stop, UserAdd, Start
<1>7. ASSUME NEW r \in Requests, Dispose(r) PROVE SettingsInv'
  BY <1>4, <1>7 DEF Dispose
<1>8. ASSUME NEW r \in Requests, Fail(r) PROVE SettingsInv'
  BY <1>3, <1>4, <1>8 DEF Fail
<1>9. ASSUME NEW r \in Requests, SetupSave(r) PROVE SettingsInv'
  <2> DEFINE q == [req[r] EXCEPT !.at = "dispose"]
  <2>1. clash' = clash /\ req' = [req EXCEPT ![r] = q] /\ SaveConfig(r)
    BY <1>9 DEF SetupSave, Goes
  <2>2. "settings" \in req[r].writes
    BY <1>9 DEF SetupSave, Fitting, Fits
  <2>3. "settings" \notin clash => settings' = asked'
    BY <1>9, <2>1 DEF SetupSave, SaveConfig, SettingsInv, Current
  <2>4. \A row : Current(q, row)
    BY <1>9 DEF SetupSave, Current, Fitting, Req
  <2> QED BY <2>1, <2>2, <2>3, <2>4, SettingsSaved
<1>10. ASSUME Boot PROVE SettingsInv'
  BY <1>10 DEF Boot, SettingsInv
<1> QED BY <1>1, <1>2, <1>5, <1>6, <1>7, <1>8, <1>9, <1>10 DEF AgentNext

LEMMA SettingsAlways == Spec => []SettingsInv
<1>1. Init => SettingsInv
  BY IdleCurrent DEF Init, SettingsInit, SettingsInv
<1>2. TypeInv /\ AllExclusive /\ SettingsInv /\ [Next]_vars => SettingsInv'
  <2> SUFFICES ASSUME TypeInv, AllExclusive, SettingsInv, [Next]_vars PROVE SettingsInv'
    OBVIOUS
  <2>0. Exclusive("settings")
    BY DEF AllExclusive
  <2>1. CASE Crash
    BY <2>1, IdleCurrent DEF Crash, SettingsInv
  <2>2. CASE UNCHANGED vars
    BY <2>2 DEF vars, tableVars, SettingsInv
  <2> QED BY <2>0, <2>1, <2>2, AccountsSettings, AgentSettings DEF Next
<1> QED BY <1>1, <1>2, AlwaysExclusive, TypeAlways, PTL DEF Spec

\* Neither settings page undoes the other, however long the other takes, unless they
\* overlapped (SettingsController.Post, SNMPServices.Handle).
THEOREM SettingsAreKept == Spec => []SettingsKept
<1>1. SettingsInv => SettingsKept
  BY DEF SettingsInv, SettingsKept
<1> QED BY <1>1, SettingsAlways, PTL

\* Who registers was allowed to by the flags last posted, and has the role they ask for,
\* unless settings were saved meanwhile (UserController.Login).
THEOREM RegistrationIsAsked == Spec => []RegistrationFollows
<1>1. SettingsInv => RegistrationFollows
  <2> SUFFICES ASSUME SettingsInv, NEW r \in Requests, Is(r, "register", "save"), "settings" \notin clash
               PROVE  asked.flags.AllowRegistration /\ req[r].kept = RoleBy(asked.flags)
    BY DEF RegistrationFollows
  <2>1. settings = asked /\ Current(req[r], settings)
    BY DEF SettingsInv
  <2> QED BY <2>1 DEF Current, Is
<1> QED BY <1>1, SettingsAlways, PTL

-----------------------------------------------------------------------------
\* What the SNMP agent knows and reads once the requests that set it up are over.

Setups == {"setup", "addUser"}

\* A step of the accounts' pages leaves the agent's requests where they are.
LEMMA AccountsApart ==
  ASSUME TypeInv, AccountsNext, NEW o \in Requests, req[o].op \in Setups \/ req'[o].op \in Setups
  PROVE  req'[o] = req[o]
<1> USE DEF TypeInv, Is
<1>0. req \in [Requests -> Req]
  BY DEF Fitting
<1>1. ASSUME NEW r \in Requests, NEW q, req' = [req EXCEPT ![r] = q],
             req[r].op \notin Setups, q.op \notin Setups
      PROVE  req'[o] = req[o]
  BY <1>0, <1>1
<1>2. ASSUME NEW r \in Requests, NEW at, Goes(r, at), req[r].op \notin Setups PROVE req'[o] = req[o]
  <2> DEFINE q == [req[r] EXCEPT !.at = at]
  <2>1. req' = [req EXCEPT ![r] = q] /\ q.op = req[r].op
    BY <1>0, <1>2 DEF Goes, Req
  <2> QED BY <1>1, <1>2, <2>1
<1>3. ASSUME NEW r \in Requests, NEW kept, NEW at, Keeps(r, kept, at), req[r].op \notin Setups
      PROVE  req'[o] = req[o]
  <2> DEFINE q == [req[r] EXCEPT !.kept = kept, !.at = at]
  <2>1. req' = [req EXCEPT ![r] = q] /\ q.op = req[r].op
    BY <1>0, <1>3 DEF Keeps, Req
  <2> QED BY <1>1, <1>3, <2>1
<1>4. ASSUME NEW r \in Requests, Returns(r), req[r].op \notin Setups PROVE req'[o] = req[o]
  <2>1. req' = [req EXCEPT ![r] = Idle] /\ Idle.op \notin Setups
    BY <1>4 DEF Returns, Idle, Request, Setups
  <2> QED BY <1>1, <1>4, <2>1
<1>5. ASSUME NEW r \in Requests, OpenAny(r) PROVE req'[o] = req[o]
  <2>1. /\ req[r].op \notin Setups
        /\ \E q : req' = [req EXCEPT ![r] = q] /\ q.op \notin Setups
    BY <1>5 DEF OpenAny, Open, Begin, Request, Setups
  <2> QED BY <1>1, <2>1
<1>6. ASSUME NEW r \in Requests, Probe(r) \/ Seed(r) PROVE req'[o] = req[o]
  <2>1. req[r].op \notin Setups
    BY <1>6 DEF Probe, Seed, Fitting, Fits, SetupAt, AddAt, Setups
  <2> QED BY <1>2, <1>6, <2>1 DEF Probe, Seed
<1>7. ASSUME NEW r \in Requests,
             Visit(r) \/ Register(r) \/ SavePassword(r) \/ SaveConfirmed(r) \/ RemoveAll(r) \/ Post(r)
      PROVE  req'[o] = req[o]
  BY <1>4, <1>7 DEF Visit, Register, SavePassword, SaveConfirmed, RemoveAll, Post, Setups
<1>8. ASSUME NEW r \in Requests, ReadFlags(r) \/ FindUser(r) \/ FindAll(r) \/ ReadSettings(r)
      PROVE  req'[o] = req[o]
  <2>1. req[r].op \notin Setups
    BY <1>8 DEF ReadFlags, FindUser, FindAll, ReadSettings, Setups
  <2>2. (\E kept, at : Keeps(r, kept, at)) \/ Returns(r)
    BY <1>8 DEF ReadFlags, FindUser, FindAll, ReadSettings
  <2> QED BY <1>3, <1>4, <2>1, <2>2
<1>9. ASSUME NEW r \in Requests, FindNext(r) PROVE req'[o] = req[o]
  <2>1. req[r].op \notin Setups /\ req'[r].op = req[r].op
    BY <1>0, <1>9 DEF FindNext, Goes, Setups, Req
  <2>2. PICK q : req' = [req EXCEPT ![r] = q]
    BY <1>9 DEF FindNext, Goes
  <2>3. q.op \notin Setups
    BY <1>0, <2>1, <2>2
  <2> QED BY <1>1, <2>1, <2>2, <2>3
<1> QED BY <1>5, <1>6, <1>7, <1>8, <1>9 DEF AccountsNext

-----------------------------------------------------------------------------
\* Users.

\* A request that has still to take its user to the agent.
Brings(q, u) == q.op = "addUser" /\ q.at \in {"stop", "useradd"} /\ q.form = u

HasStopped(q) == \/ q.op = "setup" /\ q.at \in {"create", "write", "start"}
                 \/ q.op = "addUser" /\ q.at \in {"useradd", "start"}

\* The strengthening of UsersAreServed: an agent that runs has read all users there are;
\* who has stopped the agent finds it stopped; and a user is with the agent, in its file
\* or on its way there.
AgentInv ==
  /\ agent.state = "on" => pending = {}
  /\ "agent" \notin clash => \A r \in Requests : HasStopped(req[r]) => agent.state = "off"
  /\ "agent" \notin clash /\ failures = 0 /\ crashes = 0
       => \A u \in wanted : u \in agent.users \cup pending \/ \E r \in Requests : Brings(req[r], u)

\* Who works on the agent is the only one, unless two clashed.
LEMMA AgentAlone ==
  ASSUME Fitting, Exclusive("agent"), "agent" \notin clash, NEW r \in Requests, NEW o \in Requests,
         r # o, req[r].op \in Setups
  PROVE  req[o].op \notin Setups
<1>1. "agent" \in req[r].writes
  BY DEF Fitting, Fits, Setups
<1>2. "agent" \notin req[o].writes
  BY <1>1 DEF Exclusive, Conflicts
<1> QED BY <1>2 DEF Fitting, Fits, Setups

\* A step that takes no user from anywhere, and stops who holds it or changes no state.
LEMMA AgentKeeps ==
  ASSUME Fitting, AgentInv, UNCHANGED <<agent, pending, wanted>>, clash \subseteq clash',
         failures' = 0 /\ crashes' = 0 => failures = 0 /\ crashes = 0,
         NEW r \in Requests, NEW q, req' = [req EXCEPT ![r] = q],
         HasStopped(q) => HasStopped(req[r]),
         failures' = 0 => \A u \in wanted : Brings(req[r], u) => Brings(q, u)
  PROVE  AgentInv'
<1>1. \A o \in Requests : req'[o] = IF o = r THEN q ELSE req[o]
  BY DEF Fitting
<1>2. ASSUME "agent" \notin clash', NEW o \in Requests, HasStopped(req'[o]) PROVE agent.state = "off"
  BY <1>1, <1>2 DEF AgentInv
<1>3. ASSUME "agent" \notin clash', failures' = 0, crashes' = 0, NEW u \in wanted,
             u \notin agent.users \cup pending
      PROVE  \E o \in Requests : Brings(req'[o], u)
  <2>1. PICK o \in Requests : Brings(req[o], u)
    BY <1>3 DEF AgentInv
  <2>2. Brings(req'[o], u)
    BY <1>1, <1>3, <2>1
  <2> QED BY <2>2
<1> QED BY <1>2, <1>3 DEF AgentInv

LEMMA AgentServes ==
  ASSUME TypeInv, AgentInv, Exclusive("agent"), AgentNext, crashes' = crashes
  PROVE  AgentInv'
<1> USE DEF TypeInv, Is
<1>0. req \in [Requests -> Req] /\ \A r \in Requests : Fits(req[r])
  BY DEF Fitting
<1>1. ASSUME NEW r \in Requests, NEW c \in Configs, OpenSetup(r, c) PROVE AgentInv'
  <2> DEFINE q == Request("setup", "read", c, {}, {"settings", "agent"})
  <2>1. /\ req' = [req EXCEPT ![r] = q] /\ clash \subseteq clash' /\ req[r].op = "none"
        /\ UNCHANGED <<agent, pending, wanted, failures>>
    BY <1>1 DEF OpenSetup, Begin, agentVars
  <2>2. ~ HasStopped(q) /\ \A u : ~ Brings(req[r], u)
    BY <2>1 DEF HasStopped, Brings, Request
  <2> QED BY <2>1, <2>2, AgentKeeps
<1>2. ASSUME NEW r \in Requests, NEW u \in SnmpUsers, OpenAddUser(r, u) PROVE AgentInv'
  <2> DEFINE q == Request("addUser", "stop", u, {}, {"agent"})
  <2>1. /\ req' = [req EXCEPT ![r] = q] /\ clash \subseteq clash' /\ req[r].op = "none"
        /\ UNCHANGED <<agent, pending, failures>> /\ wanted' = wanted \cup {u}
    BY <1>2 DEF OpenAddUser, Begin
  <2>2. \A o \in Requests : req'[o] = IF o = r THEN q ELSE req[o]
    BY <1>0, <2>1
  <2>3. ~ HasStopped(q) /\ Brings(q, u) /\ \A v : ~ Brings(req[r], v)
    BY <2>1 DEF HasStopped, Brings, Request
  <2> HIDE DEF q
  <2>4. ASSUME NEW v \in wanted', v \notin agent.users \cup pending, "agent" \notin clash', failures = 0, crashes = 0
        PROVE  \E o \in Requests : Brings(req'[o], v)
    <3>1. CASE v = u
      BY <2>2, <2>3, <3>1
    <3>2. CASE v # u
      <4>1. PICK o \in Requests : Brings(req[o], v)
        BY <2>1, <2>4, <3>2 DEF AgentInv
      <4>2. o # r
        BY <2>3, <4>1
      <4> QED BY <2>2, <4>1, <4>2
    <3> QED BY <3>1, <3>2
  <2>5. "agent" \notin clash' => \A o \in Requests : HasStopped(req'[o]) => agent.state = "off"
    BY <2>1, <2>2, <2>3 DEF AgentInv
  <2> QED BY <2>1, <2>4, <2>5 DEF AgentInv
<1>3. ASSUME NEW r \in Requests,
             SetupRead(r) \/ Install(r) \/ CreateText(r) \/ Write(r) \/ SetupSave(r) \/ Dispose(r)
      PROVE  AgentInv'
  <2>1. PICK q : req' = [req EXCEPT ![r] = q]
    BY <1>3 DEF SetupRead, Install, CreateText, Write, SetupSave, Dispose, Keeps, Goes, Returns
  <2>2. UNCHANGED <<agent, pending, wanted, failures, clash>> /\ req[r].op = "setup"
    BY <1>3 DEF SetupRead, Install, CreateText, Write, SetupSave, Dispose, agentVars
  <2>3. q = req'[r]
    BY <1>0, <2>1
  <2>4. HasStopped(q) => HasStopped(req[r])
    BY <1>0, <1>3, <2>3
       DEF SetupRead, Install, CreateText, Write, SetupSave, Dispose, Keeps, Goes, Returns, Req,
           HasStopped, Idle, Request
  <2>5. \A u : ~ Brings(req[r], u)
    BY <2>2 DEF Brings
  <2> QED BY <2>1, <2>2, <2>4, <2>5, AgentKeeps
<1>4. ASSUME NEW r \in Requests, Stop(r) PROVE AgentInv'
  <2>1. /\ UNCHANGED <<pending, wanted, failures, clash>>
        /\ agent'.state = "off" /\ agent'.users = agent.users
    BY <1>4 DEF Stop, TypeOK
  <2>2. \A o \in Requests, u \in wanted : Brings(req[o], u) => Brings(req'[o], u)
    BY <1>0, <1>4 DEF Stop, Goes, Brings, Req
  <2> QED BY <2>1, <2>2 DEF AgentInv
<1>5. ASSUME NEW r \in Requests, UserAdd(r) PROVE AgentInv'
  <2>1. UNCHANGED <<agent, wanted, failures, clash>> /\ HasStopped(req[r]) /\ req[r].at = "useradd"
    BY <1>5 DEF UserAdd, HasStopped
  <2>2. CASE agent.state = "off"
    <3>1. Goes(r, "start") /\ pending' = pending \cup {req[r].form}
      BY <1>5, <2>2 DEF UserAdd
    <3>2. \A o \in Requests : o # r => req'[o] = req[o]
      BY <1>0, <3>1 DEF Goes
    <3>3. \A u : Brings(req[r], u) => u \in pending'
      BY <3>1 DEF Brings
    <3>4. ASSUME NEW v \in wanted, v \notin agent.users \cup pending', "agent" \notin clash, failures = 0, crashes = 0
          PROVE  \E o \in Requests : Brings(req'[o], v)
      <4>1. PICK o \in Requests : Brings(req[o], v)
        BY <3>1, <3>4 DEF AgentInv
      <4>2. o # r
        BY <3>3, <3>4, <4>1
      <4> QED BY <3>2, <4>1, <4>2
    <3> QED BY <2>1, <2>2, <3>4 DEF AgentInv
  <2>3. CASE agent.state # "off"
    <3>1. "agent" \in clash
      BY <2>1, <2>3 DEF AgentInv
    <3>2. UNCHANGED pending
      BY <1>5, <2>3 DEF UserAdd
    <3> QED BY <2>1, <3>1, <3>2 DEF AgentInv
  <2> QED BY <2>2, <2>3
<1>6. ASSUME NEW r \in Requests, Start(r) PROVE AgentInv'
  <2>1. /\ UNCHANGED <<pending, wanted, failures, clash>> /\ agent'.users = agent.users
        /\ agent'.state = "on" => agent.state = "on"
        /\ req[r].op \in Setups /\ req[r].at = "start"
    BY <1>6 DEF Start, TypeOK, Setups
  <2>2. \A o \in Requests : o # r => req'[o] = req[o]
    BY <1>0, <1>6 DEF Start, Goes, Returns
  <2>3. ~ HasStopped(req'[r]) /\ \A u : ~ Brings(req[r], u)
    BY <1>0, <1>6 DEF Start, Goes, Returns, HasStopped, Brings, Req, Idle, Request
  <2>4. ASSUME "agent" \notin clash, NEW o \in Requests PROVE ~ HasStopped(req'[o])
    <3>1. CASE o # r
      <4>1. req[o].op \notin Setups
        BY <2>1, <2>4, <3>1, AgentAlone
      <4> QED BY <2>2, <3>1, <4>1 DEF HasStopped, Setups
    <3> QED BY <2>3, <3>1
  <2>5. \A o \in Requests, u \in wanted : Brings(req[o], u) => Brings(req'[o], u)
    BY <2>2, <2>3
  <2> QED BY <2>1, <2>4, <2>5 DEF AgentInv
<1>7. ASSUME NEW r \in Requests, Fail(r) PROVE AgentInv'
  <2>1. UNCHANGED <<agent, pending, wanted, clash>> /\ failures' = failures + 1
    BY <1>7 DEF Fail
  <2>2. failures' # 0
    BY <2>1 DEF TypeOK
  <2>3. PICK q : req' = [req EXCEPT ![r] = q]
    BY <1>7 DEF Fail, Goes, Returns
  <2>4. q = req'[r]
    BY <1>0, <2>3
  <2>5. ~ HasStopped(q)
    BY <1>0, <1>7, <2>4 DEF Fail, Goes, Returns, HasStopped, Req, Idle, Request
  <2> QED BY <2>1, <2>2, <2>3, <2>5, AgentKeeps
<1>8. ASSUME Boot PROVE AgentInv'
  <2>1. /\ pending' = {} /\ agent'.users = agent.users \cup pending /\ agent.state = "starting"
        /\ UNCHANGED <<req, clash, wanted, failures>>
    BY <1>8 DEF Boot
  <2> QED BY <2>1 DEF AgentInv
<1> QED BY <1>1, <1>2, <1>3, <1>4, <1>5, <1>6, <1>7, <1>8 DEF AgentNext

LEMMA AgentAlways == Spec => []AgentInv
<1>1. Init => AgentInv
  BY DEF Init, SettingsInit, AgentInit, AgentInv, HasStopped, Idle, Request
<1>2. TypeInv /\ AllExclusive /\ AgentInv /\ [Next]_vars => AgentInv'
  <2> SUFFICES ASSUME TypeInv, AllExclusive, AgentInv, [Next]_vars PROVE AgentInv'
    OBVIOUS
  <2>0. Exclusive("agent")
    BY DEF AllExclusive
  <2>1. CASE AccountsNext /\ UNCHANGED <<agentVars, crashes>>
    <3>1. UNCHANGED <<agent, pending, wanted, failures, crashes>>
      BY <2>1 DEF agentVars
    <3>2. clash \subseteq clash'
      BY NextMoves DEF Moves, Begin
    <3>3. \A o \in Requests : HasStopped(req'[o]) => HasStopped(req[o])
      BY <2>1, AccountsApart DEF HasStopped, Setups
    <3>4. \A o \in Requests, u \in wanted : Brings(req[o], u) => Brings(req'[o], u)
      BY <2>1, AccountsApart DEF Brings, Setups
    <3> QED BY <3>1, <3>2, <3>3, <3>4 DEF AgentInv
  <2>2. CASE AgentNext /\ UNCHANGED <<accountVars, crashes>>
    BY <2>0, <2>2, AgentServes
  <2>3. CASE Crash
    <3>1. /\ UNCHANGED <<agent, pending, wanted, clash>> /\ crashes' # 0
          /\ \A o \in Requests : ~ HasStopped(req'[o])
      BY <2>3 DEF Crash, HasStopped, Idle, Request, TypeInv, TypeOK
    <3> QED BY <3>1 DEF AgentInv
  <2>4. CASE UNCHANGED vars
    BY <2>4 DEF vars, tableVars, agentVars, AgentInv
  <2> QED BY <2>1, <2>2, <2>3, <2>4 DEF Next
<1> QED BY <1>1, <1>2, AlwaysExclusive, TypeAlways, PTL DEF Spec

\* A user the page was asked for is known to the agent that runs, if nothing failed and no
\* two requests changed the agent at once (SNMPServices.Handle(SNMPUser)).
THEOREM AllUsersServed == Spec => []UsersAreServed
<1>1. AgentInv => UsersAreServed
  BY DEF AgentInv, UsersAreServed, Calm, Brings
<1> QED BY <1>1, AgentAlways, PTL

-----------------------------------------------------------------------------
\* The file.

Untroubled == failures = 0 /\ crashes = 0 /\ "agent" \notin clash /\ "settings" \notin clash

\* A setup between the new file and the end of its method.
Writes(q) == q.op = "setup" /\ q.at \in {"write", "start", "save", "dispose"}

\* The strengthening of PageShowsFile: the file is the packaged one or that of the
\* settings, or a setup is at it, whose text its head is and whose settings are saved
\* when it comes to its end.
FileInv ==
  Untroubled =>
    /\ file \in {Whole("packaged"), Whole(settings.snmp)} \/ \E r \in Requests : Writes(req[r])
    /\ \A r \in Requests : /\ Writes(req[r]) /\ req[r].at # "write" => file.head = req[r].form
                           /\ Writes(req[r]) /\ req[r].at = "dispose" => settings.snmp = req[r].form

\* A step of a request that writes nothing, before it and after it.
LEMMA FileKeeps ==
  ASSUME Fitting, FileInv, file' = file, settings'.snmp = settings.snmp, Untroubled' => Untroubled,
         NEW r \in Requests, NEW q, req' = [req EXCEPT ![r] = q], ~ Writes(req[r]), ~ Writes(q)
  PROVE  FileInv'
<1>1. \A o \in Requests : req'[o] = IF o = r THEN q ELSE req[o]
  BY DEF Fitting
<1>2. \A o \in Requests : Writes(req'[o]) => o # r
  BY <1>1
<1>3. ASSUME NEW o \in Requests, Writes(req[o]) PROVE Writes(req'[o])
  BY <1>1, <1>3
<1> QED BY <1>1, <1>2, <1>3 DEF FileInv, Whole

\* A step of the one that writes: the others do not.
LEMMA FileWritten ==
  ASSUME Fitting, Fitting', AllExclusive', NEW r \in Requests, Writes(req'[r]),
         Untroubled' => /\ req'[r].at # "write" => file'.head = req'[r].form
                        /\ req'[r].at = "dispose" => settings'.snmp = req'[r].form
  PROVE  FileInv'
<1>1. ASSUME Untroubled', NEW o \in Requests, o # r PROVE ~ Writes(req'[o])
  <2>1. "agent" \in req'[r].writes
    BY DEF Fitting, Fits, Writes
  <2>2. "agent" \notin Conflicts(req'[r], req'[o])
    BY <1>1 DEF AllExclusive, Exclusive, Untroubled
  <2>3. "agent" \notin req'[o].writes
    BY <2>1, <2>2 DEF Conflicts
  <2> QED BY <2>3 DEF Fitting, Fits, Writes
<1> QED BY <1>1 DEF FileInv

LEMMA AgentFile ==
  ASSUME TypeInv, TypeInv', AllExclusive, AllExclusive', SettingsInv, FileInv,
         AgentNext, crashes' = crashes, clash \subseteq clash'
  PROVE  FileInv'
<1> USE DEF Is
<1>0. /\ req \in [Requests -> Req] /\ Fitting /\ Fitting' /\ failures \in Nat /\ file \in File
      /\ settings \in Row
  BY DEF TypeInv, Fitting, TypeOK
<1>1. failures' = 0 => failures = 0
  <2>1. CASE \E r \in Requests : Fail(r)
    BY <1>0, <2>1 DEF Fail
  <2>2. CASE ~ \E r \in Requests : Fail(r)
    BY <2>2 DEF AgentNext, OpenSetup, OpenAddUser, SetupRead, Install, Stop, CreateText, Write, UserAdd, Start,
                SetupSave, Dispose, Boot, agentVars
  <2> QED BY <2>1, <2>2
<1>2. Untroubled' => Untroubled
  BY <1>1 DEF Untroubled
<1>3. ASSUME NEW r \in Requests,
             \/ \E c \in Configs : OpenSetup(r, c)
             \/ \E u \in SnmpUsers : OpenAddUser(r, u)
      PROVE  FileInv'
  <2>1. UNCHANGED <<file, settings>> /\ req[r].op = "none"
    BY <1>3 DEF OpenSetup, OpenAddUser, agentVars, Begin
  <2>2. PICK q : Begin(r, q) /\ q.at \in {"read", "stop"}
    <3>1. ASSUME NEW c \in Configs, OpenSetup(r, c) PROVE \E q : Begin(r, q) /\ q.at \in {"read", "stop"}
      <4> DEFINE q == Request("setup", "read", c, {}, {"settings", "agent"})
      <4>1. Begin(r, q) /\ q.at \in {"read", "stop"}
        BY <3>1 DEF OpenSetup, Request
      <4> HIDE DEF q
      <4> QED BY <4>1
    <3>2. ASSUME NEW u \in SnmpUsers, OpenAddUser(r, u) PROVE \E q : Begin(r, q) /\ q.at \in {"read", "stop"}
      <4> DEFINE q == Request("addUser", "stop", u, {}, {"agent"})
      <4>1. Begin(r, q) /\ q.at \in {"read", "stop"}
        BY <3>2 DEF OpenAddUser, Request
      <4> HIDE DEF q
      <4> QED BY <4>1
    <3> QED BY <1>3, <3>1, <3>2
  <2>3. ~ Writes(req[r]) /\ ~ Writes(q) /\ req' = [req EXCEPT ![r] = q]
    BY <2>1, <2>2 DEF Writes, Begin
  <2> QED BY <1>0, <1>2, <2>1, <2>3, FileKeeps
<1>4. ASSUME NEW r \in Requests,
             \/ SetupRead(r) \/ Install(r) \/ Stop(r) \/ UserAdd(r)
             \/ Start(r) /\ req[r].op = "addUser"
      PROVE  FileInv'
  <2>1. /\ UNCHANGED <<file, settings>>
        /\ req[r].op = "addUser" \/ (req[r].op = "setup" /\ req[r].at \in {"read", "install", "stop"})
    BY <1>4 DEF SetupRead, Install, Stop, UserAdd, Start, agentVars
  <2>2. PICK q : req' = [req EXCEPT ![r] = q]
    BY <1>4 DEF SetupRead, Install, Stop, UserAdd, Start, Keeps, Goes, Returns
  <2>3. q = req'[r]
    BY <1>0, <2>2
  <2>4. ~ Writes(q)
    BY <1>0, <1>4, <2>3 DEF SetupRead, Install, Stop, UserAdd, Start, Keeps, Goes, Returns, Writes, Req,
                            Idle, Request
  <2>5. ~ Writes(req[r])
    BY <2>1 DEF Writes
  <2> QED BY <1>0, <1>2, <2>1, <2>2, <2>4, <2>5, FileKeeps
<1>5. ASSUME NEW r \in Requests, CreateText(r) PROVE FileInv'
  <2>1. Writes(req'[r]) /\ req'[r].at = "write"
    BY <1>0, <1>5 DEF CreateText, Goes, Writes, Req
  <2> QED BY <1>0, <2>1, FileWritten
<1>6. ASSUME NEW r \in Requests, Write(r) PROVE FileInv'
  <2>1. Writes(req'[r]) /\ req'[r].at = "start" /\ req'[r].form = req[r].form
    BY <1>0, <1>6 DEF Write, Goes, Writes, Req
  <2>2. file'.head = req[r].form
    BY <1>0, <1>6 DEF Write, File
  <2> QED BY <1>0, <2>1, <2>2, FileWritten
<1>7. ASSUME NEW r \in Requests, Start(r), req[r].op = "setup" PROVE FileInv'
  <2>1. /\ Writes(req[r]) /\ req[r].at = "start" /\ file' = file
        /\ Writes(req'[r]) /\ req'[r].at = "save" /\ req'[r].form = req[r].form
    BY <1>0, <1>7 DEF Start, Goes, Writes, Req
  <2>2. Untroubled' => file.head = req[r].form
    BY <1>2, <2>1 DEF FileInv
  <2> QED BY <1>0, <2>1, <2>2, FileWritten
<1>8. ASSUME NEW r \in Requests, SetupSave(r) PROVE FileInv'
  <2>1. /\ Writes(req[r]) /\ req[r].at = "save" /\ file' = file
        /\ Writes(req'[r]) /\ req'[r].at = "dispose" /\ req'[r].form = req[r].form
    BY <1>0, <1>8 DEF SetupSave, Goes, Writes, Req, agentVars
  <2>2. Untroubled' => file.head = req[r].form
    BY <1>2, <2>1 DEF FileInv
  <2>3. req[r].kept \in Row
    BY <1>0, <1>8 DEF SetupSave, Fitting, Fits
  <2>4. settings'.snmp = req[r].form
    BY <1>8, <2>3 DEF SetupSave, SaveConfig, Row
  <2> QED BY <1>0, <2>1, <2>2, <2>4, FileWritten
<1>9. ASSUME NEW r \in Requests, Dispose(r) PROVE FileInv'
  <2>1. /\ Writes(req[r]) /\ req[r].at = "dispose" /\ UNCHANGED <<settings, clash, failures>>
        /\ file' = [file EXCEPT !.tail = req[r].form] /\ req' = [req EXCEPT ![r] = Idle]
    BY <1>9 DEF Dispose, Writes, Returns
  <2>2. Untroubled' => file.head = req[r].form /\ settings.snmp = req[r].form
    BY <1>2, <2>1 DEF FileInv
  <2>3. Untroubled' => file' = Whole(settings'.snmp)
    BY <1>0, <2>1, <2>2 DEF File, Whole
  <2>4. ASSUME Untroubled', NEW o \in Requests PROVE ~ Writes(req'[o])
    <3>1. CASE o = r
      BY <1>0, <2>1, <3>1 DEF Writes, Idle, Request
    <3>2. CASE o # r
      <4>1. req[o].op \notin Setups
        BY <1>0, <1>2, <2>1, <2>4, <3>2, AgentAlone DEF AllExclusive, Untroubled, Writes, Setups
      <4> QED BY <1>0, <2>1, <3>2, <4>1 DEF Writes, Setups
    <3> QED BY <3>1, <3>2
  <2> QED BY <2>3, <2>4 DEF FileInv
<1>10. ASSUME NEW r \in Requests, Fail(r) PROVE FileInv'
  <2>1. failures' = failures + 1
    BY <1>10 DEF Fail
  <2> QED BY <1>0, <2>1 DEF FileInv, Untroubled
<1>11. ASSUME Boot PROVE FileInv'
  BY <1>11, <1>2 DEF Boot, FileInv
<1>12. ASSUME NEW r \in Requests, Start(r) PROVE FileInv'
  BY <1>4, <1>7, <1>12 DEF Start
<1> QED BY <1>3, <1>4, <1>5, <1>6, <1>8, <1>9, <1>10, <1>11, <1>12 DEF AgentNext

\* The accounts' pages leave the agent's configuration in the row.
LEMMA AccountsConfig ==
  ASSUME TypeInv, AccountsNext
  PROVE  settings'.snmp = settings.snmp
<1>1. ASSUME NEW r \in Requests, Post(r) PROVE settings'.snmp = settings.snmp
  <2>1. settings \in Row
    BY DEF TypeInv, TypeOK
  <2> QED BY <1>1, <2>1 DEF Post, SaveFlags, Row
<1>2. (\A r \in Requests : ~ Post(r)) => settings' = settings
  BY DEF AccountsNext, OpenAny, Open, Probe, Seed, Visit, ReadFlags, Register, FindUser, SavePassword, FindNext,
         SaveConfirmed, FindAll, RemoveAll, ReadSettings
<1> QED BY <1>1, <1>2

LEMMA FileAlways == Spec => []FileInv
<1>1. Init => FileInv
  BY DEF Init, AgentInit, SettingsInit, FileInv, Writes, Idle, Request
<1>2. ASSUME TypeInv, TypeInv', AllExclusive, AllExclusive', SettingsInv, FileInv, [Next]_vars PROVE FileInv'
  <2>0. clash \subseteq clash'
    BY <1>2, NextMoves DEF Moves, Begin
  <2>1. CASE AccountsNext /\ UNCHANGED <<agentVars, crashes>>
    <3>1. UNCHANGED <<file, failures, crashes>>
      BY <2>1 DEF agentVars
    <3>2. \A o \in Requests : Writes(req'[o]) \/ Writes(req[o]) => req'[o] = req[o]
      BY <1>2, <2>1, AccountsApart DEF Writes, Setups
    <3>3. Untroubled' => Untroubled /\ settings'.snmp = settings.snmp
      BY <1>2, <2>0, <2>1, <3>1, AccountsConfig DEF Untroubled
    <3> QED BY <1>2, <3>1, <3>2, <3>3 DEF FileInv
  <2>2. CASE AgentNext /\ UNCHANGED <<accountVars, crashes>>
    BY <1>2, <2>0, <2>2, AgentFile
  <2>3. CASE Crash
    <3>1. crashes' # 0
      BY <1>2, <2>3 DEF Crash, TypeInv, TypeOK
    <3> QED BY <3>1 DEF FileInv, Untroubled
  <2>4. CASE UNCHANGED vars
    BY <1>2, <2>4 DEF vars, tableVars, agentVars, FileInv, Untroubled
  <2> QED BY <1>2, <2>1, <2>2, <2>3, <2>4 DEF Next
<1> QED BY <1>1, <1>2, TypeAlways, AlwaysExclusive, SettingsAlways, PTL DEF Spec

\* The setup page shows what is in the agent's file, if nothing failed and no two requests
\* saved settings or changed the agent at once (SNMPServices.Handle(SNMPConfiguration)).
THEOREM PageIsTrue == Spec => []PageShowsFile
<1>1. FileInv => PageShowsFile
  BY DEF FileInv, PageShowsFile, Calm, Untroubled, Writes
<1> QED BY <1>1, FileAlways, PTL

-----------------------------------------------------------------------------
\* The table of users under requests that overlap.

AccountOps == Ops \ {"none", "setup", "addUser"}
RowOps == {"password", "confirm", "remove"}

\* The rows a request has read to write them back or to remove them.
Held(q) == IF q.op \in RowOps THEN q.kept ELSE {}

Alike(u, v) == u.name = v.name /\ (u.role = "Admin" <=> v.role = "Admin")

\* A row a request holds keeps its name, and whether it is an administrator's, in the
\* table; it is what the table holds unless its name clashed; and each is held once.
HeldOK(q) ==
  /\ Held(q) \in SUBSET Known
  /\ q.at \in {"probe", "seed"} => Held(q) = {}
  /\ \A k \in Held(q) : k.id <= lastId
  /\ \A k \in Held(q), v \in users : v.id = k.id => Alike(v, k)
  /\ \A k, l \in Held(q) : k.id = l.id => k = l
  /\ q.op = "confirm" => q.form \subseteq q.writes /\ \A k \in q.kept : k.role # "Admin" /\ k.name \notin q.form
  /\ q.op \in {"password", "confirm"} =>
       \A k \in Held(q) : /\ k.name \in q.writes
                          /\ k.name \notin clash => \A v \in users : v.id = k.id => v = k

\* Who finds the table empty is the one who seeds it, who works on it finds it filled, and
\* who empties it has read all of it, unless such requests clashed.
SeedOK(q) ==
  /\ q.op \in AccountOps => "users" \in q.reads
  /\ q.op = "remove" => "users" \in q.writes
  /\ q.op = "register" /\ q.at = "save" => q.kept # "Admin"
  /\ "users" \notin clash /\ q.op \in AccountOps =>
       /\ q.at = "seed" => users = {} /\ "users" \in q.writes
       /\ q.at = "probe" /\ users = {} => "users" \in q.writes
       /\ q.at \in {"body", "save"} => users # {}
       /\ q.op = "remove" /\ q.at = "save" => Ids(users) \subseteq Ids(q.kept)

UniqueIds == \A u, v \in users : u.id = v.id => u = v

\* The strengthening of SoleAdmin and AccountsKept.
RowsInv == /\ UniqueIds
           /\ SoleAdmin
           /\ AccountsKept
           /\ \A r \in Requests : HeldOK(req[r]) /\ SeedOK(req[r])

\* Who must not see the table filled.
Upset(q) == q.op \in AccountOps /\ (q.at = "seed" \/ q.op = "remove")

LEMMA NotAccountsOK ==
  ASSUME NEW q, q.op \notin AccountOps
  PROVE  HeldOK(q) /\ SeedOK(q)
  BY DEF HeldOK, SeedOK, Held, RowOps, AccountOps, Ops

LEMMA IdleOK == HeldOK(Idle) /\ SeedOK(Idle)
<1>1. Idle.op \notin AccountOps
  BY DEF Idle, Request, AccountOps
<1> QED BY <1>1, NotAccountsOK

\* More clashes exempt more.
LEMMA ClashesExempt ==
  ASSUME UNCHANGED accountVars, clash \subseteq clash', NEW q, HeldOK(q), SeedOK(q)
  PROVE  HeldOK(q)' /\ SeedOK(q)'
  BY DEF HeldOK, SeedOK, Held, accountVars

-----------------------------------------------------------------------------
\* Steps that leave the table.

LEMMA RowsRead ==
  ASSUME Fitting, RowsInv, UNCHANGED accountVars, clash \subseteq clash',
         NEW r \in Requests, NEW q, req' = [req EXCEPT ![r] = q], HeldOK(q), SeedOK(q)
  PROVE  RowsInv'
<1>1. \A o \in Requests : req'[o] = IF o = r THEN q ELSE req[o]
  BY DEF Fitting
<1>2. ASSUME NEW o \in Requests PROVE (HeldOK(req[o]) /\ SeedOK(req[o]))'
  <2>1. CASE o = r
    <3>1. HeldOK(q)' /\ SeedOK(q)'
      BY ClashesExempt
    <3>2. req'[o] = q
      BY <1>1, <2>1
    <3> QED BY <3>1, <3>2 DEF HeldOK, SeedOK, Held
  <2>2. CASE o # r
    <3>1. req'[o] = req[o] /\ HeldOK(req[o]) /\ SeedOK(req[o])
      BY <1>1, <2>2 DEF RowsInv
    <3> QED BY <3>1 DEF HeldOK, SeedOK, Held, accountVars
  <2> QED BY <2>1, <2>2
<1>3. UniqueIds' /\ SoleAdmin' /\ AccountsKept'
  BY DEF RowsInv, UniqueIds, SoleAdmin, AccountsKept, accountVars
<1> QED BY <1>2, <1>3 DEF RowsInv

LEMMA AgentRows ==
  ASSUME TypeInv, RowsInv, AgentNext, UNCHANGED <<accountVars, crashes>>
  PROVE  RowsInv'
<1> USE DEF TypeInv, Is
<1>1. ASSUME NEW r \in Requests, NEW q, req' = [req EXCEPT ![r] = q], q.op \notin AccountOps,
             clash \subseteq clash'
      PROVE  RowsInv'
  BY <1>1, RowsRead, NotAccountsOK
<1>2. ASSUME NEW r \in Requests, NEW c \in Configs, OpenSetup(r, c) PROVE RowsInv'
  <2> DEFINE q == Request("setup", "read", c, {}, {"settings", "agent"})
  <2>1. req' = [req EXCEPT ![r] = q] /\ q.op \notin AccountOps /\ clash \subseteq clash'
    BY <1>2 DEF OpenSetup, Begin, Request, AccountOps
  <2> QED BY <1>1, <2>1
<1>3. ASSUME NEW r \in Requests, NEW u \in SnmpUsers, OpenAddUser(r, u) PROVE RowsInv'
  <2> DEFINE q == Request("addUser", "stop", u, {}, {"agent"})
  <2>1. req' = [req EXCEPT ![r] = q] /\ q.op \notin AccountOps /\ clash \subseteq clash'
    BY <1>3 DEF OpenAddUser, Begin, Request, AccountOps
  <2> QED BY <1>1, <2>1
<1>4. ASSUME NEW r \in Requests,
             \/ SetupRead(r) \/ Install(r) \/ Stop(r) \/ CreateText(r) \/ Write(r) \/ UserAdd(r)
             \/ Start(r) \/ SetupSave(r) \/ Dispose(r) \/ Fail(r)
      PROVE  RowsInv'
  <2>1. /\ clash' = clash /\ req[r].op \notin AccountOps
        /\ (\E at : Goes(r, at)) \/ (\E kept, at : Keeps(r, kept, at)) \/ Returns(r)
    BY <1>4 DEF SetupRead, Install, Stop, CreateText, Write, UserAdd, Start, SetupSave, Dispose, Fail, AccountOps
  <2>2. PICK q : req' = [req EXCEPT ![r] = q]
    BY <2>1 DEF Goes, Keeps, Returns
  <2>3. q.op \notin AccountOps
    <3>1. q = req'[r] /\ req \in [Requests -> Req]
      BY <2>2 DEF Fitting
    <3>2. ASSUME NEW at, Goes(r, at) PROVE q.op = req[r].op
      BY <3>1, <3>2 DEF Goes, Req
    <3>3. ASSUME NEW kept, NEW at, Keeps(r, kept, at) PROVE q.op = req[r].op
      BY <3>1, <3>3 DEF Keeps, Req
    <3>4. ASSUME Returns(r) PROVE q.op = "none"
      BY <3>1, <3>4 DEF Returns, Idle, Request
    <3> QED BY <2>1, <3>2, <3>3, <3>4 DEF AccountOps
  <2> QED BY <1>1, <2>1, <2>2, <2>3
<1>5. ASSUME Boot PROVE RowsInv'
  BY <1>5 DEF Boot, RowsInv, UniqueIds, SoleAdmin, AccountsKept, HeldOK, SeedOK, Held, accountVars
<1> QED BY <1>2, <1>3, <1>4, <1>5 DEF AgentNext

LEMMA ReadingRows ==
  ASSUME TypeInv, RowsInv, NEW r \in Requests,
         \/ Probe(r) \/ Visit(r) \/ ReadFlags(r) \/ FindUser(r) \/ FindNext(r)
         \/ FindAll(r) \/ ReadSettings(r) \/ Post(r)
  PROVE  RowsInv'
<1> USE DEF TypeInv, Is
<1>0. /\ UNCHANGED accountVars /\ clash' = clash /\ Fitting
      /\ req \in [Requests -> Req] /\ req[r] \in Req /\ Fits(req[r]) /\ HeldOK(req[r]) /\ SeedOK(req[r])
      /\ users \in SUBSET Known /\ \A u \in users : u.id <= lastId
  <2>1. \A u \in users : u.id <= lastId
    BY DEF TypeOK, AccountRows
  <2> QED BY <2>1, UsersKnown
          DEF Probe, Visit, ReadFlags, FindUser, FindNext, FindAll, ReadSettings, Post, Fitting, RowsInv
<1>1. ASSUME NEW q, req' = [req EXCEPT ![r] = q], HeldOK(q), SeedOK(q) PROVE RowsInv'
  BY <1>0, <1>1, RowsRead
<1>2. Returns(r) => RowsInv'
  BY <1>1, IdleOK DEF Returns
<1>3. CASE Probe(r)
  <2> DEFINE at == IF users = {} THEN "seed" ELSE "body"
             q == [req[r] EXCEPT !.at = at]
  <2>1. req' = [req EXCEPT ![r] = q] /\ req[r].at = "probe"
    BY <1>3 DEF Probe, Goes
  <2>2. HeldOK(q)
    BY <1>0, <2>1 DEF HeldOK, Held, Req
  <2>3. SeedOK(q)
    BY <1>0, <2>1 DEF SeedOK, Req
  <2> QED BY <1>1, <2>1, <2>2, <2>3
<1>4. CASE Visit(r) \/ Post(r)
  BY <1>2, <1>4 DEF Visit, Post
<1>5. CASE ReadFlags(r)
  <2> DEFINE q == [req[r] EXCEPT !.kept = RoleBy(settings.flags), !.at = "save"]
  <2>1. HeldOK(q)
    BY <1>0, <1>5 DEF ReadFlags, HeldOK, Held, RowOps, Req
  <2>2. SeedOK(q)
    BY <1>0, <1>5 DEF ReadFlags, SeedOK, RoleBy, Req
  <2>3. Keeps(r, RoleBy(settings.flags), "save") => RowsInv'
    BY <1>1, <2>1, <2>2 DEF Keeps
  <2> QED BY <1>2, <1>5, <2>3 DEF ReadFlags
<1>6. CASE FindUser(r)
  <2> DEFINE found == {u \in First(req[r].form.name) : u.password = req[r].form.old}
             q == [req[r] EXCEPT !.kept = found, !.at = "save"]
  <2>1. found \subseteq users /\ \A k \in found : k.name = req[r].form.name
    BY DEF First, Named
  <2>2. req[r].op = "password" /\ req[r].at = "body" /\ req[r].form.name \in req[r].writes
    BY <1>0, <1>6 DEF FindUser, Fits
  <2>3. Keeps(r, found, "save") \/ Returns(r)
    BY <1>6 DEF FindUser
  <2> HIDE DEF found
  <2>4. HeldOK(q)
    BY <1>0, <2>1, <2>2 DEF HeldOK, Held, RowOps, Req, Alike, RowsInv, UniqueIds
  <2>5. SeedOK(q)
    BY <1>0, <2>2 DEF SeedOK, Req
  <2>6. Keeps(r, found, "save") => RowsInv'
    BY <1>1, <2>4, <2>5 DEF Keeps
  <2> QED BY <1>2, <2>3, <2>6
<1>7. CASE FindNext(r)
  <2>1. req[r].op = "confirm" /\ req[r].at = "body" /\ req[r].form \in SUBSET Chosen
    BY <1>0, <1>7 DEF FindNext, Fits
  <2>2. ASSUME NEW n \in req[r].form,
               req' = [req EXCEPT ![r].form = @ \ {n}, ![r].kept = @ \cup ToConfirm(n)]
        PROVE  RowsInv'
    <3> DEFINE q == [req[r] EXCEPT !.form = @ \ {n}, !.kept = @ \cup ToConfirm(n)]
    <3>1. req' = [req EXCEPT ![r] = q]
      BY <1>0, <2>2 DEF Req
    <3>2. ToConfirm(n) \subseteq users /\ \A k \in ToConfirm(n) : k.name = n /\ k.role # "Admin"
      BY DEF ToConfirm, First, Named
    <3>3. /\ q.op = "confirm" /\ q.at = req[r].at /\ q.reads = req[r].reads /\ q.writes = req[r].writes
          /\ q.form = req[r].form \ {n} /\ q.kept = req[r].kept \cup ToConfirm(n)
      BY <1>0, <2>1 DEF Req
    <3>4. Held(q) = Held(req[r]) \cup ToConfirm(n) /\ Held(req[r]) = req[r].kept
      BY <2>1, <3>3 DEF Held, RowOps
    <3> HIDE DEF q
    <3>5. ASSUME NEW k \in Held(req[r]), NEW l \in ToConfirm(n) PROVE k.id # l.id
      <4>1. k.name # n /\ l.name = n /\ l \in users
        BY <1>0, <2>1, <3>2, <3>4, <3>5 DEF HeldOK
      <4>2. k.id = l.id => l.name = k.name
        BY <1>0, <3>5, <4>1 DEF HeldOK, Alike
      <4> QED BY <4>1, <4>2
    <3>6. /\ Held(q) \in SUBSET Known
          /\ \A k \in Held(q) : k.id <= lastId
          /\ \A k \in Held(q), v \in users : v.id = k.id => Alike(v, k)
      BY <1>0, <3>2, <3>4 DEF HeldOK, Alike, RowsInv, UniqueIds
    <3>7. \A k, l \in Held(q) : k.id = l.id => k = l
      BY <1>0, <3>2, <3>4, <3>5 DEF HeldOK, RowsInv, UniqueIds
    <3>8. q.form \subseteq q.writes /\ \A k \in q.kept : k.role # "Admin" /\ k.name \notin q.form
      BY <1>0, <2>1, <3>2, <3>3 DEF HeldOK
    <3>9. ASSUME NEW k \in Held(q)
          PROVE  /\ k.name \in q.writes
                 /\ k.name \notin clash => \A v \in users : v.id = k.id => v = k
      <4>1. CASE k \in Held(req[r])
        BY <1>0, <2>1, <3>3, <4>1 DEF HeldOK
      <4>2. CASE k \in ToConfirm(n)
        BY <1>0, <2>1, <2>2, <3>2, <3>3, <4>2 DEF HeldOK, RowsInv, UniqueIds
      <4> QED BY <3>4, <3>9, <4>1, <4>2
    <3>10. HeldOK(q)
      BY <2>1, <3>3, <3>6, <3>7, <3>8, <3>9 DEF HeldOK
    <3>11. SeedOK(q)
      BY <1>0, <2>1, <3>3 DEF SeedOK
    <3> QED BY <1>1, <3>1, <3>10, <3>11
  <2>3. CASE Goes(r, "save")
    <3> DEFINE q == [req[r] EXCEPT !.at = "save"]
    <3>1. req' = [req EXCEPT ![r] = q]
      BY <2>3 DEF Goes
    <3>2. HeldOK(q)
      BY <1>0 DEF HeldOK, Held, Req
    <3>3. SeedOK(q)
      BY <1>0, <2>1 DEF SeedOK, Req
    <3> QED BY <1>1, <3>1, <3>2, <3>3
  <2> QED BY <1>7, <2>2, <2>3 DEF FindNext
<1>8. CASE FindAll(r)
  <2> DEFINE q == [req[r] EXCEPT !.kept = users, !.at = "save"]
  <2>1. req' = [req EXCEPT ![r] = q] /\ req[r].op = "remove" /\ req[r].at = "body"
    BY <1>8 DEF FindAll, Keeps
  <2>2. HeldOK(q)
    BY <1>0, <2>1 DEF HeldOK, Held, RowOps, Req, Alike, RowsInv, UniqueIds
  <2>3. SeedOK(q)
    BY <1>0, <2>1 DEF SeedOK, Req
  <2> QED BY <1>1, <2>1, <2>2, <2>3
<1>9. CASE ReadSettings(r)
  <2> DEFINE q == [req[r] EXCEPT !.kept = settings, !.at = "save"]
  <2>1. req' = [req EXCEPT ![r] = q] /\ req[r].op = "post" /\ req[r].at = "body"
    BY <1>9 DEF ReadSettings, Keeps
  <2>2. HeldOK(q)
    BY <1>0, <2>1 DEF HeldOK, Held, RowOps, Req
  <2>3. SeedOK(q)
    BY <1>0, <2>1 DEF SeedOK, Req
  <2> QED BY <1>1, <2>1, <2>2, <2>3
<1> QED BY <1>3, <1>4, <1>5, <1>6, <1>7, <1>8, <1>9

LEMMA OpeningRows ==
  ASSUME TypeInv, RowsInv, NEW r \in Requests, OpenAny(r)
  PROVE  RowsInv'
<1>1. ASSUME NEW op, NEW form, NEW reads, NEW writes, Open(r, op, form, reads, writes),
             op = "remove" => "users" \in writes, op = "confirm" => form \subseteq writes
      PROVE  RowsInv'
  <2> DEFINE seeds == IF users = {} THEN {"users"} ELSE {}
             q == Request(op, "probe", form, reads \cup {"users"}, writes \cup seeds)
  <2>1. /\ req' = [req EXCEPT ![r] = q] /\ clash \subseteq clash' /\ UNCHANGED accountVars /\ Fitting
    BY <1>1 DEF Open, Begin, TypeInv
  <2>2. HeldOK(q)
    BY <1>1 DEF HeldOK, Held, Request
  <2>3. SeedOK(q)
    BY <1>1 DEF SeedOK, Request
  <2> QED BY <2>1, <2>2, <2>3, RowsRead
<1> QED BY <1>1 DEF OpenAny

-----------------------------------------------------------------------------
\* Steps that change the table.

\* A new row has an id nobody holds.
LEMMA RowsInserted ==
  ASSUME TypeInv, RowsInv, NEW name, NEW password, NEW role,
         Insert(Account(lastId + 1, name, password, role)), clash' = clash,
         NEW r \in Requests, NEW q, req' = [req EXCEPT ![r] = q],
         HeldOK(q), Held(q) = {}, q.at # "seed", SeedOK(q)',
         "users" \notin clash => \A o \in Requests : o # r => ~ Upset(req[o]),
         "users" \notin clash => (role = "Admin" <=> users = {})
  PROVE  RowsInv'
<1> DEFINE row == Account(lastId + 1, name, password, role)
<1>1. /\ lastId' = lastId + 1 /\ users' = users \cup {row} /\ owed' = owed \cup {row}
      /\ row.id = lastId + 1 /\ row.role = role /\ lastId \in Nat
  BY DEF Insert, Account, TypeInv, TypeOK
<1>2. \A u \in users : u.id <= lastId /\ u.id \in Nat
  BY DEF TypeInv, TypeOK, AccountRows
<1>3. \A o \in Requests : req'[o] = IF o = r THEN q ELSE req[o]
  BY DEF TypeInv, Fitting
<1> HIDE DEF row
<1>4. UniqueIds'
  BY <1>1, <1>2 DEF RowsInv, UniqueIds
<1>5. AccountsKept'
  BY <1>1 DEF RowsInv, AccountsKept
<1>6. SoleAdmin'
  <2>1. CASE "users" \in clash
    BY <2>1 DEF SoleAdmin
  <2>2. CASE "users" \notin clash /\ users = {}
    <3>1. {u \in users' : u.role = "Admin"} = {row}
      BY <1>1, <2>2
    <3> QED BY <1>1, <3>1 DEF SoleAdmin
  <2>3. CASE "users" \notin clash /\ users # {}
    <3>1. PICK a \in users : {u \in users : u.role = "Admin"} = {a}
      BY <2>3 DEF RowsInv, SoleAdmin
    <3>2. {u \in users' : u.role = "Admin"} = {a}
      BY <1>1, <2>3, <3>1
    <3> QED BY <1>1, <3>1, <3>2 DEF SoleAdmin
  <2> QED BY <2>1, <2>2, <2>3
<1>7. ASSUME NEW o \in Requests, o # r PROVE HeldOK(req[o])'
  <2>1. HeldOK(req[o]) /\ req'[o] = req[o]
    BY <1>3, <1>7 DEF RowsInv
  <2>2. \A k \in Held(req[o]) : k.id \in Nat /\ k.id <= lastId
    BY <2>1 DEF HeldOK, Known
  <2>3. \A k \in Held(req[o]) : k.id # row.id /\ k.id <= lastId'
    BY <1>1, <2>2
  <2> QED BY <1>1, <2>1, <2>3 DEF HeldOK, Held
<1>8. ASSUME NEW o \in Requests, o # r PROVE SeedOK(req[o])'
  <2>1. SeedOK(req[o]) /\ req'[o] = req[o]
    BY <1>3, <1>8 DEF RowsInv
  <2>2. users' # {}
    BY <1>1
  <2> QED BY <1>8, <2>1, <2>2 DEF SeedOK, Upset
<1>9. HeldOK(req[r])' /\ SeedOK(req[r])'
  BY <1>3 DEF HeldOK, Held, SeedOK
<1> QED BY <1>4, <1>5, <1>6, <1>7, <1>8, <1>9 DEF RowsInv, HeldOK, SeedOK, Held

LEMMA InsertingRows ==
  ASSUME TypeInv, AllExclusive, RowsInv, NEW r \in Requests, Seed(r) \/ Register(r)
  PROVE  RowsInv'
<1> USE DEF TypeInv, Is
<1>0. /\ req \in [Requests -> Req] /\ req[r] \in Req /\ Fits(req[r]) /\ HeldOK(req[r]) /\ SeedOK(req[r])
      /\ clash' = clash
  BY DEF Seed, Register, Fitting, RowsInv
<1>1. req[r].op \in AccountOps
  BY <1>0 DEF Seed, Register, Fits, SetupAt, AddAt, AccountOps, Req
<1>2. CASE Seed(r)
  <2>0. PICK q : q = [req[r] EXCEPT !.at = "body"]
    OBVIOUS
  <2>1. req' = [req EXCEPT ![r] = q] /\ req[r].at = "seed" /\ users' # {}
    BY <1>2, <2>0 DEF Seed, Goes, Insert
  <2>2. HeldOK(q) /\ q.at # "seed"
    BY <1>0, <2>0, <2>1 DEF HeldOK, Held, Req
  <2>3. SeedOK(q)'
    BY <1>0, <2>0, <2>1 DEF SeedOK, Req
  <2>4. ASSUME "users" \notin clash, NEW o \in Requests, o # r
        PROVE  ~ Upset(req[o])
    <3>1. "users" \in req[r].writes
      BY <1>0, <1>1, <2>1, <2>4 DEF SeedOK
    <3>2. "users" \notin req[o].reads
      BY <2>4, <3>1 DEF AllExclusive, Exclusive, Conflicts
    <3> QED BY <3>2 DEF RowsInv, SeedOK, Upset
  <2>5. "users" \notin clash => users = {}
    BY <1>0, <1>1, <2>1 DEF SeedOK
  <2>6. Held(q) = {}
    BY <1>0, <2>0, <2>1 DEF HeldOK, Held, Req
  <2> QED BY <1>0, <1>2, <2>1, <2>2, <2>3, <2>4, <2>5, <2>6, RowsInserted DEF Seed, Default
<1>3. CASE Register(r)
  <2>1. req' = [req EXCEPT ![r] = Idle] /\ req[r].at = "save" /\ req[r].op = "register"
    BY <1>3 DEF Register, Returns
  <2>2. HeldOK(Idle) /\ Idle.at # "seed" /\ Held(Idle) = {} /\ SeedOK(Idle)'
    BY IdleOK DEF Idle, Request, Held, SeedOK, RowOps, AccountOps
  <2>3. "users" \notin clash => users # {}
    BY <1>0, <1>1, <2>1 DEF SeedOK
  <2>4. req[r].kept # "Admin"
    BY <1>0, <2>1 DEF SeedOK
  <2>5. ASSUME "users" \notin clash, NEW o \in Requests, o # r
        PROVE  ~ Upset(req[o])
    <3>1. "users" \in req[r].reads /\ SeedOK(req[o])
      BY <1>0, <1>1, <2>5 DEF SeedOK, RowsInv
    <3>2. "users" \notin req[o].writes
      BY <2>5, <3>1 DEF AllExclusive, Exclusive, Conflicts
    <3> QED BY <2>3, <2>5, <3>1, <3>2 DEF SeedOK, Upset
  <2> QED BY <1>0, <1>3, <2>1, <2>2, <2>3, <2>4, <2>5, RowsInserted DEF Register
<1> QED BY <1>2, <1>3

\* Whoever still holds a row after a step held it before it, and so for what it found.
LEMMA OthersHeld ==
  ASSUME Fitting, NEW r \in Requests, Returns(r)
  PROVE  /\ \A o \in Requests : o # r => req'[o] = req[o]
         /\ Held(req'[r]) = {} /\ req'[r].op = "none"
  BY DEF Returns, Fitting, Idle, Request, Held, RowOps

\* A save that puts a row with the name and the standing of the old one in its place.
LEMMA RowsSaved ==
  ASSUME TypeInv, AllExclusive, RowsInv, NEW r \in Requests, req[r].op \in {"password", "confirm"},
         req[r].at = "save", NEW new, users' = Replace(Held(req[r]), new), UNCHANGED <<lastId, clash>>,
         Returns(r),
         \A n \in new : \E k \in Held(req[r]) : n.id = k.id /\ Alike(n, k),
         \A k \in Held(req[r]) : \E n \in new : n.id = k.id,
         \A n, m \in new : n.id = m.id => n = m,
         AccountsKept'
  PROVE  RowsInv'
<1> DEFINE old == Held(req[r])
           gone(u) == u.id \in Ids(old)
<1>0. /\ \A o \in Requests : o # r => req'[o] = req[o]
      /\ Held(req'[r]) = {} /\ req'[r].op = "none" /\ req[r].op \in AccountOps
      /\ HeldOK(req[r]) /\ SeedOK(req[r]) /\ UniqueIds
  BY OthersHeld DEF TypeInv, RowsInv, AccountOps, Ops
<1>1. CASE users' = users
  <2>1. ASSUME NEW o \in Requests, o # r PROVE HeldOK(req[o])' /\ SeedOK(req[o])'
    BY <1>0, <1>1, <2>1 DEF RowsInv, HeldOK, SeedOK, Held
  <2>2. HeldOK(req[r])' /\ SeedOK(req[r])'
    BY <1>0 DEF HeldOK, SeedOK, Held, RowOps, AccountOps
  <2>3. UniqueIds' /\ SoleAdmin'
    BY <1>1 DEF RowsInv, UniqueIds, SoleAdmin
  <2> QED BY <2>1, <2>2, <2>3 DEF RowsInv
<1>2. CASE Ids(old) \subseteq Ids(users)
  <2>1. users' = {u \in users : ~ gone(u)} \cup new
    BY <1>2 DEF Replace
  <2>2. ASSUME NEW n \in new
        PROVE  \E k \in old, v \in users : n.id = k.id /\ v.id = k.id /\ Alike(n, k) /\ Alike(n, v)
    <3>1. PICK k \in old : n.id = k.id /\ Alike(n, k)
      OBVIOUS
    <3>2. PICK v \in users : v.id = k.id
      BY <1>2 DEF Ids
    <3>3. Alike(v, k)
      BY <1>0, <3>2 DEF HeldOK
    <3> QED BY <3>1, <3>2, <3>3 DEF Alike
  <2>3. \A v \in users : gone(v) => \E n \in new : n.id = v.id /\ Alike(n, v)
    <3> SUFFICES ASSUME NEW v \in users, gone(v) PROVE \E n \in new : n.id = v.id /\ Alike(n, v)
      OBVIOUS
    <3>1. PICK k \in old : k.id = v.id
      BY DEF Ids
    <3>2. PICK n \in new : n.id = k.id
      BY <3>1
    <3>3. PICK w \in users : n.id = w.id /\ Alike(n, w)
      BY <2>2
    <3>4. w.id = v.id
      BY <3>1, <3>2, <3>3
    <3>5. w = v
      BY <1>0, <3>4 DEF UniqueIds
    <3> QED BY <3>1, <3>2, <3>3, <3>5
  <2>4. \A n \in new : n.id \in Ids(old)
    BY DEF Ids
  <2> HIDE DEF gone
  <2>5. UniqueIds'
    <3> SUFFICES ASSUME NEW u \in users', NEW v \in users', u.id = v.id PROVE u = v
      BY DEF UniqueIds
    <3> QED BY <1>0, <2>1, <2>4 DEF UniqueIds, gone
  <2>6. users' = {} <=> users = {}
    BY <2>1, <2>2, <2>3
  <2>7. ASSUME NEW u \in users' PROVE \E v \in users : v.id = u.id /\ Alike(u, v)
    <3>1. CASE u \in users
      BY <3>1 DEF Alike
    <3>2. CASE u \in new
      BY <2>2, <3>2
    <3> QED BY <2>1, <2>7, <3>1, <3>2
  <2>8. SoleAdmin'
    <3>1. CASE "users" \in clash
      BY <3>1 DEF SoleAdmin
    <3>2. CASE users = {}
      BY <2>6, <3>2 DEF SoleAdmin
    <3>3. CASE "users" \notin clash /\ users # {}
      <4>1. PICK a \in users : {u \in users : u.role = "Admin"} = {a}
        BY <3>3 DEF RowsInv, SoleAdmin
      <4>2. PICK b \in users' : b.id = a.id /\ Alike(b, a)
        <5>1. CASE gone(a)
          BY <2>1, <2>3, <5>1
        <5>2. CASE ~ gone(a)
          BY <2>1, <5>2 DEF Alike
        <5> QED BY <5>1, <5>2
      <4>3. \A u \in users' : u.role = "Admin" => u = b
        <5> SUFFICES ASSUME NEW u \in users', u.role = "Admin" PROVE u = b
          OBVIOUS
        <5>1. PICK v \in users : v.id = u.id /\ Alike(u, v)
          BY <2>7
        <5>2. v = a
          BY <4>1, <5>1 DEF Alike
        <5> QED BY <2>5, <4>2, <5>1, <5>2 DEF UniqueIds
      <4>4. b.role = "Admin"
        BY <4>1, <4>2 DEF Alike
      <4>5. {u \in users' : u.role = "Admin"} = {b}
        BY <4>3, <4>4
      <4> QED BY <4>5 DEF SoleAdmin
    <3> QED BY <3>1, <3>2, <3>3
  <2>9. ASSUME NEW o \in Requests, o # r PROVE HeldOK(req[o])'
    <3>1. HeldOK(req[o]) /\ req'[o] = req[o]
      BY <1>0, <2>9 DEF RowsInv
    <3>2. ASSUME NEW k \in Held(req[o]), NEW u \in users', u.id = k.id PROVE Alike(u, k)
      <4>1. PICK v \in users : v.id = u.id /\ Alike(u, v)
        BY <2>7
      <4>2. Alike(v, k)
        BY <3>1, <3>2, <4>1 DEF HeldOK
      <4> QED BY <4>1, <4>2 DEF Alike
    <3>3. ASSUME req[o].op \in {"password", "confirm"}, NEW k \in Held(req[o]), k.name \notin clash,
                 NEW u \in users', u.id = k.id
          PROVE  u = k
      <4>1. CASE u \in new
        <5>1. PICK j \in old, v \in users : u.id = j.id /\ v.id = j.id
          BY <2>2, <4>1
        <5>2. j.name = v.name /\ v.name = k.name
          <6>1. Alike(v, j)
            BY <1>0, <5>1 DEF HeldOK
          <6>2. Alike(v, k)
            BY <3>1, <3>3, <5>1 DEF HeldOK
          <6> QED BY <6>1, <6>2 DEF Alike
        <5>3. k.name \in req[r].writes /\ k.name \in req[o].writes
          BY <1>0, <3>1, <3>3, <5>1, <5>2 DEF HeldOK
        <5>4. k.name \notin Conflicts(req[o], req[r])
          BY <2>9, <3>3 DEF AllExclusive, Exclusive
        <5> QED BY <5>3, <5>4 DEF Conflicts
      <4>2. CASE u \in users
        BY <3>1, <3>3, <4>2 DEF HeldOK
      <4> QED BY <2>1, <3>3, <4>1, <4>2
    <3> QED BY <3>1, <3>2, <3>3 DEF HeldOK, Held
  <2>10. ASSUME NEW o \in Requests, o # r PROVE SeedOK(req[o])'
    <3>1. Ids(users') \subseteq Ids(users)
      BY <2>7 DEF Ids
    <3>2. req'[o] = req[o] /\ SeedOK(req[o])
      BY <1>0, <2>10 DEF RowsInv
    <3> QED BY <2>6, <3>1, <3>2 DEF SeedOK
  <2>11. HeldOK(req[r])' /\ SeedOK(req[r])'
    BY <1>0 DEF HeldOK, SeedOK, Held, RowOps, AccountOps
  <2> QED BY <2>5, <2>8, <2>9, <2>10, <2>11 DEF RowsInv
<1> QED BY <1>1, <1>2 DEF Replace

\* The table after a save owes what the save told, if what was read is still there.
LEMMA OwedKept ==
  ASSUME RowsInv, NEW r \in Requests, req[r].op \in {"password", "confirm"}, req[r].kept = Held(req[r]),
         clash' = clash, NEW new, users' = Replace(req[r].kept, new),
         Ids(req[r].kept) \subseteq Ids(users) =>
           /\ \A u \in owed : u.id \notin Ids(req[r].kept) => u \in owed'
           /\ \A n \in new : \E k \in req[r].kept : n.name = k.name /\ n.id = k.id /\ (k \in owed => n \in owed'),
         ~ (Ids(req[r].kept) \subseteq Ids(users)) => owed' = owed
  PROVE  AccountsKept'
<1>1. CASE ~ (Ids(req[r].kept) \subseteq Ids(users))
  BY <1>1 DEF RowsInv, AccountsKept, Replace
<1>2. CASE Ids(req[r].kept) \subseteq Ids(users)
  <2>1. users' = {u \in users : u.id \notin Ids(req[r].kept)} \cup new
    BY <1>2 DEF Replace
  <2>2. ASSUME NEW n \in new, n.name \notin clash PROVE n \in owed'
    <3>1. PICK k \in req[r].kept : n.name = k.name /\ n.id = k.id /\ (k \in owed => n \in owed')
      BY <1>2
    <3>2. PICK v \in users : v.id = k.id
      BY <1>2 DEF Ids
    <3>3. v = k
      BY <2>2, <3>1, <3>2 DEF RowsInv, HeldOK
    <3>4. k \in owed
      BY <2>2, <3>1, <3>2, <3>3 DEF RowsInv, AccountsKept
    <3> QED BY <3>1, <3>4
  <2>3. ASSUME NEW u \in users, u.id \notin Ids(req[r].kept), u.name \notin clash PROVE u \in owed'
    BY <1>2, <2>3 DEF RowsInv, AccountsKept
  <2> QED BY <2>1, <2>2, <2>3 DEF AccountsKept
<1> QED BY <1>1, <1>2

LEMMA SavingRows ==
  ASSUME TypeInv, AllExclusive, RowsInv, NEW r \in Requests, SavePassword(r) \/ SaveConfirmed(r)
  PROVE  RowsInv'
<1> USE DEF Is
<1>0. /\ req[r].op \in {"password", "confirm"} /\ req[r].at = "save" /\ req[r].kept = Held(req[r])
      /\ Returns(r) /\ UNCHANGED <<lastId, clash>> /\ HeldOK(req[r]) /\ req[r].kept \in SUBSET Known
  <2>1. req[r].op \in {"password", "confirm"} /\ req[r].at = "save" /\ Returns(r) /\ UNCHANGED <<lastId, clash>>
    BY DEF SavePassword, SaveConfirmed
  <2>2. req[r].kept = Held(req[r]) /\ HeldOK(req[r])
    BY <2>1 DEF Held, RowOps, RowsInv
  <2> QED BY <2>1, <2>2 DEF HeldOK
<1>1. CASE SavePassword(r)
  <2> DEFINE Told(u) == [u EXCEPT !.password = req[r].form.new]
             new == {Told(u) : u \in req[r].kept}
  <2>1. \A u \in Known : Told(u).id = u.id /\ Alike(Told(u), u)
    BY DEF Known, Alike
  <2>2. users' = Replace(req[r].kept, new)
    BY <1>1 DEF SavePassword
  <2>3. owed' = Owes(req[r].kept, Told)
    BY <1>1 DEF SavePassword
  <2>4. Ids(req[r].kept) \subseteq Ids(users) =>
           owed' = {IF u.id \in Ids(req[r].kept) THEN Told(u) ELSE u : u \in owed}
    BY <2>3 DEF Owes
  <2>5. ~ (Ids(req[r].kept) \subseteq Ids(users)) => owed' = owed
    BY <2>3 DEF Owes
  <2>6. Ids(req[r].kept) \subseteq Ids(users) =>
           \A u \in owed : /\ u.id \notin Ids(req[r].kept) => u \in owed'
                           /\ u \in req[r].kept => Told(u) \in owed'
    <3>1. \A k \in req[r].kept : k.id \in Ids(req[r].kept)
      BY DEF Ids
    <3> QED BY <2>4, <3>1
  <2>7. \A n \in new : \E k \in req[r].kept : n = Told(k) /\ n.id = k.id /\ Alike(n, k)
    BY <1>0, <2>1
  <2>8. \A k \in req[r].kept : \E n \in new : n.id = k.id
    BY <1>0, <2>1
  <2>9. \A n, m \in new : n.id = m.id => n = m
    <3> SUFFICES ASSUME NEW k \in req[r].kept, NEW l \in req[r].kept, Told(k).id = Told(l).id
                 PROVE  Told(k) = Told(l)
      OBVIOUS
    <3>1. k.id = l.id
      BY <1>0, <2>1
    <3>2. k = l
      BY <1>0, <3>1 DEF HeldOK
    <3> QED BY <3>2
  <2>10. Ids(req[r].kept) \subseteq Ids(users) =>
           \A n \in new : \E k \in req[r].kept : n.name = k.name /\ n.id = k.id /\ (k \in owed => n \in owed')
    BY <2>6, <2>7 DEF Alike
  <2> HIDE DEF new
  <2>11. AccountsKept'
    BY <1>0, <2>2, <2>5, <2>6, <2>10, OwedKept
  <2> QED BY <1>0, <2>2, <2>7, <2>8, <2>9, <2>11, RowsSaved
<1>2. CASE SaveConfirmed(r)
  <2> DEFINE Told(u) == [u EXCEPT !.role = "User"]
             new == {Told(u) : u \in req[r].kept}
  <2>1. \A u \in Known : Told(u).id = u.id /\ (u.role # "Admin" => Alike(Told(u), u))
    BY DEF Known, Alike
  <2>2. users' = Replace(req[r].kept, new)
    BY <1>2 DEF SaveConfirmed
  <2>3. owed' = Owes(req[r].kept, Told)
    BY <1>2 DEF SaveConfirmed
  <2>4. Ids(req[r].kept) \subseteq Ids(users) =>
           owed' = {IF u.id \in Ids(req[r].kept) THEN Told(u) ELSE u : u \in owed}
    BY <2>3 DEF Owes
  <2>5. ~ (Ids(req[r].kept) \subseteq Ids(users)) => owed' = owed
    BY <2>3 DEF Owes
  <2>6. Ids(req[r].kept) \subseteq Ids(users) =>
           \A u \in owed : /\ u.id \notin Ids(req[r].kept) => u \in owed'
                           /\ u \in req[r].kept => Told(u) \in owed'
    <3>1. \A k \in req[r].kept : k.id \in Ids(req[r].kept)
      BY DEF Ids
    <3> QED BY <2>4, <3>1
  <2>7. \A n \in new : \E k \in req[r].kept : n = Told(k) /\ n.id = k.id /\ Alike(n, k)
    <3>1. \A k \in req[r].kept : k.role # "Admin"
      BY <1>0, <1>2 DEF SaveConfirmed, HeldOK
    <3> QED BY <1>0, <2>1, <3>1
  <2>8. \A k \in req[r].kept : \E n \in new : n.id = k.id
    BY <1>0, <2>1
  <2>9. \A n, m \in new : n.id = m.id => n = m
    <3> SUFFICES ASSUME NEW k \in req[r].kept, NEW l \in req[r].kept, Told(k).id = Told(l).id
                 PROVE  Told(k) = Told(l)
      OBVIOUS
    <3>1. k.id = l.id
      BY <1>0, <2>1
    <3>2. k = l
      BY <1>0, <3>1 DEF HeldOK
    <3> QED BY <3>2
  <2>10. Ids(req[r].kept) \subseteq Ids(users) =>
           \A n \in new : \E k \in req[r].kept : n.name = k.name /\ n.id = k.id /\ (k \in owed => n \in owed')
    BY <2>6, <2>7 DEF Alike
  <2> HIDE DEF new
  <2>11. AccountsKept'
    BY <1>0, <2>2, <2>5, <2>6, <2>10, OwedKept
  <2> QED BY <1>0, <2>2, <2>7, <2>8, <2>9, <2>11, RowsSaved
<1> QED BY <1>1, <1>2

\* Who empties the table is alone with it, unless requests clashed.
LEMMA RemovingRows ==
  ASSUME TypeInv, AllExclusive, RowsInv, NEW r \in Requests, RemoveAll(r)
  PROVE  RowsInv'
<1>0. /\ \A o \in Requests : o # r => req'[o] = req[o]
      /\ Held(req'[r]) = {} /\ req'[r].op = "none"
      /\ UNCHANGED <<lastId, clash>> /\ req[r].op = "remove"
  BY OthersHeld DEF RemoveAll, Is, TypeInv
<1>1. users' \subseteq users /\ owed' = {u \in owed : u.id \in Ids(users')}
  BY DEF RemoveAll, Replace
<1>2. UniqueIds' /\ AccountsKept'
  BY <1>0, <1>1 DEF RowsInv, UniqueIds, AccountsKept, Ids
<1>3. users' = users \/ \A u \in users' : u.id \notin Ids(req[r].kept)
  BY DEF RemoveAll, Replace
<1>4. ASSUME "users" \notin clash, NEW o \in Requests, o # r PROVE req[o].op \notin AccountOps
  <2>1. "users" \in req[r].writes
    BY <1>0 DEF RowsInv, SeedOK
  <2>2. "users" \notin req[o].reads
    BY <1>4, <2>1 DEF AllExclusive, Exclusive, Conflicts
  <2> QED BY <2>2 DEF RowsInv, SeedOK
<1>5. ASSUME NEW o \in Requests, o # r PROVE HeldOK(req[o])' /\ SeedOK(req[o])'
  <2>1. HeldOK(req[o]) /\ SeedOK(req[o]) /\ req'[o] = req[o]
    BY <1>0, <1>5 DEF RowsInv
  <2>2. HeldOK(req[o])'
    BY <1>0, <1>1, <2>1 DEF HeldOK, Held
  <2>3. SeedOK(req[o])'
    BY <1>0, <1>4, <1>5, <2>1 DEF SeedOK
  <2> QED BY <2>2, <2>3
<1>6. HeldOK(req[r])' /\ SeedOK(req[r])'
  BY <1>0 DEF HeldOK, SeedOK, Held, RowOps, AccountOps
<1>7. SoleAdmin'
  <2>1. CASE users' = users
    BY <1>0, <2>1 DEF RowsInv, SoleAdmin
  <2>2. CASE users' # users /\ "users" \notin clash
    <3>1. Ids(users) \subseteq Ids(req[r].kept)
      BY <1>0, <2>2 DEF RowsInv, SeedOK, RemoveAll, Is, AccountOps, Ops
    <3>2. users' = {}
      BY <1>1, <1>3, <2>2, <3>1 DEF Ids
    <3> QED BY <3>2 DEF SoleAdmin
  <2>3. CASE "users" \in clash
    BY <1>0, <2>3 DEF SoleAdmin
  <2> QED BY <2>1, <2>2, <2>3
<1>8. \A o \in Requests : HeldOK(req[o])' /\ SeedOK(req[o])'
  BY <1>5, <1>6
<1> QED BY <1>2, <1>7, <1>8 DEF RowsInv

-----------------------------------------------------------------------------
\* The theorems.

LEMMA RowsInit ==
  ASSUME Init
  PROVE  RowsInv
<1>1. \A r \in Requests : HeldOK(req[r]) /\ SeedOK(req[r])
  BY IdleOK DEF Init, SettingsInit, HeldOK, SeedOK, Held
<1>2. AccountsKept
  BY DEF Init, AccountsInit, AccountsKept
<1>3. CASE users = {}
  BY <1>1, <1>2, <1>3 DEF RowsInv, UniqueIds, SoleAdmin
<1>4. ASSUME NEW f \in Registrations, NEW role \in Roles \ {"Admin"},
             users = {Default(1), Account(2, f.name, f.password, role)}
      PROVE  RowsInv
  <2> DEFINE a == Default(1)
             b == Account(2, f.name, f.password, role)
  <2>1. a.id = 1 /\ b.id = 2 /\ a.role = "Admin" /\ b.role # "Admin" /\ users = {a, b}
    BY <1>4 DEF Default, Account
  <2> HIDE DEF a, b
  <2>2. UniqueIds
    BY <2>1 DEF UniqueIds
  <2>3. {u \in users : u.role = "Admin"} = {a}
    BY <2>1
  <2>4. SoleAdmin
    BY <2>1, <2>3 DEF SoleAdmin
  <2> QED BY <1>1, <1>2, <2>2, <2>4 DEF RowsInv
<1> QED BY <1>3, <1>4 DEF Init, AccountsInit

LEMMA RowsAlways == Spec => []RowsInv
<1>1. Init => RowsInv
  BY RowsInit
<1>2. TypeInv /\ AllExclusive /\ RowsInv /\ [Next]_vars => RowsInv'
  <2> SUFFICES ASSUME TypeInv, AllExclusive, RowsInv, [Next]_vars PROVE RowsInv'
    OBVIOUS
  <2>1. ASSUME AccountsNext PROVE RowsInv'
    BY <2>1, OpeningRows, ReadingRows, InsertingRows, SavingRows, RemovingRows DEF AccountsNext
  <2>2. CASE AgentNext /\ UNCHANGED <<accountVars, crashes>>
    BY <2>2, AgentRows
  <2>3. CASE Crash
    <3>1. /\ UNCHANGED <<accountVars, clash>> /\ \A o \in Requests : req'[o] = Idle
      BY <2>3 DEF Crash, accountVars
    <3>2. UniqueIds' /\ SoleAdmin' /\ AccountsKept'
      BY <3>1 DEF RowsInv, UniqueIds, SoleAdmin, AccountsKept, accountVars
    <3>3. \A o \in Requests : HeldOK(req[o])' /\ SeedOK(req[o])'
      BY <3>1, IdleOK DEF HeldOK, SeedOK, Held, accountVars
    <3> QED BY <3>2, <3>3 DEF RowsInv
  <2>4. CASE UNCHANGED vars
    BY <2>4 DEF vars, tableVars, accountVars, RowsInv, UniqueIds, SoleAdmin, AccountsKept, HeldOK, SeedOK, Held
  <2> QED BY <2>1, <2>2, <2>3, <2>4 DEF Next
<1> QED BY <1>1, <1>2, AlwaysExclusive, TypeAlways, PTL DEF Spec

\* There is one administrator or nobody yet, unless a request that emptied or seeded the
\* table overlapped another (the constructor of UserService, RemoveUsers).
THEOREM OneAdministrator == Spec => []SoleAdmin
<1>1. RowsInv => SoleAdmin
  BY DEF RowsInv
<1> QED BY <1>1, RowsAlways, PTL

\* A row holds what it was last told to hold, unless two changes of its name overlapped
\* (UserService.ChangePassword, RegisterUsers).
THEOREM ChangesAreKept == Spec => []AccountsKept
<1>1. RowsInv => AccountsKept
  BY DEF RowsInv
<1> QED BY <1>1, RowsAlways, PTL
=============================================================================
