------------------------------ MODULE Accounts ------------------------------
(***************************************************************************)
(* The table of users (UserService) and the pages that work on it: log in, *)
(* register, change a password, confirm and remove users, edit settings.   *)
(* The constructor of UserService runs before each of them: it looks       *)
(* whether the table is empty and then inserts the default administrator.  *)
(* A cookie outlives the row it was given for, so what a request may do    *)
(* does not depend on the table.                                           *)
(***************************************************************************)
EXTENDS SettingsTable

CONSTANTS Registrations,   \* the forms of a registration: name and password
          Renewals,        \* the forms of a password change: name, old and new
          Confirmations    \* the sets of names an administrator confirms at once

VARIABLES users,    \* the rows of the table
          lastId,   \* the id given last; SQLite gives none twice
          owed      \* history: the rows, each with what it was last told to hold

accountVars == <<users, lastId, owed>>

Roles == {"Admin", "User", "NotConfirmed"}

Account(id, name, password, role) ==
  [id |-> id, name |-> name, password |-> password, role |-> role]

Default(id) == Account(id, "admin", "admin", "Admin")

\* A process finds an empty database, or one that somebody has registered in.
AccountsInit == /\ \/ users = {}
                   \/ \E f \in Registrations, role \in Roles \ {"Admin"} :
                        users = {Default(1), Account(2, f.name, f.password, role)}
                /\ lastId = 2
                /\ owed = users

Ids(rows) == {u.id : u \in rows}

Named(name) == {u \in users : u.name = name}

\* FirstOrDefault, as a set.
First(name) == {u \in Named(name) : \A v \in Named(name) : u.id <= v.id}

\* Mutant: the id of a row that was removed is given again.
Insert_SameId(row) == /\ UNCHANGED lastId
                      /\ users' = users \cup {row}
                      /\ owed' = owed \cup {row}

Insert(row) == /\ lastId' = row.id
               /\ users' = users \cup {row}
               /\ owed' = owed \cup {row}

\* Mutant: a row that is gone is inserted again.
Replace_Insert(rows, new) == {u \in users : u.id \notin Ids(rows)} \cup new

\* SaveChanges on rows the request has read: Update writes them whole, Remove deletes
\* them, by their ids and in one transaction, which fails if one of them is gone.
Replace(rows, new) == IF Ids(rows) \subseteq Ids(users)
                      THEN {u \in users : u.id \notin Ids(rows)} \cup new
                      ELSE users

\* What the change says of the rows it is about.
Owes(rows, Told(_)) == IF Ids(rows) \subseteq Ids(users)
                       THEN {IF u.id \in Ids(rows) THEN Told(u) ELSE u : u \in owed}
                       ELSE owed

-----------------------------------------------------------------------------
\* A request arrives, and UserService is constructed.

Open(r, op, form, reads, writes) ==
  LET seeds == IF users = {} THEN {"users"} ELSE {}
  IN  /\ Begin(r, Request(op, "probe", form, reads \cup {"users"}, writes \cup seeds))
      /\ UNCHANGED <<settings, asked, accountVars>>

OpenAny(r) ==
  \/ Open(r, "visit", "none", {}, {})
  \/ \E f \in Registrations : Open(r, "register", f, {"settings"}, {})
  \/ \E f \in Renewals : Open(r, "password", f, {}, {f.name})
  \/ \E names \in Confirmations : Open(r, "confirm", names, {}, names)
  \/ Open(r, "remove", "none", {}, {"users"})
  \/ \E f \in Flags : Open(r, "post", f, {}, {"settings"})

Probe(r) ==
  /\ req[r].at = "probe"
  /\ Goes(r, IF users = {} THEN "seed" ELSE "body")
  /\ UNCHANGED <<settings, started, asked, clash, accountVars>>

Seed(r) ==
  /\ req[r].at = "seed"
  /\ Insert(Default(lastId + 1))
  /\ Goes(r, "body")
  /\ UNCHANGED <<settings, started, asked, clash>>

-----------------------------------------------------------------------------
\* The handlers.

\* The pages that only read, and a login.
Visit(r) ==
  /\ Is(r, "visit", "body")
  /\ Returns(r)
  /\ UNCHANGED <<settings, started, asked, clash, accountVars>>

RoleBy(flags) == IF flags.RequireConfirmation THEN "NotConfirmed" ELSE "User"

\* Mutant: whether registration is allowed is left to the page that shows the form.
ReadFlags_Always(r) ==
  /\ Is(r, "register", "body")
  /\ Keeps(r, RoleBy(settings.flags), "save")
  /\ UNCHANGED <<settings, started, asked, clash, accountVars>>

ReadFlags(r) ==
  /\ Is(r, "register", "body")
  /\ IF settings.flags.AllowRegistration
     THEN Keeps(r, RoleBy(settings.flags), "save")
     ELSE Returns(r)
  /\ UNCHANGED <<settings, started, asked, clash, accountVars>>

\* The name is not looked up first: there may be two rows of it.
Register(r) ==
  /\ Is(r, "register", "save")
  /\ Insert(Account(lastId + 1, req[r].form.name, req[r].form.password, req[r].kept))
  /\ Returns(r)
  /\ UNCHANGED <<settings, started, asked, clash>>

\* ChangePassword: the row must be there, with the old password.
FindUser(r) ==
  LET found == {u \in First(req[r].form.name) : u.password = req[r].form.old}
  IN  /\ Is(r, "password", "body")
      /\ IF found = {} THEN Returns(r) ELSE Keeps(r, found, "save")
      /\ UNCHANGED <<settings, started, asked, clash, accountVars>>

SavePassword(r) ==
  LET Told(u) == [u EXCEPT !.password = req[r].form.new]
  IN  /\ Is(r, "password", "save")
      /\ users' = Replace(req[r].kept, {Told(u) : u \in req[r].kept})
      /\ owed' = Owes(req[r].kept, Told)
      /\ Returns(r)
      /\ UNCHANGED <<settings, started, asked, clash, lastId>>

\* Mutant: the role of the user is not looked at.
ToConfirm_Any(name) == First(name)

\* RegisterUsers: one query for each name.
ToConfirm(name) == {u \in First(name) : u.role # "Admin"}

FindNext(r) ==
  /\ Is(r, "confirm", "body")
  /\ \/ \E n \in req[r].form :
          req' = [req EXCEPT ![r].form = @ \ {n}, ![r].kept = @ \cup ToConfirm(n)]
     \/ req[r].form = {} /\ Goes(r, "save")
  /\ UNCHANGED <<settings, started, asked, clash, accountVars>>

SaveConfirmed(r) ==
  LET Told(u) == [u EXCEPT !.role = "User"]
  IN  /\ Is(r, "confirm", "save")
      /\ users' = Replace(req[r].kept, {Told(u) : u \in req[r].kept})
      /\ owed' = Owes(req[r].kept, Told)
      /\ Returns(r)
      /\ UNCHANGED <<settings, started, asked, clash, lastId>>

\* RemoveUsers: all of them, whichever names were posted.
FindAll(r) ==
  /\ Is(r, "remove", "body")
  /\ Keeps(r, users, "save")
  /\ UNCHANGED <<settings, started, asked, clash, accountVars>>

RemoveAll(r) ==
  /\ Is(r, "remove", "save")
  /\ users' = Replace(req[r].kept, {})
  /\ owed' = {u \in owed : u.id \in Ids(users')}
  /\ Returns(r)
  /\ UNCHANGED <<settings, started, asked, clash, lastId>>

ReadSettings(r) ==
  /\ Is(r, "post", "body")
  /\ Keeps(r, settings, "save")
  /\ UNCHANGED <<settings, started, asked, clash, accountVars>>

Post(r) ==
  /\ Is(r, "post", "save")
  /\ SaveFlags(r)
  /\ Returns(r)
  /\ UNCHANGED <<started, clash, accountVars>>

AccountsNext ==
  \E r \in Requests :
    \/ OpenAny(r) \/ Probe(r) \/ Seed(r) \/ Visit(r) \/ ReadFlags(r) \/ Register(r)
    \/ FindUser(r) \/ SavePassword(r) \/ FindNext(r) \/ SaveConfirmed(r)
    \/ FindAll(r) \/ RemoveAll(r) \/ ReadSettings(r) \/ Post(r)

-----------------------------------------------------------------------------
\* Properties.

\* There is one administrator, or nobody yet: unless a request that empties or seeds the
\* table ran next to another (the constructor of UserService, RegisterUsers, RemoveUsers).
SoleAdmin == "users" \in clash \/ users = {} \/ \E a \in users : {u \in users : u.role = "Admin"} = {a}

\* Confirming a user does not undo a change of its password, nor the other way round,
\* unless the two ran at once for one name: both write the whole row they read
\* (UserService.ChangePassword, RegisterUsers).
AccountsKept == \A u \in users : u.name \in clash \/ u \in owed

\* Who registers does so because the settings page was last told to allow it, and with
\* the role it asks for, unless settings were saved meanwhile (UserController.Login):
\* the agent's page, too, writes the row these flags are in.
RegistrationFollows ==
  \A r \in Requests : Is(r, "register", "save") /\ "settings" \notin clash
                        => asked.flags.AllowRegistration /\ req[r].kept = RoleBy(asked.flags)
=============================================================================
