--------------------------- MODULE SettingsTable ---------------------------
(***************************************************************************)
(* The row of application settings, and the web requests that work on the  *)
(* database.  A request is served by statements of its own thread: each    *)
(* query and each SaveChanges is one step, and between two steps other     *)
(* requests run.  What a request read it keeps in its context until it     *)
(* saves.  SQLite's asynchronous calls run synchronously, so a handler     *)
(* nobody awaits is over before its request is.                            *)
(***************************************************************************)
EXTENDS Naturals

CONSTANTS Requests,     \* the requests the web server runs at once
          Flags,        \* what the settings page edits
          Configs,      \* what the SNMP setup page edits
          Factory,      \* the row SettingsRepository inserts into an empty table
          MaxRequests   \* bound: how many requests a behaviour starts

Row == [flags : Flags, snmp : Configs]

ASSUME SettingsAssumption == Factory \in Row /\ MaxRequests \in Nat

VARIABLES settings,   \* the row GetSettings returns
          req,        \* the handler each request runs, and how far it is
          started,    \* how many requests were started so far
          asked,      \* history: what the two pages were last told to keep
          clash       \* history: what two requests ever worked on at once, one to change it

\* A request: its handler, its next statement, the form it was posted, what it has
\* read so far and, as history, what it must find unchanged and what it changes.
Request(op, at, form, reads, writes) ==
  [op |-> op, at |-> at, form |-> form, kept |-> {}, reads |-> reads, writes |-> writes]

Idle == Request("none", "none", "none", {}, {})

SettingsInit == /\ settings \in {[Factory EXCEPT !.flags = f] : f \in Flags}
                /\ req = [r \in Requests |-> Idle]
                /\ started = 0
                /\ asked = settings
                /\ clash = {}

Conflicts(a, b) == (a.writes \cap (b.reads \cup b.writes)) \cup (a.reads \cap b.writes)

\* A request enters its handler.
Begin(r, request) ==
  /\ req[r].op = "none"
  /\ started < MaxRequests
  /\ started' = started + 1
  /\ req' = [req EXCEPT ![r] = request]
  /\ clash' = clash \cup UNION {Conflicts(req[o], request) : o \in Requests}

Is(r, op, at) == req[r].op = op /\ req[r].at = at

Goes(r, at) == req' = [req EXCEPT ![r].at = at]

Keeps(r, kept, at) == req' = [req EXCEPT ![r].kept = kept, ![r].at = at]

Returns(r) == req' = [req EXCEPT ![r] = Idle]

\* SaveSettings: Update marks every column of Settings itself, but none of the owned
\* SNMPConfiguration, which the settings page leaves as it was read.
SaveFlags(r) == /\ settings' = [settings EXCEPT !.flags = req[r].form]
                /\ asked' = [asked EXCEPT !.flags = req[r].form]

\* Mutant: a new row is saved instead of the one that was read.
SaveConfig_New(r) == /\ settings' = [Factory EXCEPT !.snmp = req[r].form]
                     /\ asked' = [asked EXCEPT !.snmp = req[r].form]

\* The setup page puts a new SNMPConfiguration in place: the row is written whole, the
\* flags as they were when the request read them.
SaveConfig(r) == /\ settings' = [req[r].kept EXCEPT !.snmp = req[r].form]
                 /\ asked' = [asked EXCEPT !.snmp = req[r].form]

-----------------------------------------------------------------------------
\* Properties.

\* Neither page undoes the other: unless two requests that save settings were under way
\* at once, the row holds what each page was last told to keep.  Both write the flags
\* (SettingsController.Post, SNMPServices.Handle), the one after a moment, the other as
\* it read them before it installed packages and restarted the agent.
SettingsKept == "settings" \notin clash => settings = asked
=============================================================================
