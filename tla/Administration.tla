--------------------------- MODULE Administration ---------------------------
(***************************************************************************)
(* The pages that share one database: accounts, settings and the SNMP      *)
(* agent, in one process that may die at any step.  The database, the      *)
(* agent and its files outlive it.                                         *)
(***************************************************************************)
EXTENDS Accounts, AgentSetup

CONSTANT MaxCrashes   \* bound: how often the process dies

ASSUME CrashAssumption == MaxCrashes \in Nat

VARIABLE crashes   \* how often the process died so far

tableVars == <<settings, req, started, asked, clash>>
vars == <<tableVars, accountVars, agentVars, crashes>>

Init == SettingsInit /\ AccountsInit /\ AgentInit /\ crashes = 0

\* What a stream had in its buffers is lost with the process.
Crash ==
  /\ crashes < MaxCrashes
  /\ \E r \in Requests : req[r].op # "none"
  /\ crashes' = crashes + 1
  /\ req' = [r \in Requests |-> Idle]
  /\ broken' = (broken \/ \E r \in Requests : Holds(r))
  /\ UNCHANGED <<settings, started, asked, clash, accountVars,
                 file, agent, pending, failures, wanted>>

Next == \/ AccountsNext /\ UNCHANGED <<agentVars, crashes>>
        \/ AgentNext /\ UNCHANGED <<accountVars, crashes>>
        \/ Crash

Spec == Init /\ [][Next]_vars

-----------------------------------------------------------------------------
\* Types.

AccountRows == [id : 1..lastId, name : {"admin"} \cup {f.name : f \in Registrations},
            password : {"admin"} \cup {f.password : f \in Registrations} \cup {f.new : f \in Renewals},
            role : Roles]

File == [head : Text, tail : Text]

TypeOK ==
  /\ settings \in Row /\ asked \in Row
  /\ started \in 0..MaxRequests
  /\ DOMAIN req = Requests
  /\ lastId \in Nat
  /\ users \in SUBSET AccountRows /\ owed \in SUBSET AccountRows
  /\ file \in File
  /\ agent \in [state : {"off", "starting", "on"}, read : File, users : SUBSET SnmpUsers]
  /\ pending \in SUBSET SnmpUsers
  /\ failures \in 0..MaxFailures /\ crashes \in 0..MaxCrashes
  /\ wanted \in SUBSET SnmpUsers
  /\ broken \in BOOLEAN

-----------------------------------------------------------------------------
\* Properties.

\* Nothing but requests that ran one after the other, to their ends.
Calm == /\ failures = 0 /\ crashes = 0
        /\ "agent" \notin clash
        /\ \A r \in Requests : req[r].op \notin {"setup", "addUser"}

\* A user the page was asked for is known to the agent that runs, if nothing failed and no
\* two requests changed the agent at once (SNMPServices.Handle(SNMPUser)).
UsersAreServed == Calm /\ agent.state = "on" => wanted \subseteq agent.users

\* The setup page shows what is in the agent's file, if also no two requests saved
\* settings at once (SNMPController.SetupSNMP, SNMPServices.Handle(SNMPConfiguration)).
PageShowsFile == Calm /\ "settings" \notin clash
                   => file \in {Whole("packaged"), Whole(settings.snmp)}

\* The configuration that was set up is the one the agent runs with, traps included
\* (the page's trap receiver fields, and the template's trap2sink line).
AgentHasConfig == Calm /\ agent.state = "on" => agent.read = file
=============================================================================
