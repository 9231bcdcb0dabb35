----------------------------- MODULE AgentSetup -----------------------------
(***************************************************************************)
(* SNMPServices.Handle: the two handlers that stop the SNMP agent, change  *)
(* its files and start it again.  Setting it up takes the settings row     *)
(* along: it is read before the packages are installed and written back    *)
(* after the agent was started.  The configuration is longer than the      *)
(* buffer of the stream it goes through: WriteAsync puts its first 4096    *)
(* bytes into the file, and the rest follows when the method returns and   *)
(* disposes of the stream, which is after the agent was started.           *)
(***************************************************************************)
EXTENDS SettingsTable

CONSTANTS SnmpUsers,     \* the SNMPv3 users the page may add
          MaxFailures    \* bound: how many commands fail for a reason of their own

ASSUME AgentAssumption == MaxFailures \in Nat /\ {"packaged", "nothing"} \cap Configs = {}

VARIABLES file,       \* /etc/snmp/snmpd.conf: whose text its first 4096 bytes and its rest are
          agent,      \* snmpd: "off", "starting" or "on", the file it read, its users
          pending,    \* users net-snmp-config has left for the next start to read
          failures,   \* how many commands have failed so far
          wanted,     \* history: the users the page was asked for
          broken      \* history: a request ended between stop and start, none started since

agentVars == <<file, agent, pending, failures, wanted, broken>>

Text == Configs \cup {"packaged", "nothing"}

\* A file that one writer wrote.
Whole(c) == [head |-> c, tail |-> c]

AgentInit == /\ file = Whole("packaged")
             /\ agent = [state |-> "on", read |-> file, users |-> {}]
             /\ pending = {}
             /\ failures = 0
             /\ wanted = {}
             /\ broken = FALSE

-----------------------------------------------------------------------------
\* The two handlers.

OpenSetup(r, c) ==
  /\ Begin(r, Request("setup", "read", c, {}, {"settings", "agent"}))
  /\ UNCHANGED <<settings, asked, agentVars>>

OpenAddUser(r, u) ==
  /\ Begin(r, Request("addUser", "stop", u, {}, {"agent"}))
  /\ wanted' = wanted \cup {u}
  /\ UNCHANGED <<settings, asked, file, agent, pending, failures, broken>>

SetupRead(r) ==
  /\ Is(r, "setup", "read")
  /\ Keeps(r, settings, "install")
  /\ UNCHANGED <<settings, started, asked, clash, agentVars>>

\* The packages are installed and the template is read.
Install(r) ==
  /\ Is(r, "setup", "install")
  /\ Goes(r, "stop")
  /\ UNCHANGED <<settings, started, asked, clash, agentVars>>

\* Mutant: the agent is stopped for a new configuration only.
Stop_Setup(r) ==
  /\ \/ Is(r, "setup", "stop") /\ Goes(r, "create") /\ agent' = [agent EXCEPT !.state = "off"]
     \/ Is(r, "addUser", "stop") /\ Goes(r, "useradd") /\ UNCHANGED agent
  /\ UNCHANGED <<settings, started, asked, clash, file, pending, failures, wanted, broken>>

\* systemctl stop snmpd.
Stop(r) ==
  /\ \/ Is(r, "setup", "stop") /\ Goes(r, "create")
     \/ Is(r, "addUser", "stop") /\ Goes(r, "useradd")
  /\ agent' = [agent EXCEPT !.state = "off"]
  /\ UNCHANGED <<settings, started, asked, clash, file, pending, failures, wanted, broken>>

\* The file is copied away and opened anew, empty.
CreateText(r) ==
  /\ Is(r, "setup", "create")
  /\ Goes(r, "write")
  /\ file' = Whole("nothing")
  /\ UNCHANGED <<settings, started, asked, clash, agent, pending, failures, wanted, broken>>

\* WriteAsync: what does not fit into the buffer reaches the file.
Write(r) ==
  /\ Is(r, "setup", "write")
  /\ Goes(r, "start")
  /\ file' = [file EXCEPT !.head = req[r].form]
  /\ UNCHANGED <<settings, started, asked, clash, agent, pending, failures, wanted, broken>>

\* Mutant: the handler is over once the user is there.
UserAdd_Over(r) ==
  /\ Is(r, "addUser", "useradd")
  /\ Returns(r)
  /\ pending' = IF agent.state = "off" THEN pending \cup {req[r].form} ELSE pending
  /\ UNCHANGED <<settings, started, asked, clash, file, agent, failures, wanted, broken>>

\* net-snmp-config: it refuses to work next to an agent that runs; the handler returns
\* the message, which the page drops.
UserAdd(r) ==
  /\ Is(r, "addUser", "useradd")
  /\ IF agent.state = "off"
     THEN Goes(r, "start") /\ pending' = pending \cup {req[r].form}
     ELSE Returns(r) /\ UNCHANGED pending
  /\ UNCHANGED <<settings, started, asked, clash, file, agent, failures, wanted, broken>>

\* systemctl start snmpd: an agent that runs is left alone.
Start(r) ==
  /\ \/ Is(r, "setup", "start") /\ Goes(r, "save")
     \/ Is(r, "addUser", "start") /\ Returns(r)
  /\ agent' = [agent EXCEPT !.state = IF @ = "off" THEN "starting" ELSE @]
  /\ broken' = FALSE
  /\ UNCHANGED <<settings, started, asked, clash, file, pending, failures, wanted>>

\* The agent reads its files.  Whether systemctl waits for that is its unit's affair.
Boot == /\ agent.state = "starting"
        /\ agent' = [state |-> "on", read |-> file, users |-> agent.users \cup pending]
        /\ pending' = {}
        /\ UNCHANGED <<settings, req, started, asked, clash, file, failures, wanted, broken>>

SetupSave(r) ==
  /\ Is(r, "setup", "save")
  /\ SaveConfig(r)
  /\ Goes(r, "dispose")
  /\ UNCHANGED <<started, clash, agentVars>>

\* Mutant: the stream is neither flushed nor disposed of.
Dispose_Never(r) ==
  /\ Is(r, "setup", "dispose")
  /\ Returns(r)
  /\ UNCHANGED <<settings, started, asked, clash, agentVars>>

\* The stream is disposed of: what was left in its buffers goes behind the head.
Dispose(r) ==
  /\ Is(r, "setup", "dispose")
  /\ Returns(r)
  /\ file' = [file EXCEPT !.tail = req[r].form]
  /\ UNCHANGED <<settings, started, asked, clash, agent, pending, failures, wanted, broken>>

\* Where a request has stopped the agent and still has to start it.
Holds(r) == \/ req[r].op = "setup" /\ req[r].at \in {"create", "write", "start"}
            \/ req[r].op = "addUser" /\ req[r].at \in {"useradd", "start"}

\* A command, a file operation or a save fails, and the exception ends the handler; a
\* stream that is open is disposed of on the way.
Fail(r) ==
  /\ failures < MaxFailures
  /\ failures' = failures + 1
  /\ \/ req[r].op = "setup" /\ req[r].at \in {"install", "stop", "create", "write"} /\ Returns(r)
     \/ req[r].op = "setup" /\ req[r].at \in {"start", "save"} /\ Goes(r, "dispose")
     \/ req[r].op = "addUser" /\ Returns(r)
  /\ broken' = (broken \/ Holds(r))
  /\ UNCHANGED <<settings, started, asked, clash, file, agent, pending, wanted>>

AgentNext ==
  \/ Boot
  \/ \E r \in Requests :
       \/ \E c \in Configs : OpenSetup(r, c)
       \/ \E u \in SnmpUsers : OpenAddUser(r, u)
       \/ SetupRead(r) \/ Install(r) \/ Stop(r) \/ CreateText(r) \/ Write(r) \/ UserAdd(r)
       \/ Start(r) \/ SetupSave(r) \/ Dispose(r) \/ Fail(r)

-----------------------------------------------------------------------------
\* Properties.

\* The agent is never left stopped by requests that overlap: where it is off, a request
\* that stopped it has still to start it, or one failed or died on the way (both
\* handlers of SNMPServices stop and start the same agent).
AgentComesBack == agent.state = "off" => broken \/ \E r \in Requests : Holds(r)
=============================================================================
