---------------------------- MODULE TrapReceiver ----------------------------
(***************************************************************************)
(* TrapReceiverHostedService: the background service that listens for SNMP *)
(* traps on the ports of the trap users the pages keep in a table.  Every  *)
(* five seconds it compares the users it serves with the table; if they    *)
(* differ it loads the table, builds a registry of users, stops the engine *)
(* it has and starts a new one.  No exception is caught.  One in the first *)
(* pass, which the host runs before it starts the web server, ends the     *)
(* process; a later one ends the service and nobody hears of it.           *)
(***************************************************************************)
EXTENDS Naturals, FiniteSets

CONSTANTS Ports,      \* the UDP ports users may name
          MaxUsers    \* bound: how many users are ever added

ASSUME TrapAssumption == MaxUsers \in Nat

VARIABLES table,     \* the rows of TrapUsers
          nextId,    \* the key the next row gets
          active,    \* _activeTrapUsers
          served,    \* the users in the registry of the running engine
          bound,     \* the ports the engine listens on
          taken,     \* the ports other programs listen on
          pc,        \* where BackgroundProcessing is, "dead", or "down" with the process
          first,     \* it is in its first pass
          touched    \* history: the table changed since the service last read it

database == <<table, nextId>>
vars == <<table, nextId, active, served, bound, taken, pc, first, touched>>

\* A trap user: its key, its port, and what is wrong with it: the engine id cannot be
\* parsed ("key"), or the port is no port number ("port").  The page accepts both.
Row == [id : 1..MaxUsers, port : Ports, flaw : {"none", "key", "port"}]

Ids(rows) == {r.id : r \in rows}

PortsOf(rows) == {r.port : r \in rows}

Init == /\ table = {} /\ nextId = 1
        /\ active = {} /\ served = {} /\ bound = {}
        /\ taken \in SUBSET Ports
        /\ pc = "poll" /\ first = TRUE /\ touched = FALSE

-----------------------------------------------------------------------------
\* The pages, served once the host has started.

Web == pc # "down" /\ ~first

\* Mutant: without AUTOINCREMENT the key of a removed last row is used again.
NewId_Again == Cardinality(table) + 1

\* The keys of the table are AUTOINCREMENT: none is ever used again.
NewId == nextId

AddUser(p, flaw) ==
  /\ Web
  /\ nextId <= MaxUsers
  /\ table' = table \cup {[id |-> NewId, port |-> p, flaw |-> flaw]}
  /\ nextId' = nextId + 1
  /\ touched' = TRUE
  /\ UNCHANGED <<active, served, bound, taken, pc, first>>

RemoveUser(r) ==
  /\ Web
  /\ r \in table
  /\ table' = table \ {r}
  /\ touched' = TRUE
  /\ UNCHANGED <<nextId, active, served, bound, taken, pc, first>>

-----------------------------------------------------------------------------
\* The service.

\* Mutant: only the numbers of users are compared.
HasNewUsers_Count == Cardinality(table) # Cardinality(active)

\* The keys in the table are not those of the users it serves.
HasNewUsers == Ids(table) # Ids(active)

\* Nothing to do: the delay of five seconds begins.
Rest == /\ pc = "poll" /\ ~HasNewUsers
        /\ pc' = "delay" /\ first' = FALSE /\ touched' = FALSE
        /\ UNCHANGED <<database, active, served, bound, taken>>

Notice == /\ pc = "poll" /\ HasNewUsers
          /\ pc' = "load"
          /\ UNCHANGED <<database, active, served, bound, taken, first, touched>>

\* GetUsers reads the table once more.
Load == /\ pc = "load"
        /\ active' = table
        /\ pc' = "build" /\ touched' = FALSE
        /\ UNCHANGED <<database, served, bound, taken, first>>

\* A privacy provider for every user, while the old engine still runs.
Build == /\ pc = "build"
         /\ \A r \in active : r.flaw # "key"
         /\ pc' = "stop"
         /\ UNCHANGED <<database, active, served, bound, taken, first, touched>>

\* Mutant: the old engine is not stopped.
StopEngine_Leak == /\ pc = "stop"
                   /\ pc' = "start"
                   /\ UNCHANGED <<database, active, served, bound, taken, first, touched>>

StopEngine == /\ pc = "stop"
              /\ bound' = {} /\ served' = {}
              /\ pc' = "start"
              /\ UNCHANGED <<database, active, taken, first, touched>>

\* A binding for each port, and the new engine listens on all of them.
StartEngine == /\ pc = "start"
               /\ \A r \in active : r.flaw # "port"
               /\ PortsOf(active) \cap taken = {}
               /\ bound' = PortsOf(active) /\ served' = active
               /\ pc' = "delay" /\ first' = FALSE
               /\ UNCHANGED <<database, active, taken, touched>>

\* The engine id of a user cannot be parsed; or one of its ports is no port, or not
\* free, in which case the engine lets go of those it already bound.
Fault == \/ pc = "build" /\ \E r \in active : r.flaw = "key"
         \/ pc = "start" /\ \E r \in active : r.flaw = "port" \/ r.port \in taken

\* Mutant: the loop catches the exception and goes on.
Die_Caught == /\ Fault
              /\ pc' = "delay" /\ first' = FALSE
              /\ UNCHANGED <<database, active, served, bound, taken, touched>>

\* In the first pass the exception reaches the host, which gives up.
Die == /\ Fault
       /\ pc' = IF first THEN "down" ELSE "dead"
       /\ active' = IF first THEN {} ELSE active
       /\ UNCHANGED <<database, served, bound, taken, first, touched>>

\* The five seconds are over.
Wake == /\ pc = "delay"
        /\ pc' = "poll"
        /\ UNCHANGED <<database, active, served, bound, taken, first, touched>>

-----------------------------------------------------------------------------
\* The process, and the rest of the machine.

Crash == /\ pc # "down"
         /\ active' = {} /\ served' = {} /\ bound' = {}
         /\ pc' = "down" /\ first' = TRUE
         /\ UNCHANGED <<database, taken, touched>>

\* systemd starts the process again.
Boot == /\ pc = "down"
        /\ pc' = "poll"
        /\ UNCHANGED <<database, active, served, bound, taken, first, touched>>

\* Another program opens or closes a port.
Rival(p) == /\ p \notin bound
            /\ taken' = IF p \in taken THEN taken \ {p} ELSE taken \cup {p}
            /\ UNCHANGED <<database, active, served, bound, pc, first, touched>>

Service == Rest \/ Notice \/ Load \/ Build \/ StopEngine \/ StartEngine \/ Die \/ Wake

Next == \/ \E p \in Ports, flaw \in {"none", "key", "port"} : AddUser(p, flaw)
        \/ \E r \in Row : RemoveUser(r)
        \/ Service
        \/ Crash \/ Boot
        \/ \E p \in Ports : Rival(p)

Spec == Init /\ [][Next]_vars

\* The timer and the thread pool keep the service going.
FairSpec == Spec /\ WF_vars(Service)

-----------------------------------------------------------------------------
\* Properties.

\* Traps of the user with this key are received.
Listened(i) == \E r \in served : r.id = i /\ r.port \in bound

\* The state is well typed; the first pass is over once the service rests or is dead,
\* and a new engine is started only after the old one let go of its ports.
TypeOK ==
  /\ table \in SUBSET Row /\ active \in SUBSET Row /\ served \in SUBSET Row
  /\ nextId \in 1..(MaxUsers + 1)
  /\ bound \in SUBSET Ports /\ taken \in SUBSET Ports
  /\ pc \in {"poll", "load", "build", "stop", "start", "delay", "dead", "down"}
  /\ first \in BOOLEAN /\ touched \in BOOLEAN
  /\ pc \in {"delay", "dead"} => ~first
  /\ pc = "start" => bound = {}

\* Whenever the loop is alive and not changing engines, the engine has exactly the
\* users the service takes for served, on their ports: no failure leaves it resting
\* with a list that HasNewUsers will never find different from the table again.
ServesActive ==
  pc \in {"poll", "load", "delay"} => served = active /\ bound = PortsOf(active)

\* A resting service serves the table, if nobody changed that since it was read:
\* however users were removed and added while it slept or loaded, equal keys are
\* equal users.
NoChangeMissed == pc = "delay" /\ ~touched => active = table

\* Users added are listened to before long and users removed no longer, as long as
\* the service and the process live.
TableIsFollowed ==
  \A i \in 1..MaxUsers :
    /\ i \in Ids(table) ~> \/ Listened(i) \/ i \notin Ids(table)
                           \/ pc \in {"dead", "down"}
    /\ i \notin Ids(table) ~> \/ ~Listened(i) \/ i \in Ids(table)
                              \/ pc \in {"dead", "down"}
=============================================================================
