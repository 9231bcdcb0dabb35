--------------------------- MODULE GvrpSupervisor ---------------------------
(***************************************************************************)
(* GVRPHostedService: the background service that keeps one capture task   *)
(* for each port whose GVRP is on.  Web requests write the wanted state    *)
(* into a dictionary nothing protects (GVRPActivePortsSingleton).  Every   *)
(* five seconds the service walks the dictionary, starts the listeners     *)
(* that are missing and, for a port that was turned off, cancels the one   *)
(* token all listeners share and starts the others again.  An exception    *)
(* ends the service for good and nobody hears of it; so does one in a      *)
(* capture task (FrameReader.StartCapturing).                              *)
(***************************************************************************)
EXTENDS Naturals

CONSTANTS Nics,    \* the Ethernet ports
          Faulty,  \* the ports whose capture may fail for a reason of its own
          Slots    \* bound: how many capture tasks exist at once, dying ones too

ASSUME SupervisorAssumption == Faulty \subseteq Nics /\ "none" \notin Nics

VARIABLES ports,    \* InterfaceStates: port |-> "absent", "Off" or "Listening"
          active,   \* _interfaceActiveTasks: port |-> "absent", "no" or "yes"
          pc,       \* where BackgroundProcessing is
          at,       \* interfaceName of the outer foreach, or "none" between two ports
          outer,    \* the keys the outer foreach has not reached
          inner,    \* the keys the inner foreach has not reached
          stale,    \* the foreachs whose dictionary was written to since they began
          task,     \* slot |-> Idle or the capture task in it
          opened,   \* the ports whose capture device is open
          failed,   \* history: ports whose last listener ended with an exception
          edited    \* history: ports edited since the last walk began

service == <<active, pc, at, outer, inner>>
vars == <<ports, active, pc, at, outer, inner, stale, task, opened, failed, edited>>

Idle == [pc |-> "idle"]

\* A capture task: its port, whether its token still stands, and where it is.
Capture == [nic : Nics, live : BOOLEAN, pc : {"queued", "test", "get", "batch"}]

Keys == {n \in Nics : ports[n] # "absent"}

Live(s) == task[s] # Idle /\ task[s].live

Listened(n) == \E s \in Slots : Live(s) /\ task[s].nic = n

Captured(n) == \E s \in Slots : task[s] # Idle /\ task[s].nic = n

Init == /\ ports = [n \in Nics |-> "absent"]
        /\ active = [n \in Nics |-> "absent"]
        /\ pc = "delay"
        /\ at = "none"
        /\ outer = {} /\ inner = {} /\ stale = {}
        /\ task = [s \in Slots |-> Idle]
        /\ opened = {} /\ failed = {} /\ edited = {}

-----------------------------------------------------------------------------
\* The web threads: EthernetController.Edit.

\* Every write, even of the value that was there, invalidates a foreach under way.
Edit(n, state) ==
  /\ ports' = [ports EXCEPT ![n] = state]
  /\ stale' = (IF pc \in {"next", "visit", "off", "restart"} THEN {"outer"} ELSE {})
              \cup (IF pc = "restart" THEN {"inner"} ELSE {})
  /\ edited' = IF pc = "dead" THEN {} ELSE edited \cup {n}
  /\ UNCHANGED <<service, task, opened, failed>>

-----------------------------------------------------------------------------
\* The service.

\* Five seconds are over; the walk begins.
Poll ==
  /\ pc = "delay"
  /\ pc' = "next"
  /\ outer' = Keys
  /\ stale' = {}
  /\ edited' = {}
  /\ UNCHANGED <<ports, active, at, inner, task, opened, failed>>

\* Mutant: the foreach comes back to the port it is at.
NextPort_Again(n) ==
  /\ pc = "next"
  /\ "outer" \notin stale
  /\ n \in outer
  /\ at' = n
  /\ pc' = "visit"
  /\ UNCHANGED <<ports, active, outer, inner, stale, task, opened, failed, edited>>

\* The outer foreach moves to one of its keys.
NextPort(n) ==
  /\ pc = "next"
  /\ "outer" \notin stale
  /\ n \in outer
  /\ outer' = outer \ {n}
  /\ at' = n
  /\ pc' = "visit"
  /\ UNCHANGED <<ports, active, inner, stale, task, opened, failed, edited>>

WalkEnds ==
  /\ pc = "next"
  /\ "outer" \notin stale
  /\ outer = {}
  /\ pc' = "delay"
  /\ UNCHANGED <<ports, active, at, outer, inner, stale, task, opened, failed, edited>>

\* StartNew: the port and its capture device are found and the task is queued, or
\* First() throws and nobody notices.
Spawn(n) ==
  \/ /\ \E s \in Slots :
          /\ task[s] = Idle
          /\ task' = [task EXCEPT ![s] = [nic |-> n, live |-> TRUE, pc |-> "queued"]]
     /\ failed' = failed \ {n}
  \/ /\ n \in Faulty
     /\ failed' = failed \cup {n}
     /\ UNCHANGED task

\* Mutant: the listener is started whether or not one is running.
Visit_Always ==
  /\ pc = "visit"
  /\ IF ports[at] = "Listening"
     THEN /\ active' = [active EXCEPT ![at] = "yes"]
          /\ Spawn(at)
     ELSE UNCHANGED <<active, task, failed>>
  /\ pc' = "off"
  /\ UNCHANGED <<ports, at, outer, inner, stale, opened, edited>>

\* A port that should listen and is not known to gets a listener.
Visit ==
  /\ pc = "visit"
  /\ IF ports[at] = "Listening" /\ active[at] # "yes"
     THEN /\ active' = [active EXCEPT ![at] = "yes"]
          /\ Spawn(at)
     ELSE UNCHANGED <<active, task, failed>>
  /\ pc' = "off"
  /\ UNCHANGED <<ports, at, outer, inner, stale, opened, edited>>

\* Nothing to turn off at this port.
StillOn ==
  /\ pc = "off"
  /\ ports[at] # "Off" \/ active[at] = "no"
  /\ pc' = "next"
  /\ at' = "none"
  /\ UNCHANGED <<ports, active, outer, inner, stale, task, opened, failed, edited>>

\* Mutant: nobody cancels the token.
TurnOff_NoCancel ==
  /\ pc = "off"
  /\ ports[at] = "Off" /\ active[at] = "yes"
  /\ active' = [active EXCEPT ![at] = "no"]
  /\ pc' = "restart"
  /\ inner' = Keys
  /\ at' = "none"
  /\ UNCHANGED <<ports, outer, stale, task, opened, failed, edited>>

\* The port was turned off: its flag goes and every listener is cancelled.
TurnOff ==
  /\ pc = "off"
  /\ ports[at] = "Off" /\ active[at] = "yes"
  /\ task' = [s \in Slots |-> IF task[s] = Idle THEN Idle
                              ELSE [task[s] EXCEPT !.live = FALSE]]
  /\ active' = [active EXCEPT ![at] = "no"]
  /\ pc' = "restart"
  /\ inner' = Keys
  /\ at' = "none"
  /\ UNCHANGED <<ports, outer, stale, opened, failed, edited>>

\* Mutant: only listeners that were not flagged are started again.
Restart_Flagged(n) ==
  /\ pc = "restart"
  /\ "inner" \notin stale
  /\ n \in inner
  /\ inner' = inner \ {n}
  /\ IF ports[n] = "Listening" /\ active[n] # "yes"
     THEN /\ active' = [active EXCEPT ![n] = "yes"]
          /\ Spawn(n)
     ELSE UNCHANGED <<active, task, failed>>
  /\ UNCHANGED <<ports, pc, at, outer, stale, opened, edited>>

\* The inner foreach starts the listener of a port that should have one.
Restart(n) ==
  /\ pc = "restart"
  /\ "inner" \notin stale
  /\ n \in inner
  /\ inner' = inner \ {n}
  /\ IF ports[n] = "Listening"
     THEN /\ active' = [active EXCEPT ![n] = "yes"]
          /\ Spawn(n)
     ELSE UNCHANGED <<active, task, failed>>
  /\ UNCHANGED <<ports, pc, at, outer, stale, opened, edited>>

RestartEnds ==
  /\ pc = "restart"
  /\ "inner" \notin stale
  /\ inner = {}
  /\ pc' = "next"
  /\ UNCHANGED <<ports, active, at, outer, inner, stale, task, opened, failed, edited>>

\* The service dies: a foreach finds its dictionary written to, or the flag of a
\* port that is off and never listened is not in _interfaceActiveTasks.
Die ==
  /\ \/ pc = "next" /\ "outer" \in stale
     \/ pc = "restart" /\ "inner" \in stale
     \/ pc = "off" /\ ports[at] = "Off" /\ active[at] = "absent"
  /\ pc' = "dead"
  /\ at' = "none" /\ outer' = {} /\ inner' = {} /\ stale' = {} /\ edited' = {}
  /\ UNCHANGED <<ports, active, task, opened, failed>>

-----------------------------------------------------------------------------
\* The capture tasks.

At(s, where) == task[s] # Idle /\ task[s].pc = where

Goes(s, where) == task' = [task EXCEPT ![s].pc = where]

Ends(s) == task' = [task EXCEPT ![s] = Idle]

Others == UNCHANGED <<ports, service, stale, edited>>

\* The thread pool runs the task; opening an open device does nothing.
Open(s) ==
  /\ At(s, "queued") /\ task[s].live
  /\ Goes(s, "test")
  /\ opened' = opened \cup {task[s].nic}
  /\ UNCHANGED failed /\ Others

\* The token was cancelled before the task ran: it never does.
Abandon(s) ==
  /\ At(s, "queued") /\ ~task[s].live
  /\ Ends(s)
  /\ UNCHANGED <<opened, failed>> /\ Others

\* Mutant: the loop does not look at the token.
LoopTest_Blind(s) ==
  /\ At(s, "test")
  /\ Goes(s, "get")
  /\ UNCHANGED <<opened, failed>> /\ Others

\* The while condition holds.
LoopTest(s) ==
  /\ At(s, "test") /\ task[s].live
  /\ Goes(s, "get")
  /\ UNCHANGED <<opened, failed>> /\ Others

\* The token was cancelled: the task closes the device all tasks of the port share.
Close(s) ==
  /\ At(s, "test") /\ ~task[s].live
  /\ Ends(s)
  /\ opened' = opened \ {task[s].nic}
  /\ UNCHANGED failed /\ Others

\* GetNextPacket returns null or a frame of another kind.
NoFrame(s) ==
  /\ At(s, "get") /\ task[s].nic \in opened
  /\ Goes(s, "test")
  /\ UNCHANGED <<opened, failed>> /\ Others

\* A GVRP frame: 50 more reads collect the batch.
GvrpFrame(s) ==
  /\ At(s, "get") /\ task[s].nic \in opened
  /\ Goes(s, "batch")
  /\ UNCHANGED <<opened, failed>> /\ Others

\* AnalyseFrame handles the batch, the token cancelled or not.
Analyse(s) ==
  /\ At(s, "batch") /\ task[s].nic \in opened
  /\ Goes(s, "test")
  /\ UNCHANGED <<opened, failed>> /\ Others

\* A read finds the device closed by another task of the port.
ReadFault(s) ==
  /\ At(s, "get") \/ At(s, "batch")
  /\ task[s].nic \notin opened
  /\ Ends(s)
  /\ failed' = IF task[s].live THEN failed \cup {task[s].nic} ELSE failed
  /\ UNCHANGED opened /\ Others

\* Opening, reading or AnalyseFrame throws: the task is gone, the device stays open.
TaskFault(s) ==
  /\ task[s] # Idle /\ task[s].nic \in Faulty
  /\ Ends(s)
  /\ failed' = IF task[s].live THEN failed \cup {task[s].nic} ELSE failed
  /\ UNCHANGED opened /\ Others

\* The process dies and starts again; nothing of this is kept.
Crash ==
  /\ ports' = [n \in Nics |-> "absent"]
  /\ active' = [n \in Nics |-> "absent"]
  /\ pc' = "delay"
  /\ task' = [s \in Slots |-> Idle]
  /\ at' = "none" /\ outer' = {} /\ inner' = {} /\ stale' = {}
  /\ opened' = {} /\ failed' = {} /\ edited' = {}

Service == \/ Poll \/ WalkEnds \/ Visit \/ StillOn \/ TurnOff \/ RestartEnds \/ Die
           \/ \E n \in Nics : NextPort(n) \/ Restart(n)

Task(s) == \/ Open(s) \/ Abandon(s) \/ LoopTest(s) \/ Close(s)
           \/ NoFrame(s) \/ GvrpFrame(s) \/ Analyse(s) \/ ReadFault(s)

Next == \/ \E n \in Nics, state \in {"Off", "Listening"} : Edit(n, state)
        \/ Service
        \/ \E s \in Slots : Task(s) \/ TaskFault(s)
        \/ Crash

Spec == Init /\ [][Next]_vars

\* The service and the tasks keep running; nobody must edit, nothing must fail.
FairSpec == Spec /\ WF_vars(Service) /\ \A s \in Slots : WF_vars(Task(s))

-----------------------------------------------------------------------------
\* Properties.

\* The state is well typed; the outer foreach is at a port exactly while it works on
\* one and never sees it twice, and the inner foreach has keys only while it runs.
TypeOK ==
  /\ ports \in [Nics -> {"absent", "Off", "Listening"}]
  /\ active \in [Nics -> {"absent", "no", "yes"}]
  /\ pc \in {"delay", "next", "visit", "off", "restart", "dead"}
  /\ at \in Nics \cup {"none"}
  /\ outer \in SUBSET Nics /\ inner \in SUBSET Nics
  /\ stale \in SUBSET {"outer", "inner"}
  /\ task \in [Slots -> {Idle} \cup Capture]
  /\ opened \in SUBSET Nics /\ failed \in SUBSET Nics /\ edited \in SUBSET Nics
  /\ pc \in {"visit", "off"} <=> at # "none"
  /\ at \notin outer
  /\ inner # {} => pc = "restart"

\* However edits, restarts, failures and dying tasks interleave, a port never has two
\* listeners whose token stands: it would handle each GVRP frame twice.
SoleListener ==
  \A r, s \in Slots : Live(r) /\ Live(s) /\ task[r].nic = task[s].nic => r = s

\* A listener the service does not know of could never be turned off.
LiveIsFlagged == \A s \in Slots : Live(s) => active[task[s].nic] = "yes"

\* Between two walks the flag of a port nobody edited since says what was asked for,
\* and a flagged port has a listener, unless that ended with an exception: turning
\* one port off loses none of the others.
WalkSettles ==
  pc = "delay" =>
    \A n \in Nics :
      /\ n \notin edited => (active[n] = "yes" <=> ports[n] = "Listening")
      /\ active[n] = "yes" /\ n \notin failed => Listened(n)

\* A port turned off is not captured for ever, as long as the service lives: its
\* listener is cancelled and, a batch of frames or not, comes to its end.
OffIsHeeded ==
  \A n \in Nics :
    ports[n] = "Off" ~> ~Captured(n) \/ ports[n] = "Listening" \/ pc = "dead"

\* A port turned on is listened to before long, as long as the service lives.
OnIsHeeded ==
  \A n \in Nics :
    ports[n] = "Listening" ~>
      Listened(n) \/ ports[n] # "Listening" \/ n \in failed \/ pc = "dead"

\* Readme.MD:14 promises GVRP, "automatic configuration of VLANs": a port turned on
\* and left on is listened to.
GvrpRuns ==
  \A n \in Nics :
    ports[n] = "Listening" ~>
      Listened(n) \/ ports[n] # "Listening" \/ n \in failed
=============================================================================
