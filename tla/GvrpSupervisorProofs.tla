------------------------ MODULE GvrpSupervisorProofs ------------------------
(***************************************************************************)
(* Proofs about GvrpSupervisor, for any ports and any number of capture    *)
(* tasks: the state is well typed, no port has two listeners, and the      *)
(* service knows of every listener.                                        *)
(***************************************************************************)
EXTENDS GvrpSupervisor, TLAPS

\* While the inner foreach runs, the ports it has not reached have no listener:
\* TurnOff cancelled them all.
Cancelled == pc = "restart" => \A n \in inner : ~Listened(n)

IInv == TypeOK /\ SoleListener /\ LiveIsFlagged /\ Cancelled

\* Spawn keeps the slots well typed.
LEMMA SpawnTyped ==
  ASSUME TypeOK, NEW n \in Nics, Spawn(n)
  PROVE  task' \in [Slots -> {Idle} \cup Capture] /\ failed' \in SUBSET Nics
<1>1. ASSUME NEW s \in Slots,
             task' = [task EXCEPT ![s] = [nic |-> n, live |-> TRUE, pc |-> "queued"]]
      PROVE  task' \in [Slots -> {Idle} \cup Capture]
  <2>1. [nic |-> n, live |-> TRUE, pc |-> "queued"] \in Capture
    BY DEF Capture
  <2> QED BY <1>1, <2>1 DEF TypeOK
<1> QED BY <1>1 DEF Spawn, TypeOK

\* A task in a slot is a capture task.
LEMMA TaskShape ==
  ASSUME TypeOK, NEW s \in Slots, task[s] # Idle
  PROVE  task[s] \in Capture
BY DEF TypeOK

\* A step inside a capture task, or the end of one, keeps the slots well typed.
LEMMA TaskTyped ==
  ASSUME TypeOK, NEW s \in Slots, task[s] # Idle,
         \/ Ends(s)
         \/ \E where \in {"test", "get", "batch"} : Goes(s, where)
  PROVE  task' \in [Slots -> {Idle} \cup Capture]
<1>1. task[s] \in Capture
  BY TaskShape
<1>2. ASSUME NEW where \in {"test", "get", "batch"}
      PROVE  [task[s] EXCEPT !.pc = where] \in Capture
  BY <1>1 DEF Capture
<1>3. task \in [Slots -> {Idle} \cup Capture]
  BY DEF TypeOK
<1> QED BY <1>2, <1>3 DEF Ends, Goes

LEMMA TypeStep == TypeOK /\ [Next]_vars => TypeOK'
<1> SUFFICES ASSUME TypeOK, [Next]_vars
             PROVE  TypeOK'
  OBVIOUS
<1> USE SupervisorAssumption
<1>1. ASSUME NEW n \in Nics, NEW state \in {"Off", "Listening"}, Edit(n, state)
      PROVE  TypeOK'
  BY <1>1 DEF Edit, TypeOK, service
<1>2. CASE Poll
  BY <1>2 DEF Poll, TypeOK, Keys
<1>3. CASE WalkEnds
  BY <1>3 DEF WalkEnds, TypeOK
<1>4. CASE Visit
  <2>1. at \in Nics
    BY <1>4 DEF Visit, TypeOK
  <2>2. CASE ports[at] = "Listening" /\ active[at] # "yes"
    <3>1. task' \in [Slots -> {Idle} \cup Capture] /\ failed' \in SUBSET Nics
      BY <1>4, <2>1, <2>2, SpawnTyped DEF Visit
    <3> QED BY <1>4, <2>1, <2>2, <3>1 DEF Visit, TypeOK
  <2>3. CASE ~(ports[at] = "Listening" /\ active[at] # "yes")
    BY <1>4, <2>3 DEF Visit, TypeOK
  <2> QED BY <2>2, <2>3
<1>5. CASE StillOn
  BY <1>5 DEF StillOn, TypeOK
<1>6. CASE TurnOff
  <2>1. task' \in [Slots -> {Idle} \cup Capture]
    <3>1. ASSUME NEW s \in Slots, task[s] # Idle
          PROVE  [task[s] EXCEPT !.live = FALSE] \in Capture
      BY <3>1, TaskShape DEF Capture
    <3> QED BY <1>6, <3>1 DEF TurnOff
  <2> QED BY <1>6, <2>1 DEF TurnOff, TypeOK, Keys
<1>7. CASE RestartEnds
  BY <1>7 DEF RestartEnds, TypeOK
<1>8. CASE Die
  BY <1>8 DEF Die, TypeOK
<1>9. ASSUME NEW n \in Nics, NextPort(n)
      PROVE  TypeOK'
  BY <1>9 DEF NextPort, TypeOK
<1>10. ASSUME NEW n \in Nics, Restart(n)
       PROVE  TypeOK'
  <2>1. CASE ports[n] = "Listening"
    <3>1. task' \in [Slots -> {Idle} \cup Capture] /\ failed' \in SUBSET Nics
      BY <1>10, <2>1, SpawnTyped DEF Restart
    <3> QED BY <1>10, <2>1, <3>1 DEF Restart, TypeOK
  <2>2. CASE ports[n] # "Listening"
    BY <1>10, <2>2 DEF Restart, TypeOK
  <2> QED BY <2>1, <2>2
<1>11. ASSUME NEW s \in Slots, Task(s) \/ TaskFault(s)
       PROVE  TypeOK'
  <2>1. task[s] # Idle
    BY <1>11 DEF Task, TaskFault, Open, Abandon, LoopTest, Close, NoFrame, GvrpFrame,
                 Analyse, ReadFault, At
  <2>2. Ends(s) \/ \E where \in {"test", "get", "batch"} : Goes(s, where)
    BY <1>11 DEF Task, TaskFault, Open, Abandon, LoopTest, Close, NoFrame, GvrpFrame,
                 Analyse, ReadFault
  <2>3. task' \in [Slots -> {Idle} \cup Capture]
    BY <2>1, <2>2, TaskTyped
  <2>4. task[s].nic \in Nics
    BY <2>1, TaskShape DEF Capture
  <2>5. opened' \in SUBSET Nics /\ failed' \in SUBSET Nics
    BY <1>11, <2>4 DEF Task, TaskFault, Open, Abandon, LoopTest, Close, NoFrame,
                       GvrpFrame, Analyse, ReadFault, TypeOK
  <2>6. Others
    BY <1>11 DEF Task, TaskFault, Open, Abandon, LoopTest, Close, NoFrame, GvrpFrame,
                 Analyse, ReadFault
  <2> QED BY <2>3, <2>5, <2>6 DEF Others, service, TypeOK
<1>12. CASE Crash
  BY <1>12 DEF Crash, TypeOK
<1>13. CASE UNCHANGED vars
  BY <1>13 DEF vars, TypeOK
<1> QED BY <1>1, <1>2, <1>3, <1>4, <1>5, <1>6, <1>7, <1>8, <1>9, <1>10, <1>11, <1>12,
           <1>13 DEF Next, Service

\* In every reachable state the variables are well typed.
THEOREM TypeCorrect == Spec => []TypeOK
<1>1. Init => TypeOK
  BY SupervisorAssumption DEF Init, TypeOK
<1>2. TypeOK /\ [Next]_vars => TypeOK'
  BY TypeStep
<1> QED BY <1>1, <1>2, PTL DEF Spec

-----------------------------------------------------------------------------
\* A step that starts no listener and drops no flag keeps the invariant.
LEMMA NoneNew ==
  ASSUME IInv, TypeOK',
         \A s \in Slots : Live(s)' => Live(s) /\ task'[s].nic = task[s].nic,
         \A n \in Nics : active[n] = "yes" => active'[n] = "yes",
         pc' = "restart" => pc = "restart" /\ inner' \subseteq inner
  PROVE  IInv'
<1>1. SoleListener'
  BY DEF IInv, SoleListener
<1>2. ASSUME NEW s \in Slots, Live(s)'
      PROVE  active'[task'[s].nic] = "yes"
  <2>1. Live(s) /\ task'[s].nic = task[s].nic
    BY <1>2
  <2>2. task[s].nic \in Nics
    BY <2>1, TaskShape DEF IInv, Live, Capture
  <2> QED BY <2>1, <2>2 DEF IInv, LiveIsFlagged
<1>3. LiveIsFlagged'
  BY <1>2 DEF LiveIsFlagged
<1>4. Cancelled'
  BY DEF IInv, Cancelled, Listened
<1> QED BY <1>1, <1>3, <1>4 DEF IInv

\* A listener may start at a port that has none, once its flag is set.
LEMMA SpawnStep ==
  ASSUME IInv, NEW n \in Nics, Spawn(n), ~Listened(n)
  PROVE  /\ SoleListener'
         /\ \A s \in Slots : Live(s)' => \/ task'[s].nic = n
                                         \/ Live(s) /\ task'[s].nic = task[s].nic
<1>1. CASE UNCHANGED task
  BY <1>1 DEF IInv, SoleListener, Live
<1>2. ASSUME NEW s \in Slots,
             task' = [task EXCEPT ![s] = [nic |-> n, live |-> TRUE, pc |-> "queued"]]
      PROVE  /\ SoleListener'
             /\ \A r \in Slots : Live(r)' => \/ task'[r].nic = n
                                             \/ Live(r) /\ task'[r].nic = task[r].nic
  <2>1. task'[s].nic = n /\ \A r \in Slots \ {s} : task'[r] = task[r]
    BY <1>2 DEF IInv, TypeOK
  <2>2. SoleListener'
    BY <2>1 DEF IInv, SoleListener, Live, Listened
  <2> QED BY <2>1, <2>2 DEF Live
<1> QED BY <1>1, <1>2 DEF Spawn

\* The invariant is inductive.
LEMMA IInvStep == IInv /\ [Next]_vars => IInv'
<1> SUFFICES ASSUME IInv, [Next]_vars
             PROVE  IInv'
  OBVIOUS
<1>0. TypeOK'
  BY TypeStep DEF IInv
<1>1. ASSUME NEW n \in Nics, NEW state \in {"Off", "Listening"}, Edit(n, state)
      PROVE  IInv'
  BY <1>0, <1>1, NoneNew DEF Edit, service, Live
<1>2. CASE Poll \/ WalkEnds \/ StillOn \/ RestartEnds \/ Die
  BY <1>0, <1>2, NoneNew DEF Poll, WalkEnds, StillOn, RestartEnds, Die, Live
<1>3. CASE Visit
  <2>1. at \in Nics /\ pc' = "off"
    BY <1>3 DEF Visit, IInv, TypeOK
  <2>2. CASE ports[at] = "Listening" /\ active[at] # "yes"
    <3>1. Spawn(at) /\ active' = [active EXCEPT ![at] = "yes"]
      BY <1>3, <2>2 DEF Visit
    <3>2. ~Listened(at)
      BY <2>2 DEF IInv, LiveIsFlagged, Listened
    <3>3. /\ SoleListener'
          /\ \A s \in Slots : Live(s)' => \/ task'[s].nic = at
                                          \/ Live(s) /\ task'[s].nic = task[s].nic
      BY <2>1, <3>1, <3>2, SpawnStep
    <3>4. LiveIsFlagged'
      BY <2>1, <3>1, <3>3, TaskShape DEF LiveIsFlagged, Live, Capture, IInv, TypeOK
    <3> QED BY <1>0, <2>1, <3>3, <3>4 DEF IInv, Cancelled
  <2>3. CASE ~(ports[at] = "Listening" /\ active[at] # "yes")
    BY <1>0, <1>3, <2>1, <2>3, NoneNew DEF Visit, Live
  <2> QED BY <2>2, <2>3
<1>4. CASE TurnOff
  <2>1. \A s \in Slots : ~Live(s)'
    BY <1>4, TaskShape DEF TurnOff, Live, IInv, TypeOK, Capture
  <2> QED BY <1>0, <2>1 DEF IInv, SoleListener, LiveIsFlagged, Cancelled, Listened
<1>5. ASSUME NEW n \in Nics, NextPort(n)
      PROVE  IInv'
  BY <1>0, <1>5, NoneNew DEF NextPort, Live
<1>6. ASSUME NEW n \in Nics, Restart(n)
      PROVE  IInv'
  <2>1. CASE ports[n] = "Listening"
    <3>1. Spawn(n) /\ active' = [active EXCEPT ![n] = "yes"]
      BY <1>6, <2>1 DEF Restart
    <3>2. ~Listened(n)
      BY <1>6 DEF Restart, IInv, Cancelled
    <3>3. /\ SoleListener'
          /\ \A s \in Slots : Live(s)' => \/ task'[s].nic = n
                                          \/ Live(s) /\ task'[s].nic = task[s].nic
      BY <3>1, <3>2, SpawnStep
    <3>4. LiveIsFlagged'
      BY <3>1, <3>3, TaskShape DEF LiveIsFlagged, Live, Capture, IInv, TypeOK
    <3>5. Cancelled'
      BY <1>6, <3>3 DEF Restart, IInv, Cancelled, Listened
    <3> QED BY <1>0, <3>3, <3>4, <3>5 DEF IInv
  <2>2. CASE ports[n] # "Listening"
    BY <1>0, <1>6, <2>2, NoneNew DEF Restart, Live
  <2> QED BY <2>1, <2>2
<1>7. ASSUME NEW s \in Slots, Task(s) \/ TaskFault(s)
      PROVE  IInv'
  <2>1. task[s] \in Capture
    BY <1>7, TaskShape DEF Task, TaskFault, Open, Abandon, LoopTest, Close, NoFrame,
                           GvrpFrame, Analyse, ReadFault, At, IInv
  <2>2. Ends(s) \/ \E where \in {"test", "get", "batch"} : Goes(s, where)
    BY <1>7 DEF Task, TaskFault, Open, Abandon, LoopTest, Close, NoFrame, GvrpFrame,
                Analyse, ReadFault
  <2>3. \A r \in Slots : Live(r)' => Live(r) /\ task'[r].nic = task[r].nic
    BY <2>1, <2>2 DEF Ends, Goes, Live, IInv, TypeOK, Capture, Idle
  <2>4. Others
    BY <1>7 DEF Task, TaskFault, Open, Abandon, LoopTest, Close, NoFrame, GvrpFrame,
                Analyse, ReadFault
  <2> QED BY <1>0, <2>3, <2>4, NoneNew DEF Others, service
<1>8. CASE Crash
  <2>1. \A s \in Slots : ~Live(s)'
    BY <1>8 DEF Crash, Live
  <2> QED BY <1>0, <1>8, <2>1
          DEF Crash, IInv, SoleListener, LiveIsFlagged, Cancelled
<1>9. CASE UNCHANGED vars
  BY <1>0, <1>9, NoneNew DEF vars, Live
<1> QED BY <1>1, <1>2, <1>3, <1>4, <1>5, <1>6, <1>7, <1>8, <1>9 DEF Next, Service

LEMMA Invariance == Spec => []IInv
<1>1. Init => IInv
  <2>1. Init => TypeOK
    BY SupervisorAssumption DEF Init, TypeOK
  <2> QED BY <2>1 DEF Init, IInv, SoleListener, LiveIsFlagged, Cancelled, Live
<1> QED BY <1>1, IInvStep, PTL DEF Spec

\* No port ever has two listeners whose token stands.
THEOREM OneListenerPerPort == Spec => []SoleListener
<1>1. IInv => SoleListener
  BY DEF IInv
<1> QED BY <1>1, Invariance, PTL

\* The service knows of every listener whose token stands.
THEOREM ListenersAreFlagged == Spec => []LiveIsFlagged
<1>1. IInv => LiveIsFlagged
  BY DEF IInv
<1> QED BY <1>1, Invariance, PTL

-----------------------------------------------------------------------------
\* Why a walk settles.  A write into the dictionary makes the walk stale, and a stale
\* walk ends in Die; a walk that is not stale has settled the ports behind it.

Walking == pc \in {"next", "visit", "off", "restart"}

\* A port has a flag only if it was edited, and a walk is stale as a whole.
Known == \A n \in Nics : ports[n] = "absent" => active[n] = "absent"
StaleWalk == stale # {} => "outer" \in stale /\ Walking

\* The ports a sound walk has left behind are flagged as they were asked to be; the
\* one it is at is flagged if it should be, once Visit is over.
Behind ==
  Walking /\ stale = {} =>
    \A n \in Nics :
      /\ n \notin outer /\ n # at => (active[n] = "yes" <=> ports[n] = "Listening")
      /\ pc = "off" /\ n = at /\ ports[n] = "Listening" => active[n] = "yes"

\* A flagged port without a listener, although none failed: TurnOff cancelled it, and
\* either the inner foreach starts it again or the outer one clears its flag.
Orphan(n) == active[n] = "yes" /\ n \notin failed /\ ~Listened(n)
Pending(n) == \/ Walking /\ stale # {}
              \/ pc = "restart" /\ n \in inner /\ ports[n] = "Listening"
              \/ Walking /\ ports[n] = "Off" /\ (n \in outer \/ n = at)
NoneLost == pc # "dead" => \A n \in Nics : Orphan(n) => Pending(n)

Asked == pc = "delay" =>
           \A n \in Nics \ edited : active[n] = "yes" <=> ports[n] = "Listening"

SettleInv == TypeOK /\ Known /\ StaleWalk /\ Behind /\ NoneLost /\ Asked

\* A listener that starts, or fails to, changes nothing at other ports, and leaves no
\* orphan at its own.
LEMMA SpawnLocal ==
  ASSUME TypeOK, NEW n \in Nics, Spawn(n)
  PROVE  /\ n \in failed' \/ Listened(n)'
         /\ \A m \in Nics \ {n} : Listened(m) => Listened(m)'
         /\ \A m \in Nics \ {n} : m \in failed <=> m \in failed'
<1>1. CASE UNCHANGED task /\ failed' = failed \cup {n}
  BY <1>1 DEF Listened, Live
<1>2. ASSUME NEW s \in Slots, task[s] = Idle, failed' = failed \ {n},
             task' = [task EXCEPT ![s] = [nic |-> n, live |-> TRUE, pc |-> "queued"]]
      PROVE  /\ Listened(n)'
             /\ \A m \in Nics \ {n} : Listened(m) => Listened(m)'
             /\ \A m \in Nics \ {n} : m \in failed <=> m \in failed'
  <2>1. /\ task'[s] = [nic |-> n, live |-> TRUE, pc |-> "queued"]
        /\ \A r \in Slots \ {s} : task'[r] = task[r]
    BY <1>2 DEF TypeOK
  <2>2. Listened(n)'
    BY <2>1 DEF Listened, Live, Idle
  <2>3. \A m \in Nics : Listened(m) => Listened(m)'
    BY <1>2, <2>1 DEF Listened, Live
  <2> QED BY <1>2, <2>2, <2>3
<1> QED BY <1>1, <1>2 DEF Spawn

\* A step of a capture task that stops a listener leaves a failure behind.
LEMMA TaskLocal ==
  ASSUME TypeOK, NEW s \in Slots, Task(s) \/ TaskFault(s)
  PROVE  /\ Others
         /\ failed \subseteq failed'
         /\ \A n \in Nics : Listened(n) => n \in failed' \/ Listened(n)'
<1>1. Others /\ failed \subseteq failed'
  BY DEF Task, TaskFault, Open, Abandon, LoopTest, Close, NoFrame, GvrpFrame,
         Analyse, ReadFault
<1>2. task[s] \in Capture
  BY TaskShape DEF Task, TaskFault, Open, Abandon, LoopTest, Close, NoFrame, GvrpFrame,
                   Analyse, ReadFault, At
<1>3. \/ \E where \in {"test", "get", "batch"} : Goes(s, where)
      \/ Ends(s) /\ (task[s].live => task[s].nic \in failed')
  BY DEF Task, TaskFault, Open, Abandon, LoopTest, Close, NoFrame, GvrpFrame,
         Analyse, ReadFault
<1>4. \A r \in Slots \ {s} : task'[r] = task[r]
  BY <1>3 DEF Goes, Ends, TypeOK
<1>5. CASE \E where \in {"test", "get", "batch"} : Goes(s, where)
  <2>1. Live(s) => Live(s)' /\ task'[s].nic = task[s].nic
    BY <1>2, <1>5 DEF Goes, Live, TypeOK, Capture, Idle
  <2> QED BY <1>1, <1>4, <2>1 DEF Listened, Live
<1>6. CASE Ends(s) /\ (task[s].live => task[s].nic \in failed')
  BY <1>1, <1>4, <1>6 DEF Listened, Live
<1> QED BY <1>1, <1>3, <1>5, <1>6

LEMMA SettleStep == SettleInv /\ [Next]_vars => SettleInv'
<1> SUFFICES ASSUME SettleInv, [Next]_vars
             PROVE  SettleInv'
  OBVIOUS
<1>0. TypeOK'
  BY TypeStep DEF SettleInv
<1> USE DEF SettleInv
<1>1. ASSUME NEW n \in Nics, NEW state \in {"Off", "Listening"}, Edit(n, state)
      PROVE  SettleInv'
  <2>1. UNCHANGED service /\ UNCHANGED task /\ UNCHANGED failed
    BY <1>1 DEF Edit
  <2>2. \A m \in Nics : Listened(m)' <=> Listened(m)
    BY <2>1 DEF Listened, Live
  <2>3. Known' /\ StaleWalk' /\ Asked'
    BY <1>1 DEF Edit, service, Known, StaleWalk, Asked, Walking, TypeOK
  <2>4. Behind'
    BY <1>1, <2>1 DEF Edit, service, Behind, Walking
  <2>5. NoneLost'
    BY <1>1, <2>1, <2>2 DEF Edit, service, NoneLost, Orphan, Pending, Walking, TypeOK
  <2> QED BY <1>0, <2>3, <2>4, <2>5
<1>2. CASE Poll
  <2>1. \A m \in Nics : Listened(m)' <=> Listened(m)
    BY <1>2 DEF Poll, Listened, Live
  <2>2. Known' /\ StaleWalk' /\ Asked' /\ Behind'
    BY <1>2 DEF Poll, Known, StaleWalk, Asked, Behind, Walking, Keys, TypeOK
  <2>3. NoneLost'
    BY <1>2, <2>1 DEF Poll, NoneLost, Orphan, Pending, Walking, StaleWalk
  <2> QED BY <1>0, <2>2, <2>3
<1>3. CASE WalkEnds \/ StillOn \/ RestartEnds
  <2>1. \A m \in Nics : Listened(m)' <=> Listened(m)
    BY <1>3 DEF WalkEnds, StillOn, RestartEnds, Listened, Live
  <2>2. Known' /\ StaleWalk'
    BY <1>3 DEF WalkEnds, StillOn, RestartEnds, Known, StaleWalk, Walking, TypeOK
  <2>3. \A m \in Nics : m # "none"
    BY SupervisorAssumption
  <2>4. CASE StillOn
    <3>1. at \in Nics
      BY <2>4 DEF StillOn, TypeOK
    <3>2. Behind'
      BY <2>3, <2>4, <3>1 DEF StillOn, Behind, Known, Walking, TypeOK
    <3>3. NoneLost'
      BY <2>1, <2>4, <3>1 DEF StillOn, NoneLost, Orphan, Pending, Walking, TypeOK
    <3>4. Asked'
      BY <2>4 DEF StillOn, Asked
    <3> QED BY <1>0, <2>2, <3>2, <3>3, <3>4
  <2>5. CASE RestartEnds
    <3>1. Behind' /\ Asked'
      BY <2>5 DEF RestartEnds, Behind, Asked, Walking
    <3>2. NoneLost'
      BY <2>1, <2>5 DEF RestartEnds, NoneLost, Orphan, Pending, Walking
    <3> QED BY <1>0, <2>2, <3>1, <3>2
  <2>6. CASE WalkEnds
    <3>1. stale = {} /\ at = "none"
      BY <2>6 DEF WalkEnds, StaleWalk, TypeOK
    <3>2. Behind'
      BY <2>6 DEF WalkEnds, Behind, Walking
    <3>3. Asked'
      BY <2>3, <2>6, <3>1 DEF WalkEnds, Behind, Asked, Walking
    <3>4. NoneLost'
      BY <2>1, <2>3, <2>6, <3>1 DEF WalkEnds, NoneLost, Orphan, Pending
    <3> QED BY <1>0, <2>2, <3>2, <3>3, <3>4
  <2> QED BY <1>3, <2>4, <2>5, <2>6
<1>4. CASE Die
  BY <1>0, <1>4 DEF Die, Known, StaleWalk, Behind, NoneLost, Asked, Walking
<1>5. CASE Visit
  <2>1. at \in Nics
    BY <1>5 DEF Visit, TypeOK
  <2>2. CASE ports[at] = "Listening" /\ active[at] # "yes"
    <3>1. /\ at \in failed' \/ Listened(at)'
          /\ \A m \in Nics \ {at} : Listened(m) => Listened(m)'
          /\ \A m \in Nics \ {at} : m \in failed <=> m \in failed'
      BY <1>5, <2>1, <2>2, SpawnLocal DEF Visit
    <3>2. Known' /\ StaleWalk' /\ Asked' /\ Behind'
      BY <1>5, <2>1, <2>2 DEF Visit, Known, StaleWalk, Asked, Behind, Walking, TypeOK
    <3>3. NoneLost'
      BY <1>5, <2>1, <2>2, <3>1 DEF Visit, NoneLost, Orphan, Pending, Walking, TypeOK
    <3> QED BY <1>0, <3>2, <3>3
  <2>3. CASE ~(ports[at] = "Listening" /\ active[at] # "yes")
    <3>1. \A m \in Nics : Listened(m)' <=> Listened(m)
      BY <1>5, <2>3 DEF Visit, Listened, Live
    <3>2. Known' /\ StaleWalk' /\ Asked' /\ Behind'
      BY <1>5, <2>1, <2>3 DEF Visit, Known, StaleWalk, Asked, Behind, Walking, TypeOK
    <3>3. NoneLost'
      BY <1>5, <2>3, <3>1 DEF Visit, NoneLost, Orphan, Pending, Walking, TypeOK
    <3> QED BY <1>0, <3>2, <3>3
  <2> QED BY <2>2, <2>3
<1>6. CASE TurnOff
  <2>1. at \in Nics
    BY <1>6 DEF TurnOff, TypeOK
  <2>2. Known' /\ StaleWalk' /\ Asked'
    BY <1>6, <2>1 DEF TurnOff, Known, StaleWalk, Asked, Walking, TypeOK
  <2>3. Behind'
    BY <1>6, <2>1, SupervisorAssumption DEF TurnOff, Behind, Walking, TypeOK
  <2>4. NoneLost'
    <3> SUFFICES ASSUME NEW n \in Nics, Orphan(n)', stale = {}
                 PROVE  Pending(n)'
      BY <1>6 DEF TurnOff, NoneLost, Pending, Walking
    <3>1. n # at /\ active[n] = "yes"
      BY <1>6, <2>1 DEF TurnOff, Orphan, TypeOK
    <3>2. ports[n] # "absent"
      BY <3>1 DEF Known
    <3>3. CASE ports[n] = "Listening"
      BY <1>6, <3>3 DEF TurnOff, Keys, Pending
    <3>4. CASE ports[n] = "Off"
      BY <1>6, <3>1, <3>4 DEF TurnOff, Behind, Pending, Walking
    <3> QED BY <3>2, <3>3, <3>4 DEF TypeOK
  <2> QED BY <1>0, <2>2, <2>3, <2>4
<1>7. ASSUME NEW n \in Nics, NextPort(n)
      PROVE  SettleInv'
  <2>1. \A m \in Nics : Listened(m)' <=> Listened(m)
    BY <1>7 DEF NextPort, Listened, Live
  <2>2. at = "none" /\ \A m \in Nics : m # "none"
    BY <1>7, SupervisorAssumption DEF NextPort, TypeOK
  <2>3. Known' /\ StaleWalk' /\ Asked'
    BY <1>7 DEF NextPort, Known, StaleWalk, Asked, Walking
  <2>4. Behind'
    BY <1>7, <2>2 DEF NextPort, Behind, Walking
  <2>5. NoneLost'
    BY <1>7, <2>1, <2>2 DEF NextPort, NoneLost, Orphan, Pending, Walking
  <2> QED BY <1>0, <2>3, <2>4, <2>5
<1>8. ASSUME NEW n \in Nics, Restart(n)
      PROVE  SettleInv'
  <2>1. CASE ports[n] = "Listening"
    <3>1. /\ n \in failed' \/ Listened(n)'
          /\ \A m \in Nics \ {n} : Listened(m) => Listened(m)'
          /\ \A m \in Nics \ {n} : m \in failed <=> m \in failed'
      BY <1>8, <2>1, SpawnLocal DEF Restart
    <3>2. Known' /\ StaleWalk' /\ Asked' /\ Behind'
      BY <1>8, <2>1 DEF Restart, Known, StaleWalk, Asked, Behind, Walking, TypeOK
    <3>3. NoneLost'
      BY <1>8, <2>1, <3>1 DEF Restart, NoneLost, Orphan, Pending, Walking, TypeOK
    <3> QED BY <1>0, <3>2, <3>3
  <2>2. CASE ports[n] # "Listening"
    <3>1. \A m \in Nics : Listened(m)' <=> Listened(m)
      BY <1>8, <2>2 DEF Restart, Listened, Live
    <3>2. Known' /\ StaleWalk' /\ Asked' /\ Behind'
      BY <1>8, <2>2 DEF Restart, Known, StaleWalk, Asked, Behind, Walking, TypeOK
    <3>3. NoneLost'
      BY <1>8, <2>2, <3>1 DEF Restart, NoneLost, Orphan, Pending, Walking, TypeOK
    <3> QED BY <1>0, <3>2, <3>3
  <2> QED BY <2>1, <2>2
<1>9. ASSUME NEW s \in Slots, Task(s) \/ TaskFault(s)
      PROVE  SettleInv'
  <2>1. /\ UNCHANGED <<ports, active, pc, at, outer, inner, stale, edited>>
        /\ failed \subseteq failed'
        /\ \A n \in Nics : Listened(n) => n \in failed' \/ Listened(n)'
    BY <1>9, TaskLocal DEF Others, service
  <2>2. Known' /\ StaleWalk' /\ Asked' /\ Behind'
    BY <2>1 DEF Known, StaleWalk, Asked, Behind, Walking
  <2>3. NoneLost'
    BY <2>1 DEF NoneLost, Orphan, Pending, Walking
  <2> QED BY <1>0, <2>2, <2>3
<1>10. CASE Crash
  BY <1>0, <1>10 DEF Crash, Known, StaleWalk, Behind, NoneLost, Orphan, Asked, Walking
<1>11. CASE UNCHANGED vars
  <2>1. \A m \in Nics : Listened(m)' <=> Listened(m)
    BY <1>11 DEF vars, Listened, Live
  <2> QED BY <1>0, <1>11, <2>1
          DEF vars, Known, StaleWalk, Behind, NoneLost, Orphan, Pending, Asked, Walking
<1> QED BY <1>1, <1>2, <1>3, <1>4, <1>5, <1>6, <1>7, <1>8, <1>9, <1>10, <1>11
        DEF Next, Service

\* Between two walks every port is flagged as it was last asked to be, and none has
\* lost its listener except to a failure.
THEOREM WalksSettle == Spec => []WalkSettles
<1>1. Init => SettleInv
  <2>1. Init => TypeOK
    BY SupervisorAssumption DEF Init, TypeOK
  <2> QED BY <2>1 DEF Init, SettleInv, Known, StaleWalk, Behind, NoneLost, Orphan, Asked,
                      Walking
<1>2. SettleInv => WalkSettles
  BY DEF SettleInv, WalkSettles, NoneLost, Orphan, Pending, Asked, Walking
<1> QED BY <1>1, <1>2, SettleStep, PTL DEF Spec
=============================================================================
