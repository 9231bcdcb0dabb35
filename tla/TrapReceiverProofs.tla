------------------------- MODULE TrapReceiverProofs -------------------------
(***************************************************************************)
(* Proofs about TrapReceiver, for any ports and any number of users: its   *)
(* type, that a resting service serves exactly the users it believes to    *)
(* serve, and that it never rests on a table that changed unnoticed.       *)
(***************************************************************************)
EXTENDS TrapReceiver, TLAPS

\* Users with the same key are the same user, and new keys are new.
Distinct(rows) == \A r, s \in rows : r.id = s.id => r = s

Keyed == /\ Distinct(table \cup active)
         /\ \A r \in table \cup active : r.id < nextId

\* The engine while the process is down, in its first pass, and as long as no new one
\* is being started.
Engine == /\ pc = "down" => active = {} /\ served = {} /\ bound = {}
          /\ first => served = {} /\ bound = {}
          /\ pc \in {"poll", "load", "delay"} => served = active /\ bound = PortsOf(active)

\* From the reading of the table on, what was read is what is there.
Read == pc \in {"build", "stop", "start", "delay"} /\ ~touched => active = table

IInv == TypeOK /\ Keyed /\ Engine /\ Read

LEMMA InitIInv == Init => IInv
<1> SUFFICES ASSUME Init PROVE IInv
  OBVIOUS
<1> USE DEF Init
<1>1. TypeOK
  <2>1. nextId \in 1..(MaxUsers + 1)
    BY TrapAssumption DEF TrapAssumption
  <2>2. first \in BOOLEAN /\ touched \in BOOLEAN
    BY Zenon
  <2> QED BY <2>1, <2>2 DEF TypeOK
<1>2. Keyed
  BY DEF Keyed, Distinct
<1>3. Engine
  BY DEF Engine, PortsOf
<1>4. Read
  BY DEF Read
<1> QED BY <1>1, <1>2, <1>3, <1>4 DEF IInv

LEMMA TypeStep == TypeOK /\ [Next]_vars => TypeOK'
<1> SUFFICES ASSUME TypeOK, [Next]_vars PROVE TypeOK'
  OBVIOUS
<1> USE TrapAssumption DEF TypeOK, TrapAssumption, database
<1>1. ASSUME NEW p \in Ports, NEW flaw \in {"none", "key", "port"}, AddUser(p, flaw)
      PROVE  TypeOK'
  <2>1. nextId \in 1..MaxUsers /\ nextId' = nextId + 1
    BY <1>1 DEF AddUser
  <2>2. [id |-> nextId, port |-> p, flaw |-> flaw] \in Row
    BY <2>1 DEF Row
  <2>3. table' \in SUBSET Row
    BY <1>1, <2>2 DEF AddUser, NewId
  <2> QED BY <1>1, <2>1, <2>3 DEF AddUser
<1>2. ASSUME NEW r \in Row, RemoveUser(r)
      PROVE  TypeOK'
  BY <1>2 DEF RemoveUser
<1>3. CASE Rest
  BY <1>3 DEF Rest
<1>4. CASE Notice
  BY <1>4 DEF Notice
<1>5. CASE Load
  BY <1>5 DEF Load
<1>6. CASE Build
  BY <1>6 DEF Build
<1>7. CASE StopEngine
  BY <1>7 DEF StopEngine
<1>8. CASE StartEngine
  <2>1. PortsOf(active) \in SUBSET Ports
    BY DEF PortsOf, Row
  <2> QED BY <1>8, <2>1 DEF StartEngine
<1>9. CASE Die
  BY <1>9 DEF Die
<1>10. CASE Wake
  BY <1>10 DEF Wake
<1>11. CASE Crash
  BY <1>11 DEF Crash
<1>12. CASE Boot
  BY <1>12 DEF Boot
<1>13. ASSUME NEW p \in Ports, Rival(p)
       PROVE  TypeOK'
  BY <1>13 DEF Rival
<1>14. CASE UNCHANGED vars
  BY <1>14 DEF vars
<1> QED BY <1>1, <1>2, <1>3, <1>4, <1>5, <1>6, <1>7, <1>8, <1>9, <1>10, <1>11, <1>12,
           <1>13, <1>14 DEF Next, Service

\* A step that keeps the table, and makes active what it was, the table or nothing,
\* keeps users told apart by their keys.
LEMMA KeyedKept ==
  ASSUME Keyed, table' = table, nextId' = nextId, active' \in {active, table, {}}
  PROVE  Keyed'
BY DEF Keyed, Distinct

LEMMA KeyedStep == IInv /\ [Next]_vars => Keyed'
<1> SUFFICES ASSUME IInv, [Next]_vars PROVE Keyed'
  OBVIOUS
<1> USE DEF IInv, database
<1>1. ASSUME NEW p \in Ports, NEW flaw \in {"none", "key", "port"}, AddUser(p, flaw)
      PROVE  Keyed'
  <2> DEFINE new == [id |-> nextId, port |-> p, flaw |-> flaw]
  <2>1. /\ table' = table \cup {new}
        /\ active' = active /\ nextId' = nextId + 1
    BY <1>1 DEF AddUser, NewId
  <2>2. nextId \in Nat /\ new.id = nextId
    BY TrapAssumption DEF TypeOK, TrapAssumption
  <2>3. \A r \in table \cup active : r.id \in Nat /\ r.id < nextId
    BY TrapAssumption DEF TypeOK, Keyed, Row, TrapAssumption
  <2> HIDE DEF new
  <2>4. \A r \in (table \cup active)' : r.id < nextId'
    BY <2>1, <2>2, <2>3
  <2>5. \A r \in table \cup active : r.id # new.id
    BY <2>2, <2>3
  <2>6. Distinct(table \cup active)'
    BY <2>1, <2>5 DEF Keyed, Distinct
  <2> QED BY <2>4, <2>6 DEF Keyed
<1>2. ASSUME NEW r \in Row, RemoveUser(r)
      PROVE  Keyed'
  BY <1>2 DEF RemoveUser, Keyed, Distinct
<1>3. CASE Rest
  BY <1>3, KeyedKept DEF Rest
<1>4. CASE Notice
  BY <1>4, KeyedKept DEF Notice
<1>5. CASE Load
  BY <1>5, KeyedKept DEF Load
<1>6. CASE Build
  BY <1>6, KeyedKept DEF Build
<1>7. CASE StopEngine
  BY <1>7, KeyedKept DEF StopEngine
<1>8. CASE StartEngine
  BY <1>8, KeyedKept DEF StartEngine
<1>9. CASE Die
  BY <1>9, KeyedKept DEF Die
<1>10. CASE Wake
  BY <1>10, KeyedKept DEF Wake
<1>11. CASE Crash
  BY <1>11, KeyedKept DEF Crash
<1>12. CASE Boot
  BY <1>12, KeyedKept DEF Boot
<1>13. ASSUME NEW p \in Ports, Rival(p)
       PROVE  Keyed'
  BY <1>13, KeyedKept DEF Rival
<1>14. CASE UNCHANGED vars
  BY <1>14, KeyedKept DEF vars
<1> QED BY <1>1, <1>2, <1>3, <1>4, <1>5, <1>6, <1>7, <1>8, <1>9, <1>10, <1>11, <1>12,
           <1>13, <1>14 DEF Next, Service

\* Only an engine that starts, stops or goes down with the process changes; a first
\* pass that fails had not bound anything.
LEMMA EngineStep == IInv /\ [Next]_vars => Engine'
<1> SUFFICES ASSUME IInv, [Next]_vars PROVE Engine'
  OBVIOUS
<1> USE DEF IInv, Engine, database
<1>1. ASSUME NEW p \in Ports, NEW flaw \in {"none", "key", "port"}, AddUser(p, flaw)
      PROVE  Engine'
  BY <1>1 DEF AddUser, PortsOf
<1>2. ASSUME NEW r \in Row, RemoveUser(r)
      PROVE  Engine'
  BY <1>2 DEF RemoveUser, PortsOf
<1>3. CASE Rest
  BY <1>3 DEF Rest, PortsOf
<1>4. CASE Notice
  BY <1>4 DEF Notice, PortsOf
<1>5. CASE Load
  BY <1>5 DEF Load
<1>6. CASE Build
  BY <1>6 DEF Build
<1>7. CASE StopEngine
  BY <1>7 DEF StopEngine
<1>8. CASE StartEngine
  BY <1>8 DEF StartEngine, PortsOf
<1>9. CASE Die
  BY <1>9 DEF Die, Fault
<1>10. CASE Wake
  BY <1>10 DEF Wake, PortsOf
<1>11. CASE Crash
  BY <1>11 DEF Crash
<1>12. CASE Boot
  BY <1>12 DEF Boot, PortsOf
<1>13. ASSUME NEW p \in Ports, Rival(p)
       PROVE  Engine'
  BY <1>13 DEF Rival, PortsOf
<1>14. CASE UNCHANGED vars
  BY <1>14 DEF vars, PortsOf
<1> QED BY <1>1, <1>2, <1>3, <1>4, <1>5, <1>6, <1>7, <1>8, <1>9, <1>10, <1>11, <1>12,
           <1>13, <1>14 DEF Next, Service

\* Users with the same keys are the same users.
LEMMA SameKeys ==
  ASSUME Keyed, Ids(table) = Ids(active)
  PROVE  active = table
<1>1. ASSUME NEW r \in table PROVE r \in active
  <2>1. PICK s \in active : s.id = r.id
    BY DEF Ids
  <2> QED BY <2>1 DEF Keyed, Distinct
<1>2. ASSUME NEW r \in active PROVE r \in table
  <2>1. r.id \in Ids(active)
    BY DEF Ids
  <2>2. PICK s \in table : s.id = r.id
    BY <2>1 DEF Ids
  <2> QED BY <2>2 DEF Keyed, Distinct
<1> QED BY <1>1, <1>2

LEMMA ReadStep == IInv /\ [Next]_vars => Read'
<1> SUFFICES ASSUME IInv, [Next]_vars PROVE Read'
  OBVIOUS
<1> USE DEF IInv, Read, database
<1>1. ASSUME NEW p \in Ports, NEW flaw \in {"none", "key", "port"}, AddUser(p, flaw)
      PROVE  Read'
  BY <1>1 DEF AddUser
<1>2. ASSUME NEW r \in Row, RemoveUser(r)
      PROVE  Read'
  BY <1>2 DEF RemoveUser
<1>3. CASE Rest
  BY <1>3, SameKeys DEF Rest, HasNewUsers
<1>4. CASE Notice
  BY <1>4 DEF Notice
<1>5. CASE Load
  BY <1>5 DEF Load
<1>6. CASE Build
  BY <1>6 DEF Build
<1>7. CASE StopEngine
  BY <1>7 DEF StopEngine
<1>8. CASE StartEngine
  BY <1>8 DEF StartEngine
<1>9. CASE Die
  BY <1>9 DEF Die
<1>10. CASE Wake
  BY <1>10 DEF Wake
<1>11. CASE Crash
  BY <1>11 DEF Crash
<1>12. CASE Boot
  BY <1>12 DEF Boot
<1>13. ASSUME NEW p \in Ports, Rival(p)
       PROVE  Read'
  BY <1>13 DEF Rival
<1>14. CASE UNCHANGED vars
  BY <1>14 DEF vars
<1> QED BY <1>1, <1>2, <1>3, <1>4, <1>5, <1>6, <1>7, <1>8, <1>9, <1>10, <1>11, <1>12,
           <1>13, <1>14 DEF Next, Service

LEMMA Invariance == Spec => []IInv
<1>1. IInv /\ [Next]_vars => IInv'
  BY TypeStep, KeyedStep, EngineStep, ReadStep DEF IInv
<1> QED BY InitIInv, <1>1, PTL DEF Spec

\* The table, the service and the engine are well typed for any ports and users; the
\* first pass is over once the service rests, and no engine starts over another.
THEOREM TypeCorrect == Spec => []TypeOK
BY Invariance, PTL DEF IInv

\* A service that is alive and not changing engines serves exactly the users it
\* compares the table with, on exactly their ports.
THEOREM EngineIsActive == Spec => []ServesActive
<1>1. IInv => ServesActive
  BY DEF IInv, Engine, ServesActive
<1> QED BY Invariance, <1>1, PTL

\* A service rests on the whole table unless that changed after it was read: keys are
\* never used twice, so comparing keys is comparing users.
THEOREM TableIsRead == Spec => []NoChangeMissed
<1>1. IInv => NoChangeMissed
  BY DEF IInv, Read, NoChangeMissed
<1> QED BY Invariance, <1>1, PTL
=============================================================================
