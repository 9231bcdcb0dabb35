---------------------------- MODULE ForwardRules ----------------------------
(***************************************************************************)
(* EthernetServices.SetEthernetInterfaceType: the private-VLAN type of a   *)
(* port, kept as rules of the ebtables FORWARD chain.  A request walks the *)
(* Ethernet ports the machine has and runs up to three ebtables commands   *)
(* for each, every one in a try/catch of its own that ignores the failure. *)
(* Nothing locks the chain or the port, so requests interleave command by  *)
(* command, and the rules outlive the process.                             *)
(***************************************************************************)
EXTENDS Sequences, SequencesExt, Naturals

CONSTANTS Nics,        \* the Ethernet ports (IsEthernet)
          Hotplug,     \* the ports that may come and go
          Requests,    \* the requests the web server runs at once
          MaxEdits,    \* bound: how many requests a behaviour starts
          MaxRejects,  \* how many ebtables commands may fail for a reason of their own
          Rank,        \* port |-> its place in the order the kernel lists ports in
          Alike        \* port |-> the ports whose name contains its name

ASSUME NicsAssumption ==
  /\ Hotplug \subseteq Nics
  /\ MaxEdits \in Nat /\ MaxRejects \in Nat
  /\ Rank \in [Nics -> Nat]
  /\ Alike \in [Nics -> SUBSET Nics]
  /\ \A i \in Nics : i \in Alike[i]

VARIABLES chain,      \* the FORWARD chain of ebtables, first rule first
          present,    \* the ports GetAllNetworkInterfaces returns now
          req,        \* request |-> Idle, or how far it is
          edits,      \* how many requests were started so far
          rejects,    \* how many commands were rejected so far
          applied,    \* history: port |-> type of the last request, if it ran alone to its end
          covers,     \* history: port |-> the ports the last request enumerated
          disturbed   \* history: ports whose requests overlapped or lost a command

vars == <<chain, present, req, edits, rejects, applied, covers, disturbed>>

Types == {"Off", "Isolated", "Promiscuous"}

Idle == [step |-> "idle"]

\* A request in the loop: the command it runs next, interfaceName, interfaceType,
\* the ports it has not reached yet, and networkInterface, the one it is at.
Running == [step : {"drop", "accept", "rule"}, nic : Nics, type : Types,
            todo : SUBSET Nics, at : Nics]

Rule == [in : Nics, out : Nics, target : {"DROP", "ACCEPT"}]

\* The two rules that port i owns about port n.
DropRule(i, n) == [in |-> i, out |-> n, target |-> "DROP"]

\* Mutant: the ports of the ACCEPT rule swapped.
AcceptRule_Swapped(i, n) == [in |-> i, out |-> n, target |-> "ACCEPT"]

AcceptRule(i, n) == [in |-> n, out |-> i, target |-> "ACCEPT"]

\* ebtables -D deletes the first rule like this one; without one it fails, and
\* the catch ignores that.
Delete_Nothing(rule) == chain   \* Mutant: every deletion fails.

Delete(rule) == RemoveFirst(chain, rule)

\* ebtables -A and -I.
AppendRule(rule) == Append(chain, rule)

InsertRule_AtEnd(rule) == Append(chain, rule)   \* Mutant: -A for -I.

InsertRule(rule) == <<rule>> \o chain

Has(rule) == rule \in ToSet(chain)

-----------------------------------------------------------------------------
\* What the rules mean, and what the code reads back from them.

\* The first rule that matches decides; FORWARD accepts what no rule matches.
Forwards(a, b) ==
  LET matches == {p \in DOMAIN chain : chain[p].in = a /\ chain[p].out = b}
  IN matches = {} \/ \E p \in matches : /\ \A q \in matches : p <= q
                                        /\ chain[p].target = "ACCEPT"

\* GetInterfaceType: grep finds the name anywhere in the ports the rules name.
IsIsolated(i) ==
  \E p \in DOMAIN chain : chain[p].target = "DROP" /\ chain[p].in \in Alike[i]

\* Mutant: cut picks the incoming port.
IsPromiscuous_In(i) ==
  \E p \in DOMAIN chain : chain[p].target = "ACCEPT" /\ chain[p].in \in Alike[i]

IsPromiscuous(i) ==
  \E p \in DOMAIN chain : chain[p].target = "ACCEPT" /\ chain[p].out \in Alike[i]

TypeOf(i) == IF IsIsolated(i) THEN "Isolated"
             ELSE IF IsPromiscuous(i) THEN "Promiscuous" ELSE "Off"

-----------------------------------------------------------------------------
Busy(i) == \E r \in Requests : req[r] # Idle /\ req[r].nic = i

\* Another request for the same port is running.
OtherBusy(r) ==
  \E o \in Requests \ {r} : req[o] # Idle /\ req[o].nic = req[r].nic

Init == /\ chain = << >>
        /\ present \in {P \in SUBSET Nics : Nics \ Hotplug \subseteq P}
        /\ req = [r \in Requests |-> Idle]
        /\ edits = 0
        /\ rejects = 0
        /\ applied = [i \in Nics |-> "Unknown"]
        /\ covers = [i \in Nics |-> {}]
        /\ disturbed = {}

\* A request for port i enters SetEthernetInterfaceType.  An absent port never
\* gets here: SetEthernetInterfaceState fails on it first.
Start(r, i, t) ==
  /\ req[r] = Idle
  /\ i \in present
  /\ edits < MaxEdits
  /\ edits' = edits + 1
  /\ req' = [req EXCEPT ![r] = [step |-> "drop", nic |-> i, type |-> t,
                               todo |-> present, at |-> i]]
  /\ applied' = [applied EXCEPT ![i] = IF Busy(i) THEN "Contested" ELSE "Unknown"]
  /\ covers' = [covers EXCEPT ![i] = present]
  /\ disturbed' = IF Busy(i) THEN disturbed \cup {i} ELSE disturbed
  /\ UNCHANGED <<chain, present, rejects>>

\* The request with its next command, the port it is at and those still to come.
Moved(r, step, n, rest) == [step |-> step, nic |-> req[r].nic, type |-> req[r].type,
                            todo |-> rest, at |-> n]

\* Mutant: the loop does not move on.
Reach_Again(r, n) ==
  /\ n \in req[r].todo
  /\ \A m \in req[r].todo : Rank[n] <= Rank[m]
  /\ req' = [req EXCEPT ![r] = Moved(r, "accept", n, req[r].todo)]

\* The loop reaches port n, the next in the list.
Reach(r, n) ==
  /\ n \in req[r].todo
  /\ \A m \in req[r].todo : Rank[n] <= Rank[m]
  /\ req' = [req EXCEPT ![r] = Moved(r, "accept", n, req[r].todo \ {n})]

\* After both deletions: no rule from a port to itself, and Off adds none.
AfterAccept(r) ==
  IF req[r].type # "Off" /\ req[r].nic # req[r].at THEN "rule" ELSE "drop"

PassAccept(r) ==
  req' = [req EXCEPT ![r] = Moved(r, AfterAccept(r), req[r].at, req[r].todo)]

\* After the third command: the loop goes on.
PassRule(r) == req' = [req EXCEPT ![r] = Moved(r, "drop", req[r].at, req[r].todo)]

\* Deletes a DROP rule from the request's port to port n.
ClearDrop(r, n) ==
  /\ req[r].step = "drop"
  /\ Reach(r, n)
  /\ chain' = Delete(DropRule(req[r].nic, n))
  /\ UNCHANGED <<present, edits, rejects, applied, covers, disturbed>>

\* Deletes an ACCEPT rule from the port it is at to the request's port.
ClearAccept(r) ==
  /\ req[r].step = "accept"
  /\ PassAccept(r)
  /\ chain' = Delete(AcceptRule(req[r].nic, req[r].at))
  /\ UNCHANGED <<present, edits, rejects, applied, covers, disturbed>>

\* Isolated: ebtables -A, a DROP rule at the end of the chain.
Block(r) ==
  /\ req[r].step = "rule"
  /\ req[r].type = "Isolated"
  /\ PassRule(r)
  /\ chain' = AppendRule(DropRule(req[r].nic, req[r].at))
  /\ UNCHANGED <<present, edits, rejects, applied, covers, disturbed>>

\* Promiscuous: ebtables -I, an ACCEPT rule at the head of the chain.
Grant(r) ==
  /\ req[r].step = "rule"
  /\ req[r].type = "Promiscuous"
  /\ PassRule(r)
  /\ chain' = InsertRule(AcceptRule(req[r].nic, req[r].at))
  /\ UNCHANGED <<present, edits, rejects, applied, covers, disturbed>>

\* A command fails although it had something to do; the catch goes on to the next.
Reject(r) ==
  /\ req[r] # Idle
  /\ rejects < MaxRejects
  /\ rejects' = rejects + 1
  /\ disturbed' = disturbed \cup {req[r].nic}
  /\ \/ req[r].step = "drop" /\ \E n \in Nics : Reach(r, n)
     \/ req[r].step = "accept" /\ PassAccept(r)
     \/ req[r].step = "rule" /\ PassRule(r)
  /\ UNCHANGED <<chain, present, edits, applied, covers>>

\* The loop is over and the request returns.
Finish(r) ==
  /\ req[r].step = "drop"
  /\ req[r].todo = {}
  /\ req' = [req EXCEPT ![r] = Idle]
  /\ applied' = [applied EXCEPT ![req[r].nic] =
                    IF @ # "Contested" THEN req[r].type
                    ELSE IF OtherBusy(r) THEN "Contested" ELSE "Unknown"]
  /\ UNCHANGED <<chain, present, edits, rejects, covers, disturbed>>

\* The web server dies; systemd starts it again and the rules are still there.
Crash ==
  /\ \E r \in Requests : req[r] # Idle
  /\ req' = [r \in Requests |-> Idle]
  /\ applied' = [i \in Nics |-> IF Busy(i) THEN "Unknown" ELSE applied[i]]
  /\ UNCHANGED <<chain, present, edits, rejects, covers, disturbed>>

\* A port is plugged in or pulled out.
Replug(n) ==
  /\ n \in Hotplug
  /\ present' = IF n \in present THEN present \ {n} ELSE present \cup {n}
  /\ UNCHANGED <<chain, req, edits, rejects, applied, covers, disturbed>>

Next == \/ \E r \in Requests :
             \/ \E i \in Nics, t \in Types : Start(r, i, t)
             \/ \E n \in Nics : ClearDrop(r, n)
             \/ ClearAccept(r)
             \/ Block(r)
             \/ Grant(r)
             \/ Reject(r)
             \/ Finish(r)
        \/ Crash
        \/ \E n \in Hotplug : Replug(n)

Spec == Init /\ [][Next]_vars

-----------------------------------------------------------------------------
\* Properties.

\* The state is well typed, and the port a request works on is off its list, so
\* the foreach visits every port once.
TypeOK ==
  /\ chain \in Seq(Rule)
  /\ present \in SUBSET Nics
  /\ req \in [Requests -> {Idle} \cup Running]
  /\ edits \in 0..MaxEdits
  /\ rejects \in 0..MaxRejects
  /\ applied \in [Nics -> Types \cup {"Unknown", "Contested"}]
  /\ covers \in [Nics -> SUBSET Nics]
  /\ disturbed \in SUBSET Nics
  /\ \A r \in Requests :
       req[r].step \in {"accept", "rule"} => req[r].at \notin req[r].todo

\* However requests interleave, fail or die, every ACCEPT stands before every
\* DROP: -I and -A keep the grants of promiscuous ports ahead of the blocks of
\* isolated ones, so a later Isolated edit cannot cut off a promiscuous port.
AcceptsFirst ==
  \A p, q \in DOMAIN chain :
    chain[p].target = "DROP" /\ chain[q].target = "ACCEPT" => q < p

\* The last request for i ran alone to its end, and no request for i ever
\* overlapped another or had a command rejected.
Settled(i) == i \notin disturbed /\ ~Busy(i) /\ applied[i] \in Types

\* A settled port owns exactly the rules its type calls for, whatever types it
\* had before, whatever other ports' requests did meanwhile, and even if an
\* earlier request for it died half-way: the deletions make the edit repeatable.
RulesMatchType ==
  \A i \in Nics : Settled(i) =>
    \A n \in covers[i] \ {i} : /\ Has(DropRule(i, n)) <=> applied[i] = "Isolated"
                               /\ Has(AcceptRule(i, n)) <=> applied[i] = "Promiscuous"

\* The page shows the type that was applied, for a port that is not alone, shares
\* its name with no other and was settled against all (test: EthernetTests.cs:93).
ReportedType ==
  \A i \in Nics :
    Settled(i) /\ covers[i] = Nics /\ Nics # {i} /\ Alike[i] = {i}
      => TypeOf(i) = applied[i]

\* The rules bring about what the types promise: PrivateVlan.
PV == INSTANCE PrivateVlan
        WITH mode <- [i \in Nics |-> IF Settled(i) THEN applied[i] ELSE "Changing"],
             peers <- [i \in Nics |-> IF Settled(i) THEN covers[i] ELSE {}],
             passes <- [a \in Nics |-> [b \in Nics |-> Forwards(a, b)]]

\* Every behaviour of the ebtables commands is one PrivateVlan allows: settled
\* ports pass frames as their types say, and editing one leaves other pairs alone.
ImplementsPrivateVlan == PV!Spec

\* EthernetTests.cs:93 expects a type that was set to be read back.  It is not
\* once two Isolated requests for a port have overlapped: each deletes before the
\* other appends, so the chain holds two copies of a rule, and a later request,
\* alone, deletes only the first of them.
TypeIsReadBack ==
  \A i \in Nics :
    ~Busy(i) /\ applied[i] \in Types /\ covers[i] = Nics /\ Alike[i] = {i}
      => TypeOf(i) = applied[i]
=============================================================================
