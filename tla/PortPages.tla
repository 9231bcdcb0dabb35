----------------------------- MODULE PortPages -----------------------------
(***************************************************************************)
(* The Ethernet pages and the GVRP frames over all that a port has: the    *)
(* GVRP wish in the dictionary, its state, VLANs, type and address.  A     *)
(* call of EthernetServices (state, clear, apply, type, address, join and  *)
(* leave by GVRP) is one step here; ForwardRules and VlanBridges have its  *)
(* commands.  What this module adds is what lies between the calls: the    *)
(* wish that is written before the form is looked at, an exception that    *)
(* ends an edit between two calls, the page an address is posted from,     *)
(* which may be old, and the ports and VLANs AnalyseFrame noted before it  *)
(* began.                                                                  *)
(***************************************************************************)
EXTENDS Sequences, SequencesExt, FiniteSets, Naturals

CONSTANTS Nics,        \* the Ethernet ports
          Vlans,       \* the VLAN numbers
          Threads,     \* web threads and capture threads
          Forms,       \* the forms of Edit: port, active, tagged, GVRP, type, VLANs
          Batches,     \* the batches of GVRP frames a capture thread may collect
          MaxHandlers, \* bound: how many handlers are entered
          MaxFaults    \* bound: how often the process dies or a call fails for a reason of its own

Types == {"Off", "Isolated", "Promiscuous"}

ASSUME PagesAssumption ==
  /\ IsFiniteSet(Nics) /\ "none" \notin Vlans
  /\ MaxFaults \in Nat /\ MaxHandlers \in Nat
  /\ Forms \subseteq [nic : Nics, active : BOOLEAN, tagged : BOOLEAN, gvrp : BOOLEAN,
                       type : Types, vlans : Seq(Vlans)]
  /\ Batches \subseteq Seq(Seq([event : 0..255, vlan : Vlans]))

VARIABLES wish,      \* the GVRP dictionary: port |-> "Listening", "Off" or "unset"
          up,        \* the ports that are up
          tagged,    \* port |-> the VLANs it has a sub-interface for
          gvrp,      \* port |-> those of them made with "gvrp on"
          untagged,  \* port |-> the VLAN whose bridge it is a member of, or "none"
          type,      \* port |-> its private-VLAN type
          bridges,   \* the VLANs that have a bridge
          addressed, \* those whose bridge has an IP address
          nicAddr,   \* the ports that hold an IP address
          job,       \* thread |-> the handler it runs
          due,       \* history: port |-> what it was told to be, if by handlers that ran
                     \* to their ends and never shared it
          forgotten, \* history: ports whose wish is not the one of their last edit
          missed,    \* history: ports in the VLAN of an address that the page had not listed
          entered,   \* how many handlers were entered so far
          faults     \* how often that happened so far

port == <<up, tagged, gvrp, untagged, type, bridges, addressed, nicAddr>>
history == <<due, forgotten, missed>>
vars == <<wish, up, tagged, gvrp, untagged, type, bridges, addressed, nicAddr, job,
          due, forgotten, missed, entered, faults>>

\* A handler: the calls it still has to make, each with a port (or ports) and a VLAN (or
\* VLANs, or a type), and (history) the ports it changes.
Idle == [todo |-> << >>, on |-> {}]

Call(do, n, arg) == [do |-> do, nic |-> n, arg |-> arg]

Anything == [vlans |-> "any"]   \* nothing in particular

VlansOf(n) == tagged[n] \cup ({untagged[n]} \ {"none"})

Init == /\ wish = [n \in Nics |-> "unset"]
        /\ up = Nics
        /\ tagged = [n \in Nics |-> {}] /\ gvrp = tagged
        /\ untagged = [n \in Nics |-> "none"]
        /\ type = [n \in Nics |-> "Off"]
        /\ bridges = {} /\ addressed = {}
        /\ nicAddr = Nics
        /\ job = [t \in Threads |-> Idle]
        /\ due = [n \in Nics |-> [up |-> TRUE, vlans |-> {}, gvrp |-> FALSE, type |-> "Off"]]
        /\ forgotten = {} /\ missed = {}
        /\ entered = 0 /\ faults = 0

-----------------------------------------------------------------------------
\* What the frames say.

\* The attributes AnalyseFrame reads of a frame: it stops at an event 0, LeaveAll, as
\* if the frame ended there.
Attributes(frame) ==
  LET stop == SelectInSeq(frame, LAMBDA a : a.event = 0)
  IN  IF stop = 0 THEN frame ELSE SubSeq(frame, 1, stop - 1)

Said(batch, event) ==
  {a.vlan : a \in {b \in UNION {ToSet(Attributes(f)) : f \in ToSet(batch)} : b.event = event}}

\* JoinIn is 2, LeaveEmpty is 3; the other events are dropped, and a VLAN that is both
\* joined and left is joined.
Adds(batch) == Said(batch, 2)
Removes(batch) == Said(batch, 3) \ Adds(batch)

-----------------------------------------------------------------------------
\* The handlers.

Busy == UNION {job[t].on : t \in Threads}

\* A handler that will change these ports enters, to tell each what it is due to be;
\* a port it shares with another is told nothing.
Enter(t, todo, nics, told) ==
  /\ job[t] = Idle
  /\ entered < MaxHandlers
  /\ entered' = entered + 1
  /\ job' = [job EXCEPT ![t] = [todo |-> todo, on |-> nics]]
  /\ due' = [n \in Nics |-> IF n \notin nics THEN due[n]
                             ELSE IF n \in Busy THEN Anything ELSE told[n]]

\* Mutant: only isolated ports are looked at.
Refused_Isolated(f) == f.type = "Isolated" /\ Len(f.vlans) > 1

\* A type that blocks ports goes with one VLAN at most.
Refused(f) == f.type # "Off" /\ Len(f.vlans) > 1

EditProg(f) ==
  LET apply == IF ~f.tagged THEN "untag" ELSE IF f.gvrp THEN "tagGvrp" ELSE "tag"
  IN  <<Call(IF f.active THEN "up" ELSE "down", f.nic, "none"), Call("clear", f.nic, "none")>>
        \o [k \in DOMAIN f.vlans |-> Call(apply, f.nic, f.vlans[k])]
        \o <<Call("type", f.nic, f.type)>>

\* What a form asks for: untagged VLANs replace each other, and tagging turns a port on.
Asked(f) ==
  [up |-> f.active \/ (f.tagged /\ f.vlans # << >>), type |-> f.type,
   gvrp |-> f.tagged /\ f.gvrp,
   vlans |-> IF f.tagged \/ f.vlans = << >> THEN ToSet(f.vlans) ELSE {Last(f.vlans)}]

\* Mutant: a wish is kept once it is there.
Wish_Once(f) == wish' = [wish EXCEPT ![f.nic] = IF @ # "unset" THEN @ ELSE IF f.gvrp THEN "Listening" ELSE "Off"]

Wish(f) == wish' = [wish EXCEPT ![f.nic] = IF f.gvrp THEN "Listening" ELSE "Off"]

\* Edit: the wish is written before the form is looked at.
Edit(t, f) ==
  /\ ~Refused(f)
  /\ Enter(t, EditProg(f), {f.nic}, [n \in {f.nic} |-> Asked(f)])
  /\ Wish(f)
  /\ forgotten' = forgotten \ {f.nic}
  /\ UNCHANGED <<port, missed, faults>>

Refuse(t, f) ==
  /\ job[t] = Idle
  /\ Refused(f)
  /\ Wish(f)
  /\ forgotten' = forgotten \cup {f.nic}
  /\ UNCHANGED <<port, job, due, missed, entered, faults>>

\* EditBridge: the page is shown, with the ports of each VLAN; the form for one of them
\* is posted later, with the ports listed then.
EditBridge(t, v) ==
  LET listed == {n \in Nics : v \in VlansOf(n)}
  IN  /\ listed # {}
      /\ Enter(t, <<[do |-> "address", nic |-> listed, arg |-> v]>>, {}, << >>)
      /\ UNCHANGED <<wish, port, forgotten, missed, faults>>

\* foreach (o in outer) foreach (i in inner): what Of makes of each pair, in that order.
ForEach(outer, inner, Of(_, _)) ==
  LET width == Len(inner)
  IN  [k \in 1..(Len(outer) * width) |->
         Of(outer[((k - 1) \div width) + 1], inner[((k - 1) % width) + 1])]

\* For each VLAN to add every port noted is given the VLANs it had and the new one; then
\* come the removals.
FrameProg(adds, removes, nics, had) ==
  ForEach(adds, nics, LAMBDA v, n : Call("join", n, had[n] \cup {v}))
    \o ForEach(removes, nics, LAMBDA v, n : Call("leave", n, v))

\* Mutant: all ports are taken for GVRP ports.
GvrpPorts_All == Nics

\* GVRP_Enabled: some sub-interface of the port was made with "gvrp on".
GvrpPorts == {n \in Nics : gvrp[n] # {}}

\* AnalyseFrame notes the GVRP ports and their VLANs.  Some port was told to listen
\* since the process started, or nobody would read frames.
AnalyseFrame(t, batch) ==
  LET adds == SetToSeq(Adds(batch))
      removes == SetToSeq(Removes(batch))
      had == [n \in GvrpPorts |-> VlansOf(n)]
      Told(n) == IF due[n] = Anything THEN Anything
                 ELSE [due[n] EXCEPT !.vlans = (@ \cup Adds(batch)) \ Removes(batch), !.up = TRUE]
  IN  /\ \E n \in Nics : wish[n] # "unset"
      /\ adds \o removes # << >>
      /\ Enter(t, FrameProg(adds, removes, SetToSeq(GvrpPorts), had), GvrpPorts,
               [n \in GvrpPorts |-> Told(n)])
      /\ UNCHANGED <<wish, port, forgotten, missed, faults>>

Return(t) ==
  /\ job[t] # Idle
  /\ job[t].todo = << >>
  /\ job' = [job EXCEPT ![t] = Idle]
  /\ UNCHANGED <<wish, port, history, entered, faults>>

-----------------------------------------------------------------------------
\* The calls of EthernetServices.

\* The next call of t is one of these, and it is made.
Makes(t, what) == /\ job[t].todo # << >>
                  /\ Head(job[t].todo).do \in what
                  /\ job' = [job EXCEPT ![t].todo = Tail(@)]

Nic(t) == Head(job[t].todo).nic
Arg(t) == Head(job[t].todo).arg

\* Apply cannot do it: an untagged port that has sub-interfaces and no bridge of its own
\* to leave, a sub-interface that is there already.
Impossible(t) ==
  \/ Head(job[t].todo).do = "untag" /\ untagged[Nic(t)] = "none" /\ VlansOf(Nic(t)) # {}
  \/ Head(job[t].todo).do \in {"tag", "tagGvrp"} /\ Arg(t) \in tagged[Nic(t)]

\* SetEthernetInterfaceState.
SetState(t) ==
  /\ Makes(t, {"up", "down"})
  /\ up' = IF Head(job[t].todo).do = "up" THEN up \cup {Nic(t)} ELSE up \ {Nic(t)}
  /\ UNCHANGED <<wish, tagged, gvrp, untagged, type, bridges, addressed, nicAddr,
                 history, entered, faults>>

\* Mutant: the bridges of a port that leaves go, whoever else is in them.
Drop_Always(n, vs) == bridges' = bridges \ vs /\ addressed' = addressed \ vs

\* A bridge goes with the last port that leaves it, and its address with it.
Drop(n, vs) ==
  LET gone == {v \in vs : \A m \in Nics \ {n} : v \notin VlansOf(m)}
  IN  bridges' = bridges \ gone /\ addressed' = addressed \ gone

\* ClearEthernetInterfaceVLANs.
Clear(t) ==
  /\ Makes(t, {"clear"})
  /\ tagged' = [tagged EXCEPT ![Nic(t)] = {}]
  /\ gvrp' = [gvrp EXCEPT ![Nic(t)] = {}]
  /\ untagged' = [untagged EXCEPT ![Nic(t)] = "none"]
  /\ Drop(Nic(t), VlansOf(Nic(t)))
  /\ missed' = missed \ {Nic(t)}
  /\ UNCHANGED <<wish, up, type, nicAddr, due, forgotten, entered, faults>>

\* Mutant: a port that joins a VLAN keeps its address.
Flush_Never(n, v) == UNCHANGED nicAddr

\* A port that joins a VLAN whose bridge has an address loses its own.
Flush(n, v) == nicAddr' = IF v \in addressed THEN nicAddr \ {n} ELSE nicAddr

\* ApplyEthernetInterfaceVLANs, untagged: the port leaves the bridge it is in.
Untag(t) ==
  /\ Makes(t, {"untag"})
  /\ ~Impossible(t)
  /\ untagged' = [untagged EXCEPT ![Nic(t)] = Arg(t)]
  /\ bridges' = bridges \cup {Arg(t)}
  /\ Flush(Nic(t), Arg(t))
  /\ UNCHANGED <<wish, up, tagged, gvrp, type, addressed, history, entered, faults>>

\* ApplyEthernetInterfaceVLANs, tagged.
Tag(t) ==
  /\ Makes(t, {"tag", "tagGvrp"})
  /\ ~Impossible(t)
  /\ tagged' = [tagged EXCEPT ![Nic(t)] = @ \cup {Arg(t)}]
  /\ gvrp' = IF Head(job[t].todo).do = "tagGvrp"
             THEN [gvrp EXCEPT ![Nic(t)] = @ \cup {Arg(t)}] ELSE gvrp
  /\ bridges' = bridges \cup {Arg(t)}
  /\ up' = up \cup {Nic(t)}
  /\ UNCHANGED <<wish, untagged, type, addressed, nicAddr, history, entered, faults>>

\* SetEthernetInterfaceType: it catches what fails.
SetType(t) ==
  /\ Makes(t, {"type"})
  /\ type' = [type EXCEPT ![Nic(t)] = Arg(t)]
  /\ UNCHANGED <<wish, up, tagged, gvrp, untagged, bridges, addressed, nicAddr,
                 history, entered, faults>>

\* SetBridgeAddress: the listed ports are flushed; without a bridge no address is set.
Address(t) ==
  /\ Makes(t, {"address"})
  /\ nicAddr' = nicAddr \ Nic(t)
  /\ addressed' = addressed \cup ({Arg(t)} \cap bridges)
  /\ missed' = (missed \cup {n \in Nics : untagged[n] = Arg(t)}) \ Nic(t)
  /\ UNCHANGED <<wish, up, tagged, gvrp, untagged, type, bridges, due, forgotten, entered, faults>>

\* ApplyEthernetGVRPInterfaceVLANs: it catches what fails, as on a VLAN that is there.
Join(t) ==
  /\ Makes(t, {"join"})
  /\ tagged' = [tagged EXCEPT ![Nic(t)] = @ \cup Arg(t)]
  /\ gvrp' = [gvrp EXCEPT ![Nic(t)] = @ \cup (Arg(t) \ tagged[Nic(t)])]
  /\ bridges' = bridges \cup Arg(t)
  /\ up' = up \cup {Nic(t)}
  /\ UNCHANGED <<wish, untagged, type, addressed, nicAddr, history, entered, faults>>

\* RemoveVlanFromInterface, if the port has the VLAN now: the sub-interface goes, or
\* where there is none the port itself.
Leave(t) ==
  /\ Makes(t, {"leave"})
  /\ LET n == Nic(t)
         v == Arg(t)
         left == IF v \in tagged[n] /\ untagged[n] = v THEN {} ELSE {v} \cap VlansOf(n)
     IN  /\ tagged' = [tagged EXCEPT ![n] = @ \ {v}]
         /\ gvrp' = [gvrp EXCEPT ![n] = @ \ {v}]
         /\ untagged' = [untagged EXCEPT ![n] = IF @ = v /\ v \notin tagged[n] THEN "none" ELSE @]
         /\ Drop(n, left)
  /\ UNCHANGED <<wish, up, type, nicAddr, history, entered, faults>>

\* A call of Edit throws and ends it; what it did before that VlanBridges has.
Fail(t) ==
  /\ job[t].todo # << >>
  /\ Head(job[t].todo).do \in {"up", "down", "clear", "untag", "tag", "tagGvrp"}
  /\ IF Impossible(t) THEN UNCHANGED faults ELSE faults < MaxFaults /\ faults' = faults + 1
  /\ job' = [job EXCEPT ![t] = Idle]
  /\ due' = [n \in Nics |-> IF n \in job[t].on THEN Anything ELSE due[n]]
  /\ UNCHANGED <<wish, port, forgotten, missed, entered>>

\* The process dies; the dictionary is lost, the kernel keeps its state.
Crash ==
  /\ faults < MaxFaults
  /\ faults' = faults + 1
  /\ job' = [t \in Threads |-> Idle]
  /\ wish' = [n \in Nics |-> "unset"]
  /\ forgotten' = Nics
  /\ due' = [n \in Nics |-> IF n \in Busy THEN Anything ELSE due[n]]
  /\ UNCHANGED <<port, missed, entered>>

Next == \/ \E t \in Threads :
             \/ \E f \in Forms : Edit(t, f) \/ Refuse(t, f)
             \/ \E v \in Vlans : EditBridge(t, v)
             \/ \E b \in Batches : AnalyseFrame(t, b)
             \/ SetState(t) \/ Clear(t) \/ Untag(t) \/ Tag(t) \/ SetType(t) \/ Address(t)
             \/ Join(t) \/ Leave(t) \/ Fail(t) \/ Return(t)
        \/ Crash

Spec == Init /\ [][Next]_vars

-----------------------------------------------------------------------------
\* Properties.

\* The state is well typed; a VLAN has a bridge where a port is in it, and an address
\* only with a bridge.
TypeOK ==
  /\ wish \in [Nics -> {"Listening", "Off", "unset"}]
  /\ up \in SUBSET Nics /\ nicAddr \in SUBSET Nics /\ missed \in SUBSET Nics
  /\ tagged \in [Nics -> SUBSET Vlans]
  /\ \A n \in Nics : gvrp[n] \subseteq tagged[n]
  /\ untagged \in [Nics -> Vlans \cup {"none"}]
  /\ type \in [Nics -> Types]
  /\ bridges \in SUBSET Vlans /\ addressed \in SUBSET bridges
  /\ \A n \in Nics : VlansOf(n) \subseteq bridges
  /\ forgotten \in SUBSET Nics
  /\ entered \in 0..MaxHandlers /\ faults \in 0..MaxFaults

Settled == {n \in Nics \ Busy : due[n] # Anything}

\* A port is what its last edit and the frames since made of it (EthernetController.Edit,
\* FrameReader.AnalyseFrame), if none of them failed or shared the port with another:
\* frames change the VLANs of GVRP ports and nothing else, one after the other.
PortsAsAsked ==
  \A n \in Settled :
    /\ VlansOf(n) = due[n].vlans
    /\ type[n] = due[n].type
    /\ (n \in up) = due[n].up
    /\ gvrp[n] # {} => due[n].gvrp

\* A port does GVRP only if the dictionary has it listen, so that its box on the page, read
\* from the kernel, is not another than the capture task's.  It may be after an edit
\* that was refused, or a restart: both leave a wish that is not the last edit's.
GvrpIsWished == \A n \in Settled \ forgotten : gvrp[n] # {} => wish[n] = "Listening"

\* A port that blocks others has one VLAN at most (the messages of Edit), unless GVRP
\* gave it more.
PrivateHasOneVlan ==
  \A n \in Settled : type[n] # "Off" /\ ~due[n].gvrp => Cardinality(VlansOf(n)) <= 1

\* The address of a VLAN sits on its bridge alone, unless it was posted from a page that
\* did not list the port yet (SetBridgeAddress, ApplyEthernetInterfaceVLANs).
NoAddressBehindBridge ==
  \A n \in Settled \ missed : untagged[n] \in addressed => n \notin nicAddr
=============================================================================
