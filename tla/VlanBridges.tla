---------------------------- MODULE VlanBridges ----------------------------
(***************************************************************************)
(* The VLANs of the switch.  A VLAN is a Linux bridge; a port carries it   *)
(* untagged as a member of the bridge itself, tagged through a             *)
(* sub-interface port.vlan that is a member.  The handlers of              *)
(* EthernetServices (Clear, Apply, SetBridgeAddress) and FrameReader's     *)
(* AnalyseFrame are sequences of shell commands, built as they go from     *)
(* what earlier commands printed.  Nothing locks the bridges: handlers of  *)
(* different threads interleave command by command, an uncaught failure    *)
(* ends a handler where it stands, and the bridges outlive the process.    *)
(* No port's name contains another's, and ports stay plugged in.           *)
(***************************************************************************)
EXTENDS Sequences, SequencesExt, FiniteSets, Naturals

CONSTANTS Nics,        \* the Ethernet ports
          Vlans,       \* the VLAN numbers
          Threads,     \* web threads and capture threads
          Calls,       \* thread |-> the handler calls it may make
          Overlap,     \* may handlers that share a port or a VLAN run at once?
          MaxCrashes   \* bound: how often the process dies

\* What a call carries: the form of the edit page, the VLAN of the address page, the
\* VLANs a frame adds and removes.
Forms ==
  [op : {"edit"}, nic : Nics, active : BOOLEAN, tagged : BOOLEAN, gvrp : BOOLEAN,
   vlans : Seq(Vlans)]
    \cup [op : {"address"}, vlan : Vlans]
    \cup [op : {"frame"}, adds : Seq(Vlans), removes : Seq(Vlans)]

ASSUME VlanAssumption ==
  /\ IsFiniteSet(Nics) /\ IsFiniteSet(Vlans)
  /\ Calls \in [Threads -> SUBSET Forms]
  /\ MaxCrashes \in Nat /\ Overlap \in BOOLEAN
  /\ "none" \notin Vlans

VARIABLES bridge,      \* vlan |-> "absent", "down" or "up"
          master,      \* port |-> the VLAN whose bridge it is a member of, or "none"
          sub,         \* <<port, vlan>> |-> the sub-interface: "absent", "free", "member"
          gvrp,        \* the sub-interfaces made with "gvrp on"
          nicUp,       \* the ports that are up
          nicAddr,     \* the ports that hold an IP address
          bridgeAddr,  \* the VLANs whose bridge holds an IP address
          job,         \* thread |-> the handler it runs
          goal,        \* history: port |-> the row its last update asked for
          settled,     \* history: ports whose last update ran alone to its end
          dirty,       \* history: VLANs a handler left half done
          crashes      \* how often the process died so far

kernel == <<bridge, master, sub, gvrp, nicUp, nicAddr, bridgeAddr>>
history == <<goal, settled, dirty>>
vars == <<bridge, master, sub, gvrp, nicUp, nicAddr, bridgeAddr,
          job, goal, settled, dirty, crashes>>

\* A command: what it does, to which port and VLAN, and who catches its failure:
\* nobody ("no"), a try of its own ("yes"), or a try it shares with those after it.
Cmd(do, n, v, catch) == [do |-> do, nic |-> n, vlan |-> v, catch |-> catch]

\* A handler: the commands it still has to run, whether it tags and asks for GVRP,
\* what its probes saw, and (history) the ports it updates, those of them it can make a
\* promise for (Enter), and the ports and VLANs that it, and those it overlaps, work on.
Idle == [op |-> "none", todo |-> << >>, tagged |-> FALSE, gvrp |-> FALSE,
         seen |-> {}, on |-> {}, sound |-> {}, uses |-> {}]

Anything == [row |-> "any"]   \* no particular row

-----------------------------------------------------------------------------
\* What the commands print.

Member(n, v) == master[n] = v \/ sub[<<n, v>>] = "member"

Empty(v) == \A n \in Nics : ~Member(n, v)

\* Mutant: lines that name no VLAN are not filtered out.
LinesOf_Unfiltered(n) ==
  {<<master[n]>> \o subs : subs \in SetToSeqs({v \in Vlans : sub[<<n, v>>] = "member"})}

\* The VLANs ip link names in the lines of port n and its sub-interfaces: the
\* port's own line comes first, the others follow in any order.
LinesOf(n) ==
  LET own == IF master[n] = "none" THEN << >> ELSE <<master[n]>>
  IN {own \o subs : subs \in SetToSeqs({v \in Vlans : sub[<<n, v>>] = "member"})}

\* IsGVRPEnabled: some sub-interface of the port was made with "gvrp on".
GVRPEnabled(n) == \E v \in Vlans : <<n, v>> \in gvrp

RowOf(n) == [tagged |-> {v \in Vlans : sub[<<n, v>>] = "member"},
             untagged |-> Vlans \cap {master[n]}]

\* Ports with a sub-interface outside its bridge, left by a handler that died.
Orphaned == {n \in Nics : \E v \in Vlans : sub[<<n, v>>] = "free"}

\* The command fails: its device is missing, exists already, or is taken.
Impossible(c) ==
  LET s == sub[<<c.nic, c.vlan>>] IN
  \/ c.do \in {"up", "down", "delete", "tidy", "addif", "addsub", "address", "flushBridge"}
       /\ bridge[c.vlan] = "absent"
  \/ c.do = "addbr" /\ bridge[c.vlan] # "absent"
  \/ c.do = "addif" /\ master[c.nic] # "none"
  \/ c.do = "delif" /\ master[c.nic] # c.vlan
  \/ c.do \in {"link", "linkGvrp"} /\ s # "absent"
  \/ c.do = "addsub" /\ s # "free"
  \/ c.do \in {"subUp", "subDown", "unlink"} /\ s = "absent"
  \/ c.do = "subUp" /\ c.nic \notin nicUp
  \/ c.do = "master" /\ master[c.nic] = "none"

-----------------------------------------------------------------------------
\* What the handlers run.

Each(s, Prog(_)) == FlattenSeq([k \in DOMAIN s |-> Prog(s[k])])

\* Mutant: the answer of ip link show read the wrong way round.
Take_Swapped(n, v, exists, catch) ==
  IF ~exists THEN <<Cmd("subDown", n, v, catch), Cmd("unlink", n, v, catch)>>
  ELSE <<Cmd("down", n, v, catch), Cmd("delif", n, v, catch), Cmd("up", n, v, catch)>>

\* Clear and RemoveVlan, after they saw whether port.vlan exists.
Take(n, v, exists, catch) ==
  IF exists THEN <<Cmd("subDown", n, v, catch), Cmd("unlink", n, v, catch)>>
  ELSE <<Cmd("down", n, v, catch), Cmd("delif", n, v, catch), Cmd("up", n, v, catch)>>

\* Mutant: the bridge is not cleaned up.
Leave_NoTidy(n, v, catch) == <<Cmd("look", n, v, catch)>>

Leave(n, v, catch) == <<Cmd("look", n, v, catch), Cmd("tidy", n, v, "no")>>

\* Apply: the probes of one VLAN, and what follows them.
Probes(n, v) == <<Cmd("hasAddress", n, v, "no"), Cmd("exists", n, v, "no"),
                  Cmd("hasVLAN", n, v, "no")>>

Create(n, v) == <<Cmd("addbr", n, v, "no"), Cmd("up", n, v, "no")>>

JoinUntagged(n, v) ==
  <<Cmd("down", n, v, "no"), Cmd("addif", n, v, "no"), Cmd("up", n, v, "no")>>

JoinTagged(n, v, link, catch) ==
  <<Cmd("down", n, v, catch), Cmd(link, n, v, catch), Cmd("up", n, v, catch),
    Cmd("nicUp", n, v, catch), Cmd("down", n, v, catch), Cmd("addsub", n, v, catch),
    Cmd("subUp", n, v, catch), Cmd("up", n, v, catch)>>

\* Mutant: a port that joins keeps its address.
Join_NoFlush(n, v, j, hasVLAN) ==
  (IF "bridge" \in j.seen THEN << >> ELSE Create(n, v)) \o
  (IF j.tagged THEN JoinTagged(n, v, IF j.gvrp THEN "linkGvrp" ELSE "link", "no")
   ELSE (IF hasVLAN THEN <<Cmd("master", n, v, "no")>> ELSE << >>) \o JoinUntagged(n, v))

\* Apply, after its probes.
Join(n, v, j, hasVLAN) ==
  (IF "bridge" \in j.seen THEN << >> ELSE Create(n, v)) \o
  (IF j.tagged THEN JoinTagged(n, v, IF j.gvrp THEN "linkGvrp" ELSE "link", "no")
   ELSE (IF hasVLAN THEN <<Cmd("master", n, v, "no")>> ELSE << >>)
        \o JoinUntagged(n, v)
        \o (IF {"bridge", "address"} \subseteq j.seen
            THEN <<Cmd("flushNic", n, v, "no")>> ELSE << >>))

\* ApplyEthernetGVRPInterfaceVLANs: every command in a try of its own.
JoinGVRP(n, v) ==
  <<Cmd("addbr", n, v, "yes"), Cmd("up", n, v, "yes")>>
    \o JoinTagged(n, v, "linkGvrp", "yes")

\* EthernetController.Edit: state, Clear, Apply.  SetEthernetInterfaceType follows
\* and touches no bridge (ForwardRules).
EditProg(c) ==
  <<Cmd(IF c.active THEN "nicUp" ELSE "nicDown", c.nic, "none", "no"),
    Cmd("clear", c.nic, "none", "no")>>
  \o Each(c.vlans, LAMBDA v : Probes(c.nic, v))

AddressProg(c, nics) ==
  Each(nics, LAMBDA n : <<Cmd("flushNic", n, c.vlan, "yes")>>) \o
  <<Cmd("flushBridge", "none", c.vlan, "yes"), Cmd("address", "none", c.vlan, "yes")>>

\* AnalyseFrame after its snapshot: for each VLAN to add, each GVRP port gets the
\* VLANs it had in the snapshot and the new one; then the removals.
FrameProg(c, nics, had) ==
  Each(c.adds, LAMBDA v : Each(nics, LAMBDA n :
    Each(had[n], LAMBDA w : JoinGVRP(n, w)) \o JoinGVRP(n, v))) \o
  Each(c.removes, LAMBDA v : Each(nics, LAMBDA n : <<Cmd("reported", n, v, "no")>>))

-----------------------------------------------------------------------------
Init == /\ bridge = [v \in Vlans |-> "absent"]
        /\ master = [n \in Nics |-> "none"]
        /\ sub = [p \in Nics \X Vlans |-> "absent"]
        /\ gvrp = {}
        /\ nicUp = Nics
        /\ nicAddr \in SUBSET Nics
        /\ bridgeAddr = {}
        /\ job = [t \in Threads |-> Idle]
        /\ goal = [n \in Nics |-> RowOf(n)]
        /\ settled = Nics
        /\ dirty = {}
        /\ crashes = 0

Busy(n) == \E t \in Threads : n \in job[t].on

\* An update of these ports begins; it promises nothing if another one is running.
Claim(nics, rows) ==
  /\ goal' = [n \in Nics |-> IF n \notin nics THEN goal[n]
                              ELSE IF Busy(n) THEN Anything ELSE rows[n]]
  /\ settled' = settled \ nics

\* What the port will show: untagged, it joins the VLANs one after the other and
\* leaves the one before, so the last one counts.
RowAsked(c) ==
  IF c.tagged THEN [tagged |-> ToSet(c.vlans), untagged |-> {}]
  ELSE [tagged |-> {}, untagged |-> IF c.vlans = << >> THEN {} ELSE {Last(c.vlans)}]

\* The ports and VLANs a call works on: a port is taken out of the VLANs it is in.
Touches(c) ==
  CASE c.op = "edit" -> {c.nic} \cup ToSet(c.vlans) \cup {v \in Vlans : Member(c.nic, v)}
    [] c.op = "address" -> {c.vlan} \cup {n \in Nics : Member(n, c.vlan)}
    [] c.op = "frame" ->
         LET on == {n \in Nics : GVRPEnabled(n)}
         IN on \cup ToSet(c.adds) \cup ToSet(c.removes)
               \cup {v \in Vlans : \E n \in on : Member(n, v)}

MayStart(t, c) ==
  /\ job[t] = Idle
  /\ Overlap \/ \A o \in Threads : job[o].uses \cap Touches(c) = {}

\* The handler j of a call begins.  Nobody waits for anybody: if others work on one of
\* its ports or VLANs, all of them go on together, and none can promise a row any more.
Enter(t, c, j) ==
  LET near == {o \in Threads : job[o].uses \cap Touches(c) # {}}
      uses == Touches(c) \cup UNION {job[o].uses : o \in near}
  IN job' = [o \in Threads |->
       IF o = t THEN [j EXCEPT !.uses = uses, !.sound = IF near = {} THEN @ ELSE {}]
       ELSE IF o \in near THEN [job[o] EXCEPT !.uses = uses, !.sound = {}]
       ELSE job[o]]

\* A web thread enters Edit.
Edit(t, c) ==
  /\ MayStart(t, c)
  /\ c.op = "edit"
  /\ Enter(t, c, [op |-> "edit", todo |-> EditProg(c), tagged |-> c.tagged,
                  gvrp |-> c.gvrp, seen |-> {}, on |-> {c.nic},
                  sound |-> {c.nic} \ Orphaned, uses |-> {}])
  /\ Claim({c.nic}, [n \in {c.nic} |-> RowAsked(c)])
  /\ UNCHANGED <<kernel, dirty, crashes>>

\* A web thread enters EditBridge, from a page that names the VLAN's ports.
EditBridge(t, c) ==
  /\ MayStart(t, c)
  /\ c.op = "address"
  /\ bridge[c.vlan] # "absent"
  /\ LET nics == SetToSeq({n \in Nics : Member(n, c.vlan)})
     IN Enter(t, c, [Idle EXCEPT !.op = "address", !.todo = AddressProg(c, nics)])
  /\ UNCHANGED <<kernel, history, crashes>>

\* A capture thread enters AnalyseFrame and takes its snapshot of the GVRP ports.
AnalyseFrame(t, c) ==
  /\ MayStart(t, c)
  /\ c.op = "frame"
  /\ LET on == {n \in Nics : GVRPEnabled(n)} IN
     \E had \in [on -> UNION {LinesOf(n) : n \in on}] :
       /\ \A n \in on : had[n] \in LinesOf(n)
       /\ Enter(t, c, [Idle EXCEPT !.op = "frame", !.on = on, !.sound = on \cap settled,
                                   !.todo = FrameProg(c, SetToSeq(on), had)])
       /\ Claim(on, [n \in on |->
            IF n \notin settled THEN Anything
            ELSE [RowOf(n) EXCEPT !.tagged = (@ \cup ToSet(c.adds)) \ ToSet(c.removes)]])
  /\ UNCHANGED <<kernel, dirty, crashes>>

\* The handler returns.  A port that has or had an orphan does not count as settled.
Return(t) ==
  /\ job[t] # Idle
  /\ job[t].todo = << >>
  /\ job' = [job EXCEPT ![t] = Idle]
  /\ settled' = settled \cup {n \in job[t].sound \ Orphaned : goal[n] # Anything}
  /\ UNCHANGED <<kernel, goal, dirty, crashes>>

-----------------------------------------------------------------------------
\* One command each.

Cur(t) == Head(job[t].todo)

\* The next command of t is one of these and can succeed.
Runs(t, what) == /\ job[t].todo # << >>
                 /\ Cur(t).do \in what
                 /\ ~Impossible(Cur(t))

Then(t, more) == job' = [job EXCEPT ![t].todo = more \o Tail(@)]

Proceed(t) == Then(t, << >>)

Keep == UNCHANGED <<history, crashes>>

\* ip link set port up, down.
SetPort(t) ==
  /\ Runs(t, {"nicUp", "nicDown"})
  /\ nicUp' = IF Cur(t).do = "nicUp" THEN nicUp \cup {Cur(t).nic}
              ELSE nicUp \ {Cur(t).nic}
  /\ Proceed(t)
  /\ UNCHANGED <<bridge, master, sub, gvrp, nicAddr, bridgeAddr>> /\ Keep

\* brctl addbr vlan.
AddBridge(t) ==
  /\ Runs(t, {"addbr"})
  /\ bridge' = [bridge EXCEPT ![Cur(t).vlan] = "down"]
  /\ Proceed(t)
  /\ UNCHANGED <<master, sub, gvrp, nicUp, nicAddr, bridgeAddr>> /\ Keep

\* ip link set vlan up, down.
SetBridge(t) ==
  /\ Runs(t, {"up", "down"})
  /\ bridge' = [bridge EXCEPT ![Cur(t).vlan] = Cur(t).do]
  /\ Proceed(t)
  /\ UNCHANGED <<master, sub, gvrp, nicUp, nicAddr, bridgeAddr>> /\ Keep

\* ip link delete vlan: the kernel releases whatever ports it still has.
DeleteBridge(t) ==
  /\ Runs(t, {"delete"})
  /\ LET v == Cur(t).vlan IN
     /\ bridge' = [bridge EXCEPT ![v] = "absent"]
     /\ master' = [n \in Nics |-> IF master[n] = v THEN "none" ELSE master[n]]
     /\ sub' = [p \in Nics \X Vlans |->
                   IF p[2] = v /\ sub[p] = "member" THEN "free" ELSE sub[p]]
     /\ bridgeAddr' = bridgeAddr \ {v}
  /\ Proceed(t)
  /\ UNCHANGED <<gvrp, nicUp, nicAddr>> /\ Keep

\* brctl addif, delif vlan port.
Enslave(t) ==
  /\ Runs(t, {"addif", "delif"})
  /\ master' = [master EXCEPT ![Cur(t).nic] =
                   IF Cur(t).do = "addif" THEN Cur(t).vlan ELSE "none"]
  /\ Proceed(t)
  /\ UNCHANGED <<bridge, sub, gvrp, nicUp, nicAddr, bridgeAddr>> /\ Keep

\* ip link add link port name port.vlan; brctl addif vlan port.vlan; ip link delete
\* port.vlan; ip link set port.vlan up, down (its own state is not kept here).
SetSub(t) ==
  /\ Runs(t, {"link", "linkGvrp", "addsub", "unlink", "subUp", "subDown"})
  /\ LET p == <<Cur(t).nic, Cur(t).vlan>> IN
     /\ sub' = [sub EXCEPT ![p] = CASE Cur(t).do \in {"link", "linkGvrp"} -> "free"
                                    [] Cur(t).do = "addsub" -> "member"
                                    [] Cur(t).do = "unlink" -> "absent"
                                    [] OTHER -> @]
     /\ gvrp' = CASE Cur(t).do = "linkGvrp" -> gvrp \cup {p}
                  [] Cur(t).do = "unlink" -> gvrp \ {p}
                  [] OTHER -> gvrp
  /\ Proceed(t)
  /\ UNCHANGED <<bridge, master, nicUp, nicAddr, bridgeAddr>> /\ Keep

\* ip address flush port, ip address flush vlan, ip address add.
SetAddress(t) ==
  /\ Runs(t, {"flushNic", "flushBridge", "address"})
  /\ nicAddr' = IF Cur(t).do = "flushNic" THEN nicAddr \ {Cur(t).nic} ELSE nicAddr
  /\ bridgeAddr' = CASE Cur(t).do = "flushBridge" -> bridgeAddr \ {Cur(t).vlan}
                     [] Cur(t).do = "address" -> bridgeAddr \cup {Cur(t).vlan}
                     [] OTHER -> bridgeAddr
  /\ Proceed(t)
  /\ UNCHANGED <<bridge, master, sub, gvrp, nicUp>> /\ Keep

\* Clear lists the VLANs of the port and takes it out of each.
Clear(t) ==
  /\ Runs(t, {"clear"})
  /\ \E vs \in LinesOf(Cur(t).nic) :
       Then(t, Each(vs, LAMBDA v : Leave(Cur(t).nic, v, "no")))
  /\ UNCHANGED kernel /\ Keep

\* AnalyseFrame looks whether the port still has the VLAN it is to leave.
Reported(t) ==
  /\ Runs(t, {"reported"})
  /\ Then(t, IF Member(Cur(t).nic, Cur(t).vlan)
             THEN Leave(Cur(t).nic, Cur(t).vlan, "try") ELSE << >>)
  /\ UNCHANGED kernel /\ Keep

\* ip link show port.vlan: is the port tagged?
Look(t) ==
  /\ Runs(t, {"look"})
  /\ LET c == Cur(t) IN
     Then(t, Take(c.nic, c.vlan, sub[<<c.nic, c.vlan>>] # "absent", c.catch))
  /\ UNCHANGED kernel /\ Keep

\* Mutant: the bridge goes with any port that leaves.
Tidy_Always(t) ==
  /\ Runs(t, {"tidy"})
  /\ LET c == Cur(t) IN
     Then(t, <<Cmd("down", c.nic, c.vlan, "no"), Cmd("delete", c.nic, c.vlan, "no")>>)
  /\ UNCHANGED kernel /\ Keep

\* brctl show vlan: a bridge without ports is removed.
Tidy(t) ==
  /\ Runs(t, {"tidy"})
  /\ LET c == Cur(t) IN
     Then(t, IF Empty(c.vlan)
             THEN <<Cmd("down", c.nic, c.vlan, "no"), Cmd("delete", c.nic, c.vlan, "no")>>
             ELSE << >>)
  /\ UNCHANGED kernel /\ Keep

\* Apply asks whether the bridge has an address, and whether it exists.
Probe(t) ==
  /\ Runs(t, {"hasAddress", "exists"})
  /\ LET v == Cur(t).vlan
         seen == IF Cur(t).do = "hasAddress"
                 THEN IF v \in bridgeAddr THEN {"address"} ELSE {}
                 ELSE job[t].seen \cup (IF bridge[v] # "absent" THEN {"bridge"} ELSE {})
     IN job' = [job EXCEPT ![t].seen = seen, ![t].todo = Tail(@)]
  /\ UNCHANGED kernel /\ Keep

\* Apply asks whether the port or a sub-interface of it is in any bridge.
HasVLAN(t) ==
  /\ Runs(t, {"hasVLAN"})
  /\ LET c == Cur(t) IN
     Then(t, Join(c.nic, c.vlan, job[t], \E v \in Vlans : Member(c.nic, v)))
  /\ UNCHANGED kernel /\ Keep

\* Apply takes the port out of the VLAN it is in, whose bridge goes down and is
\* neither brought up again nor tidied.
Master(t) ==
  /\ Runs(t, {"master"})
  /\ LET n == Cur(t).nic IN
     /\ Then(t, <<Cmd("down", n, master[n], "no"), Cmd("delif", n, master[n], "no")>>)
     /\ dirty' = dirty \cup {master[n]}
  /\ UNCHANGED <<kernel, goal, settled, crashes>>

VlansIn(todo) == {c.vlan : c \in ToSet(todo)} \cap Vlans

\* A command fails.  Caught alone, the handler goes on; in a shared try, it goes
\* on after that; uncaught, the request ends with an error page.
Fail(t) ==
  /\ job[t].todo # << >>
  /\ Impossible(Cur(t))
  /\ LET todo == job[t].todo
         catch == Cur(t).catch
         after == SelectInSeq(todo, LAMBDA c : c.catch # "try")
     IN /\ job' = [job EXCEPT ![t] =
                     CASE catch = "no" -> Idle
                       [] catch = "yes" -> [@ EXCEPT !.todo = Tail(todo)]
                       [] catch = "try" -> [@ EXCEPT !.todo = SubSeq(todo, after, Len(todo))]]
        /\ dirty' = CASE catch = "no" -> dirty \cup VlansIn(todo)
                     [] catch = "yes" -> dirty
                     [] catch = "try" -> dirty \cup {Cur(t).vlan}
  /\ UNCHANGED <<kernel, goal, settled, crashes>>

\* The process dies and systemd starts it again; the kernel keeps its state.
Crash ==
  /\ crashes < MaxCrashes
  /\ \E t \in Threads : job[t] # Idle
  /\ crashes' = crashes + 1
  /\ job' = [t \in Threads |-> Idle]
  /\ goal' = [n \in Nics |-> IF Busy(n) THEN Anything ELSE goal[n]]
  /\ dirty' = dirty \cup UNION {VlansIn(job[t].todo) : t \in Threads}
  /\ UNCHANGED <<kernel, settled>>

Next == \/ \E t \in Threads :
             \/ \E c \in Calls[t] : Edit(t, c) \/ EditBridge(t, c) \/ AnalyseFrame(t, c)
             \/ Return(t) \/ Fail(t)
             \/ SetPort(t) \/ AddBridge(t) \/ SetBridge(t) \/ DeleteBridge(t)
             \/ Enslave(t) \/ SetSub(t) \/ SetAddress(t)
             \/ Clear(t) \/ Reported(t) \/ Look(t) \/ Tidy(t)
             \/ Probe(t) \/ HasVLAN(t) \/ Master(t)
        \/ Crash

Spec == Init /\ [][Next]_vars

-----------------------------------------------------------------------------
\* Properties.

Dos == {"nicUp", "nicDown", "clear", "reported", "look", "tidy", "hasAddress", "exists",
        "hasVLAN", "master", "addbr", "up", "down", "delete", "addif", "delif", "link",
        "linkGvrp", "addsub", "unlink", "subUp", "subDown", "flushNic", "flushBridge",
        "address"}

\* The state is well typed; a port or sub-interface is only ever a member of a
\* bridge that exists, and only sub-interfaces that exist are GVRP's.
TypeOK ==
  /\ bridge \in [Vlans -> {"absent", "down", "up"}]
  /\ master \in [Nics -> Vlans \cup {"none"}]
  /\ sub \in [Nics \X Vlans -> {"absent", "free", "member"}]
  /\ gvrp \in SUBSET {p \in Nics \X Vlans : sub[p] # "absent"}
  /\ nicUp \in SUBSET Nics /\ nicAddr \in SUBSET Nics
  /\ bridgeAddr \in SUBSET Vlans
  /\ \A t \in Threads : \A c \in ToSet(job[t].todo) :
       /\ c.do \in Dos
       /\ c.nic \in Nics \/ c.do \in {"flushBridge", "address"}
       /\ c.vlan \in Vlans \/ c.do \in {"nicUp", "nicDown", "clear"}
  /\ settled \in SUBSET Nics /\ dirty \in SUBSET Vlans
  /\ crashes \in 0..MaxCrashes
  /\ \A n \in Nics, v \in Vlans : Member(n, v) => bridge[v] # "absent"

\* A VLAN no handler works on serves its ports: its bridge is up and has a port.
\* Clear and RemoveVlan delete the bridge whose last port left, and every command
\* sequence that takes a bridge down brings it up again.  The exceptions are in
\* dirty: a handler died or failed in the VLAN, or Apply moved a port out of it.
BridgesServe ==
  \A v \in Vlans \ dirty :
    (\A t \in Threads : v \notin VlansIn(job[t].todo)) /\ bridge[v] # "absent"
      => bridge[v] = "up" /\ ~Empty(v)

\* The address of a VLAN sits on its bridge alone: a settled port that carries the
\* VLAN untagged holds none itself, whether it joined before or after the address
\* was set (EditBridge flushes the one, Apply the other).
AddressOnBridgeOnly ==
  (\A t \in Threads : job[t] = Idle) =>
    \A v \in bridgeAddr, n \in settled : master[n] = v => n \notin nicAddr

\* The pages keep their promise (VlanTable): an update that ran alone gives its port
\* the row it asked for, and neither it nor one that failed or died half-way
\* changes the row of another port.
VT == INSTANCE VlanTable
        WITH table <- [n \in Nics |-> IF n \in settled THEN RowOf(n) ELSE [row |-> "changing"]],
             goal <- [n \in Nics |-> IF Busy(n) THEN goal[n] ELSE [row |-> "none"]]

ImplementsVlanTable == VT!Spec

\* The tests (EthernetTests.cs:52-53, 73) clear a port, apply VLANs to it and find
\* just those VLANs on it.
TestsHold ==
  \A n \in Nics : ~Busy(n) /\ goal[n] # Anything => RowOf(n) = goal[n]

\* So they do as long as the process never died and no two handlers share a port or
\* a VLAN: no command of an update fails, whatever updates came before it.
UpdatesSucceed == crashes = 0 => TestsHold

\* The tests' promise of the updates that did not end in an error page (those are
\* dirty): the VLANs the page reported as applied are there.
NoUpdateLost ==
  \A n \in Nics : ~Busy(n) /\ goal[n] # Anything
                    /\ (goal[n].tagged \cup goal[n].untagged) \cap dirty = {}
                  => RowOf(n) = goal[n]
=============================================================================
