--------------------------- MODULE VlanRowsProofs ---------------------------
(***************************************************************************)
(* Proofs about the rows of the ports in VlanBridges, for any ports,       *)
(* VLANs, threads and calls, whichever handlers run at once: the pages     *)
(* implement VlanTable, and the address of a VLAN sits on its bridge       *)
(* alone.                                                                  *)
(***************************************************************************)
EXTENDS VlanBridgesProofs

-----------------------------------------------------------------------------
\* What the commands of a handler make of a port.

\* A port as its handler may think of it: the bridge it is in, its sub-interfaces, VLANs
\* that have a bridge, the VLANs whose bridge may have an address, and whether the port
\* holds no address next to one of its bridge.
Views == [master : Vlans \cup {"none"}, sub : [Vlans -> {"absent", "free", "member"}],
          bridges : SUBSET Vlans, addrs : SUBSET Vlans, clean : BOOLEAN]

\* Commands after which the bridges there were are still there.
Steady == {"up", "down", "link", "linkGvrp", "nicUp", "addsub", "subUp"}

BridgesAfter(c, x) ==
  IF c.catch = "try" THEN {}
  ELSE IF c.do = "addbr" THEN x.bridges \cup {c.vlan}
  ELSE IF c.do \in Steady THEN x.bridges ELSE {}

\* What a command makes of the sub-interfaces of its port; one that stands for others
\* (Clear, the probe Apply begins with) what they make of them.
SubAfter(tagged, c, x) ==
  LET v == c.vlan
      now(s) == [x.sub EXCEPT ![v] = s]
  IN CASE c.do = "clear" -> [w \in Vlans |-> "absent"]
       [] c.do = "reported" -> IF x.sub[v] = "member" THEN now("absent") ELSE x.sub
       [] c.do \in {"look", "unlink"} -> now("absent")
       [] c.do \in {"link", "linkGvrp"} ->
            IF c.catch = "yes" /\ x.sub[v] # "absent" THEN x.sub ELSE now("free")
       [] c.do = "addsub" -> IF c.catch = "yes" /\ x.sub[v] # "free" THEN x.sub ELSE now("member")
       [] c.do = "hasVLAN" -> IF tagged THEN now("member") ELSE x.sub
       [] OTHER -> x.sub

MasterAfter(tagged, c, x) ==
  CASE c.do \in {"clear", "delif", "master"} -> "none"
    [] c.do = "look" -> IF x.sub[c.vlan] = "absent" THEN "none" ELSE x.master
    [] c.do = "addif" -> c.vlan
    [] c.do = "hasVLAN" -> IF tagged THEN x.master ELSE c.vlan
    [] OTHER -> x.master

\* What a command relies on: those in a try, and those that are told what to do by what
\* the port looks like.
Ready(c, x) ==
  /\ c.catch = "try" => c.do \in {"look", "subDown", "unlink"} /\ x.sub[c.vlan] # "absent"
  /\ c.catch = "yes" => c.do = "addbr" \/ c.do \in Steady
  /\ c.do = "clear" => \A v \in Vlans : x.sub[v] # "free"
  /\ c.do = "reported" => x.master = "none"
  /\ c.do = "addsub" /\ c.catch = "yes" => c.vlan \in x.bridges

\* Command c takes the view of port n from x to y, or to one that knows less.
Does(n, tagged, c, x, y) ==
  /\ y.bridges \subseteq BridgesAfter(c, x)
  /\ x.addrs \subseteq y.addrs
  /\ y.clean => \/ y.master = "none"
                \/ x.clean /\ y.master = x.master
                \/ c.nic = n /\ c.do = "flushNic"
                \/ c.nic = n /\ c.do = "hasVLAN" /\ ~tagged
                \/ c.nic = n /\ c.do = "addif" /\ c.vlan \notin x.addrs
  /\ IF c.nic = n
     THEN Ready(c, x) /\ y.sub = SubAfter(tagged, c, x) /\ y.master = MasterAfter(tagged, c, x)
     ELSE y.sub = x.sub /\ y.master = x.master

\* So do the commands of s, one after the other.
Trace(s, n, tagged, r) ==
  /\ r \in [0..Len(s) -> Views]
  /\ \A i \in 1..Len(s) : Does(n, tagged, s[i], r[i - 1], r[i])

Leads(s, n, tagged, x, y) == \E r : Trace(s, n, tagged, r) /\ r[0] = x /\ r[Len(s)] = y

\* x knows at least what y knows.
Knows(x, y) ==
  /\ x.master = y.master /\ x.sub = y.sub
  /\ y.bridges \subseteq x.bridges /\ x.addrs \subseteq y.addrs
  /\ y.clean => x.clean

LEMMA DoesKnowing ==
  ASSUME NEW n, NEW tagged, NEW c, NEW x \in Views, NEW y \in Views, NEW z \in Views,
         Knows(x, y), Does(n, tagged, c, y, z)
  PROVE  Does(n, tagged, c, x, z)
<1>1. BridgesAfter(c, y) \subseteq BridgesAfter(c, x)
  BY DEF BridgesAfter, Knows
<1>2. SubAfter(tagged, c, x) = SubAfter(tagged, c, y) /\ MasterAfter(tagged, c, x) = MasterAfter(tagged, c, y)
  BY DEF SubAfter, MasterAfter, Knows
<1>3. Ready(c, y) => Ready(c, x)
  BY DEF Ready, Knows
<1> HIDE DEF BridgesAfter, SubAfter, MasterAfter, Ready
<1> QED BY <1>1, <1>2, <1>3 DEF Does, Knows

LEMMA LeadsNone ==
  ASSUME NEW n, NEW tagged, NEW x \in Views
  PROVE  /\ Leads(<< >>, n, tagged, x, x)
         /\ \A y : Leads(<< >>, n, tagged, x, y) => y = x
<1>1. Trace(<< >>, n, tagged, [i \in 0..0 |-> x])
  BY DEF Trace
<1> QED BY <1>1 DEF Leads

LEMMA LeadsOne ==
  ASSUME NEW n, NEW tagged, NEW c, NEW x \in Views, NEW y \in Views, Does(n, tagged, c, x, y)
  PROVE  Leads(<<c>>, n, tagged, x, y)
<1> DEFINE r == [i \in 0..1 |-> IF i = 0 THEN x ELSE y]
<1>1. Len(<<c>>) = 1 /\ <<c>>[1] = c /\ 1..1 = {1}
  OBVIOUS
<1>2. r \in [0..1 -> Views] /\ r[0] = x /\ r[1] = y /\ 1 - 1 = 0
  OBVIOUS
<1> HIDE DEF r
<1>3. Trace(<<c>>, n, tagged, r)
  BY <1>1, <1>2 DEF Trace
<1> QED BY <1>1, <1>2, <1>3 DEF Leads

LEMMA LeadsTwo ==
  ASSUME NEW n, NEW tagged, NEW a \in Commands, NEW b \in Commands,
         NEW x \in Views, NEW y \in Views, NEW z \in Views,
         Does(n, tagged, a, x, y), Does(n, tagged, b, y, z)
  PROVE  <<a, b>> \in Seq(Commands) /\ Leads(<<a, b>>, n, tagged, x, z)
<1> DEFINE r == [i \in 0..2 |-> IF i = 0 THEN x ELSE IF i = 1 THEN y ELSE z]
<1>1. <<a, b>> \in Seq(Commands) /\ Len(<<a, b>>) = 2 /\ <<a, b>>[1] = a /\ <<a, b>>[2] = b
  OBVIOUS
<1>2. r \in [0..2 -> Views] /\ r[0] = x /\ r[1] = y /\ r[2] = z
  OBVIOUS
<1>3. \A i \in 1..2 : (i = 1 /\ i - 1 = 0) \/ (i = 2 /\ i - 1 = 1)
  OBVIOUS
<1> HIDE DEF r
<1>4. Trace(<<a, b>>, n, tagged, r)
  BY <1>1, <1>2, <1>3 DEF Trace
<1> QED BY <1>1, <1>2, <1>4 DEF Leads

LEMMA LeadsThree ==
  ASSUME NEW n, NEW tagged, NEW a \in Commands, NEW b \in Commands, NEW c \in Commands,
         NEW x \in Views, NEW y \in Views, NEW u \in Views, NEW z \in Views,
         Does(n, tagged, a, x, y), Does(n, tagged, b, y, u), Does(n, tagged, c, u, z)
  PROVE  <<a, b, c>> \in Seq(Commands) /\ Leads(<<a, b, c>>, n, tagged, x, z)
<1> DEFINE r == [i \in 0..3 |-> IF i = 0 THEN x ELSE IF i = 1 THEN y ELSE IF i = 2 THEN u ELSE z]
<1>1. /\ <<a, b, c>> \in Seq(Commands) /\ Len(<<a, b, c>>) = 3
      /\ <<a, b, c>>[1] = a /\ <<a, b, c>>[2] = b /\ <<a, b, c>>[3] = c
  OBVIOUS
<1>2. r \in [0..3 -> Views] /\ r[0] = x /\ r[1] = y /\ r[2] = u /\ r[3] = z
  OBVIOUS
<1>3. \A i \in 1..3 : (i = 1 /\ i - 1 = 0) \/ (i = 2 /\ i - 1 = 1) \/ (i = 3 /\ i - 1 = 2)
  OBVIOUS
<1> HIDE DEF r
<1>4. Trace(<<a, b, c>>, n, tagged, r)
  BY <1>1, <1>2, <1>3 DEF Trace
<1> QED BY <1>1, <1>2, <1>4 DEF Leads

\* The first command of s, and then the others.
LEMMA LeadsFirst ==
  ASSUME NEW n, NEW tagged, NEW s \in Seq(Commands), s # << >>, NEW x, NEW y,
         Leads(s, n, tagged, x, y)
  PROVE  x \in Views /\ \E z \in Views : Does(n, tagged, s[1], x, z) /\ Leads(Tail(s), n, tagged, z, y)
<1>1. PICK r : Trace(s, n, tagged, r) /\ r[0] = x /\ r[Len(s)] = y
  BY DEF Leads
<1>2. PICK k, b : k = Len(b) /\ b = Tail(s)
  OBVIOUS
<1>3. /\ k \in Nat /\ Len(s) = k + 1
      /\ \A i \in 1..k : i + 1 \in 1..(k + 1) /\ b[i] = s[i + 1]
  BY <1>2, TailOf
<1>4. r \in [0..(k + 1) -> Views] /\ \A i \in 1..(k + 1) : Does(n, tagged, s[i], r[i - 1], r[i])
  BY <1>1, <1>3 DEF Trace
<1> DEFINE q == [i \in 0..k |-> r[i + 1]]
<1>5. q \in [0..k -> Views] /\ q[0] = r[1] /\ q[k] = r[k + 1]
  BY <1>3, <1>4
<1>6. ASSUME NEW i \in 1..k
      PROVE  Does(n, tagged, b[i], q[i - 1], q[i])
  <2>1. q[i - 1] = r[i] /\ q[i] = r[i + 1] /\ i + 1 \in 1..(k + 1) /\ (i + 1) - 1 = i
    BY <1>3, <1>6
  <2> HIDE DEF q
  <2>2. Does(n, tagged, s[i + 1], r[(i + 1) - 1], r[i + 1])
    BY <1>4, <2>1
  <2> QED BY <1>3, <1>6, <2>1, <2>2
<1> HIDE DEF q
<1>7. Leads(b, n, tagged, r[1], y)
  BY <1>1, <1>2, <1>3, <1>5, <1>6 DEF Leads, Trace
<1>8. 1 \in 1..(k + 1) /\ 1 - 1 = 0 /\ 0 \in 0..(k + 1) /\ 1 \in 0..(k + 1)
  BY <1>3
<1>9. Does(n, tagged, s[1], r[0], r[1])
  BY <1>4, <1>8
<1> QED BY <1>1, <1>2, <1>4, <1>7, <1>8, <1>9

\* The commands of a, and then those of b.
LEMMA LeadsThen ==
  ASSUME NEW n, NEW tagged, NEW a \in Seq(Commands), NEW b \in Seq(Commands), NEW x, NEW y, NEW z,
         Leads(a, n, tagged, x, y), Leads(b, n, tagged, y, z)
  PROVE  Leads(a \o b, n, tagged, x, z)
<1>1. PICK p : Trace(a, n, tagged, p) /\ p[0] = x /\ p[Len(a)] = y
  BY DEF Leads
<1>2. PICK q : Trace(b, n, tagged, q) /\ q[0] = y /\ q[Len(b)] = z
  BY DEF Leads
<1>3. PICK k, l, s : k = Len(a) /\ l = Len(b) /\ s = a \o b
  OBVIOUS
<1>4. /\ k \in Nat /\ l \in Nat /\ Len(s) = k + l
      /\ \A i \in 1..(k + l) : s[i] = IF i <= k THEN a[i] ELSE b[i - k]
  BY <1>3, ConcatProperties, LenProperties
<1>5. /\ p \in [0..k -> Views] /\ \A i \in 1..k : Does(n, tagged, a[i], p[i - 1], p[i])
      /\ q \in [0..l -> Views] /\ \A i \in 1..l : Does(n, tagged, b[i], q[i - 1], q[i])
      /\ p[k] = q[0]
  BY <1>1, <1>2, <1>3 DEF Trace
<1> DEFINE r == [i \in 0..(k + l) |-> IF i <= k THEN p[i] ELSE q[i - k]]
<1>6. ASSUME NEW i \in 0..(k + l)
      PROVE  /\ i <= k => i \in 0..k /\ r[i] = p[i]
             /\ i >= k => i - k \in 0..l /\ r[i] = q[i - k]
  <2>1. i = k => i - k = 0
    BY <1>4
  <2> QED BY <1>4, <1>5, <2>1
<1>7. r \in [0..(k + l) -> Views]
  <2>1. \A i \in 0..(k + l) : r[i] \in Views
    BY <1>4, <1>5, <1>6
  <2> QED BY <2>1
<1> HIDE DEF r
<1>8. ASSUME NEW i \in 1..(k + l)
      PROVE  Does(n, tagged, s[i], r[i - 1], r[i])
  <2>1. i \in 0..(k + l) /\ i - 1 \in 0..(k + l)
    BY <1>4
  <2>2. CASE i <= k
    <3>1. i \in 1..k /\ i - 1 <= k
      BY <1>4, <2>2
    <3> QED BY <1>4, <1>5, <1>6, <2>1, <2>2, <3>1
  <2>3. CASE ~ (i <= k)
    <3>1. i - k \in 1..l /\ i >= k /\ i - 1 >= k /\ (i - 1) - k = (i - k) - 1
      BY <1>4, <2>3
    <3>2. r[i - 1] = q[(i - k) - 1] /\ r[i] = q[i - k]
      BY <1>6, <2>1, <3>1
    <3> QED BY <1>4, <1>5, <2>3, <3>1, <3>2
  <2> QED BY <2>2, <2>3
<1>9. r[0] = x /\ r[k + l] = z
  <2>1. 0 \in 0..(k + l) /\ 0 <= k /\ k + l \in 0..(k + l) /\ k + l >= k /\ (k + l) - k = l
    BY <1>4
  <2> QED BY <1>1, <1>2, <1>3, <1>6, <2>1
<1>10. Trace(s, n, tagged, r)
  BY <1>4, <1>7, <1>8 DEF Trace
<1> QED BY <1>3, <1>4, <1>9, <1>10 DEF Leads

LEMMA LeadsKnowing ==
  ASSUME NEW n, NEW tagged, NEW s \in Seq(Commands), NEW x \in Views, NEW y \in Views, NEW z,
         Knows(x, y), Leads(s, n, tagged, y, z)
  PROVE  \E w \in Views : Leads(s, n, tagged, x, w) /\ Knows(w, z)
<1>1. CASE s = << >>
  <2>1. z = y
    BY <1>1, LeadsNone
  <2> QED BY <1>1, <2>1, LeadsNone
<1>2. CASE s # << >>
  <2>1. PICK r : Trace(s, n, tagged, r) /\ r[0] = y /\ r[Len(s)] = z
    BY DEF Leads
  <2>2. PICK k : k = Len(s)
    OBVIOUS
  <2>3. k \in Nat /\ k > 0
    BY <1>2, <2>2, TailOf
  <2>4. r \in [0..k -> Views] /\ \A i \in 1..k : Does(n, tagged, s[i], r[i - 1], r[i])
    BY <2>1, <2>2 DEF Trace
  <2> DEFINE q == [i \in 0..k |-> IF i = 0 THEN x ELSE r[i]]
  <2>5. q \in [0..k -> Views] /\ q[0] = x /\ q[k] = r[k] /\ \A i \in 1..k : q[i] = r[i]
    BY <2>3, <2>4
  <2> HIDE DEF q
  <2>6. ASSUME NEW i \in 1..k
        PROVE  Does(n, tagged, s[i], q[i - 1], q[i])
    <3>1. CASE i = 1
      <4>1. 1 - 1 = 0 /\ r[1] \in Views /\ 1 \in 1..k
        BY <2>3, <2>4
      <4>2. Does(n, tagged, s[1], y, r[1])
        BY <2>1, <2>4, <4>1
      <4>3. Does(n, tagged, s[1], x, r[1])
        BY <4>1, <4>2, DoesKnowing
      <4> QED BY <2>5, <3>1, <4>1, <4>3
    <3>2. CASE i # 1
      <4>1. i - 1 \in 1..k
        BY <2>3, <3>2
      <4> QED BY <2>4, <2>5, <4>1
    <3> QED BY <3>1, <3>2
  <2>7. Leads(s, n, tagged, x, z)
    BY <2>1, <2>2, <2>5, <2>6 DEF Leads, Trace
  <2>8. z \in Views
    BY <2>1, <2>2, <2>3, <2>4
  <2>9. Knows(z, z)
    BY DEF Knows
  <2> QED BY <2>7, <2>8, <2>9
<1> QED BY <1>1, <1>2

\* Commands that leave the view as it is.
LEMMA LeadsStill ==
  ASSUME NEW n, NEW tagged, NEW s \in Seq(Commands), NEW x \in Views,
         \A i \in 1..Len(s) : Does(n, tagged, s[i], x, x)
  PROVE  Leads(s, n, tagged, x, x)
<1> DEFINE r == [i \in 0..Len(s) |-> x]
<1>1. Len(s) \in Nat
  OBVIOUS
<1>2. r \in [0..Len(s) -> Views] /\ r[0] = x /\ r[Len(s)] = x
  BY <1>1
<1>3. \A i \in 1..Len(s) : r[i - 1] = x /\ r[i] = x
  BY <1>1
<1> HIDE DEF r
<1> QED BY <1>2, <1>3 DEF Leads, Trace

\* Pieces that lead from one view to the next, one after the other.
LEMMA LeadsFlat ==
  ASSUME NEW n, NEW tagged, NEW s \in Seq(Seq(Commands)), NEW r \in [0..Len(s) -> Views],
         \A k \in 1..Len(s) : Leads(s[k], n, tagged, r[k - 1], r[k])
  PROVE  FlattenSeq(s) \in Seq(Commands) /\ Leads(FlattenSeq(s), n, tagged, r[0], r[Len(s)])
<1> DEFINE H == [k \in 0..Len(s) |-> {a \in Seq(Commands) : Leads(a, n, tagged, r[0], r[k])}]
<1>1. /\ Len(s) \in Nat /\ 0 \in 0..Len(s) /\ Len(s) \in 0..Len(s)
      /\ \A k \in 1..Len(s) : s[k] \in Seq(Commands) /\ k \in 0..Len(s) /\ k - 1 \in 0..Len(s)
  BY LenProperties
<1>2. H \in [0..Len(s) -> SUBSET Seq(Commands)]
  OBVIOUS
<1>3. \A k \in 0..Len(s) : H[k] = {a \in Seq(Commands) : Leads(a, n, tagged, r[0], r[k])}
  OBVIOUS
<1> HIDE DEF H
<1>4. << >> \in H[0]
  <2>1. << >> \in Seq(Commands) /\ r[0] \in Views
    BY <1>1
  <2> QED BY <1>1, <1>3, <2>1, LeadsNone
<1>5. ASSUME NEW k \in 1..Len(s), NEW a \in H[k - 1]
      PROVE  a \o s[k] \in H[k]
  <2>1. a \in Seq(Commands) /\ Leads(a, n, tagged, r[0], r[k - 1])
    BY <1>1, <1>3, <1>5
  <2>2. Leads(a \o s[k], n, tagged, r[0], r[k])
    BY <1>1, <2>1, LeadsThen
  <2>3. a \o s[k] \in Seq(Commands)
    BY <1>1, <2>1
  <2> QED BY <1>1, <1>3, <2>2, <2>3
<1>6. FlattenSeq(s) \in H[Len(s)]
  BY <1>2, <1>4, <1>5, FlattenedInStages
<1> QED BY <1>1, <1>3, <1>6

-----------------------------------------------------------------------------
\* What the handlers' programs make of a port.

\* Commands that change nothing about port n.
QuietDos == {"nicUp", "nicDown", "tidy", "hasAddress", "exists", "addbr", "up", "down",
             "delete", "subUp", "subDown", "flushNic"}

Quiet(n, c) == c.nic = n => c.catch = "no" /\ c.do \in QuietDos

\* The view x without what it knows of the bridges.
Reset(x) == [x EXCEPT !.bridges = {}, !.clean = x.clean \/ x.master = "none"]

LEMMA ResetView ==
  ASSUME NEW x \in Views
  PROVE  /\ Reset(x) \in Views
         /\ Reset(x).master = x.master /\ Reset(x).sub = x.sub /\ Reset(x).addrs = x.addrs
         /\ Reset(x).bridges = {} /\ (Reset(x).clean <=> x.clean \/ x.master = "none")
BY DEF Reset, Views

LEMMA QuietDoes ==
  ASSUME NEW n, NEW tagged, NEW c \in Commands, Quiet(n, c), NEW x \in Views, x.bridges = {}
  PROVE  Does(n, tagged, c, x, x)
BY DEF Quiet, QuietDos, Does, BridgesAfter, Ready, SubAfter, MasterAfter

LEMMA QuietLeads ==
  ASSUME NEW n, NEW tagged, NEW s \in Seq(Commands), \A i \in 1..Len(s) : Quiet(n, s[i]),
         NEW x \in Views, x.bridges = {}
  PROVE  Leads(s, n, tagged, x, x)
<1>1. \A i \in 1..Len(s) : s[i] \in Commands
  BY LenProperties
<1> QED BY <1>1, QuietDoes, LeadsStill

LEMMA TakeLeads ==
  ASSUME NEW n \in Nics, NEW v \in Vlans, NEW tagged, NEW catch \in {"no", "try"},
         NEW x \in Views, x.bridges = {}, NEW z \in Views,
         Does(n, tagged, Cmd("look", n, v, catch), x, z)
  PROVE  Leads(Take(n, v, x.sub[v] # "absent", catch), n, tagged, x, z)
<1>1. /\ z.bridges = {} /\ x.addrs \subseteq z.addrs
      /\ z.clean => z.master = "none" \/ (x.clean /\ z.master = x.master)
      /\ catch = "try" => x.sub[v] # "absent"
      /\ z.sub = [x.sub EXCEPT ![v] = "absent"]
      /\ z.master = IF x.sub[v] = "absent" THEN "none" ELSE x.master
  BY DEF Does, Cmd, Ready, SubAfter, MasterAfter, BridgesAfter, Steady
<1>2. CASE x.sub[v] # "absent"
  <2> DEFINE a == Cmd("subDown", n, v, catch)
             b == Cmd("unlink", n, v, catch)
  <2>1. a \in Commands /\ b \in Commands
    BY CmdType DEF Dos, Bare
  <2>2. Does(n, tagged, a, x, x)
    BY <1>1, <1>2 DEF Does, Cmd, Ready, SubAfter, MasterAfter, BridgesAfter
  <2>3. Does(n, tagged, b, x, z)
    BY <1>1, <1>2 DEF Does, Cmd, Ready, SubAfter, MasterAfter, BridgesAfter
  <2> HIDE DEF a, b
  <2>4. Leads(<<a, b>>, n, tagged, x, z)
    BY <2>1, <2>2, <2>3, LeadsTwo
  <2>5. <<a, b>> = Take(n, v, x.sub[v] # "absent", catch)
    BY <1>2 DEF Take, a, b
  <2> QED BY <2>4, <2>5
<1>3. CASE x.sub[v] = "absent"
  <2> DEFINE a == Cmd("down", n, v, catch)
             b == Cmd("delif", n, v, catch)
             c == Cmd("up", n, v, catch)
  <2>1. a \in Commands /\ b \in Commands /\ c \in Commands
    BY CmdType DEF Dos, Bare
  <2>2. catch = "no" /\ z.sub = x.sub
    BY <1>1, <1>3 DEF Views
  <2>3. Does(n, tagged, a, x, x)
    BY <1>1, <2>2, QuietDoes, <2>1 DEF Quiet, QuietDos, Cmd
  <2>4. Does(n, tagged, b, x, z)
    BY <1>1, <1>3, <2>2 DEF Does, Cmd, Ready, SubAfter, MasterAfter, BridgesAfter
  <2>5. Does(n, tagged, c, z, z)
    BY <1>1, <2>2, QuietDoes, <2>1 DEF Quiet, QuietDos, Cmd
  <2> HIDE DEF a, b, c
  <2>6. Leads(<<a, b, c>>, n, tagged, x, z)
    BY <2>1, <2>3, <2>4, <2>5, LeadsThree
  <2>7. <<a, b, c>> = Take(n, v, x.sub[v] # "absent", catch)
    BY <1>3 DEF Take, a, b, c
  <2> QED BY <2>6, <2>7
<1> QED BY <1>2, <1>3

\* A port that joins VLAN v tagged, in a handler where no command fails or in one whose
\* bridge is there (x.bridges).
LEMMA JoinTaggedLeads ==
  ASSUME NEW n \in Nics, NEW v \in Vlans, NEW tagged, NEW link \in {"link", "linkGvrp"},
         NEW catch \in {"no", "yes"}, NEW x \in Views, catch = "yes" => v \in x.bridges,
         NEW z, z = [x EXCEPT !.sub = [@ EXCEPT ![v] = "member"]]
  PROVE  z \in Views /\ Leads(JoinTagged(n, v, link, catch), n, tagged, x, z)
<1> DEFINE s == JoinTagged(n, v, link, catch)
           made == IF catch = "yes" /\ x.sub[v] # "absent" THEN x.sub ELSE [x.sub EXCEPT ![v] = "free"]
           y == [x EXCEPT !.sub = made]
           r == [i \in 0..8 |-> IF i < 2 THEN x ELSE IF i < 6 THEN y ELSE z]
<1>1. /\ y \in Views /\ z \in Views
      /\ y.master = x.master /\ y.bridges = x.bridges /\ y.addrs = x.addrs /\ y.clean = x.clean
      /\ z.master = x.master /\ z.bridges = x.bridges /\ z.addrs = x.addrs /\ z.clean = x.clean
      /\ y.sub = made /\ z.sub = [x.sub EXCEPT ![v] = "member"]
  BY DEF Views
<1>2. z.sub = IF catch = "yes" /\ y.sub[v] # "free" THEN y.sub ELSE [y.sub EXCEPT ![v] = "member"]
  <2>1. CASE y.sub = [x.sub EXCEPT ![v] = "free"]
    BY <1>1, <2>1 DEF Views
  <2>2. CASE y.sub = x.sub /\ catch = "yes" /\ x.sub[v] # "absent"
    <3>1. x.sub[v] \in {"free", "member"} /\ x.sub \in [Vlans -> {"absent", "free", "member"}]
      BY <2>2 DEF Views
    <3>2. CASE x.sub[v] = "free"
      BY <1>1, <2>2, <3>2
    <3>3. CASE x.sub[v] = "member"
      BY <1>1, <2>2, <3>1, <3>3
    <3> QED BY <3>1, <3>2, <3>3
  <2> QED BY <1>1, <2>1, <2>2
<1> HIDE DEF y
<1>3. /\ r \in [0..8 -> Views]
      /\ r[0] = x /\ r[1] = x /\ r[2] = y /\ r[3] = y /\ r[4] = y /\ r[5] = y
      /\ r[6] = z /\ r[7] = z /\ r[8] = z
  BY <1>1
<1> HIDE DEF r
<1>4. /\ Len(s) = 8
      /\ s[1] = Cmd("down", n, v, catch) /\ s[2] = Cmd(link, n, v, catch)
      /\ s[3] = Cmd("up", n, v, catch) /\ s[4] = Cmd("nicUp", n, v, catch)
      /\ s[5] = Cmd("down", n, v, catch) /\ s[6] = Cmd("addsub", n, v, catch)
      /\ s[7] = Cmd("subUp", n, v, catch) /\ s[8] = Cmd("up", n, v, catch)
  BY DEF JoinTagged
<1> HIDE DEF s
<1>5. ASSUME NEW do \in {"up", "down", "nicUp", "subUp"}, NEW w \in Views
      PROVE  Does(n, tagged, Cmd(do, n, v, catch), w, w)
  BY DEF Does, Cmd, Ready, SubAfter, MasterAfter, BridgesAfter, Steady
<1>6. Does(n, tagged, Cmd(link, n, v, catch), x, y)
  BY <1>1 DEF Does, Cmd, Ready, SubAfter, MasterAfter, BridgesAfter, Steady
<1>7. Does(n, tagged, Cmd("addsub", n, v, catch), y, z)
  BY <1>1, <1>2 DEF Does, Cmd, Ready, SubAfter, MasterAfter, BridgesAfter, Steady
<1>8. ASSUME NEW i \in 1..8
      PROVE  Does(n, tagged, s[i], r[i - 1], r[i])
  <2>1. CASE i \in {1, 3, 4, 5}
    BY <1>1, <1>3, <1>4, <1>5, <2>1
  <2>2. CASE i \in {7, 8}
    BY <1>1, <1>3, <1>4, <1>5, <2>2
  <2>3. CASE i = 2
    BY <1>3, <1>4, <1>6, <2>3
  <2>4. CASE i = 6
    BY <1>3, <1>4, <1>7, <2>4
  <2> QED BY <2>1, <2>2, <2>3, <2>4
<1>9. Leads(s, n, tagged, x, z)
  BY <1>3, <1>4, <1>8 DEF Leads, Trace
<1> QED BY <1>1, <1>9 DEF s

\* One that joins it untagged.
LEMMA JoinUntaggedLeads ==
  ASSUME NEW n \in Nics, NEW v \in Vlans, NEW tagged, NEW x \in Views, x.bridges = {},
         NEW z, z = [x EXCEPT !.master = v, !.clean = (v \notin x.addrs)]
  PROVE  z \in Views /\ Leads(JoinUntagged(n, v), n, tagged, x, z)
<1> DEFINE a == Cmd("down", n, v, "no")
           b == Cmd("addif", n, v, "no")
           c == Cmd("up", n, v, "no")
<1>1. a \in Commands /\ b \in Commands /\ c \in Commands
  BY CmdType DEF Dos, Bare
<1>2. /\ z \in Views /\ z.bridges = {} /\ z.master = v /\ z.sub = x.sub
      /\ z.addrs = x.addrs /\ z.clean = (v \notin x.addrs)
  BY DEF Views
<1>3. Does(n, tagged, a, x, x)
  BY <1>1, QuietDoes DEF Quiet, QuietDos, Cmd
<1>4. Does(n, tagged, b, x, z)
  BY <1>2 DEF Does, Cmd, Ready, SubAfter, MasterAfter, BridgesAfter
<1>5. Does(n, tagged, c, z, z)
  BY <1>1, <1>2, QuietDoes DEF Quiet, QuietDos, Cmd
<1> HIDE DEF a, b, c
<1>6. Leads(<<a, b, c>>, n, tagged, x, z)
  BY <1>1, <1>2, <1>3, <1>4, <1>5, LeadsThree
<1>7. <<a, b, c>> = JoinUntagged(n, v)
  BY DEF JoinUntagged, a, b, c
<1> QED BY <1>2, <1>6, <1>7

LEMMA CreateLeads ==
  ASSUME NEW n \in Nics, NEW v \in Vlans, NEW tagged, NEW x \in Views, x.bridges = {}
  PROVE  Create(n, v) \in Seq(Commands) /\ Leads(Create(n, v), n, tagged, x, x)
<1> DEFINE a == Cmd("addbr", n, v, "no")
           b == Cmd("up", n, v, "no")
<1>1. a \in Commands /\ b \in Commands
  BY CmdType DEF Dos, Bare
<1>2. Quiet(n, a) /\ Quiet(n, b)
  BY DEF Quiet, QuietDos, Cmd
<1>3. PICK s : s = <<a, b>>
  OBVIOUS
<1> HIDE DEF a, b
<1>4. s \in Seq(Commands) /\ \A i \in 1..Len(s) : Quiet(n, s[i])
  BY <1>1, <1>2, <1>3
<1>5. Leads(s, n, tagged, x, x)
  BY <1>4, QuietLeads
<1> QED BY <1>3, <1>4, <1>5 DEF Create, a, b

\* What Apply runs after its probes makes of the port what the last of them stands for.
LEMMA JoinLeads ==
  ASSUME NEW n \in Nics, NEW v \in Vlans, NEW j \in Jobs, NEW hasVLAN,
         NEW x \in Views, x.bridges = {}, x.master = "none" => x.clean,
         {"bridge", "address"} \subseteq j.seen \/ v \notin x.addrs,
         NEW z \in Views, Does(n, j.tagged, Cmd("hasVLAN", n, v, "no"), x, z)
  PROVE  \E w \in Views : Leads(Join(n, v, j, hasVLAN), n, j.tagged, x, w) /\ Knows(w, z)
<1> DEFINE tagged == j.tagged
           link == IF j.gvrp THEN "linkGvrp" ELSE "link"
           bare == IF "bridge" \in j.seen THEN << >> ELSE Create(n, v)
           leave == IF hasVLAN THEN <<Cmd("master", n, v, "no")>> ELSE << >>
           flush == IF {"bridge", "address"} \subseteq j.seen
                    THEN <<Cmd("flushNic", n, v, "no")>> ELSE << >>
           join == IF j.tagged THEN JoinTagged(n, v, link, "no")
                   ELSE leave \o JoinUntagged(n, v) \o flush
<1>1. /\ z.bridges = {} /\ x.addrs \subseteq z.addrs
      /\ z.sub = IF tagged THEN [x.sub EXCEPT ![v] = "member"] ELSE x.sub
      /\ z.master = IF tagged THEN x.master ELSE v
      /\ tagged => (z.clean => x.clean)
  BY DEF Does, Cmd, SubAfter, MasterAfter, BridgesAfter, Steady
<1>2. bare \in Seq(Commands) /\ Leads(bare, n, tagged, x, x)
  <2>1. CASE "bridge" \in j.seen
    BY <2>1, LeadsNone
  <2>2. CASE "bridge" \notin j.seen
    BY <2>2, CreateLeads
  <2> QED BY <2>1, <2>2
<1>3. ASSUME tagged
      PROVE  \E w \in Views : /\ join \in Seq(Commands) /\ Leads(join, n, tagged, x, w)
                              /\ Knows(w, z)
  <2> DEFINE w == [x EXCEPT !.sub = [@ EXCEPT ![v] = "member"]]
  <2>1. link \in {"link", "linkGvrp"}
    OBVIOUS
  <2>2. join = JoinTagged(n, v, link, "no")
    BY <1>3
  <2> HIDE DEF link, join
  <2>3. w \in Views /\ Leads(join, n, tagged, x, w)
    BY <2>1, <2>2, JoinTaggedLeads
  <2>4. join \in Seq(Commands)
    BY <2>1, <2>2, JoinTaggedPlain DEF Plain
  <2>5. Knows(w, z)
    BY <1>1, <1>3 DEF Knows, Views
  <2> QED BY <2>3, <2>4, <2>5
<1>4. ASSUME ~tagged
      PROVE  \E w \in Views : /\ join \in Seq(Commands) /\ Leads(join, n, tagged, x, w)
                              /\ Knows(w, z)
  <2> DEFINE m == IF hasVLAN THEN [x EXCEPT !.master = "none", !.clean = TRUE] ELSE x
             u == [m EXCEPT !.master = v, !.clean = (v \notin m.addrs)]
             w == [u EXCEPT !.clean = TRUE]
  <2>1. m \in Views /\ m.bridges = {} /\ m.sub = x.sub /\ m.addrs = x.addrs
    BY DEF Views
  <2>2. leave \in Seq(Commands) /\ Leads(leave, n, tagged, x, m)
    <3>1. CASE hasVLAN
      <4> DEFINE c == Cmd("master", n, v, "no")
      <4>1. c \in Commands
        BY CmdType DEF Dos, Bare
      <4>2. m.master = "none" /\ leave = <<c>>
        BY <3>1 DEF Views
      <4>3. Does(n, tagged, c, x, m)
        BY <2>1, <4>2 DEF Does, Cmd, Ready, SubAfter, MasterAfter, BridgesAfter
      <4> HIDE DEF c, m
      <4>4. Leads(<<c>>, n, tagged, x, m)
        BY <2>1, <4>3, LeadsOne
      <4> QED BY <4>1, <4>2, <4>4
    <3>2. CASE ~hasVLAN
      <4>1. m = x /\ leave = << >>
        BY <3>2
      <4> QED BY <4>1, LeadsNone
    <3> QED BY <3>1, <3>2
  <2> HIDE DEF m
  <2>3. u \in Views /\ Leads(JoinUntagged(n, v), n, tagged, m, u)
    BY <2>1, JoinUntaggedLeads
  <2>4. JoinUntagged(n, v) \in Seq(Commands)
    BY JoinUntaggedPlain DEF Plain
  <2>5. u.bridges = {} /\ u.master = v /\ u.sub = x.sub /\ u.addrs = x.addrs /\ u.clean = (v \notin x.addrs)
    BY <2>1 DEF Views
  <2> HIDE DEF u
  <2>6. /\ w \in Views /\ w.bridges = {} /\ w.master = v /\ w.sub = x.sub /\ w.addrs = x.addrs /\ w.clean
    BY <2>3, <2>5 DEF Views
  <2>7. flush \in Seq(Commands) /\ Leads(flush, n, tagged, u, w)
    <3>1. CASE {"bridge", "address"} \subseteq j.seen
      <4> DEFINE c == Cmd("flushNic", n, v, "no")
      <4>1. c \in Commands
        BY CmdType DEF Dos, Bare
      <4>2. flush = <<c>>
        BY <3>1
      <4>3. Does(n, tagged, c, u, w)
        BY <2>5, <2>6 DEF Does, Cmd, Ready, SubAfter, MasterAfter, BridgesAfter
      <4> HIDE DEF c, w
      <4>4. Leads(<<c>>, n, tagged, u, w)
        BY <2>3, <2>6, <4>3, LeadsOne
      <4> QED BY <4>1, <4>2, <4>4
    <3>2. CASE ~ ({"bridge", "address"} \subseteq j.seen)
      <4>1. flush = << >> /\ v \notin x.addrs
        BY <3>2
      <4>2. u.clean = TRUE
        BY <2>5, <4>1
      <4>3. w = u
        BY <2>3, <4>2 DEF Views
      <4> HIDE DEF flush, w
      <4> QED BY <2>3, <4>1, <4>3, LeadsNone
    <3> QED BY <3>1, <3>2
  <2>8. join = (leave \o JoinUntagged(n, v)) \o flush
    BY <1>4
  <2> HIDE DEF w, leave, flush, join
  <2>9. leave \o JoinUntagged(n, v) \in Seq(Commands) /\ Leads(leave \o JoinUntagged(n, v), n, tagged, x, u)
    BY <2>2, <2>3, <2>4, LeadsThen
  <2>10. join \in Seq(Commands) /\ Leads(join, n, tagged, x, w)
    <3>1. PICK p : p = leave \o JoinUntagged(n, v)
      OBVIOUS
    <3>2. p \in Seq(Commands) /\ Leads(p, n, tagged, x, u) /\ join = p \o flush
      BY <2>8, <2>9, <3>1
    <3>3. join \in Seq(Commands)
      BY <2>7, <3>2
    <3>4. Leads(p \o flush, n, tagged, x, w)
      BY <2>7, <3>2, LeadsThen
    <3> QED BY <3>2, <3>3, <3>4
  <2>11. Knows(w, z)
    BY <1>1, <1>4, <2>6 DEF Knows
  <2> QED BY <2>6, <2>10, <2>11
<1>5. Join(n, v, j, hasVLAN) = bare \o join
  BY DEF Join
<1> HIDE DEF bare, join
<1>6. PICK w \in Views : join \in Seq(Commands) /\ Leads(join, n, tagged, x, w) /\ Knows(w, z)
  BY <1>3, <1>4
<1>7. Leads(bare \o join, n, tagged, x, w)
  BY <1>2, <1>6, LeadsThen
<1> QED BY <1>5, <1>6, <1>7

\* What is known after the last command may be forgotten.
LEMMA LeadsForget ==
  ASSUME NEW n, NEW tagged, NEW s \in Seq(Commands), s # << >>, NEW x, NEW y, NEW z \in Views,
         Leads(s, n, tagged, x, y), Knows(y, z)
  PROVE  Leads(s, n, tagged, x, z)
<1>1. PICK r : Trace(s, n, tagged, r) /\ r[0] = x /\ r[Len(s)] = y
  BY DEF Leads
<1>2. PICK k : k = Len(s)
  OBVIOUS
<1>3. k \in Nat /\ k > 0 /\ k \in 1..k
  BY <1>2, TailOf
<1>4. r \in [0..k -> Views] /\ \A i \in 1..k : Does(n, tagged, s[i], r[i - 1], r[i])
  BY <1>1, <1>2 DEF Trace
<1> DEFINE q == [i \in 0..k |-> IF i = k THEN z ELSE r[i]]
<1>5. q \in [0..k -> Views] /\ q[0] = x /\ q[k] = z /\ \A i \in 0..k : i # k => q[i] = r[i]
  BY <1>1, <1>3, <1>4
<1> HIDE DEF q
<1>6. ASSUME NEW i \in 1..k
      PROVE  Does(n, tagged, s[i], q[i - 1], q[i])
  <2>1. i \in 0..k /\ i - 1 \in 0..k /\ i - 1 # k
    BY <1>3
  <2>2. CASE i = k
    <3>1. Does(n, tagged, s[k], r[k - 1], y)
      BY <1>1, <1>2, <1>3, <1>4
    <3>2. Does(n, tagged, s[k], r[k - 1], z)
      BY <3>1 DEF Does, Knows
    <3> QED BY <1>5, <2>1, <2>2, <3>2
  <2>3. CASE i # k
    BY <1>4, <1>5, <2>1, <2>3
  <2> QED BY <2>2, <2>3
<1> QED BY <1>2, <1>5, <1>6 DEF Leads, Trace

\* Apply for a GVRP port: its sub-interface is in the bridge, whatever was there before.
LEMMA JoinGvrpLeads ==
  ASSUME NEW n \in Nics, NEW v \in Vlans, NEW tagged, NEW x \in Views, x.bridges = {},
         NEW z, z = [x EXCEPT !.sub = [@ EXCEPT ![v] = "member"]]
  PROVE  /\ JoinGVRP(n, v) \in Seq(Commands)
         /\ z \in Views /\ Leads(JoinGVRP(n, v), n, tagged, x, z)
<1> DEFINE a == Cmd("addbr", n, v, "yes")
           b == Cmd("up", n, v, "yes")
           join == JoinTagged(n, v, "linkGvrp", "yes")
           u == [x EXCEPT !.bridges = {v}]
           w == [u EXCEPT !.sub = [@ EXCEPT ![v] = "member"]]
<1>1. a \in Commands /\ b \in Commands /\ join \in Seq(Commands) /\ join # << >>
  BY CmdType, JoinTaggedPlain DEF Dos, Bare, Plain, JoinTagged
<1>2. u \in Views /\ u.bridges = {v}
  BY DEF Views
<1>3. Does(n, tagged, a, x, u) /\ Does(n, tagged, b, u, u)
  BY <1>2 DEF Does, Cmd, Ready, SubAfter, MasterAfter, BridgesAfter, Steady
<1>4. w \in Views /\ Leads(join, n, tagged, u, w)
  BY <1>2, JoinTaggedLeads
<1>5. z \in Views /\ Knows(w, z)
  BY DEF Knows, Views
<1>6. JoinGVRP(n, v) = <<a, b>> \o join
  BY DEF JoinGVRP
<1> HIDE DEF a, b, u, w, join
<1>7. PICK p : p = <<a, b>>
  OBVIOUS
<1>8. Leads(join, n, tagged, u, z)
  BY <1>1, <1>4, <1>5, LeadsForget
<1>9. p \in Seq(Commands) /\ Leads(p, n, tagged, x, u)
  BY <1>1, <1>2, <1>3, <1>7, LeadsTwo
<1>10. p \o join \in Seq(Commands)
  BY <1>1, <1>9
<1>11. Leads(p \o join, n, tagged, x, z)
  BY <1>1, <1>8, <1>9, LeadsThen
<1> QED BY <1>5, <1>6, <1>7, <1>10, <1>11

\* For another port it changes nothing here.
LEMMA JoinGvrpOther ==
  ASSUME NEW n, NEW m \in Nics, m # n, NEW v \in Vlans, NEW tagged, NEW x \in Views, x.bridges = {}
  PROVE  JoinGVRP(m, v) \in Seq(Commands) /\ Leads(JoinGVRP(m, v), n, tagged, x, x)
<1> DEFINE s == JoinGVRP(m, v)
<1>1. s \in Seq(Commands)
  BY JoinGvrpPlain DEF Plain
<1>2. Len(s) = 10 /\ \A i \in 1..10 : s[i].nic = m
  BY DEF JoinGVRP, JoinTagged, Cmd
<1> HIDE DEF s
<1>3. \A i \in 1..Len(s) : Quiet(n, s[i])
  BY <1>2 DEF Quiet
<1>4. Leads(s, n, tagged, x, x)
  BY <1>1, <1>3, QuietLeads
<1> QED BY <1>1, <1>4 DEF s

\* The VLANs ip link names for a port that looks like x: the bridge it is in first, then
\* its sub-interfaces' ones in any order.
Lists(x, vs) ==
  \E subs \in SetToSeqs({v \in Vlans : x.sub[v] = "member"}) :
    vs = (IF x.master = "none" THEN << >> ELSE <<x.master>>) \o subs

Named(x) == IF x.master = "none" THEN 0 ELSE 1

LEMMA ListsAll ==
  ASSUME NEW x \in Views, NEW vs, Lists(x, vs)
  PROVE  /\ vs \in Seq(Vlans) /\ Named(x) <= Len(vs)
         /\ x.master # "none" => vs[1] = x.master
         /\ \A k \in 1..Len(vs) : k > Named(x) => x.sub[vs[k]] = "member"
         /\ \A i, k \in 1..Len(vs) : i > Named(x) /\ k > Named(x) /\ vs[i] = vs[k] => i = k
         /\ \A v \in Vlans : x.sub[v] = "member" => \E k \in 1..Len(vs) : k > Named(x) /\ vs[k] = v
<1> DEFINE S == {v \in Vlans : x.sub[v] = "member"}
           own == IF x.master = "none" THEN << >> ELSE <<x.master>>
<1>1. PICK subs \in SetToSeqs(S) : vs = own \o subs
  BY DEF Lists
<1>2. PICK m : m = Cardinality(S)
  OBVIOUS
<1>3. S \subseteq Vlans /\ IsFiniteSet(S) /\ \A v \in Vlans : v \in S <=> x.sub[v] = "member"
  <2>1. S \subseteq Vlans
    OBVIOUS
  <2>2. IsFiniteSet(S)
    BY <2>1, VlanAssumption, FS_Subset
  <2> QED BY <2>1, <2>2
<1> HIDE DEF S
<1>4. m \in Nat
  BY <1>2, <1>3, FS_CardinalityType
<1>5. subs \in [1..m -> S] /\ \A i, j \in 1..m : i # j => subs[i] # subs[j]
  BY <1>1, <1>2 DEF SetToSeqs
<1>6. subs \in Seq(Vlans) /\ Len(subs) = m
  BY <1>3, <1>4, <1>5
<1>7. \A v \in S : \E i \in 1..m : subs[i] = v
  <2>1. subs \in Injection(1..m, S)
    BY <1>5 DEF Injection, IsInjective
  <2>2. Cardinality(1..m) = m
    BY <1>4, FS_Interval
  <2>3. subs \in Surjection(1..m, S)
    BY <1>2, <1>3, <2>1, <2>2, FS_Injection
  <2> QED BY <2>3 DEF Surjection
<1>8. own \in Seq(Vlans) /\ Len(own) = Named(x) /\ Named(x) \in Nat /\ (x.master # "none" => own[1] = x.master)
  BY DEF Views, Named
<1> HIDE DEF own
<1>9. /\ vs \in Seq(Vlans) /\ Len(vs) = Named(x) + m
      /\ \A i \in 1..(Named(x) + m) : vs[i] = IF i <= Named(x) THEN own[i] ELSE subs[i - Named(x)]
  <2>1. vs \in Seq(Vlans) /\ Len(vs) = Named(x) + m
    BY <1>1, <1>6, <1>8, ConcatProperties
  <2>2. ASSUME NEW i \in 1..(Len(own) + Len(subs))
        PROVE  (own \o subs)[i] = IF i <= Len(own) THEN own[i] ELSE subs[i - Len(own)]
    BY <1>6, <1>8, ConcatProperties
  <2> QED BY <1>1, <1>6, <1>8, <2>1, <2>2
<1>10. ASSUME NEW k \in 1..Len(vs), k > Named(x)
       PROVE  k - Named(x) \in 1..m /\ vs[k] = subs[k - Named(x)]
  BY <1>4, <1>8, <1>9, <1>10
<1>11. x.master # "none" => vs[1] = x.master
  <2>1. ASSUME x.master # "none"
        PROVE  1 \in 1..(Named(x) + m) /\ 1 <= Named(x)
    BY <1>4, <2>1 DEF Named
  <2> QED BY <1>8, <1>9, <2>1
<1>12. \A k \in 1..Len(vs) : k > Named(x) => x.sub[vs[k]] = "member"
  BY <1>3, <1>5, <1>10
<1>13. ASSUME NEW i \in 1..Len(vs), NEW k \in 1..Len(vs), i > Named(x), k > Named(x), vs[i] = vs[k]
       PROVE  i = k
  <2>1. i - Named(x) = k - Named(x)
    BY <1>5, <1>10, <1>13
  <2> QED BY <1>8, <1>9, <2>1
<1>14. ASSUME NEW v \in Vlans, x.sub[v] = "member"
       PROVE  \E k \in 1..Len(vs) : k > Named(x) /\ vs[k] = v
  <2>1. PICK i \in 1..m : subs[i] = v
    BY <1>3, <1>7, <1>14
  <2>2. i + Named(x) \in 1..Len(vs) /\ i + Named(x) > Named(x) /\ (i + Named(x)) - Named(x) = i
    BY <1>4, <1>8, <1>9
  <2> QED BY <1>10, <2>1, <2>2
<1>15. Named(x) <= Len(vs)
  BY <1>4, <1>8, <1>9
<1> QED BY <1>9, <1>11, <1>12, <1>13, <1>14, <1>15

\* Clear's look at one VLAN and the tidying that follows.
LEMMA LeaveLeads ==
  ASSUME NEW n \in Nics, NEW v \in Vlans, NEW tagged, NEW x \in Views, NEW z \in Views,
         Does(n, tagged, Cmd("look", n, v, "no"), x, z)
  PROVE  Leave(n, v, "no") \in Seq(Commands) /\ Leads(Leave(n, v, "no"), n, tagged, x, z)
<1> DEFINE a == Cmd("look", n, v, "no")
           b == Cmd("tidy", n, v, "no")
<1>1. a \in Commands /\ b \in Commands
  BY CmdType DEF Dos, Bare
<1>2. z.bridges = {}
  BY DEF Does, Cmd, BridgesAfter, Steady
<1>3. Does(n, tagged, b, z, z)
  BY <1>1, <1>2, QuietDoes DEF Quiet, QuietDos, Cmd
<1>4. Leave(n, v, "no") = <<a, b>>
  BY DEF Leave
<1> HIDE DEF a, b
<1>5. Does(n, tagged, a, x, z)
  BY DEF a
<1> QED BY <1>1, <1>3, <1>4, <1>5, LeadsTwo

\* Clear takes the port out of every VLAN: first out of its own bridge, or of the
\* sub-interface of that name; then of the others, its own bridge among them if need be.
LEMMA ClearLeads ==
  ASSUME NEW n \in Nics, NEW tagged, NEW x \in Views, x.bridges = {}, x.master = "none" => x.clean,
         NEW vs, Lists(x, vs),
         NEW z \in Views, Does(n, tagged, Cmd("clear", n, "none", "no"), x, z)
  PROVE  \E w \in Views : /\ Leads(Each(vs, LAMBDA v : Leave(n, v, "no")), n, tagged, x, w)
                          /\ Knows(w, z)
<1> DEFINE m == x.master
           Gone(k) == \/ m = "none"
                      \/ k >= 1 /\ x.sub[m] = "absent"
                      \/ \E i \in 1..k : i > 1 /\ vs[i] = m
           In(k) == IF Gone(k) THEN "none" ELSE m
           Sub(k) == [v \in Vlans |-> IF \E i \in 1..k : vs[i] = v THEN "absent" ELSE x.sub[v]]
           R(k) == [master |-> In(k), sub |-> Sub(k), bridges |-> {}, addrs |-> x.addrs,
                    clean |-> x.clean \/ Gone(k)]
           f == [k \in DOMAIN vs |-> Leave(n, vs[k], "no")]
           l == Len(vs)
<1>1. /\ vs \in Seq(Vlans) /\ l \in Nat /\ DOMAIN vs = 1..l /\ Named(x) <= l
      /\ \A k \in 1..l : vs[k] \in Vlans
      /\ m # "none" => vs[1] = m
      /\ \A k \in 1..l : k > Named(x) => x.sub[vs[k]] = "member"
      /\ \A i, k \in 1..l : i > Named(x) /\ k > Named(x) /\ vs[i] = vs[k] => i = k
      /\ \A v \in Vlans : x.sub[v] = "member" => \E k \in 1..l : k > Named(x) /\ vs[k] = v
  <2>1. /\ vs \in Seq(Vlans) /\ Named(x) <= l /\ (m # "none" => vs[1] = m)
    BY ListsAll
  <2>2. l \in Nat /\ DOMAIN vs = 1..l /\ \A k \in 1..l : vs[k] \in Vlans
    BY <2>1
  <2>3. /\ \A k \in 1..l : k > Named(x) => x.sub[vs[k]] = "member"
        /\ \A i, k \in 1..l : i > Named(x) /\ k > Named(x) /\ vs[i] = vs[k] => i = k
        /\ \A v \in Vlans : x.sub[v] = "member" => \E k \in 1..l : k > Named(x) /\ vs[k] = v
    BY ListsAll
  <2> QED BY <2>1, <2>2, <2>3
<1>2. /\ x.sub \in [Vlans -> {"absent", "free", "member"}] /\ m \in Vlans \cup {"none"}
      /\ x.addrs \subseteq Vlans /\ x.clean \in BOOLEAN
  BY DEF Views
<1>3. /\ x.addrs \subseteq z.addrs /\ z.bridges = {} /\ z.master = "none"
      /\ z.sub = [w \in Vlans |-> "absent"] /\ \A v \in Vlans : x.sub[v] # "free"
  BY DEF Does, Cmd, Ready, SubAfter, MasterAfter, BridgesAfter, Steady
<1>4. \A k : /\ R(k).master = In(k) /\ R(k).sub = Sub(k) /\ R(k).bridges = {} /\ R(k).addrs = x.addrs
             /\ R(k).clean = (x.clean \/ Gone(k))
  OBVIOUS
<1>5. \A k : R(k) \in Views
  <2>1. ASSUME NEW k
        PROVE  /\ In(k) \in Vlans \cup {"none"} /\ Sub(k) \in [Vlans -> {"absent", "free", "member"}]
               /\ (x.clean \/ Gone(k)) \in BOOLEAN
    BY <1>2
  <2> HIDE DEF In, Sub, Gone
  <2> QED BY <1>2, <2>1 DEF Views
<1>6. R(0) = x
  <2>1. ~ \E i \in 1..0 : TRUE
    OBVIOUS
  <2>2. Gone(0) <=> m = "none"
    BY <2>1
  <2>3. In(0) = m /\ (x.clean \/ Gone(0)) = x.clean
    BY <1>2, <2>2
  <2>4. Sub(0) = x.sub
    BY <1>2, <2>1
  <2> HIDE DEF In, Sub, Gone
  <2> QED BY <2>3, <2>4 DEF Views
<1>7. ASSUME NEW k \in 1..l
      PROVE  Does(n, tagged, Cmd("look", n, vs[k], "no"), R(k - 1), R(k))
  <2> DEFINE v == vs[k]
  <2>1. v \in Vlans /\ k \in Nat /\ k >= 1 /\ k - 1 \in Nat /\ ~ (k <= k - 1)
    BY <1>1
  <2>2. \A i : i \in 1..k <=> i \in 1..(k - 1) \/ i = k
    BY <2>1
  <2>3. Sub(k) = [Sub(k - 1) EXCEPT ![v] = "absent"]
    <3>1. \A w \in Vlans : Sub(k)[w] = IF w = v THEN "absent" ELSE Sub(k - 1)[w]
      BY <2>1, <2>2
    <3>2. PICK p, q : p = Sub(k) /\ q = Sub(k - 1)
      OBVIOUS
    <3>3. DOMAIN p = Vlans /\ DOMAIN q = Vlans /\ p = [w \in Vlans |-> p[w]] /\ q = [w \in Vlans |-> q[w]]
      BY <3>2
    <3>4. p = [q EXCEPT ![v] = "absent"]
      BY <2>1, <3>1, <3>2, <3>3
    <3> QED BY <3>2, <3>4
  <2>4. Sub(k - 1)[v] = IF \E i \in 1..(k - 1) : vs[i] = v THEN "absent" ELSE x.sub[v]
    BY <2>1
  <2>5. In(k) = IF Sub(k - 1)[v] = "absent" THEN "none" ELSE In(k - 1)
    <3>1. CASE m = "none"
      BY <3>1
    <3>2. CASE m # "none" /\ k = 1
      <4>1. v = m /\ 1 - 1 = 0 /\ ~ \E i \in 1..0 : TRUE
        BY <1>1, <3>2
      <4>2. Sub(k - 1)[v] = x.sub[m]
        BY <2>4, <3>2, <4>1
      <4>3. ~ \E i \in 1..k : i > 1
        BY <3>2
      <4>4. Gone(k) <=> x.sub[m] = "absent"
        BY <3>2, <4>3
      <4>5. In(k - 1) = m
        BY <3>2, <4>1
      <4> QED BY <4>2, <4>4, <4>5
    <3>3. CASE m # "none" /\ k # 1
      <4>1. Named(x) = 1 /\ k > 1 /\ 1 \in 1..(k - 1) /\ k - 1 >= 1 /\ 1 \in 1..l
        BY <1>1, <2>1, <3>3 DEF Named
      <4>2. x.sub[v] = "member"
        BY <1>1, <4>1
      <4>3. \A i \in 1..(k - 1) : i > 1 => vs[i] # v
        <5>1. \A i \in 1..(k - 1) : i \in 1..l /\ i # k
          BY <1>1, <2>1
        <5> QED BY <1>1, <4>1, <5>1
      <4>4. \A i \in 1..(k - 1) : i > 1 \/ i = 1
        BY <2>1
      <4>5. Sub(k - 1)[v] = "absent" <=> v = m
        BY <1>1, <2>4, <3>3, <4>1, <4>2, <4>3, <4>4
      <4>6. CASE v = m
        BY <4>1, <4>5, <4>6, <2>2
      <4>7. CASE v # m
        <5>1. Gone(k) <=> Gone(k - 1)
          BY <2>1, <2>2, <4>1, <4>7
        <5> QED BY <4>5, <4>7, <5>1
      <4> QED BY <4>6, <4>7
    <3> QED BY <3>1, <3>2, <3>3
  <2>6. R(k).clean => R(k).master = "none" \/ (R(k - 1).clean /\ R(k).master = R(k - 1).master)
    <3>1. R(k).master = In(k) /\ R(k - 1).master = In(k - 1)
      BY <1>4
    <3>2. R(k).clean = (x.clean \/ Gone(k)) /\ R(k - 1).clean = (x.clean \/ Gone(k - 1))
      BY <1>4
    <3>3. CASE Gone(k)
      BY <3>1, <3>3
    <3>4. CASE ~Gone(k)
      <4>1. ~Gone(k - 1)
        BY <2>1, <2>2, <3>4
      <4> QED BY <3>1, <3>2, <3>4, <4>1
    <3> QED BY <3>3, <3>4
  <2> HIDE DEF In, Sub, Gone, R
  <2> QED BY <1>4, <2>3, <2>5, <2>6 DEF Does, Cmd, Ready, SubAfter, MasterAfter, BridgesAfter, Steady
<1>8. Gone(l) /\ \A v \in Vlans : x.sub[v] = "absent" \/ \E i \in 1..l : vs[i] = v
  <2>1. \A v \in Vlans : x.sub[v] = "absent" \/ \E i \in 1..l : i > Named(x) /\ vs[i] = v
    BY <1>1, <1>2, <1>3
  <2>2. ASSUME m # "none"
        PROVE  Gone(l)
    <3>1. Named(x) = 1 /\ l >= 1 /\ m \in Vlans
      BY <1>1, <1>2, <2>2 DEF Named
    <3> QED BY <2>1, <3>1
  <2> QED BY <2>1, <2>2
<1>9. Knows(R(l), z)
  <2>1. In(l) = "none" /\ (x.clean \/ Gone(l))
    BY <1>8
  <2>2. Sub(l) = [w \in Vlans |-> "absent"]
    BY <1>8
  <2> HIDE DEF In, Sub, Gone, R
  <2> QED BY <1>3, <1>4, <2>1, <2>2 DEF Knows
<1> DEFINE r == [k \in 0..l |-> R(k)]
<1>10. r \in [0..l -> Views] /\ r[0] = R(0) /\ r[l] = R(l) /\ \A k \in 1..l : r[k] = R(k) /\ r[k - 1] = R(k - 1)
  <2> HIDE DEF R
  <2> QED BY <1>1, <1>5
<1> HIDE DEF R, r
<1>11. f \in Seq(Seq(Commands)) /\ Len(f) = l /\ \A k \in 1..l : f[k] = Leave(n, vs[k], "no")
  <2>1. \A k \in 1..l : Leave(n, vs[k], "no") \in Seq(Commands)
    BY <1>1, LeaveSound
  <2> QED BY <1>1, <2>1
<1>12. Each(vs, LAMBDA v : Leave(n, v, "no")) = FlattenSeq(f)
  BY DEF Each
<1> HIDE DEF f
<1>13. ASSUME NEW k \in 1..Len(f)
       PROVE  Leads(f[k], n, tagged, r[k - 1], r[k])
  <2>1. k \in 1..l /\ vs[k] \in Vlans
    BY <1>1, <1>11
  <2>2. Leads(Leave(n, vs[k], "no"), n, tagged, R(k - 1), R(k))
    BY <1>5, <1>7, <2>1, LeaveLeads
  <2> QED BY <1>10, <1>11, <2>1, <2>2
<1>14. Leads(FlattenSeq(f), n, tagged, r[0], r[l])
  <2>1. r \in [0..Len(f) -> Views]
    BY <1>10, <1>11
  <2> QED BY <1>11, <1>13, <2>1, LeadsFlat
<1> QED BY <1>5, <1>6, <1>9, <1>10, <1>12, <1>14

\* A port that looks like y shows the row g, and no address next to its bridge's.
Ends(y, g) ==
  /\ {v \in Vlans : y.sub[v] = "member"} = g.tagged
  /\ Vlans \cap {y.master} = g.untagged
  /\ y.master = "none" \/ y.clean

\* Apply for one VLAN, from its probes on.
LEMMA ProbesLead ==
  ASSUME NEW n \in Nics, NEW v \in Vlans, NEW tagged, NEW x \in Views, x.bridges = {}, NEW z \in Views,
         Does(n, tagged, Cmd("hasVLAN", n, v, "no"), x, z)
  PROVE  Probes(n, v) \in Seq(Commands) /\ Leads(Probes(n, v), n, tagged, x, z)
<1> DEFINE a == Cmd("hasAddress", n, v, "no")
           b == Cmd("exists", n, v, "no")
           c == Cmd("hasVLAN", n, v, "no")
<1>1. a \in Commands /\ b \in Commands /\ c \in Commands
  BY CmdType DEF Dos, Bare
<1>2. Does(n, tagged, a, x, x) /\ Does(n, tagged, b, x, x)
  BY <1>1, QuietDoes DEF Quiet, QuietDos, Cmd
<1>3. Probes(n, v) = <<a, b, c>>
  BY DEF Probes
<1> HIDE DEF a, b, c
<1>4. Does(n, tagged, c, x, z)
  BY DEF c
<1> QED BY <1>1, <1>2, <1>3, <1>4, LeadsThree

\* Edit takes its port, if it has no orphan, to the row the page asked for.
LEMMA EditLeads ==
  ASSUME NEW c \in Forms, c.op = "edit",
         NEW x \in Views, x.bridges = {}, \A v \in Vlans : x.sub[v] # "free"
  PROVE  \E y \in Views : Leads(EditProg(c), c.nic, c.tagged, x, y) /\ Ends(y, RowAsked(c))
<1> DEFINE n == c.nic
           tagged == c.tagged
           vs == c.vlans
           l == Len(vs)
           a == Cmd(IF c.active THEN "nicUp" ELSE "nicDown", n, "none", "no")
           b == Cmd("clear", n, "none", "no")
           In(k) == IF tagged \/ k = 0 THEN "none" ELSE vs[k]
           Sub(k) == [v \in Vlans |-> IF tagged /\ \E i \in 1..k : vs[i] = v THEN "member" ELSE "absent"]
           R(k) == [master |-> In(k), sub |-> Sub(k), bridges |-> {}, addrs |-> x.addrs, clean |-> TRUE]
           f == [k \in DOMAIN vs |-> Probes(n, vs[k])]
<1>1. /\ n \in Nics /\ vs \in Seq(Vlans) /\ tagged \in BOOLEAN
      /\ l \in Nat /\ DOMAIN vs = 1..l /\ \A k \in 1..l : vs[k] \in Vlans
  <2>1. n \in Nics /\ vs \in Seq(Vlans) /\ tagged \in BOOLEAN
    BY DEF Forms
  <2> QED BY <2>1
<1>2. x.addrs \subseteq Vlans
  BY DEF Views
<1>3. \A k : /\ R(k).master = In(k) /\ R(k).sub = Sub(k) /\ R(k).bridges = {} /\ R(k).addrs = x.addrs
             /\ R(k).clean
  OBVIOUS
<1>4. \A k \in 0..l : R(k) \in Views
  <2>1. ASSUME NEW k \in 0..l
        PROVE  /\ In(k) \in Vlans \cup {"none"} /\ Sub(k) \in [Vlans -> {"absent", "free", "member"}]
    BY <1>1
  <2> HIDE DEF In, Sub
  <2> QED BY <1>2, <2>1 DEF Views
<1>5. a \in Commands /\ b \in Commands
  BY <1>1 DEF Cmd, Commands, Dos, Bare
<1>6. Does(n, tagged, a, x, x)
  BY <1>5, QuietDoes DEF Quiet, QuietDos, Cmd
<1>7. Does(n, tagged, b, x, R(0))
  <2>1. In(0) = "none" /\ Sub(0) = [v \in Vlans |-> "absent"]
    OBVIOUS
  <2> HIDE DEF In, Sub, R
  <2> QED BY <1>3, <2>1 DEF Does, Cmd, Ready, SubAfter, MasterAfter, BridgesAfter, Steady
<1>8. ASSUME NEW k \in 1..l
      PROVE  Does(n, tagged, Cmd("hasVLAN", n, vs[k], "no"), R(k - 1), R(k))
  <2> DEFINE v == vs[k]
  <2>1. v \in Vlans /\ k \in Nat /\ k # 0 /\ k - 1 \in Nat
    BY <1>1
  <2>2. \A i : i \in 1..k <=> i \in 1..(k - 1) \/ i = k
    BY <2>1
  <2>3. Sub(k) = IF tagged THEN [Sub(k - 1) EXCEPT ![v] = "member"] ELSE Sub(k - 1)
    <3>1. CASE tagged
      <4>1. \A w \in Vlans : Sub(k)[w] = IF w = v THEN "member" ELSE Sub(k - 1)[w]
        BY <2>1, <2>2, <3>1
      <4> QED BY <2>1, <3>1, <4>1
    <3>2. CASE ~tagged
      BY <3>2
    <3> QED BY <3>1, <3>2
  <2>4. In(k) = IF tagged THEN In(k - 1) ELSE v
    BY <2>1
  <2>5. tagged => In(k) = "none"
    OBVIOUS
  <2> HIDE DEF In, Sub, R
  <2> QED BY <1>3, <2>3, <2>4, <2>5 DEF Does, Cmd, Ready, SubAfter, MasterAfter, BridgesAfter, Steady
<1> DEFINE r == [k \in 0..l |-> R(k)]
<1>9. r \in [0..l -> Views] /\ r[0] = R(0) /\ r[l] = R(l) /\ \A k \in 1..l : r[k] = R(k) /\ r[k - 1] = R(k - 1)
  <2> HIDE DEF R
  <2> QED BY <1>1, <1>4
<1>10. Ends(R(l), RowAsked(c))
  <2>1. CASE tagged
    <3>1. RowAsked(c) = [tagged |-> ToSet(vs), untagged |-> {}]
      BY <2>1 DEF RowAsked
    <3>2. In(l) = "none"
      BY <2>1
    <3>3. \A v \in Vlans : Sub(l)[v] = "member" <=> \E i \in 1..l : vs[i] = v
      BY <2>1
    <3>4. ToSet(vs) = {v \in Vlans : Sub(l)[v] = "member"}
      <4>1. ToSet(vs) = {vs[i] : i \in 1..l}
        BY <1>1, Elements
      <4> HIDE DEF Sub
      <4> QED BY <1>1, <3>3, <4>1
    <3> HIDE DEF In, Sub, R
    <3> QED BY <1>3, <3>1, <3>2, <3>4, VlanAssumption DEF Ends
  <2>2. CASE ~tagged
    <3>1. RowAsked(c) = [tagged |-> {}, untagged |-> IF vs = << >> THEN {} ELSE {Last(vs)}]
      BY <2>2 DEF RowAsked
    <3>2. \A v \in Vlans : Sub(l)[v] # "member"
      BY <2>2
    <3>3. CASE vs = << >>
      <4>1. In(l) = "none"
        BY <3>3
      <4> HIDE DEF In, Sub, R
      <4> QED BY <1>3, <3>1, <3>2, <3>3, <4>1, VlanAssumption DEF Ends
    <3>4. CASE vs # << >>
      <4>1. l # 0 /\ l \in 1..l
        BY <1>1, <3>4, EmptySeq
      <4>2. In(l) = vs[l] /\ vs[l] \in Vlans
        BY <1>1, <2>2, <4>1
      <4>3. Last(vs) = vs[l]
        BY DEF Last
      <4> HIDE DEF In, Sub, R
      <4> QED BY <1>3, <3>1, <3>2, <3>4, <4>2, <4>3 DEF Ends
    <3> QED BY <3>3, <3>4
  <2> QED BY <2>1, <2>2
<1> HIDE DEF R, r
<1>11. f \in Seq(Seq(Commands)) /\ Len(f) = l /\ \A k \in 1..l : f[k] = Probes(n, vs[k])
  <2>1. \A k \in 1..l : Probes(n, vs[k]) \in Seq(Commands)
    BY <1>1, PlainProbes DEF Plain
  <2> QED BY <1>1, <2>1
<1>12. EditProg(c) = <<a, b>> \o FlattenSeq(f)
  BY DEF EditProg, Each
<1> HIDE DEF f, a, b
<1>13. R(0) \in Views /\ \A k \in 1..l : R(k) \in Views /\ R(k - 1) \in Views
  BY <1>1, <1>4
<1>14. ASSUME NEW k \in 1..Len(f)
       PROVE  Leads(f[k], n, tagged, r[k - 1], r[k])
  <2>1. k \in 1..l /\ vs[k] \in Vlans
    BY <1>1, <1>11
  <2>2. R(k - 1).bridges = {}
    BY <1>3
  <2>3. Leads(Probes(n, vs[k]), n, tagged, R(k - 1), R(k))
    BY <1>1, <1>8, <1>13, <2>1, <2>2, ProbesLead
  <2> QED BY <1>9, <1>11, <2>1, <2>3
<1>15. FlattenSeq(f) \in Seq(Commands) /\ Leads(FlattenSeq(f), n, tagged, R(0), R(l))
  <2>1. r \in [0..Len(f) -> Views]
    BY <1>9, <1>11
  <2>2. FlattenSeq(f) \in Seq(Commands) /\ Leads(FlattenSeq(f), n, tagged, r[0], r[Len(f)])
    BY <1>11, <1>14, <2>1, LeadsFlat
  <2> QED BY <1>9, <1>11, <2>2
<1>16. PICK first : first = <<a, b>>
  OBVIOUS
<1>17. first \in Seq(Commands) /\ Leads(first, n, tagged, x, R(0))
  BY <1>5, <1>6, <1>7, <1>13, <1>16, LeadsTwo
<1>18. Leads(first \o FlattenSeq(f), n, tagged, x, R(l))
  BY <1>15, <1>17, LeadsThen
<1>19. Leads(EditProg(c), n, tagged, x, R(l))
  BY <1>12, <1>16, <1>18
<1> QED BY <1>1, <1>4, <1>10, <1>19

\* Among pieces that leave the view as it is, the p-th leads from x to z.
Among(f, p, n, tagged, x, z) ==
  /\ f \in Seq(Seq(Commands)) /\ p \in 1..Len(f) /\ x \in Views /\ z \in Views
  /\ Leads(f[p], n, tagged, x, z)
  /\ \A k \in 1..Len(f) : k # p => Leads(f[k], n, tagged, x, x) /\ Leads(f[k], n, tagged, z, z)

LEMMA LeadsAmong ==
  ASSUME NEW n, NEW tagged, NEW f, NEW p, NEW x, NEW z, Among(f, p, n, tagged, x, z)
  PROVE  FlattenSeq(f) \in Seq(Commands) /\ Leads(FlattenSeq(f), n, tagged, x, z)
<1> DEFINE l == Len(f)
           r == [k \in 0..l |-> IF k < p THEN x ELSE z]
<1> USE DEF Among
<1>1. l \in Nat /\ p \in Nat /\ p > 0 /\ p <= l
  OBVIOUS
<1>2. r \in [0..l -> Views] /\ r[0] = x /\ r[l] = z
  BY <1>1
<1>3. ASSUME NEW k \in 1..l
      PROVE  Leads(f[k], n, tagged, r[k - 1], r[k])
  <2>1. k \in 0..l /\ k - 1 \in 0..l /\ k \in Nat
    BY <1>1
  <2>2. CASE k < p
    <3>1. k # p /\ r[k] = x /\ r[k - 1] = x
      BY <1>1, <2>1, <2>2
    <3> QED BY <3>1
  <2>3. CASE k = p
    <3>1. r[k] = z /\ r[k - 1] = x
      BY <1>1, <2>1, <2>3
    <3> QED BY <2>3, <3>1
  <2>4. CASE k > p
    <3>1. k # p /\ r[k] = z /\ r[k - 1] = z
      BY <1>1, <2>1, <2>4
    <3> QED BY <3>1
  <2> QED BY <1>1, <2>1, <2>2, <2>3, <2>4
<1> HIDE DEF r
<1> QED BY <1>2, <1>3, LeadsFlat

\* A GVRP port gets the VLANs it has and a new one.
Renew(n, had, v) == FlattenSeq([i \in DOMAIN had |-> JoinGVRP(n, had[i])]) \o JoinGVRP(n, v)

LEMMA RenewLeads ==
  ASSUME NEW n, NEW m \in Nics, NEW v \in Vlans, NEW had \in Seq(Vlans), NEW tagged,
         NEW x \in Views, x.bridges = {},
         m = n => \A i \in 1..Len(had) : x.sub[had[i]] = "member",
         NEW z, z = IF m = n THEN [x EXCEPT !.sub = [@ EXCEPT ![v] = "member"]] ELSE x
  PROVE  /\ Renew(m, had, v) \in Seq(Commands)
         /\ z \in Views /\ Leads(Renew(m, had, v), n, tagged, x, z)
<1> DEFINE f == [i \in DOMAIN had |-> JoinGVRP(m, had[i])]
           l == Len(had)
           r == [k \in 0..l |-> x]
<1>1. l \in Nat /\ DOMAIN had = 1..l /\ \A i \in 1..l : had[i] \in Vlans
  OBVIOUS
<1>2. ASSUME NEW i \in 1..l
      PROVE  JoinGVRP(m, had[i]) \in Seq(Commands) /\ Leads(JoinGVRP(m, had[i]), n, tagged, x, x)
  <2>1. CASE m # n
    BY <1>1, <2>1, JoinGvrpOther
  <2>2. CASE m = n
    <3>1. x = [x EXCEPT !.sub = [@ EXCEPT ![had[i]] = "member"]]
      BY <1>1, <2>2 DEF Views
    <3> QED BY <1>1, <2>2, <3>1, JoinGvrpLeads
  <2> QED BY <2>1, <2>2
<1>3. f \in Seq(Seq(Commands)) /\ Len(f) = l /\ \A i \in 1..l : f[i] = JoinGVRP(m, had[i])
  BY <1>1, <1>2
<1>4. r \in [0..Len(f) -> Views] /\ r[0] = x /\ r[Len(f)] = x /\ \A i \in 1..l : r[i] = x /\ r[i - 1] = x
  BY <1>1, <1>3
<1>5. Renew(m, had, v) = FlattenSeq(f) \o JoinGVRP(m, v)
  BY DEF Renew
<1> HIDE DEF f, r
<1>6. FlattenSeq(f) \in Seq(Commands) /\ Leads(FlattenSeq(f), n, tagged, x, x)
  <2>1. \A k \in 1..Len(f) : Leads(f[k], n, tagged, r[k - 1], r[k])
    BY <1>2, <1>3, <1>4
  <2>2. FlattenSeq(f) \in Seq(Commands) /\ Leads(FlattenSeq(f), n, tagged, r[0], r[Len(f)])
    BY <1>3, <1>4, <2>1, LeadsFlat
  <2> QED BY <1>4, <2>2
<1>7. JoinGVRP(m, v) \in Seq(Commands) /\ z \in Views /\ Leads(JoinGVRP(m, v), n, tagged, x, z)
  <2>1. CASE m # n
    BY <2>1, JoinGvrpOther
  <2>2. CASE m = n
    BY <2>2, JoinGvrpLeads
  <2> QED BY <2>1, <2>2
<1>8. Leads(FlattenSeq(f) \o JoinGVRP(m, v), n, tagged, x, z) /\ FlattenSeq(f) \o JoinGVRP(m, v) \in Seq(Commands)
  BY <1>6, <1>7, LeadsThen
<1> QED BY <1>5, <1>7, <1>8

\* Port n is the p-th of nics, which lists ports of on, and no other.
Listing(n, on, nics, p) ==
  /\ n \in Nics /\ on \in SUBSET Nics /\ nics \in Seq(on)
  /\ p \in 1..Len(nics) /\ nics[p] = n /\ \A k \in 1..Len(nics) : nics[k] = n => k = p

\* A port that looks like x carries the VLANs vs tagged.
Carries(x, vs) ==
  /\ x \in Views /\ x.bridges = {}
  /\ \A i \in 1..Len(vs) : x.sub[vs[i]] = "member"

\* For one VLAN a frame adds: the ports of nics, one after the other.
Adding(nics, had, v) == FlattenSeq([k \in DOMAIN nics |-> Renew(nics[k], had[nics[k]], v)])

LEMMA AddLeads ==
  ASSUME NEW n, NEW on, NEW nics, NEW p, Listing(n, on, nics, p),
         NEW had \in [on -> Seq(Vlans)], NEW v \in Vlans, NEW tagged, NEW x, Carries(x, had[n]),
         NEW z, z = [x EXCEPT !.sub = [@ EXCEPT ![v] = "member"]]
  PROVE  /\ Adding(nics, had, v) \in Seq(Commands) /\ z \in Views
         /\ Leads(Adding(nics, had, v), n, tagged, x, z)
<1> USE DEF Listing, Carries
<1> DEFINE f == [k \in DOMAIN nics |-> Renew(nics[k], had[nics[k]], v)]
<1>1. Len(nics) \in Nat /\ DOMAIN nics = 1..Len(nics) /\ \A k \in 1..Len(nics) : nics[k] \in on
  OBVIOUS
<1>2. /\ z \in Views /\ z.bridges = {} /\ \A i \in 1..Len(had[n]) : z.sub[had[n][i]] = "member"
  <2>1. z \in Views /\ z.bridges = {} /\ z.sub = [x.sub EXCEPT ![v] = "member"]
    BY DEF Views
  <2>2. n \in on /\ had[n] \in Seq(Vlans)
    BY <1>1
  <2>3. \A i \in 1..Len(had[n]) : had[n][i] \in Vlans
    BY <2>2, LenProperties
  <2>4. x.sub \in [Vlans -> {"absent", "free", "member"}]
    BY DEF Views
  <2> QED BY <2>1, <2>3, <2>4
<1>3. ASSUME NEW k \in 1..Len(nics)
      PROVE  nics[k] \in Nics /\ had[nics[k]] \in Seq(Vlans)
  BY <1>1
<1>4. ASSUME NEW k \in 1..Len(nics)
      PROVE  /\ Renew(nics[k], had[nics[k]], v) \in Seq(Commands)
             /\ k # p => /\ Leads(Renew(nics[k], had[nics[k]], v), n, tagged, x, x)
                         /\ Leads(Renew(nics[k], had[nics[k]], v), n, tagged, z, z)
             /\ k = p => Leads(Renew(nics[k], had[nics[k]], v), n, tagged, x, z)
  <2>1. PICK m : m = nics[k] /\ m \in Nics /\ had[m] \in Seq(Vlans)
    BY <1>3
  <2>2. CASE k = p
    <3>1. m = n /\ z = IF m = n THEN [x EXCEPT !.sub = [@ EXCEPT ![v] = "member"]] ELSE x
      BY <2>1, <2>2
    <3>2. PICK h : h = had[m] /\ h \in Seq(Vlans)
      BY <2>1
    <3>3. \A i \in 1..Len(h) : x.sub[h[i]] = "member"
      BY <3>1, <3>2
    <3>4. Renew(m, h, v) \in Seq(Commands) /\ Leads(Renew(m, h, v), n, tagged, x, z)
      BY <2>1, <3>1, <3>2, <3>3, RenewLeads
    <3> QED BY <2>1, <2>2, <3>2, <3>4
  <2>3. CASE k # p
    <3>1. m # n
      BY <2>1, <2>3
    <3>2. /\ x = IF m = n THEN [x EXCEPT !.sub = [@ EXCEPT ![v] = "member"]] ELSE x
          /\ z = IF m = n THEN [z EXCEPT !.sub = [@ EXCEPT ![v] = "member"]] ELSE z
      BY <3>1
    <3>3. Renew(m, had[m], v) \in Seq(Commands) /\ Leads(Renew(m, had[m], v), n, tagged, x, x)
      BY <2>1, <3>1, <3>2, RenewLeads
    <3>4. Leads(Renew(m, had[m], v), n, tagged, z, z)
      BY <1>2, <2>1, <3>1, <3>2, RenewLeads
    <3> QED BY <2>1, <2>3, <3>3, <3>4
  <2> QED BY <2>2, <2>3
<1>5. f \in Seq(Seq(Commands)) /\ Len(f) = Len(nics) /\ \A k \in 1..Len(nics) : f[k] = Renew(nics[k], had[nics[k]], v)
  BY <1>1, <1>4
<1> HIDE DEF f
<1>6. FlattenSeq(f) \in Seq(Commands) /\ Leads(FlattenSeq(f), n, tagged, x, z)
  <2>1. p \in 1..Len(f) /\ Leads(f[p], n, tagged, x, z)
    BY <1>4, <1>5
  <2>2. ASSUME NEW k \in 1..Len(f), k # p
        PROVE  Leads(f[k], n, tagged, x, x) /\ Leads(f[k], n, tagged, z, z)
    <3>1. k \in 1..Len(nics) /\ f[k] = Renew(nics[k], had[nics[k]], v)
      BY <1>5, <2>2
    <3> QED BY <1>4, <2>2, <3>1
  <2>3. f \in Seq(Seq(Commands)) /\ z \in Views
    BY <1>2, <1>5
  <2>4. Among(f, p, n, tagged, x, z)
    BY <2>1, <2>2, <2>3, Zenon DEF Among
  <2> QED BY <2>4, LeadsAmong, Zenon
<1> QED BY <1>2, <1>6 DEF Adding, f

\* And for one it removes.
Removing(nics, v) == FlattenSeq([k \in DOMAIN nics |-> <<Cmd("reported", nics[k], v, "no")>>])

LEMMA RemoveLeads ==
  ASSUME NEW n, NEW on, NEW nics, NEW p, Listing(n, on, nics, p), NEW v \in Vlans, NEW tagged,
         NEW x \in Views, x.bridges = {}, x.master = "none",
         NEW z, z = [x EXCEPT !.sub = IF @[v] = "member" THEN [@ EXCEPT ![v] = "absent"] ELSE @]
  PROVE  /\ Removing(nics, v) \in Seq(Commands) /\ z \in Views
         /\ Leads(Removing(nics, v), n, tagged, x, z)
<1> USE DEF Listing
<1> DEFINE f == [k \in DOMAIN nics |-> <<Cmd("reported", nics[k], v, "no")>>]
<1>1. Len(nics) \in Nat /\ DOMAIN nics = 1..Len(nics) /\ \A k \in 1..Len(nics) : nics[k] \in on
  OBVIOUS
<1>2. /\ z \in Views /\ z.bridges = {} /\ z.master = x.master /\ z.addrs = x.addrs /\ z.clean = x.clean
      /\ z.sub = IF x.sub[v] = "member" THEN [x.sub EXCEPT ![v] = "absent"] ELSE x.sub
  BY DEF Views
<1>3. ASSUME NEW k \in 1..Len(nics)
      PROVE  Cmd("reported", nics[k], v, "no") \in Commands
  BY <1>1, CmdType DEF Dos, Bare
<1>4. ASSUME NEW k \in 1..Len(nics), k # p
      PROVE  /\ Does(n, tagged, Cmd("reported", nics[k], v, "no"), x, x)
             /\ Does(n, tagged, Cmd("reported", nics[k], v, "no"), z, z)
  <2>1. Quiet(n, Cmd("reported", nics[k], v, "no"))
    BY <1>4 DEF Quiet, Cmd
  <2> QED BY <1>2, <1>3, <2>1, QuietDoes
<1>5. Does(n, tagged, Cmd("reported", n, v, "no"), x, z)
  BY <1>2 DEF Does, Cmd, Ready, SubAfter, MasterAfter, BridgesAfter, Steady
<1>6. f \in Seq(Seq(Commands)) /\ Len(f) = Len(nics) /\ \A k \in 1..Len(nics) : f[k] = <<Cmd("reported", nics[k], v, "no")>>
  BY <1>1, <1>3
<1> HIDE DEF f
<1>7. /\ Leads(f[p], n, tagged, x, z)
      /\ \A k \in 1..Len(f) : k # p => Leads(f[k], n, tagged, x, x) /\ Leads(f[k], n, tagged, z, z)
  <2>1. ASSUME NEW c \in Commands, NEW u \in Views, NEW w \in Views, Does(n, tagged, c, u, w)
        PROVE  Leads(<<c>>, n, tagged, u, w)
    BY <2>1, LeadsOne
  <2>2. f[p] = <<Cmd("reported", n, v, "no")>> /\ Cmd("reported", n, v, "no") \in Commands
    BY <1>3, <1>6
  <2>3. Leads(f[p], n, tagged, x, z)
    BY <1>2, <1>5, <2>1, <2>2
  <2>4. ASSUME NEW k \in 1..Len(f), k # p
        PROVE  Leads(f[k], n, tagged, x, x) /\ Leads(f[k], n, tagged, z, z)
    <3>1. k \in 1..Len(nics) /\ f[k] = <<Cmd("reported", nics[k], v, "no")>>
      BY <1>6, <2>4
    <3>2. PICK c : c = Cmd("reported", nics[k], v, "no")
      OBVIOUS
    <3>3. c \in Commands /\ z \in Views /\ Does(n, tagged, c, x, x) /\ Does(n, tagged, c, z, z)
      BY <1>2, <1>3, <1>4, <2>4, <3>1, <3>2
    <3>4. f[k] = <<c>>
      BY <3>1, <3>2
    <3> QED BY <2>1, <3>3, <3>4
  <2> QED BY <2>3, <2>4
<1>8. p \in 1..Len(f) /\ f \in Seq(Seq(Commands)) /\ z \in Views
  BY <1>2, <1>6
<1>9. Among(f, p, n, tagged, x, z)
  BY <1>7, <1>8, Zenon DEF Among
<1>10. FlattenSeq(f) \in Seq(Commands) /\ Leads(FlattenSeq(f), n, tagged, x, z)
  BY <1>9, LeadsAmong, Zenon
<1> QED BY <1>8, <1>10 DEF Removing, f

\* The row of a port that looks like x, with the VLANs frame c adds and without those it
\* removes.
FrameEnd(c, x) ==
  [tagged |-> ({v \in Vlans : x.sub[v] = "member"} \cup ToSet(c.adds)) \ ToSet(c.removes),
   untagged |-> {}]

\* AnalyseFrame takes each of its ports, if its last update ran alone to its end, there.
LEMMA FrameLeads ==
  ASSUME NEW c \in Forms, c.op = "frame", NEW n, NEW on, NEW nics, NEW p, Listing(n, on, nics, p),
         NEW had \in [on -> Seq(Vlans)], NEW tagged, NEW x, Carries(x, had[n]), x.master = "none"
  PROVE  \E y \in Views :
           Leads(FrameProg(c, nics, had), n, tagged, x, y) /\ Ends(y, FrameEnd(c, x))
<1> DEFINE adds == [l \in DOMAIN c.adds |-> Adding(nics, had, c.adds[l])]
           removes == [l \in DOMAIN c.removes |-> Removing(nics, c.removes[l])]
           la == Len(c.adds)
           lr == Len(c.removes)
           SubA(k) == [w \in Vlans |-> IF \E i \in 1..k : c.adds[i] = w THEN "member" ELSE x.sub[w]]
           SubR(k) == [w \in Vlans |-> IF (\E i \in 1..k : c.removes[i] = w) /\ SubA(la)[w] = "member"
                                       THEN "absent" ELSE SubA(la)[w]]
           RA(k) == [x EXCEPT !.sub = SubA(k)]
           RR(k) == [x EXCEPT !.sub = SubR(k)]
<1>1. /\ c.adds \in Seq(Vlans) /\ c.removes \in Seq(Vlans)
      /\ la \in Nat /\ DOMAIN c.adds = 1..la /\ \A k \in 1..la : c.adds[k] \in Vlans
      /\ lr \in Nat /\ DOMAIN c.removes = 1..lr /\ \A k \in 1..lr : c.removes[k] \in Vlans
  <2>1. c.adds \in Seq(Vlans) /\ c.removes \in Seq(Vlans)
    BY DEF Forms
  <2> QED BY <2>1
<1>2. FrameProg(c, nics, had) = FlattenSeq(adds) \o FlattenSeq(removes)
  BY DEF FrameProg, Each, Renew, Adding, Removing
<1> USE DEF Carries
<1>3. \A k : SubA(k) \in [Vlans -> {"absent", "free", "member"}] /\ SubR(k) \in [Vlans -> {"absent", "free", "member"}]
  <2>1. x.sub \in [Vlans -> {"absent", "free", "member"}]
    BY DEF Views
  <2>2. \A k : SubA(k) \in [Vlans -> {"absent", "free", "member"}]
    BY <2>1
  <2> HIDE DEF SubA
  <2>3. \A k : SubR(k) \in [Vlans -> {"absent", "free", "member"}]
    BY <2>2
  <2> QED BY <2>2, <2>3
<1>4. \A k : /\ RA(k) \in Views /\ RA(k).sub = SubA(k) /\ RA(k).bridges = {} /\ RA(k).master = "none"
             /\ RR(k) \in Views /\ RR(k).sub = SubR(k) /\ RR(k).bridges = {} /\ RR(k).master = "none"
  <2> HIDE DEF SubA, SubR
  <2> QED BY <1>3 DEF Views
<1>5. RA(0) = x
  <2>1. ~ \E i \in 1..0 : TRUE
    OBVIOUS
  <2>2. SubA(0) = x.sub
    BY <2>1 DEF Views
  <2> HIDE DEF SubA
  <2> QED BY <2>2 DEF Views
<1>6. RR(0) = RA(la)
  <2>1. ~ \E i \in 1..0 : TRUE
    OBVIOUS
  <2>2. SubR(0) = SubA(la)
    <3>1. \A w \in Vlans : SubR(0)[w] = SubA(la)[w]
      BY <2>1
    <3> QED BY <3>1
  <2> HIDE DEF SubA, SubR
  <2> QED BY <2>2
<1>7. ASSUME NEW k \in 1..la
      PROVE  /\ Adding(nics, had, c.adds[k]) \in Seq(Commands)
             /\ Leads(Adding(nics, had, c.adds[k]), n, tagged, RA(k - 1), RA(k))
  <2> DEFINE v == c.adds[k]
             z == [RA(k - 1) EXCEPT !.sub = [@ EXCEPT ![v] = "member"]]
  <2>1. v \in Vlans /\ k \in Nat /\ k - 1 \in Nat
    BY <1>1
  <2>2. \A i : i \in 1..k <=> i \in 1..(k - 1) \/ i = k
    BY <2>1
  <2>3. SubA(k) = [SubA(k - 1) EXCEPT ![v] = "member"]
    <3>1. \A w \in Vlans : SubA(k)[w] = IF w = v THEN "member" ELSE SubA(k - 1)[w]
      BY <2>1, <2>2
    <3>2. /\ SubA(k) \in [Vlans -> {"absent", "free", "member"}]
          /\ SubA(k - 1) \in [Vlans -> {"absent", "free", "member"}]
      BY <1>3
    <3> HIDE DEF SubA
    <3> QED BY <2>1, <3>1, <3>2
  <2>4. z = RA(k)
    <3> HIDE DEF SubA
    <3> QED BY <2>3
  <2>5. n \in on /\ had[n] \in Seq(Vlans)
    <3>1. nics[p] \in on /\ n = nics[p]
      BY DEF Listing
    <3> QED BY <3>1
  <2>6. \A i \in 1..Len(had[n]) : had[n][i] \in Vlans
    BY <2>5
  <2>7. \A i \in 1..Len(had[n]) : RA(k - 1).sub[had[n][i]] = "member"
    <3>1. \A i \in 1..Len(had[n]) : SubA(k - 1)[had[n][i]] = "member"
      BY <2>6
    <3> HIDE DEF SubA, RA
    <3> QED BY <1>4, <3>1
  <2>8. PICK y : y = RA(k - 1)
    OBVIOUS
  <2>9. PICK u, w : u = v /\ w = z
    OBVIOUS
  <2>10. w = [y EXCEPT !.sub = [@ EXCEPT ![u] = "member"]] /\ w = RA(k) /\ u \in Vlans
    BY <2>1, <2>4, <2>8, <2>9
  <2> HIDE DEF RA, v, z
  <2>11. Carries(y, had[n])
    BY <1>4, <2>7, <2>8
  <2> HIDE DEF Carries
  <2>12. Adding(nics, had, u) \in Seq(Commands) /\ Leads(Adding(nics, had, u), n, tagged, y, w)
    BY <2>10, <2>11, AddLeads
  <2> QED BY <2>8, <2>9, <2>10, <2>12 DEF v
<1>8. ASSUME NEW k \in 1..lr
      PROVE  /\ Removing(nics, c.removes[k]) \in Seq(Commands)
             /\ Leads(Removing(nics, c.removes[k]), n, tagged, RR(k - 1), RR(k))
  <2> DEFINE v == c.removes[k]
  <2>1. v \in Vlans /\ k \in Nat /\ k - 1 \in Nat
    BY <1>1
  <2>2. \A i : i \in 1..k <=> i \in 1..(k - 1) \/ i = k
    BY <2>1
  <2>3. SubR(k) = IF SubR(k - 1)[v] = "member" THEN [SubR(k - 1) EXCEPT ![v] = "absent"] ELSE SubR(k - 1)
    <3> HIDE DEF SubA
    <3>1. \A w \in Vlans : SubR(k)[w] = IF w = v /\ SubR(k - 1)[w] = "member" THEN "absent" ELSE SubR(k - 1)[w]
      BY <2>1, <2>2
    <3>2. CASE SubR(k - 1)[v] = "member"
      BY <2>1, <3>1, <3>2
    <3>3. CASE SubR(k - 1)[v] # "member"
      BY <2>1, <3>1, <3>3
    <3> QED BY <3>2, <3>3
  <2>4. PICK y : y = RR(k - 1)
    OBVIOUS
  <2> DEFINE zz == [y EXCEPT !.sub = IF @[v] = "member" THEN [@ EXCEPT ![v] = "absent"] ELSE @]
  <2>5. zz = RR(k)
    <3> HIDE DEF SubR
    <3> QED BY <2>3, <2>4
  <2> HIDE DEF RR
  <2>6. y \in Views /\ y.bridges = {} /\ y.master = "none"
    BY <1>4, <2>4
  <2>7. PICK u, w : u = v /\ w = zz
    OBVIOUS
  <2>8. w = [y EXCEPT !.sub = IF @[u] = "member" THEN [@ EXCEPT ![u] = "absent"] ELSE @]
    BY <2>7
  <2> HIDE DEF zz, v
  <2>9. u \in Vlans
    BY <2>1, <2>7
  <2>10. Removing(nics, u) \in Seq(Commands) /\ Leads(Removing(nics, u), n, tagged, y, w)
    BY <2>6, <2>8, <2>9, RemoveLeads
  <2> QED BY <2>4, <2>5, <2>7, <2>10 DEF v
<1>9. Ends(RR(lr), [tagged |-> ({v \in Vlans : x.sub[v] = "member"} \cup ToSet(c.adds)) \ ToSet(c.removes),
                    untagged |-> {}])
  <2>1. \A w \in Vlans : SubR(lr)[w] = "member" <=>
          /\ x.sub[w] = "member" \/ \E i \in 1..la : c.adds[i] = w
          /\ ~ \E i \in 1..lr : c.removes[i] = w
    OBVIOUS
  <2>2. ToSet(c.adds) = {c.adds[i] : i \in 1..la} /\ ToSet(c.removes) = {c.removes[i] : i \in 1..lr}
    BY <1>1, Elements
  <2> HIDE DEF SubA, SubR, RR
  <2>3. RR(lr).sub = SubR(lr) /\ RR(lr).master = "none"
    BY <1>4
  <2>4. {v \in Vlans : RR(lr).sub[v] = "member"}
          = ({v \in Vlans : x.sub[v] = "member"} \cup ToSet(c.adds)) \ ToSet(c.removes)
    BY <1>1, <2>1, <2>2, <2>3
  <2>5. Vlans \cap {RR(lr).master} = {}
    BY <2>3, VlanAssumption
  <2> QED BY <2>3, <2>4, <2>5 DEF Ends
<1> DEFINE ra == [k \in 0..la |-> RA(k)]
           rr == [k \in 0..lr |-> RR(k)]
<1>10. /\ ra \in [0..la -> Views] /\ ra[0] = RA(0) /\ ra[la] = RA(la)
       /\ \A k \in 1..la : ra[k] = RA(k) /\ ra[k - 1] = RA(k - 1)
       /\ rr \in [0..lr -> Views] /\ rr[0] = RR(0) /\ rr[lr] = RR(lr)
       /\ \A k \in 1..lr : rr[k] = RR(k) /\ rr[k - 1] = RR(k - 1)
  <2> HIDE DEF RA, RR
  <2> QED BY <1>1, <1>4
<1> HIDE DEF RA, RR, ra, rr
<1>11. /\ adds \in Seq(Seq(Commands)) /\ Len(adds) = la
       /\ \A k \in 1..la : adds[k] = Adding(nics, had, c.adds[k])
  BY <1>1, <1>7
<1>12. /\ removes \in Seq(Seq(Commands)) /\ Len(removes) = lr
       /\ \A k \in 1..lr : removes[k] = Removing(nics, c.removes[k])
  BY <1>1, <1>8
<1> HIDE DEF adds, removes
<1>13. FlattenSeq(adds) \in Seq(Commands) /\ Leads(FlattenSeq(adds), n, tagged, x, RA(la))
  <2>1. \A k \in 1..Len(adds) : Leads(adds[k], n, tagged, ra[k - 1], ra[k])
    BY <1>7, <1>10, <1>11
  <2>2. ra \in [0..Len(adds) -> Views]
    BY <1>10, <1>11
  <2>3. FlattenSeq(adds) \in Seq(Commands) /\ Leads(FlattenSeq(adds), n, tagged, ra[0], ra[Len(adds)])
    BY <1>11, <2>1, <2>2, LeadsFlat
  <2> QED BY <1>5, <1>10, <1>11, <2>3
<1>14. FlattenSeq(removes) \in Seq(Commands) /\ Leads(FlattenSeq(removes), n, tagged, RA(la), RR(lr))
  <2>1. \A k \in 1..Len(removes) : Leads(removes[k], n, tagged, rr[k - 1], rr[k])
    BY <1>8, <1>10, <1>12
  <2>2. rr \in [0..Len(removes) -> Views]
    BY <1>10, <1>12
  <2>3. FlattenSeq(removes) \in Seq(Commands) /\ Leads(FlattenSeq(removes), n, tagged, rr[0], rr[Len(removes)])
    BY <1>12, <2>1, <2>2, LeadsFlat
  <2> QED BY <1>6, <1>10, <1>12, <2>3
<1>15. Leads(FlattenSeq(adds) \o FlattenSeq(removes), n, tagged, x, RR(lr))
  BY <1>13, <1>14, LeadsThen
<1> QED BY <1>2, <1>4, <1>9, <1>15 DEF FrameEnd

-----------------------------------------------------------------------------
\* What the handlers' programs are made of.

\* Commands that look at a port's place in the bridges or change it.
PortDos == {"clear", "reported", "look", "hasVLAN", "master", "addif", "delif", "link",
            "linkGvrp", "addsub", "unlink"}

\* A command of a handler that works on the ports of on and the VLANs in uses.
Mine(c, on, uses) == c.vlan \in uses \cup {"none"} /\ (c.do \in PortDos => c.nic \in on)

\* The probes of Apply come one right after the other.
Probing(s, i) ==
  /\ s[i].do = "hasVLAN" => s[i - 1].do = "exists" /\ s[i - 1].vlan = s[i].vlan
  /\ s[i].do = "exists" => s[i - 1].do = "hasAddress" /\ s[i - 1].vlan = s[i].vlan

Proper(on, uses) ==
  {s \in Seq(Commands) :
     \A i \in 1..Len(s) :
       /\ Mine(s[i], on, uses)
       /\ s[i].do \notin {"delete", "address"} /\ s[i].catch # "try"
       /\ s[i].do \in {"hasVLAN", "exists"} => i > 1
       /\ Probing(s, i)}

LEMMA ProperNone ==
  ASSUME NEW on, NEW uses
  PROVE  << >> \in Proper(on, uses)
BY DEF Proper

LEMMA ProperAppend ==
  ASSUME NEW on, NEW uses, NEW a \in Proper(on, uses), NEW b \in Proper(on, uses)
  PROVE  a \o b \in Proper(on, uses)
<1>1. PICK k, l, s : k = Len(a) /\ l = Len(b) /\ s = a \o b
  OBVIOUS
<1>2. /\ k \in Nat /\ l \in Nat /\ Len(s) = k + l /\ s \in Seq(Commands)
      /\ \A i \in 1..(k + l) : s[i] = IF i <= k THEN a[i] ELSE b[i - k]
  <2>1. a \in Seq(Commands) /\ b \in Seq(Commands)
    BY DEF Proper
  <2> QED BY <1>1, <2>1, ConcatProperties, LenProperties
<1>3. ASSUME NEW i \in 1..(k + l)
      PROVE  /\ Mine(s[i], on, uses)
             /\ s[i].do \notin {"delete", "address"} /\ s[i].catch # "try"
             /\ s[i].do \in {"hasVLAN", "exists"} => i > 1
             /\ Probing(s, i)
  <2>1. CASE i <= k
    <3>1. i \in 1..k /\ s[i] = a[i]
      BY <1>2, <2>1
    <3>2. /\ Mine(a[i], on, uses)
          /\ a[i].do \notin {"delete", "address"} /\ a[i].catch # "try"
          /\ a[i].do \in {"hasVLAN", "exists"} => i > 1
          /\ Probing(a, i)
      BY <1>1, <3>1 DEF Proper
    <3>3. i > 1 => s[i - 1] = a[i - 1]
      BY <1>2, <2>1
    <3> QED BY <3>1, <3>2, <3>3 DEF Probing
  <2>2. CASE ~ (i <= k)
    <3> DEFINE j == i - k
    <3>1. j \in 1..l /\ s[i] = b[j]
      BY <1>2, <2>2
    <3>2. /\ Mine(b[j], on, uses)
          /\ b[j].do \notin {"delete", "address"} /\ b[j].catch # "try"
          /\ b[j].do \in {"hasVLAN", "exists"} => j > 1
          /\ Probing(b, j)
      BY <1>1, <3>1 DEF Proper
    <3>3. j > 1 => i > 1 /\ s[i - 1] = b[j - 1]
      <4>1. ASSUME j > 1
            PROVE  i > 1 /\ i - 1 \in 1..(k + l) /\ ~ (i - 1 <= k) /\ (i - 1) - k = j - 1
        BY <1>2, <4>1
      <4> QED BY <1>2, <4>1
    <3> HIDE DEF j
    <3> QED BY <3>1, <3>2, <3>3 DEF Probing
  <2> QED BY <2>1, <2>2
<1>4. s \in Proper(on, uses)
  BY <1>2, <1>3 DEF Proper
<1> QED BY <1>1, <1>4

LEMMA ProperFlat ==
  ASSUME NEW on, NEW uses, NEW s \in Seq(Proper(on, uses))
  PROVE  FlattenSeq(s) \in Proper(on, uses)
<1>1. Proper(on, uses) \in SUBSET Seq(Commands)
  BY DEF Proper
<1>2. << >> \in Proper(on, uses) /\ \A a, b \in Proper(on, uses) : a \o b \in Proper(on, uses)
  BY ProperNone, ProperAppend
<1> QED BY <1>1, <1>2, Flattened

\* Commands without probes.
LEMMA ProperPlain ==
  ASSUME NEW on, NEW uses, NEW s \in Seq(Commands),
         \A i \in 1..Len(s) : /\ Mine(s[i], on, uses) /\ s[i].catch # "try"
                              /\ s[i].do \notin {"delete", "address", "hasVLAN", "exists"}
  PROVE  s \in Proper(on, uses)
BY DEF Proper, Probing

LEMMA ProperProbes ==
  ASSUME NEW on, NEW uses, NEW n \in on, n \in Nics, NEW v \in uses, v \in Vlans
  PROVE  Probes(n, v) \in Proper(on, uses)
<1> DEFINE s == Probes(n, v)
<1>1. s \in Seq(Commands)
  BY PlainProbes DEF Plain
<1>2. Len(s) = 3 /\ s[1] = Cmd("hasAddress", n, v, "no") /\ s[2] = Cmd("exists", n, v, "no")
      /\ s[3] = Cmd("hasVLAN", n, v, "no")
  BY DEF Probes
<1> HIDE DEF s
<1>3. ASSUME NEW i \in 1..3
      PROVE  /\ Mine(s[i], on, uses)
             /\ s[i].do \notin {"delete", "address"} /\ s[i].catch # "try"
             /\ s[i].do \in {"hasVLAN", "exists"} => i > 1
             /\ Probing(s, i)
  <2>1. CASE i = 1
    BY <1>2, <2>1 DEF Cmd, Mine, PortDos, Probing
  <2>2. CASE i = 2
    <3>1. 2 - 1 = 1 /\ 2 > 1
      OBVIOUS
    <3> QED BY <1>2, <2>2, <3>1 DEF Cmd, Mine, PortDos, Probing
  <2>3. CASE i = 3
    <3>1. 3 - 1 = 2 /\ 3 > 1
      OBVIOUS
    <3> QED BY <1>2, <2>3, <3>1 DEF Cmd, Mine, PortDos, Probing
  <2> QED BY <2>1, <2>2, <2>3
<1> QED BY <1>1, <1>2, <1>3 DEF Proper, s

LEMMA ProperOne ==
  ASSUME NEW on, NEW uses, NEW n \in Nics, n \in on, NEW v \in Vlans, v \in uses,
         NEW do \in Dos \ {"delete", "address", "hasVLAN", "exists"}, NEW catch \in {"no", "yes"},
         catch = "no" \/ do \notin Bare
  PROVE  <<Cmd(do, n, v, catch)>> \in Proper(on, uses)
<1>1. Cmd(do, n, v, catch) \in Commands
  BY CmdType
<1>2. PICK s : s = <<Cmd(do, n, v, catch)>>
  OBVIOUS
<1>3. s \in Seq(Commands) /\ Len(s) = 1 /\ s[1] = Cmd(do, n, v, catch)
  BY <1>1, <1>2
<1>4. \A i \in 1..Len(s) : /\ Mine(s[i], on, uses) /\ s[i].catch # "try"
                           /\ s[i].do \notin {"delete", "address", "hasVLAN", "exists"}
  BY <1>3 DEF Mine, Cmd
<1> QED BY <1>2, <1>3, <1>4, ProperPlain

LEMMA ProperTwo ==
  ASSUME NEW on, NEW uses, NEW n \in Nics, n \in on, NEW v \in Vlans, v \in uses,
         NEW do \in Dos \ {"delete", "address", "hasVLAN", "exists"},
         NEW do2 \in Dos \ {"delete", "address", "hasVLAN", "exists"}, NEW catch \in {"no", "yes"},
         catch = "no" \/ (do \notin Bare /\ do2 \notin Bare)
  PROVE  <<Cmd(do, n, v, catch), Cmd(do2, n, v, catch)>> \in Proper(on, uses)
<1> DEFINE c == Cmd(do, n, v, catch)
           d == Cmd(do2, n, v, catch)
<1>1. c \in Commands /\ d \in Commands
  BY CmdType
<1>2. /\ Mine(c, on, uses) /\ c.catch # "try" /\ c.do \notin {"delete", "address", "hasVLAN", "exists"}
      /\ Mine(d, on, uses) /\ d.catch # "try" /\ d.do \notin {"delete", "address", "hasVLAN", "exists"}
  BY DEF Mine, Cmd
<1> HIDE DEF c, d
<1>3. <<c, d>> \in Seq(Commands) /\ \A i \in 1..Len(<<c, d>>) : <<c, d>>[i] = c \/ <<c, d>>[i] = d
  BY <1>1
<1>4. \A i \in 1..Len(<<c, d>>) :
        /\ Mine(<<c, d>>[i], on, uses) /\ <<c, d>>[i].catch # "try"
        /\ <<c, d>>[i].do \notin {"delete", "address", "hasVLAN", "exists"}
  BY <1>2, <1>3
<1>5. <<c, d>> \in Proper(on, uses)
  BY <1>3, <1>4, ProperPlain
<1> QED BY <1>5 DEF c, d

LEMMA ProperJoins ==
  ASSUME NEW on, NEW uses, NEW n \in Nics, n \in on, NEW v \in Vlans, v \in uses
  PROVE  /\ JoinUntagged(n, v) \in Proper(on, uses)
         /\ \A link \in {"link", "linkGvrp"}, catch \in {"no", "yes"} :
              JoinTagged(n, v, link, catch) \in Proper(on, uses)
<1>1. JoinUntagged(n, v) \in Proper(on, uses)
  <2>1. <<Cmd("down", n, v, "no"), Cmd("addif", n, v, "no")>> \in Proper(on, uses)
    BY ProperTwo DEF Dos
  <2>2. <<Cmd("up", n, v, "no")>> \in Proper(on, uses)
    BY ProperOne DEF Dos
  <2>3. JoinUntagged(n, v) = <<Cmd("down", n, v, "no"), Cmd("addif", n, v, "no")>> \o <<Cmd("up", n, v, "no")>>
    BY DEF JoinUntagged
  <2> QED BY <2>1, <2>2, <2>3, ProperAppend
<1>2. ASSUME NEW link \in {"link", "linkGvrp"}, NEW catch \in {"no", "yes"}
      PROVE  JoinTagged(n, v, link, catch) \in Proper(on, uses)
  <2> DEFINE a == <<Cmd("down", n, v, catch), Cmd(link, n, v, catch)>>
             b == <<Cmd("up", n, v, catch), Cmd("nicUp", n, v, catch)>>
             c == <<Cmd("down", n, v, catch), Cmd("addsub", n, v, catch)>>
             d == <<Cmd("subUp", n, v, catch), Cmd("up", n, v, catch)>>
  <2>1. a \in Proper(on, uses) /\ b \in Proper(on, uses) /\ c \in Proper(on, uses) /\ d \in Proper(on, uses)
    BY ProperTwo DEF Dos, Bare
  <2>2. JoinTagged(n, v, link, catch) = (a \o b) \o (c \o d)
    BY DEF JoinTagged
  <2> HIDE DEF a, b, c, d
  <2> QED BY <2>1, <2>2, ProperAppend
<1> QED BY <1>1, <1>2

LEMMA ProperJoin ==
  ASSUME NEW on, NEW uses, NEW n \in Nics, n \in on, NEW v \in Vlans, v \in uses,
         NEW j \in Jobs, NEW hasVLAN
  PROVE  Join(n, v, j, hasVLAN) \in Proper(on, uses)
<1> DEFINE link == IF j.gvrp THEN "linkGvrp" ELSE "link"
           bare == IF "bridge" \in j.seen THEN << >> ELSE Create(n, v)
           leave == IF hasVLAN THEN <<Cmd("master", n, v, "no")>> ELSE << >>
           flush == IF {"bridge", "address"} \subseteq j.seen
                    THEN <<Cmd("flushNic", n, v, "no")>> ELSE << >>
           join == IF j.tagged THEN JoinTagged(n, v, link, "no")
                   ELSE leave \o JoinUntagged(n, v) \o flush
<1>1. bare \in Proper(on, uses)
  <2>1. Create(n, v) \in Proper(on, uses)
    BY ProperTwo DEF Create, Dos
  <2> QED BY <2>1, ProperNone
<1>2. leave \in Proper(on, uses) /\ flush \in Proper(on, uses)
  <2>1. <<Cmd("master", n, v, "no")>> \in Proper(on, uses) /\ <<Cmd("flushNic", n, v, "no")>> \in Proper(on, uses)
    BY ProperOne DEF Dos
  <2> QED BY <2>1, ProperNone
<1>3. link \in {"link", "linkGvrp"}
  OBVIOUS
<1>4. Join(n, v, j, hasVLAN) = bare \o join
  BY DEF Join
<1> HIDE DEF link, bare, leave, flush
<1>5. join \in Proper(on, uses)
  <2>1. CASE j.tagged
    <3>1. join = JoinTagged(n, v, link, "no")
      BY <2>1
    <3> QED BY <1>3, <3>1, ProperJoins
  <2>2. CASE ~ j.tagged
    <3>1. join = (leave \o JoinUntagged(n, v)) \o flush
      BY <2>2
    <3>2. PICK u, w : u = JoinUntagged(n, v) /\ w = leave \o u
      OBVIOUS
    <3>3. u \in Proper(on, uses)
      BY <3>2, ProperJoins
    <3>4. w \in Proper(on, uses)
      BY <1>2, <3>2, <3>3, ProperAppend
    <3>5. w \o flush \in Proper(on, uses)
      BY <1>2, <3>4, ProperAppend
    <3> QED BY <3>1, <3>2, <3>5
  <2> QED BY <2>1, <2>2
<1> HIDE DEF join
<1> QED BY <1>1, <1>4, <1>5, ProperAppend

LEMMA ProperRenew ==
  ASSUME NEW on, NEW uses, NEW n \in Nics, n \in on, NEW v \in Vlans, v \in uses,
         NEW had \in Seq(Vlans), \A i \in 1..Len(had) : had[i] \in uses
  PROVE  Renew(n, had, v) \in Proper(on, uses)
<1> DEFINE f == [i \in DOMAIN had |-> JoinGVRP(n, had[i])]
<1>1. ASSUME NEW w \in Vlans, w \in uses
      PROVE  JoinGVRP(n, w) \in Proper(on, uses)
  <2>1. <<Cmd("addbr", n, w, "yes"), Cmd("up", n, w, "yes")>> \in Proper(on, uses)
    BY <1>1, ProperTwo DEF Dos, Bare
  <2>2. JoinTagged(n, w, "linkGvrp", "yes") \in Proper(on, uses)
    BY <1>1, ProperJoins
  <2> QED BY <2>1, <2>2, ProperAppend DEF JoinGVRP
<1>2. f \in Seq(Proper(on, uses))
  <2>1. /\ DOMAIN had = 1..Len(had) /\ Len(had) \in Nat
        /\ \A i \in DOMAIN had : had[i] \in Vlans /\ had[i] \in uses
    OBVIOUS
  <2>2. \A i \in DOMAIN had : JoinGVRP(n, had[i]) \in Proper(on, uses)
    BY <1>1, <2>1
  <2> QED BY <2>1, <2>2
<1>3. Renew(n, had, v) = FlattenSeq(f) \o JoinGVRP(n, v)
  BY DEF Renew
<1> HIDE DEF f
<1> QED BY <1>1, <1>2, <1>3, ProperFlat, ProperAppend

LEMMA ProperClear ==
  ASSUME NEW on, NEW uses, NEW n \in Nics, n \in on, NEW vs \in Seq(Vlans),
         \A i \in 1..Len(vs) : vs[i] \in uses
  PROVE  Each(vs, LAMBDA v : Leave(n, v, "no")) \in Proper(on, uses)
<1> DEFINE f == [k \in DOMAIN vs |-> Leave(n, vs[k], "no")]
<1>1. DOMAIN vs = 1..Len(vs) /\ Len(vs) \in Nat /\ \A k \in DOMAIN vs : vs[k] \in Vlans /\ vs[k] \in uses
  OBVIOUS
<1>2. \A k \in DOMAIN vs : Leave(n, vs[k], "no") \in Proper(on, uses)
  BY <1>1, ProperTwo DEF Leave, Dos
<1>3. f \in Seq(Proper(on, uses))
  BY <1>1, <1>2
<1>4. Each(vs, LAMBDA v : Leave(n, v, "no")) = FlattenSeq(f)
  BY DEF Each
<1> HIDE DEF f
<1> QED BY <1>3, <1>4, ProperFlat

LEMMA ProperEdit ==
  ASSUME NEW c \in Forms, c.op = "edit", NEW on, c.nic \in on, NEW uses, ToSet(c.vlans) \subseteq uses
  PROVE  EditProg(c) \in Proper(on, uses)
<1> DEFINE a == <<Cmd(IF c.active THEN "nicUp" ELSE "nicDown", c.nic, "none", "no"),
                  Cmd("clear", c.nic, "none", "no")>>
           f == [k \in DOMAIN c.vlans |-> Probes(c.nic, c.vlans[k])]
<1>1. c.nic \in Nics /\ c.vlans \in Seq(Vlans)
  BY DEF Forms
<1>2. a \in Proper(on, uses)
  <2>1. a \in Seq(Commands)
    BY <1>1 DEF Cmd, Commands, Dos, Bare
  <2>2. Len(a) = 2 /\ \A i \in 1..Len(a) : /\ Mine(a[i], on, uses) /\ a[i].catch # "try"
                           /\ a[i].do \notin {"delete", "address", "hasVLAN", "exists"}
    BY DEF Cmd, Mine, PortDos
  <2> HIDE DEF a
  <2> QED BY <2>1, <2>2, ProperPlain
<1>3. f \in Seq(Proper(on, uses))
  <2>1. /\ DOMAIN c.vlans = 1..Len(c.vlans) /\ Len(c.vlans) \in Nat
        /\ \A k \in DOMAIN c.vlans : c.vlans[k] \in Vlans /\ c.vlans[k] \in uses
    BY <1>1, Elements
  <2>2. \A k \in DOMAIN c.vlans : Probes(c.nic, c.vlans[k]) \in Proper(on, uses)
    BY <1>1, <2>1, ProperProbes
  <2> QED BY <2>1, <2>2
<1>4. EditProg(c) = a \o FlattenSeq(f)
  BY DEF EditProg, Each
<1> HIDE DEF a, f
<1> QED BY <1>2, <1>3, <1>4, ProperFlat, ProperAppend

LEMMA ProperFrame ==
  ASSUME NEW c \in Forms, c.op = "frame", NEW on \in SUBSET Nics, NEW uses,
         NEW nics \in Seq(on), NEW had \in [on -> Seq(Vlans)],
         ToSet(c.adds) \subseteq uses, ToSet(c.removes) \subseteq uses,
         \A n \in on : \A i \in 1..Len(had[n]) : had[n][i] \in uses
  PROVE  FrameProg(c, nics, had) \in Proper(on, uses)
<1> DEFINE Add(v) == [k \in DOMAIN nics |-> Renew(nics[k], had[nics[k]], v)]
           adds == [l \in DOMAIN c.adds |-> FlattenSeq(Add(c.adds[l]))]
           Gone(v) == [k \in DOMAIN nics |-> <<Cmd("reported", nics[k], v, "no")>>]
           removes == [l \in DOMAIN c.removes |-> FlattenSeq(Gone(c.removes[l]))]
<1>1. c.adds \in Seq(Vlans) /\ c.removes \in Seq(Vlans)
  BY DEF Forms
<1>2. FrameProg(c, nics, had) = FlattenSeq(adds) \o FlattenSeq(removes)
  BY DEF FrameProg, Each, Renew
<1>3. /\ DOMAIN nics = 1..Len(nics) /\ Len(nics) \in Nat
      /\ \A k \in DOMAIN nics : /\ nics[k] \in on /\ nics[k] \in Nics /\ had[nics[k]] \in Seq(Vlans)
                              /\ \A i \in 1..Len(had[nics[k]]) : had[nics[k]][i] \in uses
  <2>1. DOMAIN nics = 1..Len(nics) /\ Len(nics) \in Nat /\ \A k \in DOMAIN nics : nics[k] \in on
    OBVIOUS
  <2> QED BY <2>1
<1>4. ASSUME NEW v \in Vlans, v \in uses
      PROVE  FlattenSeq(Add(v)) \in Proper(on, uses)
  <2>1. \A k \in DOMAIN nics : Renew(nics[k], had[nics[k]], v) \in Proper(on, uses)
    BY <1>3, <1>4, ProperRenew
  <2>2. Add(v) \in Seq(Proper(on, uses))
    BY <1>3, <2>1
  <2> HIDE DEF Add
  <2> QED BY <2>2, ProperFlat
<1>5. ASSUME NEW v \in Vlans, v \in uses
      PROVE  FlattenSeq(Gone(v)) \in Proper(on, uses)
  <2>1. \A k \in DOMAIN nics : <<Cmd("reported", nics[k], v, "no")>> \in Proper(on, uses)
    BY <1>3, <1>5, ProperOne DEF Dos
  <2>2. Gone(v) \in Seq(Proper(on, uses))
    BY <1>3, <2>1
  <2> HIDE DEF Gone
  <2> QED BY <2>2, ProperFlat
<1> HIDE DEF Add, Gone
<1>6. adds \in Seq(Proper(on, uses))
  <2>1. /\ DOMAIN c.adds = 1..Len(c.adds) /\ Len(c.adds) \in Nat
        /\ \A l \in DOMAIN c.adds : c.adds[l] \in Vlans /\ c.adds[l] \in uses
    BY <1>1, Elements
  <2>2. \A l \in DOMAIN c.adds : FlattenSeq(Add(c.adds[l])) \in Proper(on, uses)
    BY <1>4, <2>1
  <2> QED BY <2>1, <2>2
<1>7. removes \in Seq(Proper(on, uses))
  <2>1. /\ DOMAIN c.removes = 1..Len(c.removes) /\ Len(c.removes) \in Nat
        /\ \A l \in DOMAIN c.removes : c.removes[l] \in Vlans /\ c.removes[l] \in uses
    BY <1>1, Elements
  <2>2. \A l \in DOMAIN c.removes : FlattenSeq(Gone(c.removes[l])) \in Proper(on, uses)
    BY <1>5, <2>1
  <2> QED BY <2>1, <2>2
<1> HIDE DEF adds, removes
<1> QED BY <1>2, <1>6, <1>7, ProperFlat, ProperAppend

-----------------------------------------------------------------------------
\* The inductive invariant.

Rows == {g \in [tagged : SUBSET Vlans, untagged : SUBSET Vlans] : g.tagged = {} \/ g.untagged = {}}

TryDos == {"look", "subDown", "unlink", "down", "delif", "up"}

\* The order of the commands a handler still has to run: a bridge is only deleted after
\* it was taken down, its address is set last, and a try is about one port.
Follows(s) ==
  \A i \in 1..Len(s) :
    /\ i > 1 => Probing(s, i)
    /\ s[i].do = "delete" => i = 1 \/ (i = 2 /\ s[1].do = "down")
    /\ s[i].do = "address" => i = Len(s)
    /\ s[i].catch = "try" =>
         /\ s[i].do \in TryDos
         /\ \A k \in 1..i : s[k].catch = "try" /\ s[k].nic = s[i].nic

Kempt(t) ==
  LET j == job[t] IN
  /\ j.on \subseteq j.uses /\ j.sound \subseteq j.on
  /\ \A i \in 1..Len(j.todo) : Mine(j.todo[i], j.on, j.uses)
  /\ Follows(j.todo)

\* What Apply saw of a VLAN still holds when it decides how to join it.
Seen(t) ==
  LET c == job[t].todo[1] IN
  job[t].todo # << >> /\ c.vlan \in bridgeAddr =>
    /\ c.do \in {"exists", "hasVLAN"} => "address" \in job[t].seen
    /\ c.do = "hasVLAN" => "bridge" \in job[t].seen

\* A row is promised for the port, or stands.
Promised(n) == n \in settled \/ \E t \in Threads : n \in job[t].sound

\* A bridge that is deleted may have ports again, but none with a promise.
Deletes(t) ==
  LET s == job[t].todo IN
  \A i \in 1..Len(s) : s[i].do = "delete" =>
    \A n \in Nics : Member(n, s[i].vlan) => ~ Promised(n)

\* The address page flushes the ports of the VLAN before it sets the address.
Addresses(t) ==
  LET s == job[t].todo IN
  \A i \in 1..Len(s) : s[i].do = "address" =>
    /\ job[t].on = {}
    /\ \A n \in settled : master[n] = s[i].vlan =>
         n \notin nicAddr \/ \E k \in 1..Len(s) : s[k].do = "flushNic" /\ s[k].nic = n

\* A handler works on all the VLANs its ports are in.
Own(t) == \A n \in job[t].on, v \in Vlans : Member(n, v) => v \in job[t].uses

\* No address of the port next to one of the bridge it is in.
Clean(n) == \A v \in bridgeAddr : master[n] = v => n \notin nicAddr

\* The view x of port n is true, as far as the handler of t is concerned.
Stands(t, n, x) ==
  /\ x.master = master[n] /\ x.sub = [v \in Vlans |-> sub[<<n, v>>]]
  /\ \A v \in x.bridges : v \in job[t].uses /\ bridge[v] # "absent"
  /\ bridgeAddr \cap job[t].uses \subseteq x.addrs
  /\ x.clean => Clean(n)

\* What the handler of t still has to run takes port n to the row it asked for.
Due(t, n) ==
  \E x, y \in Views : /\ Stands(t, n, x)
                      /\ Leads(job[t].todo, n, job[t].tagged, x, y)
                      /\ Ends(y, goal[n])

\* No other handler works on a port or VLAN of this one.
Solo(t) == \A o \in Threads \ {t} : job[t].uses \cap job[o].uses = {}

JobOK(t) ==
  /\ Kempt(t) /\ Deletes(t) /\ Addresses(t) /\ Own(t)
  /\ job[t].sound # {} => Solo(t) /\ Seen(t)
  /\ \A n \in job[t].sound : goal[n] \in Rows /\ Due(t, n)

\* How an update that ran alone to its end leaves its port.
Rests(n) ==
  /\ n \notin Orphaned
  /\ master[n] = "none" \/ \A v \in Vlans : sub[<<n, v>>] = "absent"
  /\ Clean(n)

\* Handlers that overlap share all their ports and VLANs, the others none.
Apart == \A t, o \in Threads : job[t].uses = job[o].uses \/ job[t].uses \cap job[o].uses = {}

RowsInv ==
  /\ Apart
  /\ goal \in [Nics -> VT!Row \cup {Anything}]
  /\ \A n \in settled : Rests(n) /\ ~Busy(n)
  /\ \A v \in bridgeAddr : bridge[v] # "absent"
  /\ \A t \in Threads : JobOK(t)

-----------------------------------------------------------------------------
\* What a step of one handler leaves alone.

\* What a step of t does to the kernel keeps to its ports and VLANs, but that a bridge
\* it deletes may lose ports that no promise is made for.
Near(t) ==
  /\ \A n \in Nics : \/ master'[n] = master[n] /\ \A v \in Vlans : sub'[<<n, v>>] = sub[<<n, v>>]
                     \/ n \in job[t].on /\ \A v \in Vlans : Member(n, v)' => v \in job[t].uses
                     \/ ~ Promised(n) /\ \A v \in Vlans : Member(n, v)' => Member(n, v)
  /\ \A v \in Vlans \ job[t].uses : bridge[v] # "absent" => bridge'[v] # "absent"
  /\ bridgeAddr' \subseteq bridgeAddr \cup (job[t].uses \cap Vlans)
  /\ nicAddr' \subseteq nicAddr
  /\ \A v \in bridgeAddr' \ bridgeAddr : \A n \in settled : master'[n] = v => n \notin nicAddr

Local(t) ==
  /\ \A o \in Threads \ {t} : job'[o] = job[o] /\ \A n \in job[o].on : goal'[n] = goal[n]
  /\ job'[t].uses \subseteq job[t].uses /\ job'[t].sound \subseteq job[t].sound
  /\ settled' \subseteq settled \cup job[t].sound
  /\ Apart'
  /\ Near(t)

\* The ports and VLANs of a handler with a promise are not those of another.
LEMMA Elsewhere ==
  ASSUME RowsInv, NEW t \in Threads, NEW o \in Threads, o # t,
         job[o].sound # {} \/ job[t].sound # {}
  PROVE  /\ \A n \in job[o].on : n \notin job[t].on
         /\ \A v \in job[o].uses : v \notin job[t].uses
<1>1. \A p \in Threads : job[p].on \subseteq job[p].uses
  BY DEF RowsInv, JobOK, Kempt
<1>2. job[o].uses \cap job[t].uses = {}
  BY DEF RowsInv, JobOK, Solo
<1> QED BY <1>1, <1>2

LEMMA Untouched ==
  ASSUME RowsInv, NEW t \in Threads, Local(t), NEW n \in Nics, Promised(n), n \notin job[t].on
  PROVE  /\ master'[n] = master[n] /\ \A v \in Vlans : sub'[<<n, v>>] = sub[<<n, v>>]
         /\ \A v \in Vlans : Member(n, v)' <=> Member(n, v)
         /\ Clean(n) => Clean(n)'
<1>1. master'[n] = master[n] /\ \A v \in Vlans : sub'[<<n, v>>] = sub[<<n, v>>]
  BY DEF Local, Near
<1>2. \A v \in Vlans : Member(n, v)' <=> Member(n, v)
  BY <1>1 DEF Member
<1>3. ASSUME NEW v \in bridgeAddr', master[n] = v, Clean(n)
      PROVE  n \notin nicAddr'
  <2>1. nicAddr' \subseteq nicAddr
    BY DEF Local, Near
  <2>2. CASE v \in bridgeAddr
    BY <1>3, <2>1, <2>2 DEF Clean
  <2>3. CASE v \notin bridgeAddr /\ n \in settled
    <3>1. n \notin nicAddr
      BY <1>1, <1>3, <2>3 DEF Local, Near
    <3> QED BY <2>1, <3>1
  <2>4. CASE v \notin bridgeAddr /\ \E o \in Threads : n \in job[o].sound
    <3>1. PICK o \in Threads : n \in job[o].sound
      BY <2>4
    <3>2. v \in job[t].uses /\ v \in Vlans
      BY <2>4 DEF Local, Near
    <3>3. n \in job[o].on /\ Own(o)
      BY <3>1 DEF RowsInv, JobOK, Kempt
    <3>4. v \in job[o].uses
      BY <1>3, <3>2, <3>3 DEF Own, Member
    <3>5. o # t /\ job[o].sound # {}
      BY <3>1, <3>3
    <3> QED BY <3>2, <3>4, <3>5, Elsewhere
  <2> QED BY <2>2, <2>3, <2>4 DEF Promised
<1>4. Clean(n) => Clean(n)'
  BY <1>1, <1>3 DEF Clean
<1> QED BY <1>1, <1>2, <1>4

LEMMA OthersKeep ==
  ASSUME Typed, RowsInv, NEW t \in Threads, Local(t), NEW o \in Threads \ {t}
  PROVE  JobOK(o)'
<1>1. job'[o] = job[o] /\ o # t /\ o \in Threads
  BY DEF Local
<1>2. JobOK(o) /\ job[o] \in Jobs
  BY DEF RowsInv, Typed
<1>3. PICK s : s = job[o].todo
  OBVIOUS
<1>4. s \in Seq(Commands) /\ \A i \in 1..Len(s) : s[i] \in Commands
  BY <1>2, <1>3, LenProperties DEF Jobs
<1>5. \A i \in 1..Len(s) : s[i].vlan \in Vlans => s[i].vlan \in job[o].uses
  <2>1. \A i \in 1..Len(s) : s[i].vlan \in job[o].uses \cup {"none"}
    BY <1>2, <1>3 DEF JobOK, Kempt, Mine
  <2> QED BY <2>1, VlanAssumption
<1>6. Kempt(o)'
  BY <1>1, <1>2 DEF JobOK, Kempt
<1>7. ASSUME job[o].sound # {}
      PROVE  /\ \A n \in job[o].on : n \notin job[t].on
             /\ \A v \in job[o].uses : v \notin job[t].uses
  BY <1>1, <1>7, Elsewhere
<1>8. ASSUME job[o].sound # {}
      PROVE  Solo(o)' /\ Seen(o)'
  <2>1. Solo(o)'
    <3>1. ASSUME NEW p \in Threads \ {o}
          PROVE  job'[o].uses \cap job'[p].uses = {}
      <4>1. job[o].uses \cap job[p].uses = {}
        BY <1>2, <1>8 DEF JobOK, Solo
      <4>2. job'[p].uses \subseteq job[p].uses
        BY DEF Local
      <4> QED BY <1>1, <4>1, <4>2
    <3> QED BY <3>1 DEF Solo
  <2>2. Seen(o)'
    <3>1. SUFFICES ASSUME s # << >>, s[1].vlan \in bridgeAddr', s[1].do \in {"exists", "hasVLAN"}
                   PROVE  s[1].vlan \in bridgeAddr
      BY <1>1, <1>2, <1>3, <1>8 DEF JobOK, Seen
    <3>2. 1 \in 1..Len(s)
      BY <1>4, <3>1, TailOf
    <3>3. s[1].vlan \in Vlans
      BY <1>4, <3>1, <3>2 DEF Commands
    <3> QED BY <1>5, <1>7, <1>8, <3>1, <3>2, <3>3 DEF Local, Near
  <2> QED BY <2>1, <2>2
<1>9. ASSUME NEW n, Promised(n)'
      PROVE  Promised(n) /\ (n \in settled' => n \in settled \/ n \in job[t].sound)
  BY <1>9 DEF Local, Promised
<1>10. Deletes(o)'
  <2>1. SUFFICES ASSUME NEW i \in 1..Len(s), s[i].do = "delete", NEW n \in Nics,
                        Member(n, s[i].vlan)', Promised(n)'
                 PROVE  FALSE
    BY <1>1, <1>3 DEF Deletes
  <2>2. s[i].vlan \in Vlans
    BY <1>4, <2>1 DEF Commands
  <2>3. Promised(n)
    BY <1>9, <2>1
  <2>4. ~ Member(n, s[i].vlan)
    BY <1>2, <1>3, <2>1, <2>3 DEF JobOK, Deletes
  <2>5. PICK v \in Vlans : v = s[i].vlan
    BY <2>2
  <2>6. Member(n, v)' /\ ~ Member(n, v) /\ v \in job[o].uses
    BY <1>5, <2>1, <2>4, <2>5 DEF Member
  <2>7. n \in job[t].on /\ v \in job[t].uses
    BY <2>3, <2>6 DEF Local, Near, Member
  <2>8. n \notin settled
    BY <2>7 DEF RowsInv, Busy
  <2>9. PICK p \in Threads : n \in job[p].sound
    BY <2>3, <2>8 DEF Promised
  <2>10. n \in job[p].on
    BY <2>9 DEF RowsInv, JobOK, Kempt
  <2>11. p = t
    BY <2>7, <2>9, <2>10, Elsewhere
  <2> QED BY <1>1, <2>6, <2>7, <2>9, <2>11, Elsewhere
<1>11. Addresses(o)'
  <2>1. SUFFICES ASSUME NEW i \in 1..Len(s), s[i].do = "address"
                 PROVE  /\ job[o].on = {}
                        /\ \A n \in settled' : master'[n] = s[i].vlan =>
                             n \notin nicAddr' \/ \E k \in 1..Len(s) : s[k].do = "flushNic" /\ s[k].nic = n
    BY <1>1, <1>3 DEF Addresses
  <2>2. s[i].vlan \in Vlans
    BY <1>4, <2>1 DEF Commands
  <2>3. /\ job[o].on = {}
        /\ \A n \in settled : master[n] = s[i].vlan =>
             n \notin nicAddr \/ \E k \in 1..Len(s) : s[k].do = "flushNic" /\ s[k].nic = n
    BY <1>2, <1>3, <2>1 DEF JobOK, Addresses
  <2>4. PICK v \in Vlans : v = s[i].vlan
    BY <2>2
  <2>5. ASSUME NEW n \in settled', master'[n] = v
        PROVE  n \in settled /\ master[n] = v
    <3>1. Promised(n)
      BY <1>9, <2>5 DEF Promised
    <3>2. n \in Nics
      BY <1>9, <2>5 DEF Typed, TypeOK, Jobs, Local
    <3>3. CASE n \in settled
      <4>1. n \notin job[t].on
        BY <3>3 DEF RowsInv, Busy
      <4> QED BY <2>5, <3>1, <3>2, <3>3, <4>1, Untouched
    <3>4. CASE n \in job[t].sound
      <4>1. n \in job[t].on /\ Own(t)
        BY <3>4 DEF RowsInv, JobOK, Kempt
      <4>2. Member(n, v)' /\ v \in Vlans
        BY <2>5 DEF Member
      <4>3. v \in job[t].uses
        BY <3>1, <3>2, <4>1, <4>2 DEF Local, Near, Own, Member
      <4>4. v \in job[o].uses
        BY <1>5, <2>1, <2>2, <2>4
      <4> QED BY <1>1, <3>4, <4>3, <4>4, Elsewhere
    <3> QED BY <2>5, <3>3, <3>4 DEF Local
  <2> QED BY <2>3, <2>4, <2>5 DEF Local, Near
<1>12. \A n \in job[o].on : n \in Nics
  BY <1>2 DEF Jobs
<1>13. Own(o)'
  <2>1. SUFFICES ASSUME NEW n \in job[o].on, NEW v \in Vlans, Member(n, v)'
                 PROVE  v \in job[o].uses
    BY <1>1 DEF Own
  <2>2. n \in Nics
    BY <1>12
  <2>3. CASE Member(n, v)
    BY <1>2, <2>3 DEF JobOK, Own
  <2>4. CASE n \in job[t].on /\ v \in job[t].uses
    <3>1. n \in job[t].uses /\ n \in job[o].uses
      BY <2>4 DEF RowsInv, JobOK, Kempt
    <3>2. job[t].uses = job[o].uses
      BY <3>1 DEF RowsInv, Apart
    <3> QED BY <2>4, <3>2
  <2> QED BY <2>1, <2>2, <2>3, <2>4 DEF Local, Near, Member
<1>14. ASSUME NEW n \in job[o].sound
       PROVE  (goal[n] \in Rows /\ Due(o, n))'
  <2>1. /\ n \in job[o].on /\ n \in Nics /\ n \notin job[t].on /\ Promised(n)
        /\ \A v \in job[o].uses : v \notin job[t].uses
    BY <1>2, <1>7, <1>12 DEF JobOK, Kempt, Promised
  <2>2. goal'[n] = goal[n] /\ goal[n] \in Rows
    BY <1>2, <2>1 DEF Local, Near, JobOK
  <2>3. PICK x \in Views, y \in Views : /\ Stands(o, n, x) /\ Leads(s, n, job[o].tagged, x, y)
                                       /\ Ends(y, goal[n])
    BY <1>2, <1>3 DEF JobOK, Due
  <2>4. Stands(o, n, x)'
    <3>1. x.master = master'[n] /\ x.sub = [v \in Vlans |-> sub'[<<n, v>>]]
      BY <2>1, <2>3, Untouched DEF Stands
    <3>2. \A v \in x.bridges : v \in job[o].uses /\ bridge'[v] # "absent"
      <4>1. ASSUME NEW v \in x.bridges
            PROVE  v \in job[o].uses /\ bridge'[v] # "absent"
        <5>1. v \in Vlans /\ v \in job[o].uses /\ bridge[v] # "absent"
          BY <2>3 DEF Stands, Views
        <5> QED BY <2>1, <5>1 DEF Local, Near
      <4> QED BY <4>1
    <3>3. bridgeAddr' \cap job[o].uses \subseteq x.addrs
      <4>1. ASSUME NEW v \in bridgeAddr', v \in job[o].uses
            PROVE  v \in bridgeAddr
        BY <2>1, <4>1 DEF Local, Near
      <4> QED BY <2>3, <4>1 DEF Stands
    <3>4. x.clean => Clean(n)'
      BY <2>1, <2>3, Untouched DEF Stands
    <3> QED BY <1>1, <3>1, <3>2, <3>3, <3>4 DEF Stands
  <2>5. Due(o, n)'
    BY <1>1, <1>3, <2>2, <2>3, <2>4 DEF Due
  <2> QED BY <2>2, <2>5
<1>15. job'[o].sound = job[o].sound
  BY <1>1
<1> QED BY <1>6, <1>8, <1>10, <1>11, <1>13, <1>14, <1>15 DEF JobOK

-----------------------------------------------------------------------------
\* How the rest of a handler's program changes.

\* The commands of more may stand where c stood.
Fits(c, more) ==
  /\ more # << >> => c.do \notin {"hasAddress", "exists", "down"}
  /\ Follows(more)
  /\ \A i \in 1..Len(more) :
       /\ more[i].do # "address"
       /\ c.catch = "try" => more[i].catch = "try" /\ more[i].nic = c.nic

LEMMA FollowsMore ==
  ASSUME NEW s \in Seq(Commands), s # << >>, NEW more \in Seq(Commands), Follows(s), Fits(s[1], more)
  PROVE  Follows(more \o Tail(s))
<1>1. PICK r, k : r = more \o Tail(s) /\ Resumed(s, more, r, k)
  BY ResumedPlaced
<1>2. PICK l : l = Len(more)
  OBVIOUS
<1>3. /\ l \in Nat /\ Len(s) \in Nat /\ k = l - 1 /\ k \in Int /\ Len(r) = Len(s) + k
      /\ DOMAIN s = 1..Len(s) /\ DOMAIN more = 1..l /\ 1 \in 1..Len(s)
  BY <1>1, <1>2, LenProperties DEF Resumed
<1>4. DOMAIN r = 1..Len(r)
  <2>1. r \in Seq(Commands)
    BY <1>1, ResumedPlaced
  <2> QED BY <2>1
<1>5. ASSUME NEW i \in 1..l
      PROVE  i \in 1..Len(r) /\ r[i] = more[i]
  <2>1. i \in DOMAIN more /\ i > 0 /\ i + 0 = i
    BY <1>3
  <2>2. i + 0 \in DOMAIN r /\ r[i + 0] = more[i]
    BY <1>1, <2>1 DEF Resumed, Placed
  <2> QED BY <1>4, <2>1, <2>2
<1>6. ASSUME NEW i \in 1..Len(r), i \notin 1..l
      PROVE  i - k \in 1..Len(s) /\ i - k > 1 /\ r[i] = s[i - k] /\ (i - k) + k = i
  <2>1. i - k \in DOMAIN s /\ i - k > 1
    BY <1>1, <1>3, <1>4, <1>6 DEF Resumed
  <2>2. (i - k) + k = i
    BY <1>3
  <2>3. r[(i - k) + k] = s[i - k]
    BY <1>1, <2>1 DEF Resumed, Placed
  <2> QED BY <1>3, <2>1, <2>2, <2>3
<1>7. more = << >> => l = 0
  BY <1>2
<1>8. ASSUME NEW i \in 1..Len(r)
      PROVE  /\ i > 1 => Probing(r, i)
             /\ r[i].do = "delete" => i = 1 \/ (i = 2 /\ r[1].do = "down")
             /\ r[i].do = "address" => i = Len(r)
             /\ r[i].catch = "try" =>
                  /\ r[i].do \in TryDos
                  /\ \A j \in 1..i : r[j].catch = "try" /\ r[j].nic = r[i].nic
  <2>1. CASE i \in 1..l
    <3>1. r[i] = more[i] /\ \A j \in 1..i : j \in 1..l /\ r[j] = more[j]
      BY <1>3, <1>5, <2>1
    <3>2. i > 1 => i - 1 \in 1..i
      BY <1>3
    <3>3. 1 \in 1..i
      BY <1>3
    <3>4. i > 1 => Probing(more, i)
      BY <1>2, <2>1 DEF Fits, Follows
    <3>5. i > 1 => Probing(r, i)
      BY <3>1, <3>2, <3>4 DEF Probing
    <3>6. /\ more[i].do = "delete" => i = 1 \/ (i = 2 /\ more[1].do = "down")
          /\ more[i].do # "address"
          /\ more[i].catch = "try" =>
               /\ more[i].do \in TryDos
               /\ \A j \in 1..i : more[j].catch = "try" /\ more[j].nic = more[i].nic
      BY <1>2, <2>1 DEF Fits, Follows
    <3> QED BY <3>1, <3>3, <3>5, <3>6
  <2>2. CASE i \notin 1..l
    <3>1. PICK p : p = i - k
      OBVIOUS
    <3>2. p \in 1..Len(s) /\ p > 1 /\ r[i] = s[p] /\ p + k = i /\ i - k = p
      BY <1>6, <2>2, <3>1
    <3>3. /\ Probing(s, p)
          /\ s[p].do = "delete" => p = 2 /\ s[1].do = "down"
          /\ s[p].do = "address" => p = Len(s)
          /\ s[p].catch = "try" =>
               /\ s[p].do \in TryDos
               /\ \A j \in 1..p : s[j].catch = "try" /\ s[j].nic = s[p].nic
      BY <3>2 DEF Follows
    <3>4. ASSUME p = 2, s[1].do \in {"hasAddress", "exists", "down"}
          PROVE  i = 1
      <4>1. l = 0
        BY <1>7, <3>4 DEF Fits
      <4> QED BY <1>3, <3>2, <3>4, <4>1
    <3>5. i > 1 => Probing(r, i)
      <4>1. CASE p = 2
        <5>1. 2 - 1 = 1
          OBVIOUS
        <5> QED BY <3>2, <3>3, <3>4, <4>1, <5>1 DEF Probing
      <4>2. CASE p # 2
        <5>1. i - 1 \in 1..Len(r) /\ i - 1 \notin 1..l /\ (i - 1) - k = p - 1
          BY <1>3, <2>2, <3>2, <4>2
        <5>2. r[i - 1] = s[p - 1]
          BY <1>6, <5>1
        <5> QED BY <3>2, <3>3, <5>2 DEF Probing
      <4> QED BY <4>1, <4>2
    <3>6. r[i].do = "address" => i = Len(r)
      BY <1>3, <3>2, <3>3
    <3>7. ASSUME r[i].catch = "try"
          PROVE  r[i].do \in TryDos /\ \A j \in 1..i : r[j].catch = "try" /\ r[j].nic = r[i].nic
      <4>1. /\ s[p].do \in TryDos
            /\ \A j \in 1..p : s[j].catch = "try" /\ s[j].nic = s[p].nic
        BY <3>2, <3>3, <3>7
      <4>2. s[1].catch = "try" /\ s[1].nic = s[p].nic
        BY <1>3, <3>2, <4>1
      <4>3. ASSUME NEW j \in 1..i
            PROVE  r[j].catch = "try" /\ r[j].nic = s[p].nic
        <5>1. CASE j \in 1..l
          <6>1. r[j] = more[j]
            BY <1>5, <5>1
          <6>2. more[j].catch = "try" /\ more[j].nic = s[1].nic
            BY <1>2, <4>2, <5>1 DEF Fits
          <6> QED BY <4>2, <6>1, <6>2
        <5>2. CASE j \notin 1..l
          <6>1. j \in 1..Len(r) /\ j - k \in 1..p
            <7>1. j \in 1..Len(r)
              BY <1>3
            <7>2. j - k \in 1..Len(s)
              BY <1>6, <5>2, <7>1
            <7> QED BY <1>3, <3>2, <7>1, <7>2
          <6>2. r[j] = s[j - k]
            BY <1>6, <5>2, <6>1
          <6> QED BY <4>1, <6>1, <6>2
        <5> QED BY <5>1, <5>2
      <4> QED BY <3>2, <4>1, <4>3
    <3>8. r[i].do = "delete" => i = 1
      BY <3>2, <3>3, <3>4
    <3> QED BY <3>5, <3>6, <3>7, <3>8
  <2> QED BY <2>1, <2>2
<1> QED BY <1>1, <1>8 DEF Follows

LEMMA FollowsNone == Follows(<< >>)
<1>1. \A i \in 1..Len(<< >>) : FALSE
  OBVIOUS
<1> QED BY <1>1 DEF Follows

LEMMA FitsNone ==
  ASSUME NEW c
  PROVE  Fits(c, << >>)
<1>1. \A i \in 1..Len(<< >>) : FALSE
  OBVIOUS
<1> QED BY <1>1, FollowsNone DEF Fits

LEMMA ProperFollows ==
  ASSUME NEW on, NEW uses, NEW s \in Proper(on, uses)
  PROVE  /\ s \in Seq(Commands) /\ Follows(s)
         /\ \A i \in 1..Len(s) : Mine(s[i], on, uses) /\ s[i].do \notin {"delete", "address"} /\ s[i].catch # "try"
         /\ s # << >> => s[1].do \notin {"hasVLAN", "exists"}
<1>1. s \in Seq(Commands)
  BY DEF Proper
<1>2. \A i \in 1..Len(s) :
        /\ Mine(s[i], on, uses)
        /\ s[i].do \notin {"delete", "address"} /\ s[i].catch # "try"
        /\ s[i].do \in {"hasVLAN", "exists"} => i > 1
        /\ Probing(s, i)
  BY DEF Proper
<1>3. Follows(s)
  BY <1>2 DEF Follows
<1>4. s # << >> => 1 \in 1..Len(s)
  BY <1>1, TailOf
<1>5. s # << >> => s[1].do \notin {"hasVLAN", "exists"}
  BY <1>2, <1>4
<1> QED BY <1>1, <1>2, <1>3, <1>5

LEMMA ProperFits ==
  ASSUME NEW on, NEW uses, NEW more \in Proper(on, uses),
         NEW c, c.catch # "try", c.do \notin {"hasAddress", "exists", "down"}
  PROVE  Fits(c, more)
BY ProperFollows DEF Fits

\* Others are run in the stead of the first command of t.
Moves(t, more) ==
  /\ job[t].todo # << >> /\ more \in Seq(Commands)
  /\ \A o \in Threads \ {t} : job'[o] = job[o]
  /\ job'[t].todo = more \o Tail(job[t].todo)
  /\ job'[t].on = job[t].on /\ job'[t].sound = job[t].sound /\ job'[t].uses = job[t].uses
  /\ job'[t].tagged = job[t].tagged
  /\ goal' = goal /\ settled' = settled

\* What the first command of t makes of port n, those of more do.
Onward(t, n, more) ==
  \A x, z \in Views :
    Stands(t, n, x) /\ Does(n, job[t].tagged, job[t].todo[1], x, z)
      => \E u, w \in Views : /\ Stands(t, n, u)' /\ Leads(more, n, job[t].tagged, u, w)
                             /\ Knows(w, z)

LEMMA DueMoves ==
  ASSUME NEW t \in Threads, NEW more, Moves(t, more), job[t] \in Jobs, NEW n,
         Due(t, n), Onward(t, n, more)
  PROVE  Due(t, n)'
<1>1. PICK s, tagged : s = job[t].todo /\ tagged = job[t].tagged
  OBVIOUS
<1>2. s \in Seq(Commands) /\ s # << >> /\ more \in Seq(Commands) /\ Tail(s) \in Seq(Commands)
  <2>1. s \in Seq(Commands) /\ s # << >> /\ more \in Seq(Commands)
    BY <1>1 DEF Moves, Jobs
  <2> QED BY <2>1, TailOf
<1>3. PICK x, y \in Views : Stands(t, n, x) /\ Leads(s, n, tagged, x, y) /\ Ends(y, goal[n])
  BY <1>1 DEF Due
<1>4. PICK z \in Views : Does(n, tagged, s[1], x, z) /\ Leads(Tail(s), n, tagged, z, y)
  BY <1>2, <1>3, LeadsFirst
<1>5. PICK u, w \in Views : Stands(t, n, u)' /\ Leads(more, n, tagged, u, w) /\ Knows(w, z)
  BY <1>1, <1>3, <1>4 DEF Onward
<1>6. PICK q \in Views : Leads(Tail(s), n, tagged, w, q) /\ Knows(q, y)
  BY <1>2, <1>4, <1>5, LeadsKnowing
<1>7. Leads(more \o Tail(s), n, tagged, u, q)
  BY <1>2, <1>5, <1>6, LeadsThen
<1>8. Ends(q, goal[n])
  BY <1>3, <1>6 DEF Ends, Knows
<1>9. goal' = goal /\ job'[t].todo = more \o Tail(s) /\ job'[t].tagged = tagged
  BY <1>1 DEF Moves
<1>10. Ends(q, goal'[n]) /\ Leads(job'[t].todo, n, job'[t].tagged, u, q)
  BY <1>7, <1>8, <1>9
<1> QED BY <1>5, <1>10 DEF Due

LEMMA KemptMoves ==
  ASSUME NEW t \in Threads, NEW more, Moves(t, more), job[t] \in Jobs, Kempt(t),
         Fits(job[t].todo[1], more),
         \A i \in 1..Len(more) : Mine(more[i], job[t].on, job[t].uses)
  PROVE  Kempt(t)'
<1>1. PICK s, on, uses : s = job[t].todo /\ on = job[t].on /\ uses = job[t].uses
  OBVIOUS
<1>2. s \in Seq(Commands) /\ s # << >> /\ more \in Seq(Commands)
  BY <1>1 DEF Moves, Jobs
<1>3. Follows(s) /\ \A i \in 1..Len(s) : Mine(s[i], on, uses)
  BY <1>1 DEF Kempt
<1>4. PICK r, k : r = more \o Tail(s) /\ Resumed(s, more, r, k)
  BY <1>2, ResumedPlaced
<1>5. Follows(r)
  BY <1>1, <1>2, <1>3, <1>4, FollowsMore
<1>6. r \in Seq(Commands)
  BY <1>2, <1>4, ResumedPlaced
<1>7. ASSUME NEW i \in 1..Len(r)
      PROVE  Mine(r[i], on, uses)
  <2>1. i \in DOMAIN r
    BY <1>6
  <2>2. CASE i \in DOMAIN more
    <3>1. i + 0 = i /\ i > 0 /\ i \in 1..Len(more)
      BY <1>2, <2>2
    <3>2. r[i + 0] = more[i]
      BY <1>4, <2>2, <3>1 DEF Resumed, Placed
    <3>3. Mine(more[i], on, uses)
      BY <1>1, <3>1
    <3> QED BY <3>1, <3>2, <3>3
  <2>3. CASE i \notin DOMAIN more
    <3>1. i - k \in DOMAIN s /\ i - k > 1 /\ k \in Int
      BY <1>4, <2>1, <2>3 DEF Resumed
    <3>2. r[(i - k) + k] = s[i - k] /\ (i - k) + k = i /\ i - k \in 1..Len(s)
      BY <1>2, <1>4, <3>1 DEF Resumed, Placed
    <3> QED BY <1>3, <3>2
  <2> QED BY <2>2, <2>3
<1>8. /\ job'[t].todo = r /\ job'[t].on = on /\ job'[t].uses = uses /\ job'[t].sound = job[t].sound
  BY <1>1, <1>4 DEF Moves
<1>9. on \subseteq uses /\ job[t].sound \subseteq on
  BY <1>1 DEF Kempt
<1> QED BY <1>5, <1>7, <1>8, <1>9 DEF Kempt

LEMMA SeenMoves ==
  ASSUME NEW t \in Threads, NEW more, Moves(t, more), job[t] \in Jobs, Kempt(t),
         job[t].todo[1].do \notin {"hasAddress", "exists"},
         more # << >> => more[1].do \notin {"exists", "hasVLAN"}
  PROVE  Seen(t)'
<1>1. PICK s : s = job[t].todo
  OBVIOUS
<1>2. s \in Seq(Commands) /\ s # << >> /\ more \in Seq(Commands) /\ Follows(s)
  BY <1>1 DEF Moves, Jobs, Kempt
<1>3. PICK r : r = more \o Tail(s) /\ r \in Seq(Commands)
  BY <1>2, ResumedPlaced
<1>4. SUFFICES ASSUME r # << >>
               PROVE  r[1].do \notin {"exists", "hasVLAN"}
  BY <1>1, <1>3 DEF Seen, Moves
<1>5. CASE more # << >>
  <2>1. r[1] = more[1]
    BY <1>2, <1>3, <1>5, TailOf
  <2> QED BY <1>5, <2>1
<1>6. CASE more = << >>
  <2>1. r = Tail(s)
    BY <1>2, <1>3, <1>6, TailOf
  <2>2. 1 \in 1..Len(Tail(s))
    BY <1>3, <1>4, <2>1, TailOf
  <2>3. 1 + 1 \in 1..Len(s) /\ r[1] = s[1 + 1]
    BY <1>2, <2>1, <2>2, TailOf
  <2>4. 1 + 1 = 2 /\ 2 > 1 /\ 2 - 1 = 1
    OBVIOUS
  <2>5. Probing(s, 2)
    BY <1>2, <2>3, <2>4 DEF Follows
  <2> QED BY <1>1, <2>3, <2>4, <2>5 DEF Probing
<1> QED BY <1>5, <1>6

\* Where the i-th command of r comes from, which is more and then s but its first.
Comes(s, more, r, i) ==
  \/ i \in 1..Len(more) /\ r[i] = more[i]
  \/ \E p \in 1..Len(s) :
       /\ p > 1 /\ r[i] = s[p]
       /\ s[p].do = "delete" => s[1].do = "down"
       /\ \A k \in 1..Len(s) : k > 1 => \E q \in 1..Len(r) : r[q] = s[k]

LEMMA RestMoves ==
  ASSUME NEW s \in Seq(Commands), s # << >>, NEW more \in Seq(Commands), Follows(s), Fits(s[1], more),
         NEW r, r = more \o Tail(s), NEW i \in 1..Len(r)
  PROVE  Comes(s, more, r, i)
<1> USE DEF Comes
<1>1. PICK k : Resumed(s, more, r, k)
  BY ResumedPlaced
<1>2. r \in Seq(Commands)
  BY ResumedPlaced
<1>3. DOMAIN r = 1..Len(r) /\ DOMAIN s = 1..Len(s) /\ DOMAIN more = 1..Len(more)
  BY <1>2
<1>4. CASE i \in 1..Len(more)
  <2>1. i \in DOMAIN more /\ i + 0 = i /\ i > 0
    BY <1>3, <1>4
  <2>2. r[i + 0] = more[i]
    BY <1>1, <2>1 DEF Resumed, Placed
  <2> QED BY <1>1, <1>4, <2>1, <2>2
<1>5. CASE i \notin 1..Len(more)
  <2>1. i - k \in DOMAIN s /\ i - k > 1 /\ k \in Int
    BY <1>1, <1>3, <1>5 DEF Resumed
  <2>2. PICK p : p = i - k
    OBVIOUS
  <2>3. p + k = i
    BY <2>1, <2>2
  <2>4. p \in 1..Len(s) /\ p > 1 /\ r[i] = s[p]
    BY <1>1, <1>3, <2>1, <2>2, <2>3 DEF Resumed, Placed
  <2>5. s[p].do = "delete" => s[1].do = "down"
    BY <2>4 DEF Follows
  <2>6. \A l \in 1..Len(s) : l > 1 => \E q \in 1..Len(r) : r[q] = s[l]
    BY <1>1, <1>3 DEF Resumed, Placed
  <2> QED BY <1>1, <2>4, <2>5, <2>6
<1> QED BY <1>4, <1>5

LEMMA DeletesMoves ==
  ASSUME NEW t \in Threads, NEW more, Moves(t, more), job[t] \in Jobs, Kempt(t), Deletes(t),
         Fits(job[t].todo[1], more),
         \A i \in 1..Len(more) : more[i].do = "delete" => Empty(more[i].vlan)',
         job[t].todo[1].do = "down" => master' = master /\ sub' = sub
  PROVE  Deletes(t)'
<1>1. PICK s : s = job[t].todo
  OBVIOUS
<1>2. s \in Seq(Commands) /\ s # << >> /\ more \in Seq(Commands) /\ Follows(s)
  BY <1>1 DEF Moves, Jobs, Kempt
<1>3. PICK r : r = more \o Tail(s) /\ job'[t].todo = r
  BY <1>1 DEF Moves
<1>4. SUFFICES ASSUME NEW i \in 1..Len(r), r[i].do = "delete", NEW n \in Nics,
                      Member(n, r[i].vlan)', Promised(n)'
               PROVE  FALSE
  BY <1>3 DEF Deletes
<1>5. CASE i \in 1..Len(more) /\ r[i] = more[i]
  <2>1. more[i].do = "delete" /\ Empty(more[i].vlan)'
    BY <1>4, <1>5
  <2> QED BY <1>4, <1>5, <2>1 DEF Empty, Member
<1>6. CASE \E p \in 1..Len(s) : p > 1 /\ r[i] = s[p] /\ (s[p].do = "delete" => s[1].do = "down")
  <2>1. PICK p \in 1..Len(s) : r[i] = s[p] /\ (s[p].do = "delete" => s[1].do = "down")
    BY <1>6
  <2>2. s[p].do = "delete" /\ master' = master /\ sub' = sub
    BY <1>1, <1>4, <2>1
  <2>3. Promised(n)
    BY <1>4 DEF Promised, Moves
  <2>4. ~ Member(n, s[p].vlan)
    BY <1>1, <2>2, <2>3 DEF Deletes
  <2> QED BY <1>4, <2>1, <2>2, <2>4 DEF Member
<1>7. Comes(s, more, r, i)
  BY <1>1, <1>2, <1>3, <1>4, RestMoves
<1> QED BY <1>5, <1>6, <1>7 DEF Comes

LEMMA AddressesMoves ==
  ASSUME settled \in SUBSET Nics, NEW t \in Threads, NEW more, Moves(t, more), job[t] \in Jobs, Kempt(t), Addresses(t),
         Local(t), Fits(job[t].todo[1], more),
         job[t].todo[1].do = "flushNic" => job[t].todo[1].nic \notin nicAddr'
  PROVE  Addresses(t)'
<1>1. PICK s : s = job[t].todo
  OBVIOUS
<1>2. s \in Seq(Commands) /\ s # << >> /\ more \in Seq(Commands) /\ Follows(s)
  BY <1>1 DEF Moves, Jobs, Kempt
<1>3. PICK r : r = more \o Tail(s) /\ job'[t].todo = r /\ job'[t].on = job[t].on
  BY <1>1 DEF Moves
<1>4. SUFFICES ASSUME NEW i \in 1..Len(r), r[i].do = "address"
               PROVE  /\ job[t].on = {}
                      /\ \A n \in settled : master'[n] = r[i].vlan =>
                           n \notin nicAddr' \/ \E k \in 1..Len(r) : r[k].do = "flushNic" /\ r[k].nic = n
  <2>1. job'[t].todo = r /\ job'[t].on = job[t].on /\ settled' = settled
    BY <1>3 DEF Moves
  <2> QED BY <2>1 DEF Addresses
<1>5. \A j \in 1..Len(more) : more[j].do # "address"
  BY <1>1 DEF Fits
<1>6. PICK p \in 1..Len(s) :
        /\ p > 1 /\ r[i] = s[p]
        /\ \A k \in 1..Len(s) : k > 1 => \E q \in 1..Len(r) : r[q] = s[k]
  <2>1. Comes(s, more, r, i)
    BY <1>1, <1>2, <1>3, <1>4, RestMoves
  <2> QED BY <1>4, <1>5, <2>1 DEF Comes
<1>7. /\ job[t].on = {}
      /\ \A n \in settled : master[n] = s[p].vlan =>
           n \notin nicAddr \/ \E k \in 1..Len(s) : s[k].do = "flushNic" /\ s[k].nic = n
  <2>1. s[p].do = "address"
    BY <1>4, <1>6
  <2>2. \A m \in 1..Len(s) : s[m].do = "address" =>
          /\ job[t].on = {}
          /\ \A n \in settled : master[n] = s[m].vlan =>
               n \notin nicAddr \/ \E k \in 1..Len(s) : s[k].do = "flushNic" /\ s[k].nic = n
    BY <1>1 DEF Addresses
  <2> QED BY <2>1, <2>2
<1>8. ASSUME NEW n \in settled, master'[n] = r[i].vlan, n \in nicAddr'
      PROVE  \E k \in 1..Len(r) : r[k].do = "flushNic" /\ r[k].nic = n
  <2>1. master'[n] = master[n] /\ n \in nicAddr
    BY <1>7, <1>8 DEF Local, Near, Promised
  <2>2. PICK k \in 1..Len(s) : s[k].do = "flushNic" /\ s[k].nic = n
    BY <1>6, <1>7, <1>8, <2>1
  <2>3. k # 1
    BY <1>1, <1>8, <2>2
  <2>4. k > 1
    BY <2>3
  <2> QED BY <1>4, <1>6, <2>2, <2>4
<1> QED BY <1>7, <1>8

LEMMA OwnMoves ==
  ASSUME NEW t \in Threads, Local(t), job[t] \in Jobs, Own(t),
         job'[t].on = job[t].on, job'[t].uses = job[t].uses
  PROVE  Own(t)'
<1>1. ASSUME NEW n \in job[t].on, NEW v \in Vlans, Member(n, v)'
      PROVE  v \in job[t].uses
  <2>1. n \in Nics
    BY DEF Jobs
  <2> QED BY <1>1, <2>1 DEF Local, Near, Own, Member
<1> QED BY <1>1 DEF Own

\* A step of t that neither starts nor ends its handler.
LEMMA RowsStay ==
  ASSUME Typed, RowsInv, NEW t \in Threads, Local(t), JobOK(t)',
         job'[t].on = job[t].on, goal' = goal, settled' = settled,
         \A v \in bridgeAddr' : bridge'[v] # "absent"
  PROVE  RowsInv' /\ VT!Next
<1>1. \A o \in Threads : job'[o].on = job[o].on
  BY DEF Local, Near
<1>2. \A n : Busy(n)' <=> Busy(n)
  BY <1>1 DEF Busy
<1>3. ASSUME NEW n \in settled
      PROVE  /\ Rests(n)' /\ ~Busy(n)'
             /\ master'[n] = master[n] /\ \A v \in Vlans : sub'[<<n, v>>] = sub[<<n, v>>]
  <2>1. n \in Nics /\ n \notin job[t].on /\ ~Busy(n) /\ Rests(n)
    BY DEF Typed, TypeOK, RowsInv, Busy
  <2>2. /\ master'[n] = master[n] /\ \A v \in Vlans : sub'[<<n, v>>] = sub[<<n, v>>]
        /\ Clean(n) => Clean(n)'
    BY <2>1, Untouched DEF Promised
  <2>3. Rests(n)'
    BY <2>1, <2>2 DEF Rests, Orphaned
  <2> QED BY <1>2, <2>1, <2>2, <2>3
<1>4. \A o \in Threads : JobOK(o)'
  <2>1. \A o \in Threads \ {t} : JobOK(o)'
    BY OthersKeep
  <2> QED BY <2>1
<1>5. RowsInv'
  BY <1>3, <1>4 DEF RowsInv, Local
<1>6. ASSUME NEW n \in Nics
      PROVE  VT!Stays(n)
  <2>1. n \in settled => RowOf(n)' = RowOf(n)
    BY <1>3 DEF RowOf
  <2> QED BY <1>2, <1>6, <2>1 DEF VT!Stays
<1> QED BY <1>5, <1>6 DEF VT!Next

\* A command of t that is run.
Turns(t, more) ==
  LET j == job[t]
      c == j.todo[1]
  IN
  /\ Moves(t, more) /\ Local(t)
  /\ Fits(c, more)
  /\ \A i \in 1..Len(more) : /\ Mine(more[i], j.on, j.uses)
                             /\ more[i].do = "delete" => Empty(more[i].vlan)'
  /\ more # << >> => more[1].do \notin {"exists", "hasVLAN"}
  /\ c.do \in {"hasAddress", "exists"} /\ j.sound # {} => Seen(t)'
  /\ c.do = "down" => master' = master /\ sub' = sub
  /\ c.do = "flushNic" => c.nic \notin nicAddr'
  /\ \A v \in bridgeAddr' : bridge'[v] # "absent"
  /\ \A n \in j.sound : Onward(t, n, more)

LEMMA TurnKeeps ==
  ASSUME Typed, RowsInv, NEW t \in Threads, NEW more, Turns(t, more)
  PROVE  RowsInv' /\ VT!Next
<1>1. job[t] \in Jobs /\ JobOK(t)
  BY DEF Typed, RowsInv
<1>2. Moves(t, more) /\ Local(t) /\ Fits(job[t].todo[1], more)
  BY DEF Turns
<1>3. Kempt(t)'
  BY <1>1, <1>2, KemptMoves DEF JobOK, Turns
<1>4. job[t].sound # {} => Solo(t)' /\ Seen(t)'
  <2>1. job[t].sound # {} => Seen(t)'
    BY <1>1, <1>2, SeenMoves DEF JobOK, Turns
  <2>2. \A o \in Threads : job'[o].uses = job[o].uses
    BY <1>2 DEF Moves
  <2> QED BY <1>1, <2>1, <2>2 DEF JobOK, Solo
<1>5. Deletes(t)'
  BY <1>1, <1>2, DeletesMoves DEF JobOK, Turns
<1>6. Addresses(t)'
  <2>1. settled \in SUBSET Nics
    BY DEF Typed, TypeOK
  <2> QED BY <1>1, <1>2, <2>1, AddressesMoves DEF JobOK, Turns
<1>7. Own(t)'
  BY <1>1, <1>2, OwnMoves DEF JobOK, Moves
<1>8. ASSUME NEW n \in job[t].sound
      PROVE  Due(t, n)'
  BY <1>1, <1>2, <1>8, DueMoves DEF JobOK, Turns
<1>9. goal' = goal /\ settled' = settled /\ job'[t].sound = job[t].sound /\ job'[t].on = job[t].on
  BY <1>2 DEF Moves
<1>10. JobOK(t)'
  BY <1>1, <1>3, <1>4, <1>5, <1>6, <1>7, <1>8, <1>9 DEF JobOK
<1>11. \A v \in bridgeAddr' : bridge'[v] # "absent"
  BY DEF Turns
<1> QED BY <1>2, <1>9, <1>10, <1>11, RowsStay

-----------------------------------------------------------------------------
\* The commands, one by one.

LEMMA MovesLocal ==
  ASSUME RowsInv, NEW t \in Threads, NEW more, Moves(t, more), Near(t)
  PROVE  Local(t)
<1>1. \A o \in Threads : job'[o].uses = job[o].uses
  BY DEF Moves
<1>2. Apart'
  BY <1>1 DEF RowsInv, Apart
<1>3. \A o \in Threads : \A n \in job[o].on : goal'[n] = goal[n]
  BY DEF Moves
<1> QED BY <1>1, <1>2, <1>3 DEF Local, Moves

LEMMA ThenMoves ==
  ASSUME Typed, NEW t \in Threads, job[t].todo # << >>, NEW more \in Seq(Commands), Then(t, more),
         goal' = goal, settled' = settled
  PROVE  Moves(t, more) /\ job'[t].seen = job[t].seen
<1>1. job \in [Threads -> Jobs] /\ job[t] \in Jobs
  BY DEF Typed
<1>2. job' = [job EXCEPT ![t] = [job[t] EXCEPT !.todo = more \o Tail(job[t].todo)]]
  BY <1>1 DEF Then
<1>3. PICK r : r = more \o Tail(job[t].todo)
  OBVIOUS
<1>4. job'[t] = [job[t] EXCEPT !.todo = r] /\ \A o \in Threads \ {t} : job'[o] = job[o]
  BY <1>1, <1>2, <1>3
<1>5. /\ job'[t].todo = r /\ job'[t].on = job[t].on /\ job'[t].sound = job[t].sound
      /\ job'[t].uses = job[t].uses /\ job'[t].tagged = job[t].tagged /\ job'[t].seen = job[t].seen
  BY <1>1, <1>4 DEF Jobs
<1> QED BY <1>3, <1>4, <1>5 DEF Moves

\* What a view says of a port's address stays true.
LEMMA CleanNow ==
  ASSUME Typed', RowsInv, NEW t \in Threads, Near(t), NEW n \in Nics, NEW c,
         c.do # "hasVLAN",
         c.do = "flushNic" => c.nic \notin nicAddr',
         bridgeAddr' \subseteq bridgeAddr,
         c.do = "addif" => bridgeAddr' = bridgeAddr /\ c.vlan \in job[t].uses,
         NEW x \in Views, NEW z \in Views, Stands(t, n, x), Does(n, job[t].tagged, c, x, z),
         z.master = master'[n], z.clean
  PROVE  Clean(n)'
<1>1. /\ x.master = master[n] /\ bridgeAddr \cap job[t].uses \subseteq x.addrs
      /\ x.clean => Clean(n)
  BY DEF Stands
<1>2. CASE z.master = "none"
  <2>1. "none" \notin bridgeAddr'
    BY VlanAssumption DEF Typed, TypeOK
  <2> QED BY <1>2, <2>1 DEF Clean
<1>3. CASE x.clean /\ z.master = x.master
  BY <1>1, <1>3 DEF Clean, Near
<1>4. CASE c.nic = n /\ c.do = "flushNic"
  BY <1>4 DEF Clean
<1>5. CASE c.nic = n /\ c.do = "addif" /\ c.vlan \notin x.addrs
  <2>1. z.master = c.vlan
    BY <1>5 DEF Does, MasterAfter
  <2>2. c.vlan \notin bridgeAddr'
    BY <1>1, <1>5
  <2> QED BY <2>1, <2>2 DEF Clean
<1> QED BY <1>2, <1>3, <1>4, <1>5 DEF Does

\* How port n looks to the kernel, before and after a step.
Shown(n, x) == x.master = master[n] /\ x.sub = [v \in Vlans |-> sub[<<n, v>>]]

\* A command that leaves no others to run.
LEMMA CommandKeeps ==
  ASSUME Typed, Typed', RowsInv, NEW t \in Threads, job[t].todo # << >>, Proceed(t),
         goal' = goal, settled' = settled, Near(t),
         NEW c, c = Cur(t), c.do \notin {"hasVLAN", "hasAddress", "exists"},
         c.do = "down" => master' = master /\ sub' = sub,
         c.do = "flushNic" => c.nic \notin nicAddr',
         c.do = "addif" => bridgeAddr' = bridgeAddr,
         \A v \in bridgeAddr' : bridge'[v] # "absent",
         bridgeAddr' \subseteq bridgeAddr \/ job[t].on = {},
         c.do = "addbr" \/ c.do \in Steady =>
           \A v \in Vlans : bridge[v] # "absent" => bridge'[v] # "absent",
         c.do = "addbr" => bridge'[c.vlan] # "absent",
         \A n \in Nics, x \in Views, z \in Views :
           Promised(n) /\ Shown(n, x) /\ Does(n, job[t].tagged, c, x, z) => Shown(n, z)'
  PROVE  RowsInv' /\ VT!Next
<1>1. << >> \in Seq(Commands)
  OBVIOUS
<1>2. Moves(t, << >>) /\ Local(t)
  BY <1>1, ThenMoves, MovesLocal DEF Proceed
<1>3. /\ job[t] \in Jobs /\ c = job[t].todo[1] /\ c \in Commands /\ 1 \in DOMAIN job[t].todo
      /\ job[t].todo \in Seq(Commands)
  BY Current
<1>4. Mine(c, job[t].on, job[t].uses) /\ job[t].sound \subseteq job[t].on /\ job[t].on \subseteq Nics
  <2>1. 1 \in 1..Len(job[t].todo)
    BY <1>3
  <2> QED BY <1>3, <2>1 DEF RowsInv, JobOK, Kempt, Jobs
<1>5. ASSUME NEW n \in job[t].sound, NEW x \in Views, NEW z \in Views,
             Stands(t, n, x), Does(n, job[t].tagged, c, x, z)
      PROVE  Stands(t, n, z)'
  <2>1. n \in Nics /\ job'[t].uses = job[t].uses
    BY <1>2, <1>4 DEF Moves
  <2>2. z.master = master'[n] /\ z.sub = [v \in Vlans |-> sub'[<<n, v>>]]
    BY <1>5, <2>1 DEF Shown, Stands, Promised
  <2>3. ASSUME NEW v \in z.bridges
        PROVE  v \in job[t].uses /\ bridge'[v] # "absent"
    <3>1. v \in BridgesAfter(c, x)
      BY <1>5 DEF Does
    <3>2. CASE v \in x.bridges /\ (c.do = "addbr" \/ c.do \in Steady)
      <4>1. v \in Vlans /\ v \in job[t].uses /\ bridge[v] # "absent"
        BY <1>5, <3>2 DEF Stands, Views
      <4> QED BY <3>2, <4>1
    <3>3. CASE v = c.vlan /\ c.do = "addbr"
      <4>1. c.vlan \in Vlans
        BY <1>3, <3>3 DEF Commands
      <4> QED BY <1>4, <3>3, <4>1, VlanAssumption DEF Mine
    <3> QED BY <3>1, <3>2, <3>3 DEF BridgesAfter
  <2>4. bridgeAddr' \cap job[t].uses \subseteq z.addrs
    <3>1. bridgeAddr' \subseteq bridgeAddr
      BY <1>4
    <3> QED BY <1>5, <3>1 DEF Stands, Does
  <2>5. ASSUME z.clean
        PROVE  Clean(n)'
    <3>1. c.do = "addif" => c.vlan \in job[t].uses
      <4>1. c.do = "addif" => c.vlan \in Vlans
        BY <1>3 DEF Commands
      <4> QED BY <1>4, <4>1, VlanAssumption DEF Mine
    <3>2. bridgeAddr' \subseteq bridgeAddr
      BY <1>4
    <3> QED BY <1>5, <2>1, <2>2, <2>5, <3>1, <3>2, CleanNow
  <2> QED BY <2>1, <2>2, <2>3, <2>4, <2>5 DEF Stands
<1>6. ASSUME NEW n \in job[t].sound
      PROVE  Onward(t, n, << >>)
  <2>1. SUFFICES ASSUME NEW x \in Views, NEW z \in Views,
                        Stands(t, n, x), Does(n, job[t].tagged, c, x, z)
                 PROVE  Stands(t, n, z)' /\ Leads(<< >>, n, job[t].tagged, z, z) /\ Knows(z, z)
    BY <1>3 DEF Onward
  <2> QED BY <1>5, <1>6, <2>1, LeadsNone DEF Knows
<1>7. Fits(c, << >>)
  BY FitsNone
<1>8. \A i \in 1..Len(<< >>) : FALSE
  OBVIOUS
<1>9. Turns(t, << >>)
  BY <1>2, <1>3, <1>6, <1>7, <1>8 DEF Turns
<1> QED BY <1>9, TurnKeeps

\* The current command is one of its handler's.
LEMMA CurrentMine ==
  ASSUME Typed, RowsInv, NEW t \in Threads, job[t].todo # << >>
  PROVE  /\ Cur(t) = job[t].todo[1] /\ Cur(t) \in Commands
         /\ job[t] \in Jobs /\ job[t].on \subseteq Nics /\ JobOK(t)
         /\ job[t].todo \in Seq(Commands) /\ 1 \in 1..Len(job[t].todo)
         /\ Cur(t).vlan \in Vlans => Cur(t).vlan \in job[t].uses
         /\ Cur(t).do \in PortDos => Cur(t).nic \in job[t].on
<1>1. /\ job[t] \in Jobs /\ Cur(t) = job[t].todo[1] /\ Cur(t) \in Commands /\ 1 \in DOMAIN job[t].todo
      /\ job[t].todo \in Seq(Commands)
  BY Current
<1>2. 1 \in 1..Len(job[t].todo)
  BY <1>1
<1>3. JobOK(t) /\ job[t].on \subseteq Nics
  BY <1>1 DEF RowsInv, Jobs
<1>4. Mine(Cur(t), job[t].on, job[t].uses)
  BY <1>1, <1>2, <1>3 DEF JobOK, Kempt
<1>5. Cur(t).vlan \in Vlans => Cur(t).vlan \in job[t].uses
  BY <1>4, VlanAssumption DEF Mine
<1> QED BY <1>1, <1>2, <1>3, <1>4, <1>5 DEF Mine

LEMMA SetPortTurns ==
  ASSUME Typed, Typed', RowsInv, NEW t \in Threads, SetPort(t)
  PROVE  RowsInv' /\ VT!Next
<1>1. /\ job[t].todo # << >> /\ Cur(t).do \in {"nicUp", "nicDown"} /\ Proceed(t)
      /\ UNCHANGED <<bridge, master, sub, gvrp, nicAddr, bridgeAddr>> /\ Keep
  BY DEF SetPort, Runs
<1>2. goal' = goal /\ settled' = settled
  BY <1>1 DEF Keep, history
<1>3. PICK c : c = Cur(t)
  OBVIOUS
<1>4. Near(t)
  BY <1>1 DEF Near
<1>5. ASSUME NEW n \in Nics, NEW x \in Views, NEW z \in Views,
             Shown(n, x), Does(n, job[t].tagged, c, x, z)
      PROVE  Shown(n, z)'
  BY <1>1, <1>3, <1>5 DEF Shown, Does, SubAfter, MasterAfter
<1>6. \A v \in bridgeAddr' : bridge'[v] # "absent"
  BY <1>1 DEF RowsInv
<1> QED BY <1>1, <1>2, <1>3, <1>4, <1>5, <1>6, CommandKeeps

LEMMA AddBridgeTurns ==
  ASSUME Typed, Typed', RowsInv, NEW t \in Threads, AddBridge(t)
  PROVE  RowsInv' /\ VT!Next
<1>1. /\ job[t].todo # << >> /\ Cur(t).do = "addbr" /\ Proceed(t)
      /\ bridge' = [bridge EXCEPT ![Cur(t).vlan] = "down"]
      /\ UNCHANGED <<master, sub, gvrp, nicUp, nicAddr, bridgeAddr>> /\ Keep
  BY DEF AddBridge, Runs
<1>2. goal' = goal /\ settled' = settled
  BY <1>1 DEF Keep, history
<1>3. PICK c : c = Cur(t)
  OBVIOUS
<1>4. c.vlan \in Vlans /\ bridge \in [Vlans -> {"absent", "down", "up"}]
  BY <1>1, <1>3, CurrentMine DEF Commands, Typed, TypeOK
<1>5. bridge'[c.vlan] # "absent" /\ \A v \in Vlans : bridge[v] # "absent" => bridge'[v] # "absent"
  BY <1>1, <1>3, <1>4
<1>6. Near(t)
  BY <1>1, <1>5 DEF Near
<1>7. ASSUME NEW n \in Nics, NEW x \in Views, NEW z \in Views,
             Shown(n, x), Does(n, job[t].tagged, c, x, z)
      PROVE  Shown(n, z)'
  BY <1>1, <1>3, <1>7 DEF Shown, Does, SubAfter, MasterAfter
<1>8. \A v \in bridgeAddr' : bridge'[v] # "absent"
  <2>1. bridgeAddr \subseteq Vlans
    BY DEF Typed, TypeOK
  <2> QED BY <1>1, <1>5, <2>1 DEF RowsInv
<1> QED BY <1>1, <1>2, <1>3, <1>5, <1>6, <1>7, <1>8, CommandKeeps

LEMMA SetBridgeTurns ==
  ASSUME Typed, Typed', RowsInv, NEW t \in Threads, SetBridge(t)
  PROVE  RowsInv' /\ VT!Next
<1>1. /\ job[t].todo # << >> /\ Cur(t).do \in {"up", "down"} /\ Proceed(t)
      /\ bridge' = [bridge EXCEPT ![Cur(t).vlan] = Cur(t).do]
      /\ UNCHANGED <<master, sub, gvrp, nicUp, nicAddr, bridgeAddr>> /\ Keep
  BY DEF SetBridge, Runs
<1>2. goal' = goal /\ settled' = settled
  BY <1>1 DEF Keep, history
<1>3. PICK c : c = Cur(t)
  OBVIOUS
<1>4. c.vlan \in Vlans /\ bridge \in [Vlans -> {"absent", "down", "up"}]
  BY <1>1, <1>3, CurrentMine DEF Commands, Typed, TypeOK
<1>5. \A v \in Vlans : bridge[v] # "absent" => bridge'[v] # "absent"
  BY <1>1, <1>3, <1>4
<1>6. Near(t)
  BY <1>1, <1>5 DEF Near
<1>7. ASSUME NEW n \in Nics, NEW x \in Views, NEW z \in Views,
             Shown(n, x), Does(n, job[t].tagged, c, x, z)
      PROVE  Shown(n, z)'
  BY <1>1, <1>3, <1>7 DEF Shown, Does, SubAfter, MasterAfter
<1>8. \A v \in bridgeAddr' : bridge'[v] # "absent"
  <2>1. bridgeAddr \subseteq Vlans
    BY DEF Typed, TypeOK
  <2> QED BY <1>1, <1>5, <2>1 DEF RowsInv
<1> QED BY <1>1, <1>2, <1>3, <1>5, <1>6, <1>7, <1>8, CommandKeeps

LEMMA DeleteBridgeTurns ==
  ASSUME Typed, Typed', RowsInv, NEW t \in Threads, DeleteBridge(t)
  PROVE  RowsInv' /\ VT!Next
<1>1. PICK v : v = Cur(t).vlan
  OBVIOUS
<1>2. /\ job[t].todo # << >> /\ Cur(t).do = "delete" /\ Proceed(t)
      /\ bridge' = [bridge EXCEPT ![v] = "absent"]
      /\ master' = [n \in Nics |-> IF master[n] = v THEN "none" ELSE master[n]]
      /\ sub' = [p \in Nics \X Vlans |-> IF p[2] = v /\ sub[p] = "member" THEN "free" ELSE sub[p]]
      /\ bridgeAddr' = bridgeAddr \ {v}
      /\ UNCHANGED <<gvrp, nicUp, nicAddr>> /\ Keep
  BY <1>1 DEF DeleteBridge, Runs
<1>3. goal' = goal /\ settled' = settled
  BY <1>2 DEF Keep, history
<1>4. v \in Vlans /\ v \in job[t].uses
  BY <1>1, <1>2, CurrentMine DEF Commands
<1>5. /\ bridge \in [Vlans -> {"absent", "down", "up"}] /\ bridgeAddr \subseteq Vlans
      /\ sub \in [Nics \X Vlans -> {"absent", "free", "member"}]
  BY DEF Typed, TypeOK
<1>6. \A n \in Nics : Promised(n) => master[n] # v /\ sub[<<n, v>>] # "member"
  BY <1>1, <1>2, CurrentMine DEF JobOK, Deletes, Member
<1>7. ASSUME NEW n \in Nics
      PROVE  /\ Promised(n) => master'[n] = master[n] /\ \A w \in Vlans : sub'[<<n, w>>] = sub[<<n, w>>]
             /\ \A w \in Vlans : Member(n, w)' => Member(n, w)
  <2>1. \A w \in Vlans : sub'[<<n, w>>] = IF w = v /\ sub[<<n, w>>] = "member" THEN "free" ELSE sub[<<n, w>>]
    <3>1. \A w \in Vlans : <<n, w>> \in Nics \X Vlans /\ <<n, w>>[2] = w
      OBVIOUS
    <3> QED BY <1>2, <3>1
  <2>2. master'[n] = IF master[n] = v THEN "none" ELSE master[n]
    BY <1>2
  <2> QED BY <1>6, <2>1, <2>2, VlanAssumption DEF Member
<1>8. \A w \in Vlans : w # v => bridge'[w] = bridge[w]
  BY <1>2, <1>4, <1>5
<1>9. Near(t)
  BY <1>2, <1>4, <1>7, <1>8 DEF Near
<1>10. PICK c : c = Cur(t)
  OBVIOUS
<1>11. ASSUME NEW n \in Nics, NEW x \in Views, NEW z \in Views,
              Promised(n), Shown(n, x), Does(n, job[t].tagged, c, x, z)
       PROVE  Shown(n, z)'
  <2>1. z.master = x.master /\ z.sub = x.sub
    BY <1>2, <1>10, <1>11 DEF Does, SubAfter, MasterAfter
  <2> QED BY <1>7, <1>11, <2>1 DEF Shown
<1>12. \A w \in bridgeAddr' : bridge'[w] # "absent"
  BY <1>2, <1>5, <1>8 DEF RowsInv
<1>13. bridgeAddr' \subseteq bridgeAddr /\ ~ (c.do = "addbr" \/ c.do \in Steady)
  BY <1>2, <1>10 DEF Steady
<1> QED BY <1>2, <1>3, <1>9, <1>10, <1>11, <1>12, <1>13, CommandKeeps

LEMMA EnslaveTurns ==
  ASSUME Typed, Typed', RowsInv, NEW t \in Threads, Enslave(t)
  PROVE  RowsInv' /\ VT!Next
<1>1. PICK c : c = Cur(t)
  OBVIOUS
<1>2. /\ job[t].todo # << >> /\ c.do \in {"addif", "delif"} /\ Proceed(t)
      /\ master' = [master EXCEPT ![c.nic] = IF c.do = "addif" THEN c.vlan ELSE "none"]
      /\ UNCHANGED <<bridge, sub, gvrp, nicUp, nicAddr, bridgeAddr>> /\ Keep
  BY <1>1 DEF Enslave, Runs
<1>3. goal' = goal /\ settled' = settled
  BY <1>2 DEF Keep, history
<1>4. c \in Commands /\ c.nic \in job[t].on /\ job[t].on \subseteq Nics /\ (c.vlan \in Vlans => c.vlan \in job[t].uses)
      /\ JobOK(t)
  BY <1>1, <1>2, CurrentMine DEF PortDos
<1>5. c.nic \in Nics /\ c.vlan \in Vlans /\ c.vlan \in job[t].uses
  BY <1>2, <1>4 DEF Commands
<1>6. master \in [Nics -> Vlans \cup {"none"}]
  BY DEF Typed, TypeOK
<1>7. \A n \in Nics : master'[n] = IF n # c.nic THEN master[n] ELSE IF c.do = "addif" THEN c.vlan ELSE "none"
  BY <1>2, <1>5, <1>6
<1>8. ASSUME NEW v \in Vlans, Member(c.nic, v)'
      PROVE  v \in job[t].uses
  <2>1. CASE sub[<<c.nic, v>>] = "member"
    BY <1>4, <2>1 DEF JobOK, Own, Member
  <2>2. CASE master'[c.nic] = v
    BY <1>5, <1>7, <2>2, VlanAssumption
  <2> QED BY <1>2, <1>8, <2>1, <2>2 DEF Member
<1>9. Near(t)
  <2>1. \A n \in Nics : n # c.nic => master'[n] = master[n] /\ \A v \in Vlans : sub'[<<n, v>>] = sub[<<n, v>>]
    BY <1>2, <1>7
  <2> QED BY <1>2, <1>4, <1>8, <2>1 DEF Near
<1>10. ASSUME NEW n \in Nics, NEW x \in Views, NEW z \in Views,
              Shown(n, x), Does(n, job[t].tagged, c, x, z)
       PROVE  Shown(n, z)'
  <2>1. z.sub = x.sub
    BY <1>2, <1>10 DEF Does, SubAfter
  <2>2. z.master = IF n # c.nic THEN x.master ELSE IF c.do = "addif" THEN c.vlan ELSE "none"
    BY <1>2, <1>10 DEF Does, MasterAfter
  <2> QED BY <1>2, <1>7, <1>10, <2>1, <2>2 DEF Shown
<1>11. \A v \in bridgeAddr' : bridge'[v] # "absent"
  BY <1>2 DEF RowsInv
<1> QED BY <1>1, <1>2, <1>3, <1>9, <1>10, <1>11, CommandKeeps

LEMMA SetSubTurns ==
  ASSUME Typed, Typed', RowsInv, NEW t \in Threads, SetSub(t)
  PROVE  RowsInv' /\ VT!Next
<1>1. PICK c, p, s : c = Cur(t) /\ p = <<c.nic, c.vlan>>
                     /\ s = CASE c.do \in {"link", "linkGvrp"} -> "free"
                              [] c.do = "addsub" -> "member"
                              [] c.do = "unlink" -> "absent"
                              [] OTHER -> sub[p]
  OBVIOUS
<1>2. /\ job[t].todo # << >> /\ c.do \in {"link", "linkGvrp", "addsub", "unlink", "subUp", "subDown"}
      /\ ~Impossible(c) /\ Proceed(t)
      /\ sub' = [sub EXCEPT ![p] = s]
      /\ UNCHANGED <<bridge, master, nicUp, nicAddr, bridgeAddr>> /\ Keep
  BY <1>1 DEF SetSub, Runs
<1>3. goal' = goal /\ settled' = settled
  BY <1>2 DEF Keep, history
<1>4. c \in Commands /\ (c.do \in PortDos => c.nic \in job[t].on) /\ job[t].on \subseteq Nics
      /\ (c.vlan \in Vlans => c.vlan \in job[t].uses) /\ JobOK(t)
  BY <1>1, <1>2, CurrentMine
<1>5. c.nic \in Nics /\ c.vlan \in Vlans /\ c.vlan \in job[t].uses
  BY <1>2, <1>4 DEF Commands
<1>6. sub \in [Nics \X Vlans -> {"absent", "free", "member"}]
  BY DEF Typed, TypeOK
<1>7. \A n \in Nics, v \in Vlans :
        sub'[<<n, v>>] = IF n = c.nic /\ v = c.vlan THEN s ELSE sub[<<n, v>>]
  BY <1>1, <1>2, <1>5, <1>6
<1>8. c.nic \in job[t].on \/ s = sub[p]
  BY <1>1, <1>2, <1>4 DEF PortDos
<1>9. Near(t)
  <2>1. \A n \in Nics : n # c.nic => master'[n] = master[n] /\ \A v \in Vlans : sub'[<<n, v>>] = sub[<<n, v>>]
    BY <1>2, <1>7
  <2>2. s = sub[p] => master'[c.nic] = master[c.nic] /\ \A v \in Vlans : sub'[<<c.nic, v>>] = sub[<<c.nic, v>>]
    BY <1>1, <1>2, <1>5, <1>7
  <2>3. ASSUME c.nic \in job[t].on, NEW v \in Vlans, Member(c.nic, v)'
        PROVE  v \in job[t].uses
    <3>1. v = c.vlan \/ Member(c.nic, v)
      BY <1>2, <1>5, <1>7, <2>3 DEF Member
    <3> QED BY <1>4, <1>5, <2>3, <3>1 DEF JobOK, Own
  <2> QED BY <1>2, <1>5, <1>8, <2>1, <2>2, <2>3 DEF Near
<1>10. ASSUME NEW n \in Nics, NEW x \in Views, NEW z \in Views,
              Shown(n, x), Does(n, job[t].tagged, c, x, z)
       PROVE  Shown(n, z)'
  <2>1. z.master = x.master
    BY <1>2, <1>10 DEF Does, MasterAfter
  <2>2. ASSUME n = c.nic
        PROVE  z.sub = [x.sub EXCEPT ![c.vlan] = s]
    <3>1. /\ z.sub = SubAfter(job[t].tagged, c, x) /\ x.sub[c.vlan] = sub[p]
          /\ x.sub \in [Vlans -> {"absent", "free", "member"}]
      BY <1>1, <1>5, <1>10, <2>2 DEF Does, Shown, Views
    <3>2. /\ c.do \in {"link", "linkGvrp"} => sub[p] = "absent"
          /\ c.do = "addsub" => sub[p] = "free"
      BY <1>1, <1>2 DEF Impossible
    <3>3. CASE c.do \in {"link", "linkGvrp", "addsub", "unlink"}
      BY <1>1, <3>1, <3>2, <3>3 DEF SubAfter
    <3>4. CASE c.do \in {"subUp", "subDown"}
      <4>1. z.sub = x.sub /\ s = x.sub[c.vlan]
        BY <1>1, <3>1, <3>4 DEF SubAfter
      <4> QED BY <1>5, <3>1, <4>1
    <3> QED BY <1>2, <3>3, <3>4
  <2>3. n # c.nic => z.sub = x.sub
    BY <1>10 DEF Does
  <2>4. x.sub = [v \in Vlans |-> sub[<<n, v>>]] /\ x.master = master[n]
    BY <1>10 DEF Shown
  <2>5. z.sub = [v \in Vlans |-> sub'[<<n, v>>]]
    <3>1. CASE n = c.nic
      <4>1. PICK f : f = [v \in Vlans |-> sub[<<n, v>>]]
        OBVIOUS
      <4>2. z.sub = [f EXCEPT ![c.vlan] = s]
        BY <2>2, <2>4, <3>1, <4>1
      <4>3. [f EXCEPT ![c.vlan] = s] = [v \in Vlans |-> IF v = c.vlan THEN s ELSE f[v]]
        BY <1>5, <4>1
      <4>4. \A v \in Vlans : (IF v = c.vlan THEN s ELSE f[v]) = sub'[<<n, v>>]
        BY <1>7, <3>1, <4>1
      <4> QED BY <4>2, <4>3, <4>4
    <3>2. CASE n # c.nic
      BY <1>7, <2>3, <2>4, <3>2
    <3> QED BY <3>1, <3>2
  <2> QED BY <1>2, <2>1, <2>4, <2>5 DEF Shown
<1>11. \A v \in bridgeAddr' : bridge'[v] # "absent"
  BY <1>2 DEF RowsInv
<1> QED BY <1>1, <1>2, <1>3, <1>9, <1>10, <1>11, CommandKeeps

LEMMA SetAddressTurns ==
  ASSUME Typed, Typed', RowsInv, NEW t \in Threads, SetAddress(t)
  PROVE  RowsInv' /\ VT!Next
<1>1. PICK c : c = Cur(t)
  OBVIOUS
<1>2. /\ job[t].todo # << >> /\ c.do \in {"flushNic", "flushBridge", "address"}
      /\ ~Impossible(c) /\ Proceed(t)
      /\ nicAddr' = IF c.do = "flushNic" THEN nicAddr \ {c.nic} ELSE nicAddr
      /\ bridgeAddr' = CASE c.do = "flushBridge" -> bridgeAddr \ {c.vlan}
                         [] c.do = "address" -> bridgeAddr \cup {c.vlan}
                         [] OTHER -> bridgeAddr
      /\ UNCHANGED <<bridge, master, sub, gvrp, nicUp>> /\ Keep
  BY <1>1 DEF SetAddress, Runs
<1>3. goal' = goal /\ settled' = settled
  BY <1>2 DEF Keep, history
<1>4. PICK s : s = job[t].todo
  OBVIOUS
<1>5. /\ c \in Commands /\ (c.vlan \in Vlans => c.vlan \in job[t].uses) /\ JobOK(t)
      /\ c = s[1] /\ s \in Seq(Commands) /\ 1 \in 1..Len(s)
  BY <1>1, <1>2, <1>4, CurrentMine
<1>6. c.vlan \in Vlans /\ c.vlan \in job[t].uses
  BY <1>2, <1>5 DEF Commands
<1>7. ASSUME c.do = "address"
      PROVE  /\ job[t].on = {} /\ bridge[c.vlan] # "absent"
             /\ \A n \in settled : master[n] = c.vlan => n \notin nicAddr
  <2>1. 1 = Len(s)
    BY <1>4, <1>5, <1>7 DEF JobOK, Kempt, Follows
  <2>2. \A k \in 1..Len(s) : s[k].do # "flushNic"
    <3>1. \A k \in 1..Len(s) : k = 1
      BY <2>1
    <3>2. s[1].do # "flushNic"
      BY <1>5, <1>7
    <3> QED BY <3>1, <3>2
  <2>3. bridge[c.vlan] # "absent"
    BY <1>2, <1>7 DEF Impossible
  <2> QED BY <1>4, <1>5, <1>7, <2>2, <2>3 DEF JobOK, Addresses
<1>8. \A v \in bridgeAddr' : v \in bridgeAddr \/ (c.do = "address" /\ v = c.vlan)
  BY <1>2
<1>9. Near(t)
  <2>1. nicAddr' \subseteq nicAddr
    BY <1>2
  <2> QED BY <1>2, <1>6, <1>7, <1>8, <2>1 DEF Near
<1>10. ASSUME NEW n \in Nics, NEW x \in Views, NEW z \in Views,
              Shown(n, x), Does(n, job[t].tagged, c, x, z)
       PROVE  Shown(n, z)'
  BY <1>2, <1>10 DEF Shown, Does, SubAfter, MasterAfter
<1>11. \A v \in bridgeAddr' : bridge'[v] # "absent"
  BY <1>2, <1>7, <1>8 DEF RowsInv
<1>12. bridgeAddr' \subseteq bridgeAddr \/ job[t].on = {}
  BY <1>7, <1>8
<1>13. c.do = "flushNic" => c.nic \notin nicAddr'
  BY <1>2
<1>14. ~ (c.do = "addbr" \/ c.do \in Steady) /\ c.do # "addif" /\ c.do \notin {"hasVLAN", "hasAddress", "exists"}
       /\ c.do # "down"
  BY <1>2 DEF Steady
<1> QED BY <1>1, <1>2, <1>3, <1>9, <1>10, <1>11, <1>12, <1>13, <1>14, CommandKeeps

\* Commands that only look, and leave others to run.
Lookers == {"clear", "reported", "look", "tidy", "hasVLAN", "master"}

LEMMA StandsSame ==
  ASSUME NEW t \in Threads, UNCHANGED kernel, job'[t].uses = job[t].uses, NEW n, NEW x, Stands(t, n, x)
  PROVE  Stands(t, n, x)'
<1>1. /\ bridge' = bridge /\ master' = master /\ sub' = sub
      /\ nicAddr' = nicAddr /\ bridgeAddr' = bridgeAddr
  BY DEF kernel
<1> QED BY <1>1 DEF Stands, Clean

LEMMA ResetStands ==
  ASSUME Typed, NEW t \in Threads, NEW n, NEW x \in Views, Stands(t, n, x)
  PROVE  Stands(t, n, Reset(x))
<1>1. x.master = "none" => Clean(n)
  <2>1. "none" \notin bridgeAddr
    BY VlanAssumption DEF Typed, TypeOK
  <2> QED BY <2>1 DEF Stands, Clean
<1> QED BY <1>1, ResetView DEF Stands

\* What they do, they do whatever is known of the bridges.
LEMMA ResetDoes ==
  ASSUME NEW n, NEW tagged, NEW c, c.do \in Lookers, NEW x \in Views, NEW z \in Views, Does(n, tagged, c, x, z)
  PROVE  Does(n, tagged, c, Reset(x), z) /\ z.bridges = {}
<1>1. PICK y : y = Reset(x)
  OBVIOUS
<1>2. y \in Views /\ y.master = x.master /\ y.sub = x.sub /\ y.addrs = x.addrs /\ y.bridges = {}
      /\ (y.clean <=> x.clean \/ x.master = "none")
  BY <1>1, ResetView
<1>3. BridgesAfter(c, x) = {} /\ BridgesAfter(c, y) = {}
  BY DEF BridgesAfter, Lookers, Steady
<1>4. SubAfter(tagged, c, x) = SubAfter(tagged, c, y) /\ MasterAfter(tagged, c, x) = MasterAfter(tagged, c, y)
  BY <1>2 DEF SubAfter, MasterAfter
<1>5. Ready(c, x) => Ready(c, y)
  BY <1>2 DEF Ready, Lookers
<1> HIDE DEF BridgesAfter, SubAfter, MasterAfter, Ready
<1> QED BY <1>1, <1>2, <1>3, <1>4, <1>5 DEF Does

\* A port the command is not about sees no change.
LEMMA LookerElsewhere ==
  ASSUME Typed, NEW t \in Threads, NEW n, NEW c, c.do \in Lookers, c.nic # n,
         NEW x \in Views, NEW z \in Views, Stands(t, n, x), Does(n, job[t].tagged, c, x, z)
  PROVE  Stands(t, n, z) /\ z.bridges = {}
<1>1. z.bridges = {}
  BY ResetDoes
<1>2. /\ z.sub = x.sub /\ z.master = x.master /\ x.addrs \subseteq z.addrs
      /\ z.clean => z.master = "none" \/ x.clean
  BY DEF Does
<1>3. x.master = "none" => Clean(n)
  <2>1. "none" \notin bridgeAddr
    BY VlanAssumption DEF Typed, TypeOK
  <2> QED BY <2>1 DEF Stands, Clean
<1> QED BY <1>1, <1>2, <1>3 DEF Stands

LEMMA LookerTurns ==
  ASSUME Typed, RowsInv, NEW t \in Threads, job[t].todo # << >>, NEW more \in Seq(Commands),
         Then(t, more), goal' = goal, settled' = settled, UNCHANGED kernel,
         NEW c, c = Cur(t), c.do \in Lookers, Fits(c, more),
         \A i \in 1..Len(more) : /\ Mine(more[i], job[t].on, job[t].uses) /\ more[i].nic = c.nic
                                 /\ more[i].do = "delete" => Empty(more[i].vlan),
         more # << >> => more[1].do \notin {"exists", "hasVLAN"},
         \A x \in Views, z \in Views :
           c.nic \in job[t].sound /\ Stands(t, c.nic, x) /\ Does(c.nic, job[t].tagged, c, x, z)
             => \E u, w \in Views : /\ Stands(t, c.nic, u)
                                    /\ Leads(more, c.nic, job[t].tagged, u, w) /\ Knows(w, z)
  PROVE  RowsInv' /\ VT!Next
<1>1. /\ bridge' = bridge /\ master' = master /\ sub' = sub
      /\ nicAddr' = nicAddr /\ bridgeAddr' = bridgeAddr
  BY DEF kernel
<1>2. Near(t)
  BY <1>1 DEF Near
<1>3. Moves(t, more) /\ Local(t) /\ job'[t].uses = job[t].uses
  BY <1>2, ThenMoves, MovesLocal DEF Moves
<1>4. c = job[t].todo[1]
  BY Current
<1>5. ASSUME NEW n \in job[t].sound
      PROVE  Onward(t, n, more)
  <2>1. SUFFICES ASSUME NEW x \in Views, NEW z \in Views,
                        Stands(t, n, x), Does(n, job[t].tagged, c, x, z)
                 PROVE  \E u, w \in Views : /\ Stands(t, n, u)' /\ Leads(more, n, job[t].tagged, u, w)
                                            /\ Knows(w, z)
    BY <1>4 DEF Onward
  <2>2. CASE n = c.nic
    <3>1. PICK u, w \in Views : Stands(t, n, u) /\ Leads(more, n, job[t].tagged, u, w) /\ Knows(w, z)
      BY <2>1, <2>2
    <3> QED BY <1>3, <3>1, StandsSame
  <2>3. CASE n # c.nic
    <3>1. Stands(t, n, z) /\ z.bridges = {}
      BY <2>1, <2>3, LookerElsewhere
    <3>2. \A i \in 1..Len(more) : Quiet(n, more[i])
      BY <2>3 DEF Quiet
    <3>3. Leads(more, n, job[t].tagged, z, z)
      BY <3>1, <3>2, QuietLeads
    <3>4. Stands(t, n, z)'
      BY <1>3, <3>1, StandsSame
    <3> QED BY <3>3, <3>4 DEF Knows
  <2> QED BY <2>2, <2>3
<1>6. \A v \in bridgeAddr' : bridge'[v] # "absent"
  BY <1>1 DEF RowsInv
<1>7. \A i \in 1..Len(more) : more[i].do = "delete" => Empty(more[i].vlan)'
  BY <1>1 DEF Empty, Member
<1>8. c.do \notin {"hasAddress", "exists", "down", "flushNic"}
  BY DEF Lookers
<1>9. Turns(t, more)
  BY <1>1, <1>3, <1>4, <1>5, <1>6, <1>7, <1>8 DEF Turns
<1> QED BY <1>9, TurnKeeps

\* Two commands that follow one.
LEMMA FitsTwo ==
  ASSUME NEW c \in Commands, c.do \notin {"hasAddress", "exists", "down"}, c.catch # "try",
         NEW a \in Commands, NEW b \in Commands,
         a.do \notin {"delete", "address"}, b.do \notin {"address", "hasVLAN", "exists"},
         b.do = "delete" => a.do = "down", a.catch = "try" => a.do \in TryDos, b.catch # "try"
  PROVE  <<a, b>> \in Seq(Commands) /\ Fits(c, <<a, b>>)
         /\ \A i \in 1..Len(<<a, b>>) : <<a, b>>[i] = a \/ <<a, b>>[i] = b
<1>1. PICK s : s = <<a, b>>
  OBVIOUS
<1>2. s \in Seq(Commands) /\ Len(s) = 2 /\ s[1] = a /\ s[2] = b
  BY <1>1
<1>3. \A i \in 1..2 : i = 1 \/ (i = 2 /\ i > 1)
  OBVIOUS
<1>4. ASSUME NEW i \in 1..Len(s)
      PROVE  /\ i > 1 => Probing(s, i)
             /\ s[i].do = "delete" => i = 1 \/ (i = 2 /\ s[1].do = "down")
             /\ s[i].do # "address"
             /\ s[i].catch = "try" =>
                  /\ s[i].do \in TryDos
                  /\ \A k \in 1..i : s[k].catch = "try" /\ s[k].nic = s[i].nic
  <2>1. CASE i = 1
    <3>1. \A k \in 1..i : k = i
      BY <2>1
    <3> QED BY <1>2, <2>1, <3>1
  <2>2. CASE i = 2
    BY <1>2, <2>2 DEF Probing
  <2> QED BY <1>2, <1>3, <2>1, <2>2
<1>5. Follows(s)
  BY <1>4 DEF Follows
<1>6. Fits(c, s)
  BY <1>4, <1>5 DEF Fits
<1>7. \A i \in 1..Len(s) : s[i] = a \/ s[i] = b
  BY <1>2, <1>3
<1> QED BY <1>1, <1>2, <1>6, <1>7

LEMMA TidyTurns ==
  ASSUME Typed, RowsInv, NEW t \in Threads, Tidy(t)
  PROVE  RowsInv' /\ VT!Next
<1>1. PICK c : c = Cur(t)
  OBVIOUS
<1> DEFINE a == Cmd("down", c.nic, c.vlan, "no")
           b == Cmd("delete", c.nic, c.vlan, "no")
<1>2. PICK more : more = IF Empty(c.vlan) THEN <<a, b>> ELSE << >>
  OBVIOUS
<1>3. /\ job[t].todo # << >> /\ c.do = "tidy" /\ Then(t, more) /\ UNCHANGED kernel /\ Keep
  BY <1>1, <1>2 DEF Tidy, Runs
<1>4. goal' = goal /\ settled' = settled
  BY <1>3 DEF Keep, history
<1>5. c \in Commands /\ (c.vlan \in Vlans => c.vlan \in job[t].uses)
  BY <1>1, <1>3, CurrentMine
<1>6. c.nic \in Nics /\ c.vlan \in Vlans /\ c.vlan \in job[t].uses /\ c.catch = "no"
  BY <1>3, <1>5 DEF Commands, Bare
<1>7. /\ a \in Commands /\ a.do = "down" /\ a.catch = "no" /\ a.nic = c.nic /\ a.vlan = c.vlan
      /\ b \in Commands /\ b.do = "delete" /\ b.catch = "no" /\ b.nic = c.nic /\ b.vlan = c.vlan
  BY <1>6, CmdType DEF Dos, Bare, Cmd
<1> HIDE DEF a, b
<1>8. more \in Seq(Commands) /\ Fits(c, more)
      /\ \A i \in 1..Len(more) : Empty(c.vlan) /\ (more[i] = a \/ more[i] = b)
  <2>1. CASE Empty(c.vlan)
    BY <1>2, <1>3, <1>5, <1>6, <1>7, <2>1, FitsTwo
  <2>2. CASE ~ Empty(c.vlan)
    <3>1. more = << >> /\ \A i \in 1..Len(more) : FALSE
      BY <1>2, <2>2
    <3> QED BY <3>1, FitsNone
  <2> QED BY <2>1, <2>2
<1>9. \A i \in 1..Len(more) : /\ Mine(more[i], job[t].on, job[t].uses) /\ more[i].nic = c.nic
                              /\ more[i].do = "delete" => Empty(more[i].vlan)
                              /\ more[i].do \in {"down", "delete"} /\ more[i].catch = "no"
  BY <1>6, <1>7, <1>8 DEF Mine, PortDos
<1>10. more # << >> => more[1].do \notin {"exists", "hasVLAN"}
  <2>1. more # << >> => 1 \in 1..Len(more)
    BY <1>8, TailOf
  <2> QED BY <1>9, <2>1
<1>11. ASSUME NEW x \in Views, NEW z \in Views,
              Stands(t, c.nic, x), Does(c.nic, job[t].tagged, c, x, z)
       PROVE  Stands(t, c.nic, z) /\ Leads(more, c.nic, job[t].tagged, z, z) /\ Knows(z, z)
  <2>1. z.bridges = {}
    <3>1. c.do \in Lookers
      BY <1>3 DEF Lookers
    <3> QED BY <1>11, <3>1, ResetDoes
  <2>2. z.sub = x.sub /\ z.master = x.master /\ x.addrs \subseteq z.addrs
        /\ (z.clean => z.master = "none" \/ x.clean)
    BY <1>3, <1>11 DEF Does, SubAfter, MasterAfter
  <2>3. x.master = "none" => Clean(c.nic)
    <3>1. "none" \notin bridgeAddr
      BY VlanAssumption DEF Typed, TypeOK
    <3> QED BY <1>11, <3>1 DEF Stands, Clean
  <2>4. Stands(t, c.nic, z)
    BY <1>11, <2>1, <2>2, <2>3 DEF Stands
  <2>5. \A i \in 1..Len(more) : Quiet(c.nic, more[i])
    BY <1>9 DEF Quiet, QuietDos
  <2>6. Leads(more, c.nic, job[t].tagged, z, z)
    BY <1>8, <2>1, <2>5, QuietLeads
  <2> QED BY <2>4, <2>6 DEF Knows
<1>12. c.do \in Lookers
  BY <1>3 DEF Lookers
<1> QED BY <1>1, <1>3, <1>4, <1>8, <1>9, <1>10, <1>11, <1>12, LookerTurns

LEMMA ReportedTurns ==
  ASSUME Typed, RowsInv, NEW t \in Threads, Reported(t)
  PROVE  RowsInv' /\ VT!Next
<1>1. PICK c, v : c = Cur(t) /\ v = c.vlan
  OBVIOUS
<1> DEFINE a == Cmd("look", c.nic, v, "try")
           b == Cmd("tidy", c.nic, v, "no")
<1>2. PICK more : more = IF Member(c.nic, v) THEN <<a, b>> ELSE << >>
  OBVIOUS
<1>3. /\ job[t].todo # << >> /\ c.do = "reported" /\ Then(t, more) /\ UNCHANGED kernel /\ Keep
  BY <1>1, <1>2 DEF Reported, Runs, Leave
<1>4. goal' = goal /\ settled' = settled
  BY <1>3 DEF Keep, history
<1>5. c \in Commands /\ (v \in Vlans => v \in job[t].uses) /\ c.nic \in job[t].on
  BY <1>1, <1>3, CurrentMine DEF PortDos
<1>6. c.nic \in Nics /\ v \in Vlans /\ v \in job[t].uses /\ c.catch = "no"
  <2>1. /\ c.do = "reported" /\ c \in Commands /\ (v \in Vlans => v \in job[t].uses)
        /\ v = c.vlan
    BY <1>1, <1>3, <1>5
  <2>2. c.nic \in Nics /\ c.vlan \in Vlans /\ c.catch = "no"
    BY <2>1 DEF Commands, Bare
  <2> QED BY <2>1, <2>2
<1>7. /\ a \in Commands /\ a.do = "look" /\ a.catch = "try" /\ a.nic = c.nic /\ a.vlan = v
      /\ b \in Commands /\ b.do = "tidy" /\ b.catch = "no" /\ b.nic = c.nic /\ b.vlan = v
  <2>1. "look" \in Dos /\ "tidy" \in Dos /\ "look" \notin Bare
    BY DEF Dos, Bare
  <2>2. a \in Commands
    BY <1>6, <2>1, CmdType
  <2>3. b \in Commands
    BY <1>6, <2>1, CmdType
  <2> QED BY <2>2, <2>3 DEF Cmd
<1> HIDE DEF a, b
<1>8. more \in Seq(Commands) /\ Fits(c, more)
      /\ \A i \in 1..Len(more) : more[i] = a \/ more[i] = b
  <2>1. CASE Member(c.nic, v)
    BY <1>2, <1>3, <1>5, <1>6, <1>7, <2>1, FitsTwo DEF TryDos
  <2>2. CASE ~ Member(c.nic, v)
    <3>1. more = << >> /\ \A i \in 1..Len(more) : FALSE
      BY <1>2, <2>2
    <3> QED BY <3>1, FitsNone
  <2> QED BY <2>1, <2>2
<1>9. \A i \in 1..Len(more) : /\ Mine(more[i], job[t].on, job[t].uses) /\ more[i].nic = c.nic
                              /\ more[i].do \in {"look", "tidy"}
  BY <1>5, <1>6, <1>7, <1>8 DEF Mine
<1>10. more # << >> => more[1].do \notin {"exists", "hasVLAN"}
  <2>1. more # << >> => 1 \in 1..Len(more)
    BY <1>8, TailOf
  <2> QED BY <1>9, <2>1
<1>11. ASSUME NEW x \in Views, NEW z \in Views,
              Stands(t, c.nic, x), Does(c.nic, job[t].tagged, c, x, z)
       PROVE  \E u, w \in Views : /\ Stands(t, c.nic, u)
                                  /\ Leads(more, c.nic, job[t].tagged, u, w) /\ Knows(w, z)
  <2>1. PICK y : y = Reset(x)
    OBVIOUS
  <2>2. Does(c.nic, job[t].tagged, c, y, z) /\ z.bridges = {} /\ Stands(t, c.nic, y) /\ y \in Views
    BY <1>3, <1>11, <2>1, ResetDoes, ResetStands, ResetView DEF Lookers
  <2>3. y.master = "none" /\ z.master = "none" /\ y.addrs \subseteq z.addrs
        /\ z.sub = IF y.sub[v] = "member" THEN [y.sub EXCEPT ![v] = "absent"] ELSE y.sub
    BY <1>1, <1>3, <2>2 DEF Does, Ready, SubAfter, MasterAfter
  <2>4. Member(c.nic, v) <=> y.sub[v] = "member"
    <3>1. y.master = master[c.nic] /\ y.sub[v] = sub[<<c.nic, v>>] /\ v # "none"
      BY <1>6, <2>2, VlanAssumption DEF Stands
    <3> QED BY <2>3, <3>1 DEF Member
  <2>5. CASE Member(c.nic, v)
    <3>1. Does(c.nic, job[t].tagged, a, y, z)
      <4>1. Ready(a, y)
        BY <1>7, <2>4, <2>5 DEF Ready
      <4>2. z.sub = SubAfter(job[t].tagged, a, y) /\ z.master = MasterAfter(job[t].tagged, a, y)
        BY <1>7, <2>3, <2>4, <2>5 DEF SubAfter, MasterAfter
      <4> QED BY <1>7, <2>2, <2>3, <4>1, <4>2 DEF Does
    <3>2. Does(c.nic, job[t].tagged, b, z, z)
      BY <1>7, <2>2, QuietDoes DEF Quiet, QuietDos
    <3>3. Leads(<<a, b>>, c.nic, job[t].tagged, y, z)
      BY <1>7, <2>2, <3>1, <3>2, LeadsTwo
    <3> QED BY <1>2, <2>2, <2>5, <3>3 DEF Knows
  <2>6. CASE ~ Member(c.nic, v)
    <3>1. z.sub = y.sub
      BY <2>3, <2>4, <2>6
    <3>2. "none" \notin bridgeAddr
      BY VlanAssumption DEF Typed, TypeOK
    <3>3. Stands(t, c.nic, z)
      BY <2>2, <2>3, <3>1, <3>2 DEF Stands, Clean
    <3> QED BY <1>2, <2>6, <3>3, LeadsNone DEF Knows
  <2> QED BY <2>5, <2>6
<1>12. c.do \in Lookers
  BY <1>3 DEF Lookers
<1>13. \A i \in 1..Len(more) : more[i].do # "delete"
  BY <1>9
<1> QED BY <1>1, <1>3, <1>4, <1>8, <1>9, <1>10, <1>11, <1>12, <1>13, LookerTurns

LEMMA TakeFits ==
  ASSUME NEW c \in Commands, c.do = "look", c.nic \in Nics, c.vlan \in Vlans,
         NEW more, \E exists \in BOOLEAN : more = Take(c.nic, c.vlan, exists, c.catch)
  PROVE  /\ more \in Seq(Commands) /\ Fits(c, more)
         /\ \A i \in 1..Len(more) :
              /\ more[i].nic = c.nic /\ more[i].vlan = c.vlan /\ more[i].catch = c.catch
              /\ more[i].do \in TryDos \ {"look"}
<1>0. PICK n, v, exists : n = c.nic /\ v = c.vlan /\ more = Take(n, v, exists, c.catch)
  OBVIOUS
<1> DEFINE a == Cmd("subDown", n, v, c.catch)
           b == Cmd("unlink", n, v, c.catch)
           d == Cmd("down", n, v, c.catch)
           e == Cmd("delif", n, v, c.catch)
           f == Cmd("up", n, v, c.catch)
<1>1. /\ a \in Commands /\ b \in Commands /\ d \in Commands /\ e \in Commands /\ f \in Commands
      /\ a.do = "subDown" /\ b.do = "unlink" /\ d.do = "down" /\ e.do = "delif" /\ f.do = "up"
      /\ a.nic = n /\ a.vlan = v /\ a.catch = c.catch
      /\ b.nic = n /\ b.vlan = v /\ b.catch = c.catch
      /\ d.nic = n /\ d.vlan = v /\ d.catch = c.catch
      /\ e.nic = n /\ e.vlan = v /\ e.catch = c.catch
      /\ f.nic = n /\ f.vlan = v /\ f.catch = c.catch
  <2>1. n \in Nics /\ v \in Vlans /\ c.catch \in {"no", "yes", "try"}
    BY <1>0 DEF Commands
  <2>2. a \in Commands /\ b \in Commands /\ d \in Commands /\ e \in Commands /\ f \in Commands
    BY <2>1, CmdType DEF Dos, Bare
  <2> QED BY <2>2 DEF Cmd
<1>2. more = IF exists THEN <<a, b>> ELSE <<d, e, f>>
  BY <1>0 DEF Take
<1> HIDE DEF a, b, d, e, f
<1>3. /\ <<a, b>> \in Seq(Commands) /\ \A i \in 1..Len(<<a, b>>) : <<a, b>>[i] = a \/ <<a, b>>[i] = b
      /\ <<d, e, f>> \in Seq(Commands)
      /\ \A i \in 1..Len(<<d, e, f>>) : <<d, e, f>>[i] = d \/ <<d, e, f>>[i] = e \/ <<d, e, f>>[i] = f
  BY <1>1
<1>4. more \in Seq(Commands)
  BY <1>2, <1>3
<1>5. \A i \in 1..Len(more) :
              /\ more[i].nic = n /\ more[i].vlan = v /\ more[i].catch = c.catch
              /\ more[i].do \in TryDos \ {"look"}
  BY <1>1, <1>2, <1>3 DEF TryDos
<1>6. ASSUME NEW i \in 1..Len(more)
      PROVE  \A k \in 1..i : k \in 1..Len(more)
  BY <1>4
<1>7. Follows(more)
  BY <1>5, <1>6 DEF Follows, Probing, TryDos
<1>8. Fits(c, more)
  BY <1>0, <1>5, <1>7 DEF Fits, TryDos
<1> QED BY <1>0, <1>4, <1>5, <1>8

LEMMA LookTurns ==
  ASSUME Typed, RowsInv, NEW t \in Threads, Look(t)
  PROVE  RowsInv' /\ VT!Next
<1>1. PICK c, n, v : c = Cur(t) /\ n = c.nic /\ v = c.vlan
  OBVIOUS
<1>2. PICK more : more = Take(n, v, sub[<<n, v>>] # "absent", c.catch)
  OBVIOUS
<1>3. /\ job[t].todo # << >> /\ c.do = "look" /\ Then(t, more) /\ UNCHANGED kernel /\ Keep
  BY <1>1, <1>2 DEF Look, Runs
<1>4. goal' = goal /\ settled' = settled
  BY <1>3 DEF Keep, history
<1>5. c \in Commands /\ (v \in Vlans => v \in job[t].uses) /\ n \in job[t].on
  BY <1>1, <1>3, CurrentMine DEF PortDos
<1>6. n \in Nics /\ v \in Vlans /\ v \in job[t].uses /\ c.catch \in {"no", "yes", "try"}
  BY <1>1, <1>3, <1>5 DEF Commands
<1>7. /\ more \in Seq(Commands) /\ Fits(c, more)
      /\ \A i \in 1..Len(more) :
           /\ more[i].nic = n /\ more[i].vlan = v /\ more[i].catch = c.catch
           /\ more[i].do \in TryDos \ {"look"}
  <2>1. \E exists \in BOOLEAN : more = Take(c.nic, c.vlan, exists, c.catch)
    BY <1>1, <1>2
  <2>2. c.nic \in Nics /\ c.vlan \in Vlans
    BY <1>1, <1>6
  <2> QED BY <1>1, <1>3, <1>5, <2>1, <2>2, TakeFits
<1>8. \A i \in 1..Len(more) : /\ Mine(more[i], job[t].on, job[t].uses) /\ more[i].nic = n
                              /\ more[i].do \notin {"delete", "exists", "hasVLAN"}
  BY <1>5, <1>6, <1>7 DEF Mine, TryDos
<1>9. more # << >> => more[1].do \notin {"exists", "hasVLAN"}
  <2>1. more # << >> => 1 \in 1..Len(more)
    BY <1>7, TailOf
  <2> QED BY <1>8, <2>1
<1>10. c.do \in Lookers
  BY <1>3 DEF Lookers
<1>11. ASSUME NEW x \in Views, NEW z \in Views,
              Stands(t, n, x), Does(n, job[t].tagged, c, x, z)
       PROVE  \E u, w \in Views : /\ Stands(t, n, u)
                                  /\ Leads(more, n, job[t].tagged, u, w) /\ Knows(w, z)
  <2>1. PICK y : y = Reset(x)
    OBVIOUS
  <2>2. Does(n, job[t].tagged, c, y, z) /\ Stands(t, n, y) /\ y \in Views /\ y.bridges = {}
    BY <1>10, <1>11, <2>1, ResetDoes, ResetStands, ResetView
  <2>3. c.catch \in {"no", "try"}
    <3>1. Ready(c, y)
      BY <1>1, <2>2 DEF Does
    <3> QED BY <1>3, <1>6, <3>1 DEF Ready, Steady
  <2>4. c = Cmd("look", n, v, c.catch)
    BY <1>1, <1>3, <1>5 DEF Cmd, Commands
  <2>5. y.sub[v] = sub[<<n, v>>]
    BY <1>6, <2>2 DEF Stands
  <2>6. PICK catch : catch = c.catch
    OBVIOUS
  <2>7. Leads(Take(n, v, y.sub[v] # "absent", catch), n, job[t].tagged, y, z)
    BY <1>6, <1>11, <2>2, <2>3, <2>4, <2>6, TakeLeads
  <2>8. Leads(more, n, job[t].tagged, y, z)
    BY <1>2, <2>5, <2>6, <2>7
  <2> QED BY <1>11, <2>2, <2>8 DEF Knows
<1> QED BY <1>1, <1>3, <1>4, <1>7, <1>8, <1>9, <1>10, <1>11, LookerTurns

LEMMA MasterTurns ==
  ASSUME Typed, RowsInv, NEW t \in Threads, Master(t)
  PROVE  RowsInv' /\ VT!Next
<1>1. PICK c, n, m : c = Cur(t) /\ n = c.nic /\ m = master[n]
  OBVIOUS
<1> DEFINE a == Cmd("down", n, m, "no")
           b == Cmd("delif", n, m, "no")
<1>2. PICK more : more = <<a, b>>
  OBVIOUS
<1>3. /\ job[t].todo # << >> /\ c.do = "master" /\ ~Impossible(c) /\ Then(t, more) /\ UNCHANGED kernel
      /\ goal' = goal /\ settled' = settled
  BY <1>1, <1>2 DEF Master, Runs
<1>4. c \in Commands /\ n \in job[t].on /\ job[t].on \subseteq Nics /\ JobOK(t)
  BY <1>1, <1>3, CurrentMine DEF PortDos
<1>5. n \in Nics /\ m \in Vlans /\ m \in job[t].uses /\ c.catch = "no"
  <2>1. m \in Vlans
    BY <1>1, <1>3, <1>4 DEF Impossible, Typed, TypeOK
  <2> QED BY <1>1, <1>3, <1>4, <2>1 DEF Commands, Bare, JobOK, Own, Member
<1>6. /\ a \in Commands /\ a.do = "down" /\ a.catch = "no" /\ a.nic = n /\ a.vlan = m
      /\ b \in Commands /\ b.do = "delif" /\ b.catch = "no" /\ b.nic = n /\ b.vlan = m
  BY <1>5, CmdType DEF Dos, Bare, Cmd
<1> HIDE DEF a, b
<1>7. more \in Seq(Commands) /\ Fits(c, more)
      /\ \A i \in 1..Len(more) : more[i] = a \/ more[i] = b
  BY <1>2, <1>3, <1>4, <1>5, <1>6, FitsTwo
<1>8. \A i \in 1..Len(more) : /\ Mine(more[i], job[t].on, job[t].uses) /\ more[i].nic = n
                              /\ more[i].do \notin {"delete", "exists", "hasVLAN"}
  BY <1>4, <1>5, <1>6, <1>7 DEF Mine
<1>9. more # << >> => more[1].do \notin {"exists", "hasVLAN"}
  <2>1. more # << >> => 1 \in 1..Len(more)
    BY <1>7, TailOf
  <2> QED BY <1>8, <2>1
<1>10. c.do \in Lookers
  BY <1>3 DEF Lookers
<1>11. ASSUME NEW x \in Views, NEW z \in Views,
              Stands(t, n, x), Does(n, job[t].tagged, c, x, z)
       PROVE  \E u, w \in Views : /\ Stands(t, n, u)
                                  /\ Leads(more, n, job[t].tagged, u, w) /\ Knows(w, z)
  <2>1. PICK y : y = Reset(x)
    OBVIOUS
  <2>2. Does(n, job[t].tagged, c, y, z) /\ Stands(t, n, y) /\ y \in Views /\ y.bridges = {} /\ z.bridges = {}
    BY <1>10, <1>11, <2>1, ResetDoes, ResetStands, ResetView
  <2>3. Does(n, job[t].tagged, a, y, y)
    BY <1>6, <2>2, QuietDoes DEF Quiet, QuietDos
  <2>4. z.sub = y.sub /\ z.master = "none" /\ y.addrs \subseteq z.addrs
    BY <1>1, <1>3, <2>2 DEF Does, SubAfter, MasterAfter
  <2>5. Does(n, job[t].tagged, b, y, z)
    <3>1. Ready(b, y)
      BY <1>6 DEF Ready
    <3>2. z.sub = SubAfter(job[t].tagged, b, y) /\ z.master = MasterAfter(job[t].tagged, b, y)
      BY <1>6, <2>4 DEF SubAfter, MasterAfter
    <3> QED BY <1>6, <2>2, <2>4, <3>1, <3>2 DEF Does
  <2>6. Leads(more, n, job[t].tagged, y, z)
    BY <1>2, <1>6, <1>11, <2>2, <2>3, <2>5, LeadsTwo
  <2> QED BY <1>11, <2>2, <2>6 DEF Knows
<1> QED BY <1>1, <1>3, <1>7, <1>8, <1>9, <1>10, <1>11, LookerTurns

\* Commands about one port.
About(n) == {s \in Seq(Commands) : \A i \in 1..Len(s) : s[i].nic = n}

LEMMA AboutAppend ==
  ASSUME NEW n, NEW a \in About(n), NEW b \in About(n)
  PROVE  a \o b \in About(n)
<1>1. /\ a \in Seq(Commands) /\ b \in Seq(Commands)
      /\ \A i \in 1..Len(a) : a[i].nic = n
      /\ \A i \in 1..Len(b) : b[i].nic = n
  BY DEF About
<1>2. PICK r : r = a \o b
  OBVIOUS
<1>3. /\ r \in Seq(Commands) /\ Len(a) \in Nat /\ Len(b) \in Nat /\ Len(r) = Len(a) + Len(b)
      /\ \A i \in 1..Len(a) + Len(b) : r[i] = IF i <= Len(a) THEN a[i] ELSE b[i - Len(a)]
  BY <1>1, <1>2, ConcatProperties, LenProperties
<1>4. ASSUME NEW i \in 1..Len(r)
      PROVE  r[i].nic = n
  <2>1. i \in 1..Len(a) + Len(b) /\ (i <= Len(a) => i \in 1..Len(a)) /\ (~ (i <= Len(a)) => i - Len(a) \in 1..Len(b))
    BY <1>3
  <2> QED BY <1>1, <1>3, <2>1
<1> QED BY <1>2, <1>3, <1>4 DEF About

LEMMA AboutFlat ==
  ASSUME NEW n, NEW s \in Seq(About(n))
  PROVE  FlattenSeq(s) \in About(n)
<1>1. About(n) \in SUBSET Seq(Commands)
  BY DEF About
<1>2. << >> \in About(n) /\ \A a, b \in About(n) : a \o b \in About(n)
  <2>1. << >> \in About(n)
    BY DEF About
  <2> QED BY <2>1, AboutAppend
<1> QED BY <1>1, <1>2, Flattened

LEMMA AboutJoin ==
  ASSUME NEW n \in Nics, NEW v \in Vlans, NEW j \in Jobs, NEW hasVLAN
  PROVE  Join(n, v, j, hasVLAN) \in About(n)
<1> DEFINE link == IF j.gvrp THEN "linkGvrp" ELSE "link"
           bare == IF "bridge" \in j.seen THEN << >> ELSE Create(n, v)
           leave == IF hasVLAN THEN <<Cmd("master", n, v, "no")>> ELSE << >>
           flush == IF {"bridge", "address"} \subseteq j.seen
                    THEN <<Cmd("flushNic", n, v, "no")>> ELSE << >>
           join == IF j.tagged THEN JoinTagged(n, v, link, "no")
                   ELSE leave \o JoinUntagged(n, v) \o flush
<1>1. << >> \in About(n)
  BY DEF About
<1>2. ASSUME NEW do \in Dos, NEW r, r = <<Cmd(do, n, v, "no")>>
      PROVE  r \in About(n)
  <2>1. Cmd(do, n, v, "no") \in Commands /\ Cmd(do, n, v, "no").nic = n
    BY CmdType DEF Cmd
  <2>2. r \in Seq(Commands) /\ \A i \in 1..Len(r) : r[i] = Cmd(do, n, v, "no")
    BY <1>2, <2>1
  <2> QED BY <2>1, <2>2 DEF About
<1>3. bare \in About(n)
  <2>1. Create(n, v) = <<Cmd("addbr", n, v, "no")>> \o <<Cmd("up", n, v, "no")>>
    BY DEF Create
  <2> QED BY <1>1, <1>2, <2>1, AboutAppend DEF Dos
<1>4. leave \in About(n) /\ flush \in About(n)
  BY <1>1, <1>2 DEF Dos
<1>5. JoinUntagged(n, v) \in About(n)
  <2>1. JoinUntagged(n, v) = <<Cmd("down", n, v, "no")>> \o (<<Cmd("addif", n, v, "no")>> \o <<Cmd("up", n, v, "no")>>)
    BY DEF JoinUntagged
  <2> QED BY <1>2, <2>1, AboutAppend DEF Dos
<1>6. JoinTagged(n, v, link, "no") \in About(n)
  <2>1. link \in {"link", "linkGvrp"}
    OBVIOUS
  <2> HIDE DEF link
  <2>2. PICK s : s = JoinTagged(n, v, link, "no")
    OBVIOUS
  <2>3. s \in Seq(Commands)
    BY <2>1, <2>2, JoinTaggedPlain DEF Plain
  <2>4. Len(s) = 8 /\ \A i \in 1..8 : s[i].nic = n
    BY <2>2 DEF JoinTagged, Cmd
  <2> QED BY <2>2, <2>3, <2>4 DEF About
<1> HIDE DEF link, bare, leave, flush
<1>7. join \in About(n)
  <2>1. leave \o JoinUntagged(n, v) \in About(n)
    BY <1>4, <1>5, AboutAppend
  <2>2. leave \o JoinUntagged(n, v) \o flush \in About(n)
    BY <1>4, <2>1, AboutAppend
  <2> QED BY <1>6, <2>2
<1>8. Join(n, v, j, hasVLAN) = bare \o join
  BY DEF Join, bare, leave, flush, link
<1> HIDE DEF join
<1> QED BY <1>3, <1>7, <1>8, AboutAppend

LEMMA HasVLANTurns ==
  ASSUME Typed, RowsInv, NEW t \in Threads, HasVLAN(t)
  PROVE  RowsInv' /\ VT!Next
<1>1. PICK c, n, v, j : c = Cur(t) /\ n = c.nic /\ v = c.vlan /\ j = job[t]
  OBVIOUS
<1>2. PICK hasVLAN, more : /\ hasVLAN = \E w \in Vlans : Member(n, w)
                           /\ more = Join(n, v, j, hasVLAN)
  OBVIOUS
<1>3. /\ job[t].todo # << >> /\ c.do = "hasVLAN" /\ Then(t, more) /\ UNCHANGED kernel /\ Keep
  BY <1>1, <1>2 DEF HasVLAN, Runs
<1>4. goal' = goal /\ settled' = settled
  BY <1>3 DEF Keep, history
<1>5. c \in Commands /\ (v \in Vlans => v \in job[t].uses) /\ n \in job[t].on /\ j \in Jobs /\ JobOK(t)
      /\ c = job[t].todo[1]
  BY <1>1, <1>3, CurrentMine DEF PortDos
<1>6. n \in Nics /\ v \in Vlans /\ v \in job[t].uses /\ c.catch = "no"
  BY <1>1, <1>3, <1>5 DEF Commands, Bare
<1>7. more \in Proper(job[t].on, job[t].uses) /\ more \in About(n)
  BY <1>2, <1>5, <1>6, ProperJoin, AboutJoin
<1>8. more \in Seq(Commands) /\ Fits(c, more) /\ (more # << >> => more[1].do \notin {"hasVLAN", "exists"})
  BY <1>3, <1>6, <1>7, ProperFits, ProperFollows
<1>9. \A i \in 1..Len(more) : /\ Mine(more[i], job[t].on, job[t].uses) /\ more[i].nic = n
                              /\ more[i].do # "delete"
  BY <1>7, ProperFollows DEF About
<1>10. c.do \in Lookers
  BY <1>3 DEF Lookers
<1>11. ASSUME NEW x \in Views, NEW z \in Views,
              n \in job[t].sound, Stands(t, n, x), Does(n, job[t].tagged, c, x, z)
       PROVE  \E u, w \in Views : /\ Stands(t, n, u)
                                  /\ Leads(more, n, job[t].tagged, u, w) /\ Knows(w, z)
  <2>1. PICK y : y = Reset(x)
    OBVIOUS
  <2>2. Does(n, job[t].tagged, c, y, z) /\ Stands(t, n, y) /\ y \in Views /\ y.bridges = {}
        /\ (y.master = "none" => y.clean)
    BY <1>10, <1>11, <2>1, ResetDoes, ResetStands, ResetView
  <2>3. PICK u : u = [y EXCEPT !.addrs = bridgeAddr \cap job[t].uses]
    OBVIOUS
  <2>4. u \in Views /\ u.bridges = {} /\ u.master = y.master /\ u.sub = y.sub /\ u.clean = y.clean
        /\ u.addrs = bridgeAddr \cap job[t].uses
    <3>1. bridgeAddr \cap job[t].uses \in SUBSET Vlans
      BY DEF Typed, TypeOK
    <3> QED BY <2>2, <2>3, <3>1 DEF Views
  <2>5. Stands(t, n, u)
    BY <2>2, <2>4 DEF Stands
  <2>6. Knows(u, y)
    BY <2>2, <2>4 DEF Knows, Stands
  <2>7. Does(n, j.tagged, c, u, z)
    BY <1>1, <1>11, <2>2, <2>4, <2>6, DoesKnowing
  <2>8. c = Cmd("hasVLAN", n, v, "no")
    BY <1>1, <1>3, <1>5, <1>6 DEF Cmd, Commands
  <2>9. {"bridge", "address"} \subseteq j.seen \/ v \notin u.addrs
    BY <1>1, <1>3, <1>5, <1>11, <2>4 DEF JobOK, Seen
  <2>10. u.master = "none" => u.clean
    BY <2>2, <2>4
  <2>11. PICK w \in Views : Leads(Join(n, v, j, hasVLAN), n, j.tagged, u, w) /\ Knows(w, z)
    BY <1>5, <1>6, <1>11, <2>4, <2>7, <2>8, <2>9, <2>10, JoinLeads
  <2> QED BY <1>1, <1>2, <2>4, <2>5, <2>11
<1> QED BY <1>1, <1>3, <1>4, <1>8, <1>9, <1>10, <1>11, LookerTurns

\* A port as the kernel shows it, when nothing else is known.
ViewOf(n) == [master |-> master[n], sub |-> [v \in Vlans |-> sub[<<n, v>>]],
              bridges |-> {}, addrs |-> bridgeAddr, clean |-> FALSE]

LEMMA ViewType ==
  ASSUME Typed, NEW n \in Nics
  PROVE  ViewOf(n) \in Views /\ Shown(n, ViewOf(n))
<1>1. /\ master[n] \in Vlans \cup {"none"} /\ bridgeAddr \subseteq Vlans
      /\ sub \in [Nics \X Vlans -> {"absent", "free", "member"}]
  BY DEF Typed, TypeOK
<1>2. [v \in Vlans |-> sub[<<n, v>>]] \in [Vlans -> {"absent", "free", "member"}]
  BY <1>1
<1> QED BY <1>1, <1>2 DEF ViewOf, Views, Shown

\* The lines of a port that looks like x.
LEMMA LinesList ==
  ASSUME NEW n \in Nics, NEW x, Shown(n, x), NEW vs \in LinesOf(n)
  PROVE  Lists(x, vs)
<1>1. PICK S : S = {v \in Vlans : sub[<<n, v>>] = "member"}
  OBVIOUS
<1>2. PICK subs \in SetToSeqs(S) : vs = (IF master[n] = "none" THEN << >> ELSE <<master[n]>>) \o subs
  BY <1>1 DEF LinesOf
<1>3. {v \in Vlans : x.sub[v] = "member"} = S
  BY <1>1 DEF Shown
<1>4. x.master = master[n]
  BY DEF Shown
<1> QED BY <1>2, <1>3, <1>4 DEF Lists

LEMMA LinesMember ==
  ASSUME Typed, NEW n \in Nics, NEW vs \in LinesOf(n)
  PROVE  vs \in Seq(Vlans) /\ \A i \in 1..Len(vs) : Member(n, vs[i])
<1>1. PICK x : x = ViewOf(n)
  OBVIOUS
<1>2. x \in Views /\ Shown(n, x) /\ Lists(x, vs)
  BY <1>1, ViewType, LinesList
<1>3. /\ vs \in Seq(Vlans) /\ Named(x) <= Len(vs)
      /\ x.master # "none" => vs[1] = x.master
      /\ \A k \in 1..Len(vs) : k > Named(x) => x.sub[vs[k]] = "member"
  BY <1>2, ListsAll
<1>4. ASSUME NEW i \in 1..Len(vs)
      PROVE  Member(n, vs[i])
  <2>1. vs[i] \in Vlans
    BY <1>3
  <2>2. CASE i > Named(x)
    BY <1>2, <1>3, <2>1, <2>2 DEF Member, Shown
  <2>3. CASE ~ (i > Named(x))
    <3>1. x.master # "none" /\ i = 1
      BY <2>3 DEF Named
    <3> QED BY <1>2, <1>3, <3>1 DEF Member, Shown
  <2> QED BY <2>2, <2>3
<1> QED BY <1>3, <1>4

LEMMA AboutClear ==
  ASSUME NEW n \in Nics, NEW vs \in Seq(Vlans)
  PROVE  Each(vs, LAMBDA v : Leave(n, v, "no")) \in About(n)
<1> DEFINE f == [k \in DOMAIN vs |-> Leave(n, vs[k], "no")]
<1>1. DOMAIN vs = 1..Len(vs) /\ Len(vs) \in Nat /\ \A k \in DOMAIN vs : vs[k] \in Vlans
  OBVIOUS
<1>2. ASSUME NEW v \in Vlans
      PROVE  Leave(n, v, "no") \in About(n)
  <2> DEFINE a == Cmd("look", n, v, "no")
             b == Cmd("tidy", n, v, "no")
  <2>1. a \in Commands /\ b \in Commands /\ a.nic = n /\ b.nic = n
    BY CmdType DEF Dos, Bare, Cmd
  <2>2. Leave(n, v, "no") = <<a, b>>
    BY DEF Leave
  <2> HIDE DEF a, b
  <2>3. <<a, b>> \in Seq(Commands) /\ \A i \in 1..Len(<<a, b>>) : <<a, b>>[i] = a \/ <<a, b>>[i] = b
    BY <2>1
  <2> QED BY <2>1, <2>2, <2>3 DEF About
<1>3. f \in Seq(About(n))
  BY <1>1, <1>2
<1>4. Each(vs, LAMBDA v : Leave(n, v, "no")) = FlattenSeq(f)
  BY DEF Each
<1> HIDE DEF f
<1> QED BY <1>3, <1>4, AboutFlat

LEMMA ClearTurns ==
  ASSUME Typed, RowsInv, NEW t \in Threads, Clear(t)
  PROVE  RowsInv' /\ VT!Next
<1>1. PICK c, n : c = Cur(t) /\ n = c.nic
  OBVIOUS
<1>2. /\ job[t].todo # << >> /\ c.do = "clear" /\ UNCHANGED kernel /\ Keep
  BY <1>1 DEF Clear, Runs
<1>3. PICK vs \in LinesOf(n) : Then(t, Each(vs, LAMBDA v : Leave(n, v, "no")))
  <2>1. PICK vs \in LinesOf(Cur(t).nic) : Then(t, Each(vs, LAMBDA v : Leave(Cur(t).nic, v, "no")))
    BY DEF Clear
  <2>2. Each(vs, LAMBDA v : Leave(Cur(t).nic, v, "no")) = Each(vs, LAMBDA v : Leave(n, v, "no"))
    BY <1>1 DEF Each
  <2> QED BY <1>1, <2>1, <2>2
<1>4. PICK more : more = Each(vs, LAMBDA v : Leave(n, v, "no"))
  OBVIOUS
<1>5. goal' = goal /\ settled' = settled /\ Then(t, more)
  BY <1>2, <1>3, <1>4 DEF Keep, history
<1>6. c \in Commands /\ n \in job[t].on /\ JobOK(t)
  BY <1>1, <1>2, CurrentMine DEF PortDos
<1>7. n \in Nics /\ c.catch = "no"
  BY <1>1, <1>2, <1>6 DEF Commands, Bare
<1>8. vs \in Seq(Vlans) /\ \A i \in 1..Len(vs) : vs[i] \in job[t].uses
  <2>1. vs \in Seq(Vlans) /\ \A i \in 1..Len(vs) : vs[i] \in Vlans /\ Member(n, vs[i])
    BY <1>3, <1>7, LinesMember
  <2> QED BY <1>6, <2>1 DEF JobOK, Own
<1>9. more \in Proper(job[t].on, job[t].uses) /\ more \in About(n)
  BY <1>4, <1>6, <1>7, <1>8, ProperClear, AboutClear
<1>10. more \in Seq(Commands) /\ Fits(c, more) /\ (more # << >> => more[1].do \notin {"hasVLAN", "exists"})
  BY <1>2, <1>7, <1>9, ProperFits, ProperFollows
<1>11. \A i \in 1..Len(more) : /\ Mine(more[i], job[t].on, job[t].uses) /\ more[i].nic = n
                               /\ more[i].do # "delete"
  BY <1>9, ProperFollows DEF About
<1>12. c.do \in Lookers
  BY <1>2 DEF Lookers
<1>13. ASSUME NEW x \in Views, NEW z \in Views,
              Stands(t, n, x), Does(n, job[t].tagged, c, x, z)
       PROVE  \E u, w \in Views : /\ Stands(t, n, u)
                                  /\ Leads(more, n, job[t].tagged, u, w) /\ Knows(w, z)
  <2>1. PICK y, tagged : y = Reset(x) /\ tagged = job[t].tagged
    OBVIOUS
  <2>2. Does(n, tagged, c, y, z) /\ Stands(t, n, y) /\ y \in Views /\ y.bridges = {}
        /\ (y.master = "none" => y.clean)
    BY <1>12, <1>13, <2>1, ResetDoes, ResetStands, ResetView
  <2>3. Lists(y, vs)
    <3>1. Shown(n, y)
      BY <2>2 DEF Shown, Stands
    <3> QED BY <1>3, <1>7, <3>1, LinesList
  <2>4. Does(n, tagged, Cmd("clear", n, "none", "no"), y, z)
    BY <1>1, <1>2, <1>7, <2>2 DEF Does, Cmd, BridgesAfter, SubAfter, MasterAfter, Ready, Steady
  <2>5. \E w \in Views : Leads(more, n, tagged, y, w) /\ Knows(w, z)
    BY <1>4, <1>7, <1>13, <2>2, <2>3, <2>4, ClearLeads
  <2> QED BY <2>1, <2>2, <2>5
<1> QED BY <1>1, <1>2, <1>5, <1>10, <1>11, <1>12, <1>13, LookerTurns

LEMMA ProbeTurns ==
  ASSUME Typed, RowsInv, NEW t \in Threads, Probe(t)
  PROVE  RowsInv' /\ VT!Next
<1>1. PICK c, v, j : c = Cur(t) /\ v = c.vlan /\ j = job[t]
  OBVIOUS
<1>2. PICK seen : seen = IF c.do = "hasAddress" THEN IF v \in bridgeAddr THEN {"address"} ELSE {}
                         ELSE j.seen \cup (IF bridge[v] # "absent" THEN {"bridge"} ELSE {})
  OBVIOUS
<1>3. /\ j.todo # << >> /\ c.do \in {"hasAddress", "exists"} /\ UNCHANGED kernel /\ Keep
      /\ job' = [job EXCEPT ![t].seen = seen, ![t].todo = Tail(@)]
  BY <1>1, <1>2 DEF Probe, Runs
<1>4. goal' = goal /\ settled' = settled
  BY <1>3 DEF Keep, history
<1>5. /\ bridge' = bridge /\ master' = master /\ sub' = sub
      /\ nicAddr' = nicAddr /\ bridgeAddr' = bridgeAddr
  BY <1>3 DEF kernel
<1>6. c \in Commands /\ j \in Jobs /\ JobOK(t) /\ c = j.todo[1] /\ j.todo \in Seq(Commands)
  BY <1>1, <1>3, CurrentMine
<1>7. /\ \A o \in Threads \ {t} : job'[o] = job[o]
      /\ job'[t].todo = Tail(j.todo) /\ job'[t].seen = seen
      /\ job'[t].on = j.on /\ job'[t].sound = j.sound /\ job'[t].uses = j.uses
      /\ job'[t].tagged = j.tagged
  <2>1. job \in [Threads -> Jobs]
    BY DEF Typed
  <2>2. PICK todo : todo = Tail(j.todo)
    OBVIOUS
  <2>3. job' = [job EXCEPT ![t] = [job[t] EXCEPT !.seen = seen, !.todo = todo]]
    BY <1>1, <1>3, <2>1, <2>2 DEF Jobs
  <2>4. job'[t] = [job[t] EXCEPT !.seen = seen, !.todo = todo] /\ \A o \in Threads \ {t} : job'[o] = job[o]
    BY <2>1, <2>3
  <2> QED BY <1>1, <1>6, <2>2, <2>4 DEF Jobs
<1>8. Moves(t, << >>)
  <2>1. << >> \in Seq(Commands) /\ << >> \o Tail(j.todo) = Tail(j.todo)
    BY <1>3, <1>6, TailOf
  <2> QED BY <1>1, <1>3, <1>4, <1>7, <2>1 DEF Moves
<1>9. Near(t) /\ Local(t)
  <2>1. Near(t)
    BY <1>5 DEF Near
  <2> QED BY <1>8, <2>1, MovesLocal
<1>10. ASSUME j.sound # {}
       PROVE  Seen(t)'
  <2>1. PICK s, r : s = j.todo /\ r = Tail(s)
    OBVIOUS
  <2>2. SUFFICES ASSUME r # << >>, r[1].vlan \in bridgeAddr
                 PROVE  /\ r[1].do \in {"exists", "hasVLAN"} => "address" \in seen
                        /\ r[1].do = "hasVLAN" => "bridge" \in seen
    BY <1>5, <1>7, <2>1 DEF Seen
  <2>3. r \in Seq(Commands) /\ s \in Seq(Commands) /\ s # << >>
    BY <1>3, <1>6, <2>1, TailOf
  <2>4. 1 \in 1..Len(r)
    BY <2>2, <2>3, TailOf
  <2>5. 1 + 1 \in 1..Len(s) /\ r[1] = s[1 + 1]
    BY <2>1, <2>3, <2>4, TailOf
  <2>6. 1 + 1 = 2 /\ 2 > 1 /\ 2 - 1 = 1
    OBVIOUS
  <2>7. Probing(s, 2) /\ r[1] = s[2]
    BY <1>1, <1>6, <2>1, <2>5, <2>6 DEF JobOK, Kempt, Follows
  <2>8. /\ r[1].do = "hasVLAN" => c.do = "exists" /\ c.vlan = r[1].vlan
        /\ r[1].do = "exists" => c.do = "hasAddress" /\ c.vlan = r[1].vlan
    BY <1>6, <2>1, <2>6, <2>7 DEF Probing
  <2>9. ASSUME r[1].do = "exists"
        PROVE  "address" \in seen
    BY <1>1, <1>2, <2>2, <2>8, <2>9
  <2>10. ASSUME r[1].do = "hasVLAN"
         PROVE  "address" \in seen /\ "bridge" \in seen
    <3>1. c.do = "exists" /\ v \in bridgeAddr
      BY <1>1, <2>2, <2>8, <2>10
    <3>2. "address" \in j.seen
      BY <1>1, <1>3, <1>6, <1>10, <3>1 DEF JobOK, Seen
    <3>3. bridge[v] # "absent"
      BY <3>1 DEF RowsInv
    <3> QED BY <1>2, <3>1, <3>2, <3>3
  <2> QED BY <2>9, <2>10
<1>11. ASSUME NEW n \in j.sound
       PROVE  Onward(t, n, << >>)
  <2>1. SUFFICES ASSUME NEW x \in Views, NEW z \in Views,
                        Stands(t, n, x), Does(n, j.tagged, c, x, z)
                 PROVE  Stands(t, n, z)' /\ Leads(<< >>, n, j.tagged, z, z) /\ Knows(z, z)
    BY <1>1, <1>6 DEF Onward
  <2>2. /\ z.bridges = {} /\ z.sub = x.sub /\ z.master = x.master /\ x.addrs \subseteq z.addrs
        /\ z.clean => z.master = "none" \/ x.clean
    BY <1>3, <2>1 DEF Does, BridgesAfter, SubAfter, MasterAfter, Steady
  <2>3. x.master = "none" => Clean(n)
    <3>1. "none" \notin bridgeAddr
      BY VlanAssumption DEF Typed, TypeOK
    <3> QED BY <2>1, <3>1 DEF Stands, Clean
  <2>4. Stands(t, n, z)
    BY <2>1, <2>2, <2>3 DEF Stands
  <2>5. Stands(t, n, z)'
    BY <1>1, <1>3, <1>7, <2>4, StandsSame
  <2> QED BY <2>5, LeadsNone DEF Knows
<1>12. Fits(c, << >>)
  BY FitsNone
<1>13. \A i \in 1..Len(<< >>) : FALSE
  OBVIOUS
<1>14. \A w \in bridgeAddr' : bridge'[w] # "absent"
  BY <1>5 DEF RowsInv
<1>15. c.do # "down" /\ c.do # "flushNic"
  BY <1>3
<1>16. Turns(t, << >>)
  BY <1>1, <1>6, <1>8, <1>9, <1>10, <1>11, <1>12, <1>13, <1>14, <1>15 DEF Turns
<1> QED BY <1>16, TurnKeeps

-----------------------------------------------------------------------------
\* A handler ends.

LEMMA GoalNone ==
  ASSUME NEW g \in VT!Row \cup {Anything}
  PROVE  g # VT!None /\ VT!None = [row |-> "none"] /\ Anything \notin VT!Row
<1>1. VT!None = [row |-> "none"]
  BY DEF VT!None
<1>2. DOMAIN [row |-> "none"] = {"row"} /\ DOMAIN [row |-> "any"] = {"row"}
  OBVIOUS
<1>3. [row |-> "none"] # [row |-> "any"]
  <2>1. [row |-> "none"].row = "none" /\ [row |-> "any"].row = "any"
    OBVIOUS
  <2> QED BY <2>1
<1>4. \A r \in VT!Row : DOMAIN r = {"tagged", "untagged"}
  BY DEF VT!Row
<1>5. "row" \notin {"tagged", "untagged"}
  OBVIOUS
<1>6. [row |-> "none"] \notin VT!Row /\ [row |-> "any"] \notin VT!Row
  BY <1>2, <1>4, <1>5
<1> QED BY <1>1, <1>3, <1>6 DEF Anything

LEMMA IdleOK ==
  ASSUME NEW t \in Threads, job'[t] = Idle
  PROVE  JobOK(t)'
<1>1. /\ job'[t].todo = << >> /\ job'[t].on = {} /\ job'[t].sound = {} /\ job'[t].uses = {}
  BY DEF Idle
<1>2. \A i \in 1..Len(<< >>) : FALSE
  OBVIOUS
<1>3. Kempt(t)'
  BY <1>1, <1>2, FollowsNone DEF Kempt
<1>4. Seen(t)' /\ Deletes(t)' /\ Addresses(t)' /\ Own(t)'
  BY <1>1, <1>2 DEF Seen, Deletes, Addresses, Own
<1> QED BY <1>1, <1>3, <1>4 DEF JobOK

\* The handler of t is over, and the ports of S are settled.
LEMMA EndKeeps ==
  ASSUME Typed, RowsInv, NEW t \in Threads, job' = [job EXCEPT ![t] = Idle], goal' = goal,
         UNCHANGED kernel, NEW S \in SUBSET job[t].sound, settled' = settled \cup S,
         \A n \in S : goal[n] \in VT!Row /\ RowOf(n) = goal[n] /\ Rests(n)
  PROVE  RowsInv' /\ VT!Next
<1>1. /\ bridge' = bridge /\ master' = master /\ sub' = sub
      /\ nicAddr' = nicAddr /\ bridgeAddr' = bridgeAddr
  BY DEF kernel
<1>2. job'[t] = Idle /\ \A o \in Threads \ {t} : job'[o] = job[o]
  BY DEF Typed
<1>3. Idle.uses = {} /\ Idle.on = {} /\ Idle.sound = {}
  BY DEF Idle
<1>4. Apart'
  BY <1>2, <1>3 DEF RowsInv, Apart
<1>5. Local(t)
  <2>1. Near(t)
    BY <1>1 DEF Near
  <2> QED BY <1>2, <1>3, <1>4, <2>1 DEF Local
<1>6. \A o \in Threads : JobOK(o)'
  <2>1. JobOK(t)'
    BY <1>2, IdleOK
  <2>2. \A o \in Threads \ {t} : JobOK(o)'
    BY <1>5, OthersKeep
  <2> QED BY <2>1, <2>2
<1>7. job[t].sound \subseteq job[t].on
  BY DEF RowsInv, JobOK, Kempt
<1>8. /\ \A n : Busy(n)' => Busy(n)
      /\ \A n : n \notin job[t].on => (Busy(n)' <=> Busy(n))
      /\ \A n \in job[t].sound : ~Busy(n)'
  <2>1. ASSUME NEW n \in job[t].sound, NEW o \in Threads \ {t}
        PROVE  n \notin job[o].on
    BY <1>7, <2>1, Elsewhere
  <2>2. \A n : Busy(n)' <=> \E o \in Threads \ {t} : n \in job[o].on
    BY <1>2, <1>3 DEF Busy
  <2> QED BY <2>1, <2>2 DEF Busy
<1>9. \A n : Rests(n)' <=> Rests(n)
  BY <1>1 DEF Rests, Orphaned, Clean
<1>10. \A n \in settled' : Rests(n)' /\ ~Busy(n)'
  BY <1>7, <1>8, <1>9 DEF RowsInv
<1>11. RowsInv'
  BY <1>1, <1>4, <1>6, <1>10 DEF RowsInv
<1>12. ASSUME NEW n \in Nics
       PROVE  VT!Stays(n) \/ VT!Settles(n) \/ VT!GivesUp(n)
  <2>1. goal[n] \in VT!Row \cup {Anything} /\ goal'[n] = goal[n] /\ RowOf(n)' = RowOf(n)
    BY <1>1 DEF RowsInv, RowOf
  <2>2. CASE n \notin job[t].on
    <3>1. (Busy(n)' <=> Busy(n)) /\ (n \in settled' <=> n \in settled)
      BY <1>7, <1>8, <2>2
    <3> QED BY <2>1, <3>1 DEF VT!Stays
  <2>3. CASE n \in S
    <3>1. Busy(n) /\ ~Busy(n)' /\ n \in settled'
      BY <1>7, <1>8, <2>3 DEF Busy
    <3>2. goal[n] \in VT!Row /\ RowOf(n)' = goal[n]
      BY <2>1, <2>3
    <3> QED BY <3>1, <3>2 DEF VT!Settles, VT!None
  <2>4. CASE n \in job[t].on /\ n \notin S
    <3>1. Busy(n) /\ n \notin settled' /\ n \notin settled
      BY <2>4 DEF Busy, RowsInv
    <3>2. goal[n] # VT!None
      BY <2>1, GoalNone
    <3>3. CASE Busy(n)'
      BY <2>1, <3>1, <3>3 DEF VT!Stays
    <3>4. CASE ~Busy(n)'
      BY <3>1, <3>2, <3>4 DEF VT!GivesUp, VT!None, VT!Changing
    <3> QED BY <3>3, <3>4
  <2> QED BY <2>2, <2>3, <2>4
<1>13. VT!Next
  BY <1>12 DEF VT!Next
<1> QED BY <1>11, <1>13

\* With nothing left to run, the port shows the row it was to get.
LEMMA DueDone ==
  ASSUME Typed, RowsInv, NEW t \in Threads, job[t].todo = << >>, NEW n \in job[t].sound, n \notin Orphaned
  PROVE  goal[n] \in VT!Row /\ RowOf(n) = goal[n] /\ Rests(n)
<1>1. n \in Nics /\ goal[n] \in Rows /\ Due(t, n)
  BY DEF RowsInv, JobOK, Typed, Jobs
<1>2. PICK x, y \in Views : Stands(t, n, x) /\ Leads(<< >>, n, job[t].tagged, x, y) /\ Ends(y, goal[n])
  BY <1>1 DEF Due
<1>3. y = x
  BY <1>2, LeadsNone
<1>4. /\ {v \in Vlans : x.sub[v] = "member"} = goal[n].tagged
      /\ Vlans \cap {x.master} = goal[n].untagged
      /\ x.master = "none" \/ x.clean
      /\ x.master = master[n] /\ x.sub = [v \in Vlans |-> sub[<<n, v>>]]
  BY <1>2, <1>3 DEF Ends, Stands
<1>5. {v \in Vlans : x.sub[v] = "member"} = {v \in Vlans : sub[<<n, v>>] = "member"}
  BY <1>4
<1>6. goal[n] \in VT!Row /\ goal[n] = [tagged |-> goal[n].tagged, untagged |-> goal[n].untagged]
      /\ (goal[n].tagged = {} \/ goal[n].untagged = {})
  BY <1>1 DEF Rows, VT!Row
<1>7. RowOf(n) = goal[n]
  BY <1>4, <1>5, <1>6 DEF RowOf
<1>8. Clean(n)
  <2>1. "none" \notin bridgeAddr
    BY VlanAssumption DEF Typed, TypeOK
  <2> QED BY <1>2, <1>4, <2>1 DEF Stands, Clean
<1>9. master[n] = "none" \/ \A v \in Vlans : sub[<<n, v>>] = "absent"
  <2>1. CASE goal[n].untagged = {}
    <3>1. master[n] \in Vlans \cup {"none"}
      BY <1>1 DEF Typed, TypeOK
    <3> QED BY <1>4, <2>1, <3>1
  <2>2. CASE goal[n].tagged = {}
    <3>1. \A v \in Vlans : sub[<<n, v>>] \in {"absent", "free", "member"}
      BY <1>1 DEF Typed, TypeOK
    <3>2. \A v \in Vlans : sub[<<n, v>>] # "free"
      BY <1>1 DEF Orphaned
    <3>3. \A v \in Vlans : sub[<<n, v>>] # "member"
      BY <1>4, <1>5, <2>2
    <3> QED BY <3>1, <3>2, <3>3
  <2> QED BY <1>6, <2>1, <2>2
<1> QED BY <1>6, <1>7, <1>8, <1>9 DEF Rests

LEMMA ReturnEnds ==
  ASSUME Typed, RowsInv, NEW t \in Threads, Return(t)
  PROVE  RowsInv' /\ VT!Next
<1>1. PICK S : S = {n \in job[t].sound \ Orphaned : goal[n] # Anything}
  OBVIOUS
<1>2. /\ job[t].todo = << >> /\ job' = [job EXCEPT ![t] = Idle] /\ goal' = goal /\ UNCHANGED kernel
      /\ settled' = settled \cup S /\ S \in SUBSET job[t].sound
  BY <1>1 DEF Return
<1>3. \A n \in S : goal[n] \in VT!Row /\ RowOf(n) = goal[n] /\ Rests(n)
  BY <1>1, <1>2, DueDone
<1> QED BY <1>2, <1>3, EndKeeps

\* A command fails and nobody catches it.
LEMMA FailUncaught ==
  ASSUME Typed, RowsInv, NEW t \in Threads, Fail(t), Cur(t).catch = "no"
  PROVE  RowsInv' /\ VT!Next
<1>1. job' = [job EXCEPT ![t] = Idle] /\ goal' = goal /\ settled' = settled /\ UNCHANGED kernel
  BY DEF Fail
<1>2. PICK S : S = {}
  OBVIOUS
<1>3. S \in SUBSET job[t].sound /\ settled' = settled \cup S /\ \A n \in S : FALSE
  BY <1>1, <1>2
<1>4. \A n \in S : goal[n] \in VT!Row /\ RowOf(n) = goal[n] /\ Rests(n)
  BY <1>3
<1> QED BY <1>1, <1>3, <1>4, EndKeeps

\* A command fails in a try of its own.
LEMMA FailCaught ==
  ASSUME Typed, RowsInv, NEW t \in Threads, Fail(t), Cur(t).catch = "yes"
  PROVE  RowsInv' /\ VT!Next
<1>1. PICK c, s, j : c = Cur(t) /\ s = job[t].todo /\ j = [job[t] EXCEPT !.todo = Tail(s)]
  OBVIOUS
<1>2. /\ s # << >> /\ Impossible(c) /\ c.catch = "yes" /\ job' = [job EXCEPT ![t] = j]
      /\ goal' = goal /\ settled' = settled /\ UNCHANGED kernel
  BY <1>1 DEF Fail
<1>3. /\ c \in Commands /\ job[t] \in Jobs /\ JobOK(t) /\ c = s[1] /\ s \in Seq(Commands)
      /\ c.vlan \in Vlans => c.vlan \in job[t].uses
      /\ c.do \in PortDos => c.nic \in job[t].on
  BY <1>1, <1>2, CurrentMine
<1>4. /\ bridge' = bridge /\ master' = master /\ sub' = sub
      /\ nicAddr' = nicAddr /\ bridgeAddr' = bridgeAddr
  BY <1>2 DEF kernel
<1>5. Moves(t, << >>)
  <2>1. << >> \in Seq(Commands) /\ << >> \o Tail(s) = Tail(s)
    BY <1>2, <1>3, TailOf
  <2>2. job'[t] = j /\ \A o \in Threads \ {t} : job'[o] = job[o]
    BY <1>2 DEF Typed
  <2>3. PICK todo : todo = Tail(s)
    OBVIOUS
  <2>4. /\ j.todo = todo /\ j.on = job[t].on /\ j.sound = job[t].sound /\ j.uses = job[t].uses
        /\ j.tagged = job[t].tagged
    BY <1>1, <1>3, <2>3 DEF Jobs
  <2> QED BY <1>1, <1>2, <2>1, <2>2, <2>3, <2>4 DEF Moves
<1>6. Near(t) /\ Local(t)
  <2>1. Near(t)
    BY <1>4 DEF Near
  <2> QED BY <1>5, <2>1, MovesLocal
<1>7. c.do \notin {"hasAddress", "exists", "flushNic", "hasVLAN"}
  BY <1>2 DEF Impossible
<1>8. ASSUME NEW n \in job[t].sound
      PROVE  Onward(t, n, << >>)
  <2>1. SUFFICES ASSUME NEW x \in Views, NEW z \in Views,
                        Stands(t, n, x), Does(n, job[t].tagged, c, x, z)
                 PROVE  Stands(t, n, z)' /\ Leads(<< >>, n, job[t].tagged, z, z) /\ Knows(z, z)
    BY <1>1, <1>3 DEF Onward
  <2>2. c.nic = n => c.do = "addbr" \/ c.do \in Steady
    BY <1>2, <2>1 DEF Does, Ready
  <2>3. z.master = x.master
    BY <2>1, <2>2 DEF Does, MasterAfter, Steady
  <2>4. z.sub = x.sub
    <3>1. CASE c.nic # n
      BY <2>1, <3>1 DEF Does
    <3>2. CASE c.nic = n /\ c.do \in {"link", "linkGvrp", "addsub"}
      <4>1. c.vlan \in Vlans
        BY <1>3, <3>2 DEF Commands
      <4>2. x.sub[c.vlan] = sub[<<c.nic, c.vlan>>]
        BY <2>1, <3>2, <4>1 DEF Stands
      <4>3. CASE c.do \in {"link", "linkGvrp"}
        <5>1. sub[<<c.nic, c.vlan>>] # "absent"
          BY <1>2, <4>3 DEF Impossible
        <5> QED BY <1>2, <2>1, <3>2, <4>2, <4>3, <5>1 DEF Does, SubAfter
      <4>4. CASE c.do = "addsub"
        <5>1. c.vlan \in x.bridges
          BY <1>2, <2>1, <3>2, <4>4 DEF Does, Ready
        <5>2. bridge[c.vlan] # "absent"
          BY <2>1, <5>1 DEF Stands
        <5>3. sub[<<c.nic, c.vlan>>] # "free"
          BY <1>2, <4>4, <5>2 DEF Impossible
        <5> QED BY <1>2, <2>1, <3>2, <4>2, <4>4, <5>3 DEF Does, SubAfter
      <4> QED BY <3>2, <4>3, <4>4
    <3>3. CASE c.nic = n /\ c.do \notin {"link", "linkGvrp", "addsub"}
      BY <2>1, <2>2, <3>3 DEF Does, SubAfter, Steady
    <3> QED BY <3>1, <3>2, <3>3
  <2>5. ASSUME NEW v \in z.bridges
        PROVE  v \in job[t].uses /\ bridge[v] # "absent"
    <3>1. v \in BridgesAfter(c, x)
      BY <2>1 DEF Does
    <3>2. CASE v \in x.bridges
      BY <2>1, <3>2 DEF Stands
    <3>3. CASE v = c.vlan /\ c.do = "addbr"
      <4>1. c.vlan \in Vlans /\ bridge[c.vlan] # "absent"
        BY <1>2, <1>3, <3>3 DEF Commands, Impossible
      <4> QED BY <1>3, <3>3, <4>1
    <3> QED BY <3>1, <3>2, <3>3 DEF BridgesAfter
  <2>6. z.clean => z.master = "none" \/ x.clean
    BY <1>7, <2>1, <2>2 DEF Does, Steady
  <2>7. x.master = "none" => Clean(n)
    <3>1. "none" \notin bridgeAddr
      BY VlanAssumption DEF Typed, TypeOK
    <3> QED BY <2>1, <3>1 DEF Stands, Clean
  <2>8. x.addrs \subseteq z.addrs
    BY <2>1 DEF Does
  <2>9. Stands(t, n, z)
    BY <2>1, <2>3, <2>4, <2>5, <2>6, <2>7, <2>8 DEF Stands
  <2>10. Stands(t, n, z)'
    BY <1>2, <1>5, <2>9, StandsSame DEF Moves
  <2> QED BY <2>10, LeadsNone DEF Knows
<1>9. Fits(c, << >>)
  BY FitsNone
<1>10. \A i \in 1..Len(<< >>) : FALSE
  OBVIOUS
<1>11. \A w \in bridgeAddr' : bridge'[w] # "absent"
  BY <1>4 DEF RowsInv
<1>12. Turns(t, << >>)
  BY <1>1, <1>3, <1>4, <1>5, <1>6, <1>7, <1>8, <1>9, <1>10, <1>11 DEF Turns
<1> QED BY <1>12, TurnKeeps

\* The commands of s before the a-th are in a try, and about other ports than n.
Skips(s, a, n) == \A i \in 1..Len(s) : i < a => s[i].catch = "try" /\ s[i].nic # n

\* View z is x, or knows less, and nothing of the bridges.
Fades(x, z) == /\ z.master = x.master /\ z.sub = x.sub /\ z.bridges = {}
               /\ x.addrs \subseteq z.addrs
               /\ z.clean => x.clean \/ z.master = "none"

\* Such commands tell the view of a port nothing new.
LEMMA LeadsSkipped ==
  ASSUME NEW s \in Seq(Commands), NEW a \in Nat, a > 1, a <= Len(s), NEW n, NEW tagged,
         Skips(s, a, n),
         NEW x \in Views, NEW y \in Views, Leads(s, n, tagged, x, y),
         NEW r, r = SubSeq(s, a, Len(s))
  PROVE  \E z \in Views : Fades(x, z) /\ Leads(r, n, tagged, z, y)
<1>1. PICK q : Trace(s, n, tagged, q) /\ q[0] = x /\ q[Len(s)] = y
  BY DEF Leads
<1>2. PICK l : l = Len(s)
  OBVIOUS
<1>3. /\ l \in Nat /\ a <= l /\ q \in [0..l -> Views]
      /\ \A i \in 1..l : Does(n, tagged, s[i], q[i - 1], q[i])
  BY <1>1, <1>2 DEF Trace
<1> DEFINE Same(z) == /\ z.master = x.master /\ z.sub = x.sub
                      /\ x.addrs \subseteq z.addrs
                      /\ z.clean => x.clean \/ z.master = "none"
           Odd == {i \in 0..(a - 1) : ~ Same(q[i])}
<1>4. ASSUME NEW i \in 1..l, i < a, Same(q[i - 1])
      PROVE  Same(q[i]) /\ q[i].bridges = {}
  <2>1. PICK u, w, c : u = q[i - 1] /\ w = q[i] /\ c = s[i]
    OBVIOUS
  <2>2. Does(n, tagged, c, u, w) /\ c.catch = "try" /\ c.nic # n
    BY <1>2, <1>3, <1>4, <2>1 DEF Skips
  <2>3. w.bridges = {}
    BY <2>2 DEF Does, BridgesAfter
  <2>4. Same(w)
    BY <1>4, <2>1, <2>2 DEF Does
  <2> QED BY <2>1, <2>3, <2>4
<1>5. Same(q[0])
  BY <1>1
<1> HIDE DEF Same
<1>6. Odd = {}
  <2>1. SUFFICES ASSUME Odd # {} PROVE FALSE
    OBVIOUS
  <2>2. Odd \in SUBSET Nat
    BY <1>3
  <2>3. PICK m : m = Min(Odd)
    OBVIOUS
  <2>4. m \in Odd /\ \A i \in Odd : m <= i
    BY <2>1, <2>2, <2>3, FirstPosition
  <2>5. m \in 0..(a - 1) /\ ~ Same(q[m]) /\ m # 0
    BY <1>5, <2>4
  <2>6. m \in 1..l /\ m < a /\ m - 1 \in 0..(a - 1) /\ ~ (m <= m - 1)
    BY <1>3, <2>5
  <2>7. Same(q[m - 1])
    BY <2>4, <2>6
  <2> QED BY <1>4, <2>5, <2>6, <2>7
<1>7. PICK k : k = a - 1 /\ k \in Nat /\ k > 0 /\ k < a /\ k \in 1..l /\ k - 1 \in 0..(a - 1) /\ k \in 0..(a - 1)
  BY <1>3
<1>8. Same(q[k]) /\ q[k].bridges = {}
  <2>1. Same(q[k - 1])
    BY <1>6, <1>7
  <2> QED BY <1>4, <1>7, <2>1
<1>9. /\ r \in Seq(Commands)
      /\ \A i \in DOMAIN r : /\ i \in Nat /\ i > 0
                             /\ i + k \in DOMAIN s /\ r[i] = s[i + k]
  BY <1>7, RestPlaced
<1>10. Len(r) = l - k /\ Len(r) \in Nat
  <2>1. Len(r) = Len(s) - a + 1
    <3>1. \A i \in a..Len(s) : s[i] \in Commands
      <4>1. \A i \in a..Len(s) : i \in 1..Len(s)
        BY <1>2, <1>3
      <4> QED BY <4>1, ElementOfSeq
    <3> QED BY <1>2, <1>3, <3>1, SubSeqProperties
  <2> QED BY <1>2, <1>3, <1>7, <2>1
<1> DEFINE p == [i \in 0..Len(r) |-> q[i + k]]
<1>11. \A i \in 0..Len(r) : i + k \in 0..l
  BY <1>3, <1>7, <1>10
<1>12. Trace(r, n, tagged, p)
  <2>1. p \in [0..Len(r) -> Views]
    BY <1>3, <1>11
  <2>2. ASSUME NEW i \in 1..Len(r)
        PROVE  Does(n, tagged, r[i], p[i - 1], p[i])
    <3>1. i \in DOMAIN r /\ r[i] = s[i + k] /\ i + k \in 1..l
      BY <1>2, <1>3, <1>9
    <3>2. i \in 0..Len(r) /\ i - 1 \in 0..Len(r) /\ (i - 1) + k = (i + k) - 1
      BY <1>7, <1>10
    <3>3. p[i] = q[i + k] /\ p[i - 1] = q[(i + k) - 1]
      BY <3>2
    <3> QED BY <1>3, <3>1, <3>3
  <2> HIDE DEF p
  <2> QED BY <2>1, <2>2 DEF Trace
<1>13. p[0] = q[k] /\ p[Len(r)] = y
  <2>1. 0 \in 0..Len(r) /\ Len(r) \in 0..Len(r) /\ 0 + k = k /\ Len(r) + k = l
    BY <1>3, <1>7, <1>10
  <2>2. p[0] = q[0 + k] /\ p[Len(r)] = q[Len(r) + k]
    BY <2>1
  <2> QED BY <1>1, <1>2, <2>1, <2>2
<1> HIDE DEF p
<1>14. Leads(r, n, tagged, q[k], y) /\ q[k] \in Views
  BY <1>3, <1>7, <1>12, <1>13 DEF Leads
<1> QED BY <1>8, <1>14 DEF Same, Fades

\* A command fails in a try that it shares with others: they are left out.
LEMMA FailTried ==
  ASSUME Typed, AllSound, RowsInv, NEW t \in Threads, Fail(t), Cur(t).catch = "try"
  PROVE  RowsInv' /\ VT!Next
<1>0. PICK c, s, a, r, j : /\ c = Cur(t) /\ s = job[t].todo /\ a = SelectInSeq(s, LAMBDA x : x.catch # "try")
                           /\ r = SubSeq(s, a, Len(s)) /\ j = [job[t] EXCEPT !.todo = r]
  OBVIOUS
<1>1. c = Cur(t) /\ s = job[t].todo /\ r = SubSeq(s, a, Len(s)) /\ j = [job[t] EXCEPT !.todo = r]
  BY <1>0
<1>2. /\ s # << >> /\ Impossible(c) /\ c.catch = "try" /\ job' = [job EXCEPT ![t] = j]
      /\ goal' = goal /\ settled' = settled /\ UNCHANGED kernel
  BY <1>0 DEF Fail
<1>3. c \in Commands /\ job[t] \in Jobs /\ JobOK(t) /\ c = s[1] /\ s \in Seq(Commands) /\ 1 \in 1..Len(s)
  BY <1>1, <1>2, CurrentMine
<1>4. /\ bridge' = bridge /\ master' = master /\ sub' = sub
      /\ nicAddr' = nicAddr /\ bridgeAddr' = bridgeAddr
  BY <1>2 DEF kernel
<1>5. /\ a \in Nat /\ a > 1 /\ a <= Len(s) /\ Len(s) \in Nat /\ DOMAIN s = 1..Len(s)
      /\ \A i \in 1..Len(s) : i < a => s[i].catch = "try"
      /\ \A i \in 1..Len(s) : i >= a => s[i].catch # "try"
  <2>1. Guarded(s)
    BY <1>0 DEF AllSound
  <2>2. DOMAIN s = 1..Len(s) /\ Len(s) \in Nat
    BY <1>3
  <2>3. /\ s \in Seq(Commands) /\ Guarded(s) /\ s # << >> /\ s[1].catch = "try"
        /\ a = SelectInSeq(s, LAMBDA x : x.catch # "try")
    BY <1>0, <1>2, <1>3, <2>1
  <2>4. /\ a \in Nat /\ a > 1 /\ a <= Len(s)
        /\ \A i \in DOMAIN s : i < a => s[i].vlan = s[1].vlan /\ s[i].catch = "try"
        /\ \A i \in DOMAIN s : i >= a => s[i].catch # "try"
    BY <2>3, AfterTry
  <2> QED BY <2>2, <2>4
<1>6. PICK k : k = a - 1 /\ k \in Nat /\ k > 0
  BY <1>5
<1>7. /\ r \in Seq(Commands) /\ Len(r) \in Nat /\ DOMAIN r = 1..Len(r)
      /\ \A i \in 1..Len(r) : i + k \in 1..Len(s) /\ i + k >= a /\ r[i] = s[i + k]
      /\ \A i \in 1..Len(s) : i >= a => \E q \in 1..Len(r) : r[q] = s[i]
  <2>1. /\ r \in Seq(Commands) /\ Placed(s, a - 1, r, 1 - a)
        /\ \A i \in DOMAIN r : /\ i \in Nat /\ i > 0
                               /\ i + (a - 1) \in DOMAIN s /\ r[i] = s[i + (a - 1)]
    <3>1. s \in Seq(Commands) /\ a \in Nat /\ a > 1 /\ a <= Len(s) /\ r = SubSeq(s, a, Len(s))
      BY <1>1, <1>3, <1>5
    <3> QED BY <3>1, RestPlaced, Zenon
  <2>2. Len(r) \in Nat /\ DOMAIN r = 1..Len(r)
    BY <2>1
  <2>3. \A i \in 1..Len(s) : i >= a => i + (1 - a) \in DOMAIN r /\ r[i + (1 - a)] = s[i]
    <3>1. ASSUME NEW i \in 1..Len(s), i >= a
          PROVE  i + (1 - a) \in DOMAIN r /\ r[i + (1 - a)] = s[i]
      <4>1. i \in DOMAIN s /\ i > a - 1
        BY <1>5, <3>1
      <4> QED BY <2>1, <4>1 DEF Placed
    <3> QED BY <3>1
  <2>4. \A i \in 1..Len(r) : i + k \in 1..Len(s) /\ r[i] = s[i + k]
    BY <1>5, <1>6, <2>1, <2>2
  <2>5. \A i \in 1..Len(r) : i + k >= a
    BY <1>5, <1>6, <2>2
  <2> QED BY <2>1, <2>2, <2>3, <2>4, <2>5
<1>8. Len(s) = Len(r) + k
  <2>1. Len(r) = Len(s) - a + 1
    <3>1. \A i \in a..Len(s) : i \in 1..Len(s)
      BY <1>5
    <3>2. \A i \in a..Len(s) : s[i] \in Commands
      BY <1>3, <3>1, ElementOfSeq
    <3> QED BY <1>1, <1>3, <1>5, <3>2, SubSeqProperties
  <2> QED BY <1>5, <1>6, <1>7, <2>1
<1>9. /\ \A o \in Threads \ {t} : job'[o] = job[o]
      /\ job'[t].todo = r /\ job'[t].on = job[t].on /\ job'[t].sound = job[t].sound
      /\ job'[t].uses = job[t].uses /\ job'[t].tagged = job[t].tagged
  <2>1. job'[t] = j /\ \A o \in Threads \ {t} : job'[o] = job[o]
    BY <1>2 DEF Typed
  <2>2. j = [job[t] EXCEPT !.todo = r] /\ job[t] \in Jobs
    BY <1>1, <1>3
  <2>3. /\ j.todo = r /\ j.on = job[t].on /\ j.sound = job[t].sound
        /\ j.uses = job[t].uses /\ j.tagged = job[t].tagged
    BY <2>2 DEF Jobs
  <2> QED BY <2>1, <2>3
<1>10. Local(t)
  <2>1. Near(t)
    BY <1>4 DEF Near
  <2>2. \A o \in Threads : job'[o].uses = job[o].uses
    BY <1>9
  <2>3. Apart'
    BY <2>2 DEF RowsInv, Apart
  <2> QED BY <1>2, <1>9, <2>1, <2>3 DEF Local
<1>11. \A i \in 1..Len(r) : r[i].catch # "try"
  BY <1>5, <1>7
<1>12. /\ Follows(s)
       /\ \A i \in 1..Len(s) : Mine(s[i], job[t].on, job[t].uses)
       /\ job[t].on \subseteq job[t].uses /\ job[t].sound \subseteq job[t].on
  BY <1>1, <1>3 DEF JobOK, Kempt
<1>13. \A i \in 1..Len(s) : i < a => s[i].do \in TryDos /\ s[i].nic = c.nic
  <2>1. ASSUME NEW i \in 1..Len(s), i < a
        PROVE  s[i].do \in TryDos /\ s[i].nic = c.nic
    <3>1. s[i].catch = "try" /\ 1 \in 1..i
      BY <1>5, <2>1
    <3> QED BY <1>3, <1>12, <3>1 DEF Follows
  <2> QED BY <2>1
<1>14. Kempt(t)'
  <2>1. ASSUME NEW i \in 1..Len(r)
        PROVE  /\ Mine(r[i], job[t].on, job[t].uses)
               /\ i > 1 => Probing(r, i)
               /\ r[i].do = "delete" => i = 1
               /\ r[i].do = "address" => i = Len(r)
    <3>1. PICK e : e = i + k /\ e \in 1..Len(s) /\ e > 1 /\ r[i] = s[e]
      BY <1>5, <1>7
    <3>2. Mine(s[e], job[t].on, job[t].uses)
      BY <1>12, <3>1
    <3>3. s[e].do = "delete" => e = 2
      BY <1>12, <3>1 DEF Follows
    <3>4. s[e].do = "address" => e = Len(s)
      BY <1>12, <3>1 DEF Follows
    <3>5. r[i].do = "delete" => i = 1
      BY <1>6, <3>1, <3>3
    <3>6. r[i].do = "address" => i = Len(r)
      <4>1. PICK m : m = Len(r) /\ m \in Nat /\ Len(s) = m + k /\ i \in 1..m
        BY <1>7, <1>8
      <4>2. r[i].do = "address" => i + k = m + k
        BY <3>1, <3>4, <4>1
      <4> QED BY <1>6, <4>1, <4>2
    <3>7. ASSUME i > 1
          PROVE  Probing(r, i)
      <4>1. i - 1 \in 1..Len(r) /\ (i - 1) + k = e - 1
        <5>1. PICK m : m = Len(r) /\ m \in Nat /\ i \in 1..m
          BY <1>7
        <5> QED BY <1>6, <3>1, <3>7, <5>1
      <4>2. r[i - 1] = s[e - 1]
        BY <1>7, <4>1
      <4>3. Probing(s, e)
        BY <1>12, <3>1 DEF Follows
      <4> QED BY <3>1, <4>2, <4>3 DEF Probing
    <3> QED BY <3>1, <3>2, <3>5, <3>6, <3>7
  <2>2. Follows(r)
    BY <1>11, <2>1 DEF Follows
  <2> QED BY <1>9, <1>12, <2>1, <2>2 DEF Kempt
<1>15. Seen(t)'
  <2>1. SUFFICES ASSUME r # << >>
                 PROVE  r[1].do \notin {"exists", "hasVLAN"}
    BY <1>9 DEF Seen
  <2>2. 1 \in 1..Len(r)
    BY <1>7, <2>1, TailOf
  <2>3. 1 + k = a /\ a \in 1..Len(s) /\ a - 1 \in 1..Len(s) /\ a - 1 < a
    BY <1>5, <1>6
  <2>4. r[1] = s[a]
    BY <1>7, <2>2, <2>3
  <2>5. s[a - 1].do \in TryDos
    BY <1>13, <2>3
  <2>6. Probing(s, a)
    BY <1>5, <1>12, <2>3 DEF Follows
  <2> QED BY <2>4, <2>5, <2>6 DEF Probing, TryDos
<1>16. Deletes(t)'
  <2>1. \A i \in 1..Len(s) : s[i].do = "delete" =>
          \A n \in Nics : Member(n, s[i].vlan) => ~ Promised(n)
    BY <1>1, <1>3 DEF JobOK, Deletes
  <2>2. \A i \in 1..Len(r) : r[i].do = "delete" =>
          \A n \in Nics : Member(n, r[i].vlan) => ~ Promised(n)
    BY <1>7, <2>1
  <2>3. \A n : Promised(n)' => Promised(n)
    BY <1>2, <1>9 DEF Promised
  <2>4. \A n, v : Member(n, v)' <=> Member(n, v)
    BY <1>4 DEF Member
  <2> QED BY <1>9, <2>2, <2>3, <2>4 DEF Deletes
<1>17. Addresses(t)'
  <2>1. SUFFICES ASSUME NEW i \in 1..Len(r), r[i].do = "address"
                 PROVE  /\ job[t].on = {}
                        /\ \A n \in settled : master[n] = r[i].vlan =>
                             n \notin nicAddr \/ \E q \in 1..Len(r) : r[q].do = "flushNic" /\ r[q].nic = n
    BY <1>2, <1>4, <1>9 DEF Addresses
  <2>2. PICK e \in 1..Len(s) : r[i] = s[e]
    BY <1>7
  <2>3. /\ job[t].on = {}
        /\ \A n \in settled : master[n] = s[e].vlan =>
             n \notin nicAddr \/ \E q \in 1..Len(s) : s[q].do = "flushNic" /\ s[q].nic = n
    BY <1>1, <1>3, <2>1, <2>2 DEF JobOK, Addresses
  <2>4. ASSUME NEW n, NEW q \in 1..Len(s), s[q].do = "flushNic", s[q].nic = n
        PROVE  \E p \in 1..Len(r) : r[p].do = "flushNic" /\ r[p].nic = n
    <3>1. q >= a
      BY <1>5, <1>13, <2>4 DEF TryDos
    <3> QED BY <1>7, <2>4, <3>1
  <2> QED BY <2>2, <2>3, <2>4
<1>18. Own(t)'
  BY <1>3, <1>4, <1>9 DEF JobOK, Own, Member
<1>19. ASSUME NEW n \in job[t].sound
       PROVE  Due(t, n)'
  <2>1. PICK x \in Views, y \in Views : /\ Stands(t, n, x) /\ Leads(s, n, job[t].tagged, x, y)
                                        /\ Ends(y, goal[n])
    BY <1>1, <1>3 DEF JobOK, Due
  <2>2. c.nic # n
    <3>1. SUFFICES ASSUME c.nic = n PROVE FALSE
      OBVIOUS
    <3>2. PICK z \in Views : Does(n, job[t].tagged, s[1], x, z)
      BY <1>2, <1>3, <2>1, LeadsFirst
    <3>3. c.do \in {"look", "subDown", "unlink"} /\ x.sub[c.vlan] # "absent"
      BY <1>2, <1>3, <3>1, <3>2 DEF Does, Ready
    <3>4. c.vlan \in Vlans
      BY <1>3, <3>3 DEF Commands
    <3>5. sub[<<c.nic, c.vlan>>] # "absent"
      BY <2>1, <3>1, <3>3, <3>4 DEF Stands
    <3> QED BY <1>2, <3>3, <3>5 DEF Impossible
  <2>3. Skips(s, a, n)
    BY <1>5, <1>13, <2>2 DEF Skips
  <2>4. PICK z \in Views : Fades(x, z) /\ Leads(r, n, job[t].tagged, z, y)
    <3>1. a \in Nat /\ a > 1 /\ a <= Len(s) /\ s \in Seq(Commands) /\ r = SubSeq(s, a, Len(s))
      BY <1>1, <1>3, <1>5
    <3> QED BY <2>1, <2>3, <3>1, LeadsSkipped
  <2>5. x.master = "none" => Clean(n)
    <3>1. "none" \notin bridgeAddr
      BY VlanAssumption DEF Typed, TypeOK
    <3> QED BY <2>1, <3>1 DEF Stands, Clean
  <2>6. Stands(t, n, z)
    BY <2>1, <2>4, <2>5 DEF Stands, Fades
  <2>7. Stands(t, n, z)'
    BY <1>2, <1>9, <2>6, StandsSame
  <2>8. Leads(job'[t].todo, n, job'[t].tagged, z, y) /\ Ends(y, goal'[n])
    BY <1>2, <1>9, <2>1, <2>4
  <2> QED BY <2>7, <2>8 DEF Due
<1>20. \A n \in job'[t].sound : goal'[n] \in Rows /\ Due(t, n)'
  BY <1>2, <1>3, <1>9, <1>19 DEF JobOK
<1>21. JobOK(t)'
  <2>1. job[t].sound # {} => Solo(t)'
    BY <1>3, <1>9 DEF JobOK, Solo
  <2> QED BY <1>9, <1>14, <1>15, <1>16, <1>17, <1>18, <1>20, <2>1 DEF JobOK
<1>22. \A w \in bridgeAddr' : bridge'[w] # "absent"
  BY <1>4 DEF RowsInv
<1> QED BY <1>2, <1>9, <1>10, <1>21, <1>22, RowsStay

LEMMA FailTurns ==
  ASSUME Typed, AllSound, RowsInv, NEW t \in Threads, Fail(t)
  PROVE  RowsInv' /\ VT!Next
<1>1. Cur(t) \in Commands
  BY Current DEF Fail
<1>2. Cur(t).catch \in {"no", "yes", "try"}
  BY <1>1 DEF Commands
<1> QED BY <1>2, FailUncaught, FailCaught, FailTried

LEMMA CrashEnds ==
  ASSUME Typed, RowsInv, Crash
  PROVE  RowsInv' /\ VT!Next
<1>1. /\ job' = [t \in Threads |-> Idle]
      /\ goal' = [n \in Nics |-> IF Busy(n) THEN Anything ELSE goal[n]]
      /\ UNCHANGED kernel /\ settled' = settled
  BY DEF Crash
<1>2. /\ bridge' = bridge /\ master' = master /\ sub' = sub
      /\ nicAddr' = nicAddr /\ bridgeAddr' = bridgeAddr
  BY <1>1 DEF kernel
<1>3. \A t \in Threads : job'[t] = Idle
  BY <1>1
<1>4. /\ \A n : ~ Busy(n)'
      /\ Apart'
  BY <1>3 DEF Busy, Apart, Idle
<1>5. \A t \in Threads : JobOK(t)'
  BY <1>3, IdleOK
<1>6. goal' \in [Nics -> VT!Row \cup {Anything}]
  BY <1>1 DEF RowsInv
<1>7. \A n \in settled' : Rests(n)' /\ ~ Busy(n)'
  <2>1. \A n : Rests(n)' <=> Rests(n)
    BY <1>2 DEF Rests, Orphaned, Clean
  <2> QED BY <1>1, <1>4, <2>1 DEF RowsInv
<1>8. RowsInv'
  BY <1>2, <1>4, <1>5, <1>6, <1>7 DEF RowsInv
<1>9. ASSUME NEW n \in Nics
      PROVE  VT!Stays(n) \/ VT!GivesUp(n)
  <2>1. goal[n] \in VT!Row \cup {Anything} /\ RowOf(n)' = RowOf(n)
    BY <1>2 DEF RowsInv, RowOf
  <2>2. CASE ~ Busy(n)
    BY <1>1, <1>4, <2>1, <2>2 DEF VT!Stays
  <2>3. CASE Busy(n)
    <3>1. n \notin settled' /\ goal[n] # VT!None
      BY <1>1, <2>1, <2>3, GoalNone DEF RowsInv
    <3> QED BY <1>4, <2>3, <3>1 DEF VT!GivesUp, VT!None, VT!Changing
  <2> QED BY <2>2, <2>3
<1>10. VT!Next
  BY <1>9 DEF VT!Next
<1> QED BY <1>8, <1>10

-----------------------------------------------------------------------------
\* A handler starts.

\* The threads that work on a port or VLAN of the call, and what all of them work on.
Meets(c) == {o \in Threads : job[o].uses \cap Touches(c) # {}}
Shares(c) == Touches(c) \cup UNION {job[o].uses : o \in Meets(c)}

\* A handler that begins promises nothing if it meets others, nor do they any more; the
\* rest of the threads share no port and no VLAN with any of them.
LEMMA Meeting ==
  ASSUME Typed, RowsInv, NEW t \in Threads, job[t] = Idle, NEW c \in Forms, NEW j \in Jobs,
         Enter(t, c, j)
  PROVE  /\ job'[t].todo = j.todo /\ job'[t].on = j.on /\ job'[t].tagged = j.tagged
         /\ job'[t].uses = Shares(c) /\ job'[t].sound = IF Meets(c) = {} THEN j.sound ELSE {}
         /\ t \notin Meets(c)
         /\ \A o \in Meets(c) :
              /\ job'[o].todo = job[o].todo /\ job'[o].on = job[o].on
              /\ job'[o].uses = Shares(c) /\ job'[o].sound = {} /\ job[o].uses \subseteq Shares(c)
         /\ \A o \in Threads \ {t} : o \notin Meets(c) =>
              job'[o] = job[o] /\ job[o].uses \cap Shares(c) = {}
<1>1. PICK near, uses : near = Meets(c) /\ uses = Shares(c)
  OBVIOUS
<1>2. job' = [o \in Threads |->
                IF o = t THEN [j EXCEPT !.uses = uses, !.sound = IF near = {} THEN @ ELSE {}]
                ELSE IF o \in near THEN [job[o] EXCEPT !.uses = uses, !.sound = {}]
                ELSE job[o]]
  BY <1>1 DEF Enter, Meets, Shares
<1>3. t \notin near
  BY <1>1 DEF Meets, Idle
<1>4. /\ job'[t].todo = j.todo /\ job'[t].on = j.on /\ job'[t].tagged = j.tagged
      /\ job'[t].uses = uses /\ job'[t].sound = IF near = {} THEN j.sound ELSE {}
  <2>1. job'[t] = [j EXCEPT !.uses = uses, !.sound = IF near = {} THEN @ ELSE {}]
    BY <1>2
  <2> QED BY <2>1 DEF Jobs
<1>5. ASSUME NEW o \in near
      PROVE  /\ job'[o].todo = job[o].todo /\ job'[o].on = job[o].on
             /\ job'[o].uses = uses /\ job'[o].sound = {} /\ job[o].uses \subseteq uses
  <2>1. o \in Threads /\ o # t
    BY <1>1, <1>3 DEF Meets
  <2>2. job'[o] = [job[o] EXCEPT !.uses = uses, !.sound = {}] /\ job[o] \in Jobs
    BY <1>2, <2>1 DEF Typed
  <2>3. job[o].uses \subseteq uses
    BY <1>1 DEF Shares
  <2> QED BY <2>2, <2>3 DEF Jobs
<1>6. ASSUME NEW o \in Threads \ {t}, o \notin near
      PROVE  job'[o] = job[o] /\ job[o].uses \cap uses = {}
  <2>1. job'[o] = job[o]
    BY <1>2, <1>6
  <2>2. job[o].uses \cap Touches(c) = {}
    BY <1>1, <1>6 DEF Meets
  <2>3. ASSUME NEW p \in near
        PROVE  job[o].uses \cap job[p].uses = {}
    <3>1. p \in Threads /\ job[p].uses \cap Touches(c) # {}
      BY <1>1 DEF Meets
    <3>2. job[o].uses # job[p].uses
      BY <2>2, <3>1
    <3> QED BY <3>1, <3>2 DEF RowsInv, Apart
  <2> QED BY <1>1, <2>1, <2>2, <2>3 DEF Shares
<1> QED BY <1>1, <1>3, <1>4, <1>5, <1>6

\* An idle thread begins job j of call c.
LEMMA Begun ==
  ASSUME Typed, RowsInv, NEW t \in Threads, job[t] = Idle, NEW c \in Forms, NEW j \in Jobs,
         Enter(t, c, j), UNCHANGED kernel, settled' = settled \ j.on,
         j.on \subseteq Touches(c), j.sound \subseteq j.on,
         \A n \in j.on, v \in Vlans : Member(n, v) => v \in Touches(c),
         goal' \in [Nics -> VT!Row \cup {Anything}],
         \A n \in Nics : n \notin j.on => goal'[n] = goal[n],
         \A n \in j.on : Busy(n) => goal'[n] = Anything,
         JobOK(t)'
  PROVE  RowsInv' /\ VT!Next
<1>1. /\ bridge' = bridge /\ master' = master /\ sub' = sub
      /\ nicAddr' = nicAddr /\ bridgeAddr' = bridgeAddr
  BY DEF kernel
<1>2. PICK near, uses : near = Meets(c) /\ uses = Shares(c)
  OBVIOUS
<1>3. /\ job'[t].on = j.on /\ job'[t].uses = uses
      /\ job'[t].sound = IF near = {} THEN j.sound ELSE {}
      /\ t \notin near
      /\ \A o \in near :
           /\ job'[o].todo = job[o].todo /\ job'[o].on = job[o].on
           /\ job'[o].uses = uses /\ job'[o].sound = {} /\ job[o].uses \subseteq uses
      /\ \A o \in Threads \ {t} : o \notin near =>
           job'[o] = job[o] /\ job[o].uses \cap uses = {}
  BY <1>2, Meeting
<1>4. near \subseteq Threads /\ Touches(c) \subseteq uses
  BY <1>2 DEF Meets, Shares
<1>5. Apart'
  <2>1. ASSUME NEW o \in Threads, NEW p \in Threads
        PROVE  job'[o].uses = job'[p].uses \/ job'[o].uses \cap job'[p].uses = {}
    <3>1. \A q \in Threads : \/ job'[q].uses = uses
                             \/ job'[q].uses = job[q].uses /\ job[q].uses \cap uses = {}
      BY <1>3
    <3>2. job[o].uses = job[p].uses \/ job[o].uses \cap job[p].uses = {}
      BY DEF RowsInv, Apart
    <3> QED BY <3>1, <3>2
  <2> QED BY <2>1 DEF Apart
<1>6. \A n, v : Member(n, v)' <=> Member(n, v)
  BY <1>1 DEF Member
<1>7. ASSUME NEW n, Promised(n)'
      PROVE  Promised(n) \/ (n \in job'[t].sound /\ near = {} /\ n \in j.on)
  <2>1. CASE n \in settled'
    BY <2>1 DEF Promised
  <2>2. CASE n \in job'[t].sound
    BY <1>3, <2>2
  <2>3. ASSUME NEW o \in Threads \ {t}, n \in job'[o].sound
        PROVE  n \in job[o].sound
    BY <1>3, <2>3
  <2> QED BY <1>7, <2>1, <2>2, <2>3 DEF Promised
<1>8. ASSUME NEW o \in Threads \ {t}
      PROVE  JobOK(o)'
  <2>1. /\ JobOK(o) /\ job[o] \in Jobs
        /\ job'[o].todo = job[o].todo /\ job'[o].on = job[o].on
        /\ job[o].uses \subseteq job'[o].uses
    BY <1>3 DEF RowsInv, Typed
  <2>2. PICK s : s = job[o].todo
    OBVIOUS
  <2>3. s \in Seq(Commands) /\ \A i \in 1..Len(s) : s[i] \in Commands
    BY <2>1, <2>2, LenProperties DEF Jobs
  <2>4. job'[o].sound \subseteq job'[o].on
    BY <1>3, <2>1 DEF JobOK, Kempt
  <2>5. Kempt(o)'
    BY <2>1, <2>4 DEF JobOK, Kempt, Mine
  <2>6. Own(o)'
    BY <1>6, <2>1 DEF JobOK, Own
  <2>7. Deletes(o)'
    <3>1. SUFFICES ASSUME NEW i \in 1..Len(s), s[i].do = "delete", NEW n \in Nics,
                          Member(n, s[i].vlan), Promised(n)'
                   PROVE  FALSE
      BY <1>6, <2>1, <2>2 DEF Deletes
    <3>2. ~ Promised(n)
      BY <2>1, <2>2, <3>1 DEF JobOK, Deletes
    <3>3. near = {} /\ n \in j.on
      BY <1>7, <3>1, <3>2
    <3>4. s[i].vlan \in Vlans
      BY <2>3, <3>1 DEF Commands
    <3>5. s[i].vlan \in job[o].uses
      BY <2>1, <2>2, <3>4, VlanAssumption DEF JobOK, Kempt, Mine
    <3>6. s[i].vlan \in Touches(c)
      BY <3>1, <3>3, <3>4
    <3>7. o \in near
      BY <1>2, <3>5, <3>6 DEF Meets
    <3> QED BY <3>3, <3>7
  <2>8. Addresses(o)'
    <3>1. settled' \subseteq settled
      OBVIOUS
    <3> QED BY <1>1, <2>1, <3>1 DEF JobOK, Addresses
  <2>9. ASSUME job'[o].sound # {}
        PROVE  /\ Solo(o)' /\ Seen(o)'
               /\ \A n \in job'[o].sound : goal'[n] \in Rows /\ Due(o, n)'
    <3>1. o \notin near /\ job'[o] = job[o] /\ job[o].uses \cap uses = {}
      BY <1>3, <2>9
    <3>2. Solo(o)'
      <4>1. ASSUME NEW p \in Threads \ {o}
            PROVE  job'[o].uses \cap job'[p].uses = {}
        <5>1. job[o].uses \cap job[p].uses = {}
          BY <2>1, <2>9, <3>1 DEF JobOK, Solo
        <5>2. job'[p].uses = uses \/ job'[p].uses = job[p].uses
          BY <1>3
        <5> QED BY <3>1, <5>1, <5>2
      <4> QED BY <4>1 DEF Solo
    <3>3. Seen(o)'
      BY <1>1, <2>1, <2>9, <3>1 DEF JobOK, Seen
    <3>4. ASSUME NEW n \in job'[o].sound
          PROVE  goal'[n] \in Rows /\ Due(o, n)'
      <4>1. n \in job[o].sound /\ n \in job[o].uses /\ n \in Nics
        BY <2>1, <3>1 DEF JobOK, Kempt, Jobs
      <4>2. n \notin j.on
        BY <1>4, <3>1, <4>1
      <4>3. goal'[n] = goal[n] /\ goal[n] \in Rows /\ Due(o, n)
        BY <2>1, <4>1, <4>2 DEF JobOK
      <4>4. PICK x \in Views, y \in Views : /\ Stands(o, n, x) /\ Leads(s, n, job[o].tagged, x, y)
                                           /\ Ends(y, goal[n])
        BY <2>2, <4>3 DEF Due
      <4>5. Stands(o, n, x)'
        BY <3>1, <4>4, StandsSame
      <4> QED BY <2>2, <3>1, <4>3, <4>4, <4>5 DEF Due
    <3> QED BY <3>2, <3>3, <3>4
  <2> QED BY <2>5, <2>6, <2>7, <2>8, <2>9 DEF JobOK
<1>9. \A n : Busy(n)' <=> Busy(n) \/ n \in j.on
  <2>1. job[t].on = {}
    BY DEF Idle
  <2>2. \A o \in Threads \ {t} : job'[o].on = job[o].on
    BY <1>3
  <2> QED BY <1>3, <2>1, <2>2 DEF Busy
<1>10. \A n \in settled' : Rests(n)' /\ ~ Busy(n)'
  <2>1. \A n : Rests(n)' <=> Rests(n)
    BY <1>1 DEF Rests, Orphaned, Clean
  <2> QED BY <1>9, <2>1 DEF RowsInv
<1>11. RowsInv'
  <2>1. \A o \in Threads : JobOK(o)'
    BY <1>8
  <2> QED BY <1>1, <1>5, <1>10, <2>1 DEF RowsInv
<1>12. ASSUME NEW n \in Nics
       PROVE  VT!Stays(n) \/ VT!Begins(n) \/ VT!Clashes(n)
  <2>1. CASE n \notin j.on
    <3>1. /\ (Busy(n)' <=> Busy(n)) /\ (n \in settled' <=> n \in settled)
          /\ goal'[n] = goal[n] /\ RowOf(n)' = RowOf(n)
      BY <1>1, <1>9, <2>1 DEF RowOf
    <3> QED BY <3>1 DEF VT!Stays
  <2>2. CASE n \in j.on /\ ~ Busy(n)
    <3>1. Busy(n)' /\ n \notin settled' /\ goal'[n] \in VT!Row \cup {Anything}
      BY <1>9, <2>2
    <3> QED BY <2>2, <3>1 DEF VT!Begins, VT!None, VT!Changing, VT!Anything, Anything
  <2>3. CASE n \in j.on /\ Busy(n)
    <3>1. Busy(n)' /\ n \notin settled' /\ goal'[n] = Anything
      BY <1>9, <2>3
    <3>2. goal[n] # VT!None
      <4>1. goal[n] \in VT!Row \cup {Anything}
        BY DEF RowsInv
      <4> QED BY <4>1, GoalNone
    <3> QED BY <2>3, <3>1, <3>2 DEF VT!Clashes, VT!None, VT!Changing, VT!Anything, Anything
  <2> QED BY <2>1, <2>2, <2>3
<1>13. VT!Next
  BY <1>12 DEF VT!Next
<1> QED BY <1>11, <1>13

\* Nobody updates the ports of a call that meets nobody.
LEMMA Unmet ==
  ASSUME RowsInv, NEW c, Meets(c) = {}, NEW n \in Touches(c)
  PROVE  ~ Busy(n)
<1>1. \A o \in Threads : job[o].on \subseteq job[o].uses
  BY DEF RowsInv, JobOK, Kempt
<1> QED BY <1>1 DEF Meets, Busy

\* A job that is well begun: its program takes the ports it promises to their rows.
LEMMA ProperStart ==
  ASSUME Typed, RowsInv, NEW t \in Threads, job[t] = Idle, NEW c \in Forms, NEW j \in Jobs,
         Enter(t, c, j), UNCHANGED kernel,
         j.todo \in Proper(j.on, Touches(c)), j.on \subseteq Touches(c), j.sound \subseteq j.on,
         \A n \in j.on, v \in Vlans : Member(n, v) => v \in Touches(c),
         Meets(c) = {} => \A n \in j.sound :
           /\ goal'[n] \in Rows
           /\ \E y \in Views : Leads(j.todo, n, j.tagged, ViewOf(n), y) /\ Ends(y, goal'[n])
  PROVE  JobOK(t)'
<1>1. /\ bridge' = bridge /\ master' = master /\ sub' = sub
      /\ nicAddr' = nicAddr /\ bridgeAddr' = bridgeAddr
  BY DEF kernel
<1>2. PICK s : s = j.todo
  OBVIOUS
<1>3. /\ s \in Seq(Commands) /\ Follows(s)
      /\ \A i \in 1..Len(s) : Mine(s[i], j.on, Touches(c)) /\ s[i].do \notin {"delete", "address"} /\ s[i].catch # "try"
      /\ s # << >> => s[1].do \notin {"hasVLAN", "exists"}
  BY <1>2, ProperFollows
<1>4. /\ job'[t].todo = s /\ job'[t].on = j.on /\ job'[t].tagged = j.tagged
      /\ Touches(c) \subseteq job'[t].uses
      /\ job'[t].sound # {} => job'[t].sound = j.sound /\ Meets(c) = {} /\ Solo(t)'
  <2>1. /\ job'[t].todo = j.todo /\ job'[t].on = j.on /\ job'[t].tagged = j.tagged
        /\ job'[t].uses = Shares(c) /\ job'[t].sound = IF Meets(c) = {} THEN j.sound ELSE {}
        /\ \A o \in Threads \ {t} : o \notin Meets(c) => job'[o] = job[o] /\ job[o].uses \cap Shares(c) = {}
    BY Meeting
  <2>2. Meets(c) = {} => Solo(t)'
    BY <2>1 DEF Solo
  <2> QED BY <1>2, <2>1, <2>2 DEF Shares
<1>5. Kempt(t)'
  <2>1. \A i \in 1..Len(s) : Mine(s[i], job'[t].on, job'[t].uses)
    BY <1>3, <1>4 DEF Mine
  <2> QED BY <1>3, <1>4, <2>1 DEF Kempt
<1>6. Seen(t)' /\ Deletes(t)' /\ Addresses(t)'
  BY <1>3, <1>4 DEF Seen, Deletes, Addresses
<1>7. Own(t)'
  BY <1>1, <1>4 DEF Own, Member
<1>8. ASSUME NEW n \in job'[t].sound
      PROVE  goal'[n] \in Rows /\ Due(t, n)'
  <2>1. n \in j.sound /\ Meets(c) = {}
    BY <1>4
  <2>2. PICK y \in Views : Leads(s, n, j.tagged, ViewOf(n), y) /\ Ends(y, goal'[n])
    BY <1>2, <2>1
  <2>3. PICK x : x = ViewOf(n)
    OBVIOUS
  <2>4. x \in Views /\ Shown(n, x)
    BY <2>1, <2>3, ViewType DEF Jobs
  <2>5. x.bridges = {} /\ x.addrs = bridgeAddr /\ x.clean = FALSE
    BY <2>3 DEF ViewOf
  <2>6. Stands(t, n, x)'
    BY <1>1, <2>4, <2>5 DEF Stands, Shown
  <2> QED BY <1>4, <2>1, <2>2, <2>3, <2>4, <2>6 DEF Due
<1> QED BY <1>4, <1>5, <1>6, <1>7, <1>8 DEF JobOK

LEMMA RowAskedType ==
  ASSUME NEW c \in Forms, c.op = "edit"
  PROVE  RowAsked(c) \in Rows /\ RowAsked(c) \in VT!Row
<1>1. c.vlans \in Seq(Vlans) /\ ToSet(c.vlans) \in SUBSET Vlans
  BY Elements DEF Forms
<1>2. c.vlans # << >> => Last(c.vlans) \in Vlans
  <2>1. ASSUME c.vlans # << >>
        PROVE  c.vlans[Len(c.vlans)] \in Vlans
    <3>1. Len(c.vlans) \in 1..Len(c.vlans)
      BY <1>1, <2>1, TailOf
    <3> QED BY <1>1, <3>1, ElementOfSeq
  <2> QED BY <2>1 DEF Last
<1>3. CASE c.tagged
  BY <1>1, <1>3 DEF RowAsked, Rows, VT!Row
<1>4. CASE ~ c.tagged
  BY <1>2, <1>4 DEF RowAsked, Rows, VT!Row
<1> QED BY <1>3, <1>4

LEMMA EditStarts ==
  ASSUME Typed, RowsInv, NEW t \in Threads, NEW c \in Forms, Edit(t, c)
  PROVE  RowsInv' /\ VT!Next
<1>1. PICK j, n : /\ n = c.nic
                  /\ j = [op |-> "edit", todo |-> EditProg(c), tagged |-> c.tagged,
                          gvrp |-> c.gvrp, seen |-> {}, on |-> {n},
                          sound |-> {n} \ Orphaned, uses |-> {}]
  OBVIOUS
<1>2. /\ job[t] = Idle /\ c.op = "edit" /\ Enter(t, c, j)
      /\ UNCHANGED kernel /\ Claim({n}, [m \in {n} |-> RowAsked(c)])
  BY <1>1 DEF Edit, MayStart
<1>3. c.nic \in Nics /\ c.tagged \in BOOLEAN /\ c.gvrp \in BOOLEAN /\ c.vlans \in Seq(Vlans)
  BY <1>2 DEF Forms
<1>4. Touches(c) = {n} \cup ToSet(c.vlans) \cup {v \in Vlans : Member(n, v)}
  BY <1>1, <1>2 DEF Touches
<1>5. /\ j.todo = EditProg(c) /\ j.tagged = c.tagged /\ j.on = {n}
      /\ j.sound = {n} \ Orphaned
  BY <1>1
<1>6. EditProg(c) \in Proper({n}, Touches(c)) /\ EditProg(c) \in Seq(Commands)
  <2>1. EditProg(c) \in Proper({n}, Touches(c))
    BY <1>1, <1>2, <1>4, ProperEdit
  <2> QED BY <2>1 DEF Proper
<1>7. j \in Jobs
  BY <1>1, <1>3, <1>6 DEF Jobs
<1>8. Meets(c) = {} => ~ Busy(n)
  BY <1>4, Unmet
<1>9. /\ settled' = settled \ {n} /\ goal'[n] = IF Busy(n) THEN Anything ELSE RowAsked(c)
      /\ goal' \in [Nics -> VT!Row \cup {Anything}] /\ \A m \in Nics : m # n => goal'[m] = goal[m]
  <2>1. goal' = [m \in Nics |-> IF m # n THEN goal[m] ELSE IF Busy(m) THEN Anything ELSE RowAsked(c)]
    <3>1. goal' = [m \in Nics |-> IF m \notin {n} THEN goal[m]
                                  ELSE IF Busy(m) THEN Anything ELSE [p \in {n} |-> RowAsked(c)][m]]
      BY <1>2 DEF Claim
    <3> QED BY <3>1
  <2>2. RowAsked(c) \in VT!Row
    BY <1>2, RowAskedType
  <2>3. settled' = settled \ {n}
    BY <1>2 DEF Claim
  <2> QED BY <1>1, <1>3, <2>1, <2>2, <2>3 DEF RowsInv
<1>10. ASSUME n \notin Orphaned
       PROVE  \E y \in Views : Leads(EditProg(c), n, c.tagged, ViewOf(n), y) /\ Ends(y, RowAsked(c))
  <2>1. PICK x : x = ViewOf(n)
    OBVIOUS
  <2>2. x \in Views /\ Shown(n, x) /\ x.bridges = {}
    BY <1>1, <1>3, <2>1, ViewType DEF ViewOf
  <2>3. \A v \in Vlans : x.sub[v] # "free"
    BY <1>1, <1>3, <1>10, <2>2 DEF Shown, Orphaned
  <2> QED BY <1>1, <1>2, <2>1, <2>2, <2>3, EditLeads
<1>11. /\ \A m \in j.on, v \in Vlans : Member(m, v) => v \in Touches(c)
       /\ j.todo \in Proper(j.on, Touches(c)) /\ j.on \subseteq Touches(c) /\ j.sound \subseteq j.on
  BY <1>4, <1>5, <1>6
<1>12. JobOK(t)'
  <2>1. \A m \in j.sound : m = n /\ n \notin Orphaned
    BY <1>5
  <2>2. RowAsked(c) \in Rows
    BY <1>2, RowAskedType
  <2>3. ASSUME Meets(c) = {}, NEW m \in j.sound
        PROVE  /\ goal'[m] \in Rows
               /\ \E y \in Views : Leads(j.todo, m, j.tagged, ViewOf(m), y) /\ Ends(y, goal'[m])
    BY <1>5, <1>8, <1>9, <1>10, <2>1, <2>2, <2>3
  <2> QED BY <1>2, <1>7, <1>11, <2>3, ProperStart
<1>13. /\ settled' = settled \ j.on
       /\ \A m \in Nics : m \notin j.on => goal'[m] = goal[m]
       /\ \A m \in j.on : Busy(m) => goal'[m] = Anything
  BY <1>5, <1>9
<1> QED BY <1>2, <1>7, <1>9, <1>11, <1>12, <1>13, Begun

\* A settled port with a sub-interface carries what its lines name tagged, and nothing else.
LEMMA SettledCarries ==
  ASSUME Typed, RowsInv, NEW n \in settled, GVRPEnabled(n), NEW vs \in LinesOf(n)
  PROVE  Carries(ViewOf(n), vs) /\ master[n] = "none"
<1>1. n \in Nics /\ Rests(n)
  BY DEF Typed, TypeOK, RowsInv
<1>2. master[n] = "none"
  <2>1. PICK v \in Vlans : <<n, v>> \in gvrp
    BY DEF GVRPEnabled
  <2>2. sub[<<n, v>>] # "absent"
    BY <2>1 DEF Typed, TypeOK
  <2> QED BY <1>1, <2>2 DEF Rests
<1>3. vs \in Seq(Vlans) /\ \A i \in 1..Len(vs) : Member(n, vs[i])
  BY <1>1, LinesMember
<1>4. PICK x : x = ViewOf(n)
  OBVIOUS
<1>5. x \in Views /\ Shown(n, x) /\ x.bridges = {}
  BY <1>1, <1>4, ViewType DEF ViewOf
<1>6. ASSUME NEW i \in 1..Len(vs)
      PROVE  x.sub[vs[i]] = "member"
  <2>1. vs[i] \in Vlans /\ Member(n, vs[i])
    BY <1>3
  <2>2. sub[<<n, vs[i]>>] = "member"
    BY <1>2, <2>1, VlanAssumption DEF Member
  <2> QED BY <1>5, <2>1, <2>2 DEF Shown
<1> QED BY <1>2, <1>4, <1>5, <1>6 DEF Carries

\* The row a settled port is to get by a frame.
FrameRow(n, c) == [RowOf(n) EXCEPT !.tagged = (@ \cup ToSet(c.adds)) \ ToSet(c.removes)]

LEMMA FrameRowType ==
  ASSUME Typed, NEW n \in Nics, master[n] = "none", NEW c \in Forms, c.op = "frame"
  PROVE  /\ FrameRow(n, c) = FrameEnd(c, ViewOf(n))
         /\ FrameRow(n, c) \in Rows /\ FrameRow(n, c) \in VT!Row
<1>1. ToSet(c.adds) \in SUBSET Vlans
  BY Elements DEF Forms
<1>2. PICK A, R, S : A = ToSet(c.adds) /\ R = ToSet(c.removes) /\ S = {v \in Vlans : sub[<<n, v>>] = "member"}
  OBVIOUS
<1>3. {v \in Vlans : ViewOf(n).sub[v] = "member"} = S
  BY <1>2 DEF ViewOf
<1>4. Vlans \cap {master[n]} = {}
  BY VlanAssumption
<1>5. RowOf(n) = [tagged |-> S, untagged |-> {}]
  BY <1>2, <1>4 DEF RowOf
<1>6. FrameRow(n, c) = [tagged |-> (S \cup A) \ R, untagged |-> {}]
  <2>1. PICK g : g = RowOf(n)
    OBVIOUS
  <2>2. FrameRow(n, c) = [g EXCEPT !.tagged = (g.tagged \cup A) \ R]
    BY <1>2, <2>1 DEF FrameRow
  <2>3. g = [tagged |-> S, untagged |-> {}]
    BY <1>5, <2>1
  <2> QED BY <2>2, <2>3
<1>7. (S \cup A) \ R \in SUBSET Vlans
  BY <1>1, <1>2
<1>8. [tagged |-> (S \cup A) \ R, untagged |-> {}] \in Rows /\ [tagged |-> (S \cup A) \ R, untagged |-> {}] \in VT!Row
  BY <1>7 DEF Rows, VT!Row
<1> QED BY <1>2, <1>3, <1>6, <1>8 DEF FrameEnd

LEMMA FrameStarts ==
  ASSUME Typed, RowsInv, NEW t \in Threads, NEW c \in Forms, AnalyseFrame(t, c)
  PROVE  RowsInv' /\ VT!Next
<1>1. PICK on, nics : on = {n \in Nics : GVRPEnabled(n)} /\ nics = SetToSeq(on)
  OBVIOUS
<1>2. PICK had \in [on -> UNION {LinesOf(n) : n \in on}] :
        /\ \A n \in on : had[n] \in LinesOf(n)
        /\ Enter(t, c, [Idle EXCEPT !.op = "frame", !.on = on, !.sound = on \cap settled,
                                    !.todo = FrameProg(c, nics, had)])
        /\ Claim(on, [n \in on |-> IF n \notin settled THEN Anything ELSE FrameRow(n, c)])
  BY <1>1 DEF AnalyseFrame, FrameRow
<1>3. job[t] = Idle /\ c.op = "frame" /\ UNCHANGED kernel
  BY DEF AnalyseFrame, MayStart
<1>4. PICK j, prog : /\ prog = FrameProg(c, nics, had)
                     /\ j = [Idle EXCEPT !.op = "frame", !.on = on, !.sound = on \cap settled,
                                         !.todo = prog]
  OBVIOUS
<1>5. Enter(t, c, j)
  BY <1>2, <1>4
<1>6. /\ on \subseteq Touches(c) /\ ToSet(c.adds) \subseteq Touches(c) /\ ToSet(c.removes) \subseteq Touches(c)
      /\ \A n \in on, v \in Vlans : Member(n, v) => v \in Touches(c)
  BY <1>1, <1>3 DEF Touches
<1>7. on \in SUBSET Nics /\ IsFiniteSet(on)
  BY <1>1, VlanAssumption, FS_Subset
<1>8. /\ nics \in Seq(on)
      /\ \A n \in on : \E p \in 1..Len(nics) : nics[p] = n
      /\ \A i, k \in 1..Len(nics) : nics[i] = nics[k] => i = k
  <2>1. /\ SetToSeq(on) \in Seq(on)
        /\ \A x \in on : \E i \in 1..Len(SetToSeq(on)) : SetToSeq(on)[i] = x
        /\ \A i, k \in 1..Len(SetToSeq(on)) : SetToSeq(on)[i] = SetToSeq(on)[k] => i = k
    BY <1>7, Listed, Zenon
  <2> QED BY <1>1, <2>1
<1>9. had \in [on -> Seq(Vlans)]
  <2>1. \A n \in on : had[n] \in Seq(Vlans)
    BY <1>2, <1>7, LinesMember
  <2> QED BY <1>2, <2>1
<1>10. prog \in Proper(on, Touches(c)) /\ prog \in Seq(Commands)
  <2>1. ASSUME NEW n \in on, NEW i \in 1..Len(had[n])
        PROVE  had[n][i] \in Touches(c)
    <3>1. n \in Nics /\ had[n] \in LinesOf(n)
      BY <1>2, <1>7
    <3>2. had[n] \in Seq(Vlans) /\ Member(n, had[n][i])
      BY <3>1, LinesMember
    <3>3. had[n][i] \in Vlans
      BY <3>2, ElementOfSeq
    <3> QED BY <1>6, <3>2, <3>3
  <2>2. prog \in Proper(on, Touches(c))
    BY <1>3, <1>4, <1>6, <1>7, <1>8, <1>9, <2>1, ProperFrame
  <2> QED BY <2>2 DEF Proper
<1>11. j.todo = prog /\ j.tagged = FALSE /\ j.on = on /\ j.sound = on \cap settled /\ j \in Jobs
  BY <1>4, <1>7, <1>10 DEF Idle, Jobs
<1>12. Meets(c) = {} => \A n \in on : ~ Busy(n)
  BY <1>6, Unmet
<1>13. ASSUME NEW n \in on \cap settled
       PROVE  /\ n \in Nics /\ Carries(ViewOf(n), had[n]) /\ master[n] = "none"
              /\ FrameRow(n, c) \in Rows /\ FrameRow(n, c) \in VT!Row
  <2>1. n \in Nics /\ GVRPEnabled(n) /\ had[n] \in LinesOf(n)
    BY <1>1, <1>2
  <2>2. Carries(ViewOf(n), had[n]) /\ master[n] = "none"
    BY <2>1, SettledCarries
  <2> QED BY <1>3, <2>1, <2>2, FrameRowType
<1>14. /\ settled' = settled \ on /\ goal' \in [Nics -> VT!Row \cup {Anything}]
       /\ \A n \in Nics : n \notin on => goal'[n] = goal[n]
       /\ \A n \in on : Busy(n) => goal'[n] = Anything
       /\ \A n \in on \cap settled : ~ Busy(n) => goal'[n] = FrameRow(n, c)
  <2>1. PICK rows : rows = [n \in on |-> IF n \notin settled THEN Anything ELSE FrameRow(n, c)]
    OBVIOUS
  <2>2. /\ goal' = [n \in Nics |-> IF n \notin on THEN goal[n] ELSE IF Busy(n) THEN Anything ELSE rows[n]]
        /\ settled' = settled \ on
    BY <1>2, <2>1 DEF Claim
  <2>3. \A n \in on : rows[n] \in VT!Row \cup {Anything}
    BY <1>13, <2>1
  <2>4. \A n \in on \cap settled : rows[n] = FrameRow(n, c)
    BY <2>1
  <2>5. goal \in [Nics -> VT!Row \cup {Anything}]
    BY DEF RowsInv
  <2>6. goal' \in [Nics -> VT!Row \cup {Anything}]
    BY <2>2, <2>3, <2>5
  <2> QED BY <1>7, <2>2, <2>4, <2>6
<1>15. ASSUME NEW n \in on \cap settled
       PROVE  \E y \in Views : Leads(prog, n, j.tagged, ViewOf(n), y) /\ Ends(y, FrameRow(n, c))
  <2>1. PICK p \in 1..Len(nics) : nics[p] = n
    BY <1>8
  <2>2. Listing(n, on, nics, p)
    BY <1>7, <1>8, <1>13, <2>1 DEF Listing
  <2>3. ViewOf(n).master = "none" /\ Carries(ViewOf(n), had[n])
    BY <1>13 DEF ViewOf
  <2>4. PICK x : x = ViewOf(n) /\ x.master = "none" /\ Carries(x, had[n])
    BY <2>3
  <2>5. \E y \in Views : Leads(FrameProg(c, nics, had), n, j.tagged, x, y) /\ Ends(y, FrameEnd(c, x))
    BY <1>3, <1>9, <2>2, <2>4, FrameLeads
  <2>6. FrameRow(n, c) = FrameEnd(c, x)
    BY <1>3, <1>13, <2>4, FrameRowType
  <2> QED BY <1>4, <2>4, <2>5, <2>6
<1>16. /\ \A n \in j.on, v \in Vlans : Member(n, v) => v \in Touches(c)
       /\ j.todo \in Proper(j.on, Touches(c)) /\ j.on \subseteq Touches(c) /\ j.sound \subseteq j.on
  BY <1>6, <1>10, <1>11
<1>17. JobOK(t)'
  <2>1. ASSUME Meets(c) = {}, NEW n \in j.sound
        PROVE  /\ goal'[n] \in Rows
               /\ \E y \in Views : Leads(j.todo, n, j.tagged, ViewOf(n), y) /\ Ends(y, goal'[n])
    <3>1. n \in on \cap settled /\ ~ Busy(n)
      BY <1>11, <1>12, <2>1
    <3>2. goal'[n] = FrameRow(n, c) /\ FrameRow(n, c) \in Rows
      BY <1>13, <1>14, <3>1
    <3> QED BY <1>11, <1>15, <3>1, <3>2
  <2> QED BY <1>3, <1>5, <1>11, <1>16, <2>1, ProperStart
<1>18. /\ settled' = settled \ j.on
       /\ \A n \in Nics : n \notin j.on => goal'[n] = goal[n]
       /\ \A n \in j.on : Busy(n) => goal'[n] = Anything
  BY <1>11, <1>14
<1> QED BY <1>3, <1>5, <1>11, <1>14, <1>16, <1>17, <1>18, Begun

\* Commands of the address page of VLAN v that flush addresses of ports.
Flushes(v) == {s \in Seq(Commands) :
                 \A i \in 1..Len(s) : s[i].do = "flushNic" /\ s[i].catch = "yes" /\ s[i].vlan = v}

\* Among the commands of s, port n is flushed.
Flushed(s, n) == \E i \in 1..Len(s) : s[i].do = "flushNic" /\ s[i].nic = n

LEMMA FlushesAppend ==
  ASSUME NEW v, NEW a \in Flushes(v), NEW c \in Commands, c.do = "flushNic", c.catch = "yes", c.vlan = v
  PROVE  /\ a \o <<c>> \in Flushes(v) /\ Flushed(a \o <<c>>, c.nic)
         /\ \A n : Flushed(a, n) => Flushed(a \o <<c>>, n)
<1>1. PICK s, l : s = a \o <<c>> /\ l = Len(a)
  OBVIOUS
<1>2. a \in Seq(Commands) /\ \A i \in 1..Len(a) : a[i].do = "flushNic" /\ a[i].catch = "yes" /\ a[i].vlan = v
  BY DEF Flushes
<1>3. l \in Nat
  BY <1>1, <1>2
<1>4. /\ s \in Seq(Commands) /\ Len(s) = l + 1
      /\ \A i \in 1..(l + 1) : s[i] = IF i <= l THEN a[i] ELSE c
  <2>1. <<c>> \in Seq(Commands) /\ Len(<<c>>) = 1 /\ <<c>>[1] = c
    OBVIOUS
  <2>2. PICK b : b = <<c>>
    OBVIOUS
  <2>3. b \in Seq(Commands) /\ Len(b) = 1 /\ b[1] = c /\ s = a \o b
    BY <1>1, <2>1, <2>2
  <2>4. /\ s \in Seq(Commands) /\ Len(s) = Len(a) + Len(b)
        /\ \A i \in 1..Len(a) + Len(b) : s[i] = IF i <= Len(a) THEN a[i] ELSE b[i - Len(a)]
    BY <1>2, <2>3, ConcatProperties
  <2>5. \A i \in 1..(l + 1) : ~ (i <= l) => i - l = 1
    BY <1>3
  <2> QED BY <1>1, <1>3, <2>3, <2>4, <2>5
<1>5. l + 1 \in 1..(l + 1) /\ ~ (l + 1 <= l) /\ \A i \in 1..l : i \in 1..(l + 1) /\ i <= l
  BY <1>3
<1>6. s \in Flushes(v)
  <2>1. ASSUME NEW i \in 1..Len(s)
        PROVE  s[i].do = "flushNic" /\ s[i].catch = "yes" /\ s[i].vlan = v
    <3>1. i \in 1..(l + 1)
      BY <1>4
    <3>2. CASE i <= l
      <4>1. i \in 1..l /\ s[i] = a[i]
        BY <1>3, <1>4, <3>1, <3>2
      <4> QED BY <1>1, <1>2, <4>1
    <3>3. CASE ~ (i <= l)
      BY <1>4, <3>1, <3>3
    <3> QED BY <3>2, <3>3
  <2> QED BY <1>4, <2>1 DEF Flushes
<1>7. Flushed(s, c.nic)
  BY <1>4, <1>5 DEF Flushed
<1>8. ASSUME NEW n, Flushed(a, n)
      PROVE  Flushed(s, n)
  <2>1. PICK i \in 1..l : a[i].do = "flushNic" /\ a[i].nic = n
    BY <1>1, <1>8 DEF Flushed
  <2> QED BY <1>4, <1>5, <2>1 DEF Flushed
<1> QED BY <1>1, <1>6, <1>7, <1>8

\* EditBridge flushes each of the ports of nics.
FlushAll(nics, v) == Each(nics, LAMBDA n : <<Cmd("flushNic", n, v, "yes")>>)

LEMMA AllFlushed ==
  ASSUME NEW v \in Vlans, NEW nics \in Seq(Nics)
  PROVE  /\ FlushAll(nics, v) \in Flushes(v)
         /\ \A k \in 1..Len(nics) : Flushed(FlushAll(nics, v), nics[k])
<1> DEFINE f == [k \in DOMAIN nics |-> <<Cmd("flushNic", nics[k], v, "yes")>>]
<1>1. Len(nics) \in Nat /\ DOMAIN nics = 1..Len(nics) /\ \A k \in 1..Len(nics) : nics[k] \in Nics
  OBVIOUS
<1>2. PICK l : l = Len(nics)
  OBVIOUS
<1>3. \A k \in 1..l : Cmd("flushNic", nics[k], v, "yes") \in Commands
  BY <1>1, <1>2, CmdType DEF Dos, Bare
<1>4. f \in Seq(Seq(Commands)) /\ Len(f) = l /\ \A k \in 1..l : f[k] = <<Cmd("flushNic", nics[k], v, "yes")>>
  <2>1. \A k \in 1..l : <<Cmd("flushNic", nics[k], v, "yes")>> \in Seq(Commands)
    BY <1>3
  <2>2. f = [k \in 1..l |-> <<Cmd("flushNic", nics[k], v, "yes")>>]
    BY <1>1, <1>2
  <2>3. f \in [1..l -> Seq(Commands)]
    BY <2>1, <2>2
  <2> QED BY <1>1, <1>2, <2>2, <2>3
<1>5. FlushAll(nics, v) = FlattenSeq(f)
  BY DEF Each, FlushAll
<1> HIDE DEF f
<1> DEFINE H == [k \in 0..l |-> {a \in Flushes(v) : \A i \in 1..k : Flushed(a, nics[i])}]
<1>6. H \in [0..Len(f) -> SUBSET Seq(Commands)]
  BY <1>4 DEF Flushes
<1>7. << >> \in H[0]
  <2>1. 0 \in 0..l /\ \A i \in 1..0 : FALSE
    BY <1>1, <1>2
  <2>2. << >> \in Flushes(v)
    BY DEF Flushes
  <2> QED BY <2>1, <2>2
<1>8. ASSUME NEW k \in 1..Len(f), NEW a \in H[k - 1]
      PROVE  a \o f[k] \in H[k]
  <2>1. k \in 1..l /\ k \in 0..l /\ k - 1 \in 0..l /\ \A i \in 1..k : i = k \/ i \in 1..(k - 1)
    BY <1>1, <1>2, <1>4, <1>8
  <2>2. a \in Flushes(v) /\ \A i \in 1..(k - 1) : Flushed(a, nics[i])
    BY <1>8, <2>1
  <2>3. PICK c : c = Cmd("flushNic", nics[k], v, "yes")
    OBVIOUS
  <2>4. c \in Commands /\ c.do = "flushNic" /\ c.catch = "yes" /\ c.vlan = v /\ c.nic = nics[k]
    BY <1>3, <2>1, <2>3 DEF Cmd
  <2>5. f[k] = <<c>>
    BY <1>4, <2>1, <2>3
  <2>6. /\ a \o f[k] \in Flushes(v) /\ Flushed(a \o f[k], nics[k])
        /\ \A n : Flushed(a, n) => Flushed(a \o f[k], n)
    BY <2>2, <2>4, <2>5, FlushesAppend
  <2>7. \A i \in 1..k : Flushed(a \o f[k], nics[i])
    BY <2>1, <2>2, <2>6
  <2> QED BY <2>1, <2>6, <2>7
<1>9. l \in 0..l /\ Len(f) = l
  BY <1>1, <1>2, <1>4
<1>10. FlattenSeq(f) \in H[l]
  <2> HIDE DEF H
  <2> QED BY <1>4, <1>6, <1>7, <1>8, <1>9, FlattenedInStages
<1> QED BY <1>2, <1>5, <1>9, <1>10

\* The program of the address page.
LEMMA AddressFollows ==
  ASSUME NEW c \in Forms, c.op = "address", NEW nics \in Seq(Nics), NEW s, s = AddressProg(c, nics)
  PROVE  /\ s \in Seq(Commands) /\ Follows(s)
         /\ \A i \in 1..Len(s) : /\ s[i].do \in {"flushNic", "flushBridge", "address"}
                                 /\ s[i].catch = "yes" /\ s[i].vlan = c.vlan
         /\ \A k \in 1..Len(nics) : Flushed(s, nics[k])
<1>1. c.vlan \in Vlans
  BY DEF Forms
<1>2. PICK a, d, e : /\ a = FlushAll(nics, c.vlan)
                     /\ d = Cmd("flushBridge", "none", c.vlan, "yes")
                     /\ e = Cmd("address", "none", c.vlan, "yes")
  OBVIOUS
<1>3. s = a \o <<d, e>>
  BY <1>2 DEF AddressProg, FlushAll
<1>4. /\ d \in Commands /\ d.do = "flushBridge" /\ d.catch = "yes" /\ d.vlan = c.vlan
      /\ e \in Commands /\ e.do = "address" /\ e.catch = "yes" /\ e.vlan = c.vlan
  BY <1>1, <1>2 DEF Cmd, Commands, Dos, Bare
<1>5. a \in Flushes(c.vlan) /\ \A k \in 1..Len(nics) : Flushed(a, nics[k])
  BY <1>1, <1>2, AllFlushed
<1>6. a \in Seq(Commands) /\ \A i \in 1..Len(a) : a[i].do = "flushNic" /\ a[i].catch = "yes" /\ a[i].vlan = c.vlan
  BY <1>5 DEF Flushes
<1>7. PICK l : l = Len(a) /\ l \in Nat
  BY <1>6
<1>8. /\ s \in Seq(Commands) /\ Len(s) = l + 2
      /\ \A i \in 1..l : s[i] = a[i]
      /\ s[l + 1] = d /\ s[l + 2] = e
  <2>1. PICK b : b = <<d, e>>
    OBVIOUS
  <2>2. b \in Seq(Commands) /\ Len(b) = 2 /\ b[1] = d /\ b[2] = e
    BY <1>4, <2>1
  <2>3. /\ s \in Seq(Commands) /\ Len(s) = Len(a) + Len(b)
        /\ \A i \in 1..Len(a) + Len(b) : s[i] = IF i <= Len(a) THEN a[i] ELSE b[i - Len(a)]
    BY <1>3, <1>6, <2>1, <2>2, ConcatProperties
  <2>4. /\ \A i \in 1..l : i \in 1..(l + 2) /\ i <= l
        /\ l + 1 \in 1..(l + 2) /\ ~ (l + 1 <= l) /\ (l + 1) - l = 1
        /\ l + 2 \in 1..(l + 2) /\ ~ (l + 2 <= l) /\ (l + 2) - l = 2
    BY <1>7
  <2>5. \A i \in 1..(l + 2) : s[i] = IF i <= l THEN a[i] ELSE b[i - l]
    BY <1>7, <2>2, <2>3
  <2>6. s[l + 1] = b[1] /\ s[l + 2] = b[2] /\ \A i \in 1..l : s[i] = a[i]
    BY <2>4, <2>5
  <2> QED BY <1>7, <2>2, <2>3, <2>6
<1>9. \A i \in 1..(l + 2) : i \in 1..l \/ i = l + 1 \/ i = l + 2
  BY <1>7
<1>10. ASSUME NEW i \in 1..Len(s)
       PROVE  /\ s[i].do \in {"flushNic", "flushBridge", "address"}
              /\ s[i].catch = "yes" /\ s[i].vlan = c.vlan
              /\ s[i].do = "address" => i = Len(s)
  <2>1. CASE i \in 1..l
    <3>1. s[i] = a[i] /\ a[i].do = "flushNic" /\ a[i].catch = "yes" /\ a[i].vlan = c.vlan
      BY <1>6, <1>7, <1>8, <2>1
    <3> QED BY <3>1
  <2>2. CASE i = l + 1
    BY <1>4, <1>8, <2>2
  <2>3. CASE i = l + 2
    BY <1>4, <1>8, <2>3
  <2> QED BY <1>8, <1>9, <2>1, <2>2, <2>3
<1>11. Follows(s)
  BY <1>10 DEF Follows, Probing
<1>12. ASSUME NEW k \in 1..Len(nics)
       PROVE  Flushed(s, nics[k])
  <2>1. PICK i \in 1..l : a[i].do = "flushNic" /\ a[i].nic = nics[k]
    BY <1>5, <1>7 DEF Flushed
  <2>2. i \in 1..Len(s) /\ s[i] = a[i]
    BY <1>7, <1>8
  <2> QED BY <2>1, <2>2 DEF Flushed
<1> QED BY <1>8, <1>10, <1>11, <1>12

LEMMA AddressStarts ==
  ASSUME Typed, RowsInv, NEW t \in Threads, NEW c \in Forms, EditBridge(t, c)
  PROVE  RowsInv' /\ VT!Next
<1>1. PICK on, nics, prog, j :
        /\ on = {n \in Nics : Member(n, c.vlan)} /\ nics = SetToSeq(on)
        /\ prog = AddressProg(c, nics)
        /\ j = [Idle EXCEPT !.op = "address", !.todo = prog]
  OBVIOUS
<1>2. /\ job[t] = Idle /\ c.op = "address" /\ Enter(t, c, j)
      /\ UNCHANGED kernel /\ goal' = goal /\ settled' = settled
  BY <1>1 DEF EditBridge, MayStart, history
<1>3. /\ bridge' = bridge /\ master' = master /\ sub' = sub
      /\ nicAddr' = nicAddr /\ bridgeAddr' = bridgeAddr
  BY <1>2 DEF kernel
<1>4. c.vlan \in Vlans /\ c.vlan \in Touches(c)
  BY <1>2 DEF Forms, Touches
<1>5. on \in SUBSET Nics /\ IsFiniteSet(on)
  BY <1>1, VlanAssumption, FS_Subset
<1>6. nics \in Seq(Nics) /\ \A n \in on : \E k \in 1..Len(nics) : nics[k] = n
  <2>1. /\ SetToSeq(on) \in Seq(on)
        /\ \A x \in on : \E i \in 1..Len(SetToSeq(on)) : SetToSeq(on)[i] = x
    BY <1>5, Listed
  <2>2. nics \in Seq(on) /\ \A n \in on : \E k \in 1..Len(nics) : nics[k] = n
    BY <1>1, <2>1
  <2> QED BY <1>5, <2>2
<1>7. /\ prog \in Seq(Commands) /\ Follows(prog)
      /\ \A i \in 1..Len(prog) : /\ prog[i].do \in {"flushNic", "flushBridge", "address"}
                                 /\ prog[i].catch = "yes" /\ prog[i].vlan = c.vlan
      /\ \A k \in 1..Len(nics) : Flushed(prog, nics[k])
  <2>1. c.op = "address" /\ prog = AddressProg(c, nics) /\ nics \in Seq(Nics)
    BY <1>1, <1>2, <1>6
  <2> QED BY <2>1, AddressFollows
<1>8. j.todo = prog /\ j.on = {} /\ j.sound = {} /\ j \in Jobs
  BY <1>1, <1>7 DEF Idle, Jobs
<1>9. job'[t].todo = prog /\ job'[t].on = {} /\ job'[t].sound = {} /\ c.vlan \in job'[t].uses
  <2>1. /\ job'[t].todo = j.todo /\ job'[t].on = j.on /\ job'[t].uses = Shares(c)
        /\ job'[t].sound = IF Meets(c) = {} THEN j.sound ELSE {}
    BY <1>2, <1>8, Meeting
  <2> QED BY <1>4, <1>8, <2>1 DEF Shares
<1>10. Kempt(t)'
  <2>1. \A i \in 1..Len(prog) : Mine(prog[i], {}, job'[t].uses)
    BY <1>7, <1>9 DEF Mine, PortDos
  <2> QED BY <1>7, <1>9, <2>1 DEF Kempt
<1>11. Deletes(t)'
  BY <1>7, <1>9 DEF Deletes
<1>12. Addresses(t)'
  <2>1. SUFFICES ASSUME NEW i \in 1..Len(prog), NEW n \in settled, master[n] = prog[i].vlan
                 PROVE  Flushed(prog, n)
    BY <1>2, <1>3, <1>9 DEF Addresses, Flushed
  <2>2. n \in on
    BY <1>1, <1>7, <2>1 DEF Member, Typed, TypeOK
  <2> QED BY <1>6, <1>7, <2>2
<1>13. Own(t)'
  BY <1>9 DEF Own
<1>14. JobOK(t)'
  BY <1>9, <1>10, <1>11, <1>12, <1>13 DEF JobOK
<1>15. /\ settled' = settled \ j.on /\ j.on \subseteq Touches(c) /\ j.sound \subseteq j.on
       /\ \A n \in j.on : FALSE
       /\ goal' \in [Nics -> VT!Row \cup {Anything}]
       /\ \A n \in Nics : n \notin j.on => goal'[n] = goal[n]
  BY <1>2, <1>8 DEF RowsInv
<1>16. (\A n \in j.on, v \in Vlans : Member(n, v) => v \in Touches(c))
       /\ \A n \in j.on : Busy(n) => goal'[n] = Anything
  BY <1>15
<1> QED BY <1>2, <1>8, <1>14, <1>15, <1>16, Begun

-----------------------------------------------------------------------------
\* The theorems.

\* No handler has run: every port is settled, and its row is empty.
LEMMA RowsInit ==
  ASSUME Init
  PROVE  RowsInv /\ VT!Init
<1>1. /\ job = [t \in Threads |-> Idle] /\ goal = [n \in Nics |-> RowOf(n)] /\ settled = Nics
      /\ bridgeAddr = {} /\ master = [n \in Nics |-> "none"] /\ sub = [p \in Nics \X Vlans |-> "absent"]
  BY DEF Init
<1>2. \A t \in Threads : /\ job[t].todo = << >> /\ job[t].on = {} /\ job[t].sound = {} /\ job[t].uses = {}
  BY <1>1 DEF Idle
<1>3. ASSUME NEW t \in Threads
      PROVE  JobOK(t)
  <2>1. \A i \in 1..Len(<< >>) : FALSE
    OBVIOUS
  <2>2. Kempt(t)
    BY <1>2, <2>1, FollowsNone DEF Kempt
  <2>3. Seen(t) /\ Deletes(t) /\ Addresses(t) /\ Own(t)
    BY <1>2, <2>1 DEF Seen, Deletes, Addresses, Own
  <2> QED BY <1>2, <2>2, <2>3 DEF JobOK
<1>4. Apart /\ \A n : ~ Busy(n)
  BY <1>2 DEF Apart, Busy
<1>5. \A n \in Nics : RowOf(n) = [tagged |-> {}, untagged |-> {}]
  BY <1>1, VlanAssumption DEF RowOf
<1>6. goal \in [Nics -> VT!Row \cup {Anything}]
  <2>1. [tagged |-> {}, untagged |-> {}] \in VT!Row
    BY DEF VT!Row
  <2> QED BY <1>1, <1>5, <2>1
<1>7. \A n \in settled : Rests(n)
  BY <1>1 DEF Rests, Orphaned, Clean
<1>8. RowsInv
  BY <1>1, <1>3, <1>4, <1>6, <1>7 DEF RowsInv
<1>9. VT!Init
  BY <1>1, <1>4, <1>5 DEF VT!Init, VT!None
<1> QED BY <1>8, <1>9

LEMMA RowsStutter ==
  ASSUME RowsInv, UNCHANGED vars
  PROVE  RowsInv' /\ \A n : RowOf(n)' = RowOf(n) /\ (Busy(n)' <=> Busy(n))
<1>1. /\ bridge' = bridge /\ master' = master /\ sub' = sub /\ nicAddr' = nicAddr
      /\ bridgeAddr' = bridgeAddr /\ job' = job /\ goal' = goal /\ settled' = settled
  BY DEF vars
<1>2. ASSUME NEW t \in Threads
      PROVE  /\ Kempt(t)' /\ Deletes(t)' /\ Addresses(t)' /\ Own(t)'
             /\ job[t].sound # {} => Solo(t)' /\ Seen(t)'
  <2>1. Kempt(t)' /\ (Solo(t)' <=> Solo(t)) /\ (Seen(t)' <=> Seen(t))
    BY <1>1 DEF RowsInv, JobOK, Kempt, Solo, Seen
  <2>2. Deletes(t)'
    BY <1>1 DEF RowsInv, JobOK, Deletes, Promised, Member
  <2>3. Addresses(t)' /\ Own(t)'
    BY <1>1 DEF RowsInv, JobOK, Addresses, Own, Member
  <2> QED BY <2>1, <2>2, <2>3 DEF RowsInv, JobOK
<1>3. \A n : (Clean(n)' <=> Clean(n)) /\ (Rests(n)' <=> Rests(n)) /\ (Busy(n)' <=> Busy(n)) /\ RowOf(n)' = RowOf(n)
  BY <1>1 DEF Clean, Rests, Orphaned, Busy, RowOf
<1>4. \A t \in Threads : \A n \in job[t].sound : goal[n] \in Rows /\ Due(t, n)'
  BY <1>1, <1>3 DEF RowsInv, JobOK, Due, Stands
<1>5. \A t \in Threads : JobOK(t)'
  BY <1>1, <1>2, <1>4 DEF JobOK
<1>6. Apart'
  BY <1>1 DEF RowsInv, Apart
<1> QED BY <1>1, <1>3, <1>5, <1>6 DEF RowsInv

LEMMA RowsNext ==
  ASSUME BridgesInv, BridgesInv', RowsInv, [Next]_vars
  PROVE  RowsInv' /\ (VT!Next \/ UNCHANGED vars)
<1>1. Typed /\ Typed' /\ AllSound
  BY DEF BridgesInv
<1>2. ASSUME NEW t \in Threads, NEW c \in Calls[t],
             Edit(t, c) \/ EditBridge(t, c) \/ AnalyseFrame(t, c)
      PROVE  RowsInv' /\ VT!Next
  <2>1. c \in Forms
    BY VlanAssumption
  <2> QED BY <1>1, <1>2, <2>1, EditStarts, AddressStarts, FrameStarts
<1>3. ASSUME NEW t \in Threads,
             Return(t) \/ Fail(t) \/ SetPort(t) \/ AddBridge(t) \/ SetBridge(t) \/ DeleteBridge(t)
      PROVE  RowsInv' /\ VT!Next
  BY <1>1, <1>3, ReturnEnds, FailTurns, SetPortTurns, AddBridgeTurns, SetBridgeTurns, DeleteBridgeTurns
<1>4. ASSUME NEW t \in Threads,
             Enslave(t) \/ SetSub(t) \/ SetAddress(t) \/ Clear(t) \/ Reported(t) \/ Look(t)
      PROVE  RowsInv' /\ VT!Next
  BY <1>1, <1>4, EnslaveTurns, SetSubTurns, SetAddressTurns, ClearTurns, ReportedTurns, LookTurns
<1>5. ASSUME NEW t \in Threads, Tidy(t) \/ Probe(t) \/ HasVLAN(t) \/ Master(t)
      PROVE  RowsInv' /\ VT!Next
  BY <1>1, <1>5, TidyTurns, ProbeTurns, HasVLANTurns, MasterTurns
<1>6. ASSUME Crash
      PROVE  RowsInv' /\ VT!Next
  BY <1>1, <1>6, CrashEnds
<1>7. ASSUME UNCHANGED vars
      PROVE  RowsInv'
  BY <1>7, RowsStutter
<1> HIDE DEF VT!Next
<1> QED BY <1>2, <1>3, <1>4, <1>5, <1>6, <1>7 DEF Next

\* What a handler that nobody overlaps knows of its ports stays true, and what it still
\* has to run takes them to the rows they are to get; those that overlap never delete the
\* bridge of a port that stands on it, nor give it an address the port then shares.
LEMMA RowsInvariant ==
  Spec => []RowsInv
<1>1. Init => RowsInv
  BY RowsInit
<1>2. BridgesInv /\ BridgesInv' /\ RowsInv /\ [Next]_vars => RowsInv'
  BY RowsNext
<1> QED BY <1>1, <1>2, BridgesInvariant, PTL DEF Spec

\* The VLAN pages keep their promise, whichever handlers run at once: an update of
\* EthernetController.Edit (Clear, Apply) or of a GVRP frame (AnalyseFrame) that runs to
\* its end, and that no handler on one of its ports or VLANs overlaps, leaves its port
\* with the row it asked for.  No handler, whether it overlaps others, ends, fails in
\* the middle or dies with the process, changes the row of a settled port that it does
\* not update, even on a VLAN that several of them join, leave and delete at once.
THEOREM UpdatesImplementTable ==
  Spec => ImplementsVlanTable
<1>1. Init => VT!Init
  BY RowsInit
<1>2. BridgesInv /\ BridgesInv' /\ RowsInv /\ [Next]_vars
        => [VT!Next]_<<[n \in Nics |-> IF n \in settled THEN RowOf(n) ELSE [row |-> "changing"]],
                       [n \in Nics |-> IF Busy(n) THEN goal[n] ELSE [row |-> "none"]]>>
  <2> SUFFICES ASSUME BridgesInv, BridgesInv', RowsInv, [Next]_vars, ~ VT!Next
               PROVE  UNCHANGED <<[n \in Nics |-> IF n \in settled THEN RowOf(n) ELSE [row |-> "changing"]],
                                  [n \in Nics |-> IF Busy(n) THEN goal[n] ELSE [row |-> "none"]]>>
    OBVIOUS
  <2> HIDE DEF VT!Next
  <2>1. UNCHANGED vars
    BY RowsNext
  <2>2. \A n : RowOf(n)' = RowOf(n) /\ (Busy(n)' <=> Busy(n))
    BY <2>1, RowsStutter
  <2>3. settled' = settled /\ goal' = goal
    BY <2>1 DEF vars
  <2> QED BY <2>2, <2>3
<1> QED BY <1>1, <1>2, RowsInvariant, BridgesInvariant, PTL DEF Spec, ImplementsVlanTable, VT!Spec

\* The address of a VLAN sits on its bridge alone: whenever no handler runs, a port that
\* carries the VLAN untagged and whose last update ran alone to its end holds no address
\* of its own, whether it joined before the address page set the address (SetBridgeAddress
\* flushes its ports first) or after (Apply flushes the port that joins such a bridge),
\* and whatever handlers worked on that VLAN, side by side or not, since.
THEOREM AddressOnlyOnBridge ==
  Spec => []AddressOnBridgeOnly
<1>1. RowsInv => AddressOnBridgeOnly
  BY DEF RowsInv, Rests, Clean, AddressOnBridgeOnly
<1> QED BY <1>1, RowsInvariant, PTL
=============================================================================
