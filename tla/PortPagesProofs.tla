-------------------------- MODULE PortPagesProofs --------------------------
(***************************************************************************)
(* Proofs about PortPages, for any ports, VLANs, forms and batches of      *)
(* frames, and any number of threads: its type, what an edit or a batch    *)
(* leaves of a port, that GVRP is wished for where it is done, that        *)
(* private ports have one VLAN, and that addresses sit on bridges alone.   *)
(***************************************************************************)
EXTENDS PortPages, SequenceFacts

-----------------------------------------------------------------------------
\* What the jobs are.

Calls == [do : {"up", "down", "clear"}, nic : Nics, arg : {"none"}]
           \cup [do : {"untag", "tag", "tagGvrp", "leave"}, nic : Nics, arg : Vlans]
           \cup [do : {"type"}, nic : Nics, arg : Types]
           \cup [do : {"join"}, nic : Nics, arg : SUBSET Vlans]
           \cup [do : {"address"}, nic : SUBSET Nics, arg : Vlans]

\* A job changes the ports it is on, and an address posted touches no VLANs.
JobOK(j) ==
  /\ j \in [todo : Seq(Calls), on : SUBSET Nics]
  /\ \A i \in DOMAIN j.todo : j.todo[i].do # "address" => j.todo[i].nic \in j.on

Typed == /\ TypeOK
         /\ gvrp \in [Nics -> SUBSET Vlans]
         /\ DOMAIN job = Threads
         /\ \A t \in Threads : JobOK(job[t])

-----------------------------------------------------------------------------
\* What a port was told.

Told == [up : BOOLEAN, vlans : SUBSET Vlans, gvrp : BOOLEAN, type : Types]

\* What a port was told is a row that a form may ask for, and where GVRP is part of it the
\* dictionary has the wish.
DueOK ==
  \A n \in Nics : due[n] # Anything =>
    /\ due[n] \in Told
    /\ due[n].type # "Off" /\ ~due[n].gvrp => Cardinality(due[n].vlans) <= 1
    /\ n \notin forgotten /\ due[n].gvrp => wish[n] = "Listening"

\* Handlers that share a port tell it nothing.
Sole == \A t, o \in Threads, n \in Nics :
          t # o /\ n \in job[t].on /\ n \in job[o].on => due[n] = Anything

\* The port is what it was told to be, and no port mixes tagged and untagged VLANs.
AsTold(n) == /\ VlansOf(n) = due[n].vlans
             /\ type[n] = due[n].type
             /\ (n \in up) = due[n].up
             /\ gvrp[n] # {} => due[n].gvrp /\ due[n].up
             /\ untagged[n] = "none" \/ tagged[n] = {}

-----------------------------------------------------------------------------
\* How far a job has come.

Size(f) == Len(f.vlans) + 3

\* The VLANs an edit has given its port before its call k.
Given(f, k) == {f.vlans[i] : i \in {j \in 1..Len(f.vlans) : j + 2 < k}}

\* What an edit has made of its port before its call k.
Made(f, n, k) ==
  /\ k > 1 => (n \in up) = (f.active \/ (f.tagged /\ Given(f, k) # {}))
  /\ k > 2 => /\ gvrp[n] # {} => f.tagged /\ f.gvrp
              /\ tagged[n] = IF f.tagged THEN Given(f, k) ELSE {}
              /\ untagged[n] = IF f.tagged \/ k = 3 \/ f.vlans = << >> THEN "none"
                               ELSE f.vlans[IF k > Size(f) THEN Len(f.vlans) ELSE k - 3]
  /\ k > Size(f) => type[n] = f.type

\* An edit is at its call k.
EditAt(t, n, f, k) ==
  /\ ~Refused(f)
  /\ f.nic = n
  /\ job[t].on = {n}
  /\ due[n] = Asked(f)
  /\ job[t].todo = SubSeq(EditProg(f), k, Size(f))
  /\ Made(f, n, k)

Editing(t, n) == \E f \in Forms : \E k \in 1..Size(f) + 1 : EditAt(t, n, f, k)

\* The VLANs a batch has still to give a port, and those to take.
ToJoin(todo, n) ==
  UNION {todo[i].arg : i \in {j \in DOMAIN todo : todo[j].do = "join" /\ todo[j].nic = n}}
ToLeave(todo, n) ==
  {todo[i].arg : i \in {j \in DOMAIN todo : todo[j].do = "leave" /\ todo[j].nic = n}}

\* The calls of a batch: joins, then leaves.
FrameCalls(todo) ==
  /\ \A i \in DOMAIN todo : todo[i].do \in {"join", "leave"}
  /\ \A i, j \in DOMAIN todo : i < j /\ todo[j].do = "join" => todo[i].do = "join"

\* A batch will leave the port with the VLANs it was told to have.
Framing(t, n) ==
  LET todo == job[t].todo
  IN  /\ FrameCalls(todo)
      /\ due[n].vlans = (VlansOf(n) \cup ToJoin(todo, n)) \ ToLeave(todo, n)
      /\ type[n] = due[n].type
      /\ n \in up /\ due[n].up /\ due[n].gvrp
      /\ untagged[n] = "none"

Underway ==
  \A t \in Threads, n \in Nics :
    n \in job[t].on /\ due[n] # Anything => Editing(t, n) \/ Framing(t, n)

Rest == \A n \in Settled : AsTold(n)

PortInv == Typed /\ DueOK /\ Sole /\ Underway /\ Rest

\* No port that is not in missed holds an address next to its bridge's.
Flushed == \A n \in Nics \ missed : untagged[n] \in addressed => n \notin nicAddr

-----------------------------------------------------------------------------
\* What the programs of the handlers contain.

\* The attributes of a frame that AnalyseFrame reads are attributes of it.
LEMMA AttributesType ==
  ASSUME NEW S, NEW frame \in Seq(S)
  PROVE  Attributes(frame) \in Seq(S)
<1> DEFINE I == {i \in 1..Len(frame) : frame[i].event = 0}
           stop == SelectInSeq(frame, LAMBDA a : a.event = 0)
<1>1. stop = IF I # {} THEN Min(I) ELSE 0
  BY Zenon DEF SelectInSeq
<1>2. I \in SUBSET Nat /\ I \in SUBSET (1..Len(frame))
  OBVIOUS
<1> HIDE DEF stop, I
<1>3. stop \in 0..Len(frame)
  <2>1. CASE I = {}
    BY <1>1, <2>1, LenProperties
  <2>2. CASE I # {}
    <3>1. Min(I) \in I
      BY <1>2, <2>2, FirstPosition
    <3>2. Min(I) \in 1..Len(frame)
      BY <1>2, <3>1
    <3> HIDE DEF I
    <3>3. stop = Min(I)
      BY <1>1, <2>2
    <3> QED BY <3>2, <3>3, LenProperties
  <2> QED BY <2>1, <2>2
<1>4. stop # 0 => SubSeq(frame, 1, stop - 1) \in Seq(S)
  BY <1>3
<1> QED BY <1>3, <1>4 DEF Attributes, stop

LEMMA SaidType ==
  ASSUME NEW batch \in Batches, NEW event
  PROVE  Said(batch, event) \in SUBSET Vlans /\ IsFiniteSet(Said(batch, event))
<1> DEFINE A == [event : 0..255, vlan : Vlans]
           All == UNION {ToSet(Attributes(f)) : f \in ToSet(batch)}
           Some == {b \in All : b.event = event}
<1>1. batch \in Seq(Seq(A))
  BY PagesAssumption
<1>2. \A f \in ToSet(batch) : Attributes(f) \in Seq(A)
  BY <1>1, AttributesType DEF ToSet
<1>3. IsFiniteSet({ToSet(Attributes(f)) : f \in ToSet(batch)})
  <2> DEFINE g == [i \in 1..Len(batch) |-> ToSet(Attributes(batch[i]))]
  <2>1. IsFiniteSet(1..Len(batch))
    BY <1>1, FS_Interval
  <2>2. IsFiniteSet({g[i] : i \in 1..Len(batch)})
    <3>1. g = [i \in 1..Len(batch) |-> g[i]]
      OBVIOUS
    <3> HIDE DEF g
    <3> QED BY <2>1, <3>1, ImageFinite
  <2>3. {ToSet(Attributes(f)) : f \in ToSet(batch)} = {g[i] : i \in 1..Len(batch)}
    <3>1. ToSet(batch) = {batch[i] : i \in 1..Len(batch)}
      BY <1>1 DEF ToSet
    <3>2. \A i \in 1..Len(batch) : g[i] = ToSet(Attributes(batch[i]))
      OBVIOUS
    <3> HIDE DEF g
    <3> QED BY <3>1, <3>2, Zenon
  <2> QED BY <2>2, <2>3
<1>4. \A f \in ToSet(batch) : IsFiniteSet(ToSet(Attributes(f)))
  <2> SUFFICES ASSUME NEW f \in ToSet(batch) PROVE IsFiniteSet(ToSet(Attributes(f)))
    OBVIOUS
  <2> DEFINE a == Attributes(f)
  <2>1. a \in Seq(A)
    BY <1>2
  <2> HIDE DEF a
  <2>0. IsFiniteSet(1..Len(a))
    BY <2>1, FS_Interval, LenProperties
  <2>2. /\ a = [i \in 1..Len(a) |-> a[i]]
        /\ DOMAIN a = 1..Len(a)
    BY <2>1, LenProperties
  <2>3. IsFiniteSet({a[i] : i \in 1..Len(a)})
    BY <2>0, <2>2, ImageFinite
  <2>4. ToSet(a) = {a[i] : i \in 1..Len(a)}
    BY <2>2 DEF ToSet
  <2> QED BY <2>3, <2>4 DEF a
<1>5. IsFiniteSet(All)
  BY <1>3, <1>4, FS_UNION
<1>6. IsFiniteSet(Some)
  BY <1>5, FS_Subset
<1>7. IsFiniteSet({a.vlan : a \in Some})
  <2> DEFINE g == [a \in Some |-> a.vlan]
  <2>1. IsFiniteSet({g[a] : a \in Some})
    <3>1. g = [a \in Some |-> g[a]]
      OBVIOUS
    <3> HIDE DEF g, Some
    <3> QED BY <1>6, <3>1, ImageFinite
  <2>2. {a.vlan : a \in Some} = {g[a] : a \in Some}
    OBVIOUS
  <2> QED BY <2>1, <2>2
<1>8. Some \in SUBSET A
  <2> SUFFICES ASSUME NEW f \in ToSet(batch), NEW a \in ToSet(Attributes(f))
               PROVE  a \in A
    BY Zenon
  <2>1. Attributes(f) \in Seq(A)
    BY <1>2
  <2> QED BY <2>1, Elements
<1>9. Said(batch, event) = {a.vlan : a \in Some}
  BY DEF Said
<1>10. {a.vlan : a \in Some} \in SUBSET Vlans
  BY <1>8
<1> HIDE DEF Some
<1> QED BY <1>7, <1>9, <1>10

Applies(f) == IF ~f.tagged THEN "untag" ELSE IF f.gvrp THEN "tagGvrp" ELSE "tag"

\* The calls of an edit.
LEMMA EditCalls ==
  ASSUME NEW f \in Forms
  PROVE  /\ f.nic \in Nics /\ f.vlans \in Seq(Vlans) /\ f.type \in Types
         /\ f.active \in BOOLEAN /\ f.tagged \in BOOLEAN /\ f.gvrp \in BOOLEAN
         /\ Size(f) \in Nat /\ Len(f.vlans) \in Nat
         /\ EditProg(f) \in Seq(Calls)
         /\ Len(EditProg(f)) = Size(f)
         /\ EditProg(f)[1] = Call(IF f.active THEN "up" ELSE "down", f.nic, "none")
         /\ EditProg(f)[2] = Call("clear", f.nic, "none")
         /\ \A j \in 1..Len(f.vlans) : EditProg(f)[j + 2] = Call(Applies(f), f.nic, f.vlans[j])
         /\ EditProg(f)[Size(f)] = Call("type", f.nic, f.type)
<1> DEFINE a == <<Call(IF f.active THEN "up" ELSE "down", f.nic, "none"), Call("clear", f.nic, "none")>>
           b == [k \in DOMAIN f.vlans |-> Call(Applies(f), f.nic, f.vlans[k])]
           c == <<Call("type", f.nic, f.type)>>
<1>1. /\ f.nic \in Nics /\ f.vlans \in Seq(Vlans) /\ f.type \in Types
      /\ f.active \in BOOLEAN /\ f.tagged \in BOOLEAN /\ f.gvrp \in BOOLEAN
  BY PagesAssumption
<1>2. Len(f.vlans) \in Nat /\ DOMAIN f.vlans = 1..Len(f.vlans)
  BY <1>1
<1>3. /\ a \in Seq(Calls) /\ Len(a) = 2
      /\ a[1] = Call(IF f.active THEN "up" ELSE "down", f.nic, "none")
      /\ a[2] = Call("clear", f.nic, "none")
  BY <1>1 DEF Calls, Call
<1>4. /\ b \in Seq(Calls) /\ Len(b) = Len(f.vlans)
      /\ \A j \in 1..Len(f.vlans) : b[j] = Call(Applies(f), f.nic, f.vlans[j])
  BY <1>1, <1>2 DEF Calls, Call, Applies
<1>5. c \in Seq(Calls) /\ Len(c) = 1 /\ c[1] = Call("type", f.nic, f.type)
  BY <1>1 DEF Calls, Call
<1>6. EditProg(f) = (a \o b) \o c
  BY DEF EditProg, Applies
<1> HIDE DEF a, b, c
<1>7. /\ a \o b \in Seq(Calls) /\ Len(a \o b) = Len(f.vlans) + 2
      /\ (a \o b)[1] = a[1] /\ (a \o b)[2] = a[2]
      /\ \A j \in 1..Len(f.vlans) : (a \o b)[j + 2] = b[j]
  <2>1. /\ a \o b \in Seq(Calls)
        /\ Len(a \o b) = Len(a) + Len(b)
        /\ \A i \in 1..Len(a) + Len(b) : (a \o b)[i] = IF i <= Len(a) THEN a[i] ELSE b[i - Len(a)]
    <3>1. a \in Seq(Calls) /\ b \in Seq(Calls)
      BY <1>3, <1>4
    <3> QED BY <3>1, ConcatProperties
  <2> QED BY <1>2, <1>3, <1>4, <2>1
<1>8. /\ EditProg(f) \in Seq(Calls) /\ Len(EditProg(f)) = Len(f.vlans) + 3
      /\ EditProg(f)[1] = a[1] /\ EditProg(f)[2] = a[2]
      /\ \A j \in 1..Len(f.vlans) : EditProg(f)[j + 2] = b[j]
      /\ EditProg(f)[Len(f.vlans) + 3] = c[1]
  <2> DEFINE ab == a \o b
  <2>1. EditProg(f) = ab \o c
    BY <1>6
  <2>3. /\ ab \in Seq(Calls)
        /\ Len(ab) = Len(f.vlans) + 2 /\ ab[1] = a[1] /\ ab[2] = a[2]
        /\ \A j \in 1..Len(f.vlans) : ab[j + 2] = b[j]
    BY <1>7
  <2> HIDE DEF ab
  <2>2. /\ ab \o c \in Seq(Calls)
        /\ Len(ab \o c) = Len(ab) + Len(c)
        /\ \A i \in 1..Len(ab) + Len(c) : (ab \o c)[i] = IF i <= Len(ab) THEN ab[i] ELSE c[i - Len(ab)]
    <3>1. ab \in Seq(Calls) /\ c \in Seq(Calls)
      BY <1>5, <2>3
    <3> QED BY <3>1, ConcatProperties
  <2> QED BY <1>2, <1>5, <2>1, <2>2, <2>3
<1> QED BY <1>1, <1>2, <1>3, <1>4, <1>5, <1>8 DEF Size

\* Two nested loops over m and w elements: their places, and the positions of the outer
\* and of the inner loop at a place.
Places(m, w) == 1..(m * w)
Outer(k, w) == ((k - 1) \div w) + 1
Inner(k, w) == ((k - 1) % w) + 1

LEMMA PairOf ==
  ASSUME NEW m \in Nat, NEW w \in Nat, NEW k \in Places(m, w)
  PROVE  Outer(k, w) \in 1..m /\ Inner(k, w) \in 1..w
<1>1. m * w \in Nat /\ w # 0
  BY DEF Places
<1> QED BY <1>1 DEF Places, Outer, Inner

LEMMA PairAt ==
  ASSUME NEW m \in Nat, NEW w \in Nat, NEW i \in 1..m, NEW j \in 1..w
  PROVE  \E k \in Places(m, w) : Outer(k, w) = i /\ Inner(k, w) = j
<1> DEFINE k == (i - 1) * w + j
<1>1. k \in Places(m, w)
  BY DEF Places
<1>2. ((i - 1) * w + (j - 1)) \div w = i - 1 /\ ((i - 1) * w + (j - 1)) % w = j - 1
  OBVIOUS
<1>3. k - 1 = (i - 1) * w + (j - 1)
  OBVIOUS
<1> HIDE DEF k
<1>4. Outer(k, w) = i /\ Inner(k, w) = j
  BY <1>2, <1>3 DEF Outer, Inner
<1> QED BY <1>1, <1>4

\* The calls that join: one for each VLAN to add and each port noted.
LEMMA JoinCalls ==
  ASSUME NEW adds \in Seq(Vlans), NEW nics \in Seq(Nics),
         NEW had \in [ToSet(nics) -> SUBSET Vlans]
  PROVE  LET s == ForEach(adds, nics, LAMBDA v, n : Call("join", n, had[n] \cup {v}))
         IN  /\ s \in Seq(Calls)
             /\ \A k \in 1..Len(s) : s[k].do = "join" /\ s[k].nic \in ToSet(nics)
             /\ \A n \in ToSet(nics) : ToJoin(s, n) = IF adds = << >> THEN {} ELSE had[n] \cup ToSet(adds)
<1>1. PICK m \in Nat, w \in Nat : m = Len(adds) /\ w = Len(nics)
  OBVIOUS
<1> DEFINE s == ForEach(adds, nics, LAMBDA v, n : Call("join", n, had[n] \cup {v}))
           N(k) == nics[Inner(k, w)]
           V(k) == adds[Outer(k, w)]
<1>2. s = [k \in Places(m, w) |-> [do |-> "join", nic |-> N(k), arg |-> had[N(k)] \cup {V(k)}]]
  BY <1>1 DEF ForEach, Call, Places, Outer, Inner
<1>3. ASSUME NEW k \in Places(m, w)
      PROVE  N(k) \in ToSet(nics) /\ N(k) \in Nics /\ V(k) \in Vlans /\ V(k) \in ToSet(adds)
  <2>1. Outer(k, w) \in 1..m /\ Inner(k, w) \in 1..w
    BY PairOf
  <2> QED BY <1>1, <2>1, Elements
<1>4. ASSUME NEW n \in ToSet(nics), NEW v \in ToSet(adds)
      PROVE  \E k \in Places(m, w) : N(k) = n /\ V(k) = v
  <2>1. PICK j \in 1..w : nics[j] = n
    BY <1>1, Elements
  <2>2. PICK i \in 1..m : adds[i] = v
    BY <1>1, Elements
  <2>3. \E k \in Places(m, w) : Outer(k, w) = i /\ Inner(k, w) = j
    BY PairAt
  <2> QED BY <2>1, <2>2, <2>3
<1> HIDE DEF N, V, s
<1>5. s \in Seq(Calls) /\ DOMAIN s = 1..Len(s) /\ DOMAIN s = Places(m, w)
  <2>1. \A k \in Places(m, w) : [do |-> "join", nic |-> N(k), arg |-> had[N(k)] \cup {V(k)}] \in Calls
    BY <1>3 DEF Calls
  <2>2. m * w \in Nat
    OBVIOUS
  <2> QED BY <1>2, <2>1, <2>2 DEF Places
<1>6. \A k \in Places(m, w) : /\ s[k].do = "join" /\ s[k].nic = N(k)
                              /\ s[k].arg = had[N(k)] \cup {V(k)}
  BY <1>2
<1>7. ASSUME NEW n \in ToSet(nics)
      PROVE  ToJoin(s, n) = IF adds = << >> THEN {} ELSE had[n] \cup ToSet(adds)
  <2>1. ToJoin(s, n) \subseteq had[n] \cup ToSet(adds)
    BY <1>3, <1>5, <1>6 DEF ToJoin
  <2>2. ASSUME NEW v \in ToSet(adds)
        PROVE  v \in ToJoin(s, n) /\ had[n] \subseteq ToJoin(s, n)
    <3>1. PICK k \in Places(m, w) : N(k) = n /\ V(k) = v
      BY <1>4
    <3>2. s[k].do = "join" /\ s[k].nic = n /\ s[k].arg = had[n] \cup {v}
      BY <1>6, <3>1
    <3> QED BY <1>5, <3>2 DEF ToJoin
  <2>3. adds = << >> => ToJoin(s, n) = {}
    <3>1. adds = << >> => DOMAIN s = {}
      BY <1>1, <1>5 DEF Places
    <3> QED BY <3>1 DEF ToJoin
  <2>4. adds # << >> => adds[1] \in ToSet(adds)
    BY Elements, EmptySeq
  <2> QED BY <2>1, <2>2, <2>3, <2>4
<1>8. \A k \in 1..Len(s) : s[k].do = "join" /\ s[k].nic \in ToSet(nics)
  BY <1>3, <1>5, <1>6
<1> QED BY <1>5, <1>7, <1>8 DEF s

\* The calls that leave: one for each VLAN to take and each port noted.
LEMMA LeaveCalls ==
  ASSUME NEW removes \in Seq(Vlans), NEW nics \in Seq(Nics)
  PROVE  LET s == ForEach(removes, nics, LAMBDA v, n : Call("leave", n, v))
         IN  /\ s \in Seq(Calls)
             /\ \A k \in 1..Len(s) : s[k].do = "leave" /\ s[k].nic \in ToSet(nics)
             /\ \A n \in ToSet(nics) : ToLeave(s, n) = ToSet(removes)
<1>1. PICK m \in Nat, w \in Nat : m = Len(removes) /\ w = Len(nics)
  OBVIOUS
<1> DEFINE s == ForEach(removes, nics, LAMBDA v, n : Call("leave", n, v))
           N(k) == nics[Inner(k, w)]
           V(k) == removes[Outer(k, w)]
<1>2. s = [k \in Places(m, w) |-> [do |-> "leave", nic |-> N(k), arg |-> V(k)]]
  BY <1>1 DEF ForEach, Call, Places, Outer, Inner
<1>3. ASSUME NEW k \in Places(m, w)
      PROVE  N(k) \in ToSet(nics) /\ N(k) \in Nics /\ V(k) \in Vlans /\ V(k) \in ToSet(removes)
  <2>1. Outer(k, w) \in 1..m /\ Inner(k, w) \in 1..w
    BY PairOf
  <2> QED BY <1>1, <2>1, Elements
<1>4. ASSUME NEW n \in ToSet(nics), NEW v \in ToSet(removes)
      PROVE  \E k \in Places(m, w) : N(k) = n /\ V(k) = v
  <2>1. PICK j \in 1..w : nics[j] = n
    BY <1>1, Elements
  <2>2. PICK i \in 1..m : removes[i] = v
    BY <1>1, Elements
  <2>3. \E k \in Places(m, w) : Outer(k, w) = i /\ Inner(k, w) = j
    BY PairAt
  <2> QED BY <2>1, <2>2, <2>3
<1> HIDE DEF N, V, s
<1>5. s \in Seq(Calls) /\ DOMAIN s = 1..Len(s) /\ DOMAIN s = Places(m, w)
  <2>1. \A k \in Places(m, w) : [do |-> "leave", nic |-> N(k), arg |-> V(k)] \in Calls
    BY <1>3 DEF Calls
  <2>2. m * w \in Nat
    OBVIOUS
  <2> QED BY <1>2, <2>1, <2>2 DEF Places
<1>6. \A k \in Places(m, w) : s[k].do = "leave" /\ s[k].nic = N(k) /\ s[k].arg = V(k)
  BY <1>2
<1>7. ASSUME NEW n \in ToSet(nics)
      PROVE  ToLeave(s, n) = ToSet(removes)
  <2>1. ToLeave(s, n) \subseteq ToSet(removes)
    BY <1>3, <1>5, <1>6 DEF ToLeave
  <2>2. ASSUME NEW v \in ToSet(removes)
        PROVE  v \in ToLeave(s, n)
    <3>1. PICK k \in Places(m, w) : N(k) = n /\ V(k) = v
      BY <1>4
    <3>2. s[k].do = "leave" /\ s[k].nic = n /\ s[k].arg = v
      BY <1>6, <3>1
    <3> QED BY <1>5, <3>2 DEF ToLeave
  <2> QED BY <2>1, <2>2
<1>8. \A k \in 1..Len(s) : s[k].do = "leave" /\ s[k].nic \in ToSet(nics)
  BY <1>3, <1>5, <1>6
<1> QED BY <1>5, <1>7, <1>8 DEF s

\* The calls of a batch: what they give each port noted, and what they take.
LEMMA FrameProgCalls ==
  ASSUME NEW adds \in Seq(Vlans), NEW removes \in Seq(Vlans), NEW nics \in Seq(Nics),
         NEW had \in [ToSet(nics) -> SUBSET Vlans]
  PROVE  LET s == FrameProg(adds, removes, nics, had)
         IN  /\ s \in Seq(Calls)
             /\ FrameCalls(s)
             /\ \A k \in 1..Len(s) : s[k].nic \in ToSet(nics)
             /\ \A n \in ToSet(nics) :
                  /\ ToJoin(s, n) = IF adds = << >> THEN {} ELSE had[n] \cup ToSet(adds)
                  /\ ToLeave(s, n) = ToSet(removes)
<1> DEFINE a == ForEach(adds, nics, LAMBDA v, n : Call("join", n, had[n] \cup {v}))
           b == ForEach(removes, nics, LAMBDA v, n : Call("leave", n, v))
           s == a \o b
<1>1. /\ a \in Seq(Calls)
      /\ \A k \in 1..Len(a) : a[k].do = "join" /\ a[k].nic \in ToSet(nics)
      /\ \A n \in ToSet(nics) : ToJoin(a, n) = IF adds = << >> THEN {} ELSE had[n] \cup ToSet(adds)
  BY JoinCalls
<1>2. /\ b \in Seq(Calls)
      /\ \A k \in 1..Len(b) : b[k].do = "leave" /\ b[k].nic \in ToSet(nics)
      /\ \A n \in ToSet(nics) : ToLeave(b, n) = ToSet(removes)
  BY LeaveCalls
<1>3. FrameProg(adds, removes, nics, had) = s
  BY DEF FrameProg
<1> HIDE DEF a, b
<1>4. /\ s \in Seq(Calls)
      /\ Len(s) = Len(a) + Len(b)
      /\ \A i \in 1..Len(a) + Len(b) : s[i] = IF i <= Len(a) THEN a[i] ELSE b[i - Len(a)]
  BY <1>1, <1>2, ConcatProperties
<1>5. /\ Len(a) \in Nat /\ Len(b) \in Nat /\ DOMAIN a = 1..Len(a) /\ DOMAIN b = 1..Len(b)
      /\ DOMAIN s = 1..Len(a) + Len(b)
  BY <1>1, <1>2, <1>4, LenProperties
<1> HIDE DEF s
<1>61. \A i \in 1..Len(a) : i \in DOMAIN s /\ s[i] = a[i]
  BY <1>4, <1>5
<1>62. ASSUME NEW i \in 1..Len(b)
       PROVE  i + Len(a) \in DOMAIN s /\ s[i + Len(a)] = b[i]
  <2>1. i + Len(a) \in 1..Len(a) + Len(b) /\ ~ (i + Len(a) <= Len(a)) /\ (i + Len(a)) - Len(a) = i
    BY <1>5
  <2>2. s[i + Len(a)] = b[(i + Len(a)) - Len(a)]
    BY <1>4, <2>1
  <2> QED BY <1>5, <2>1, <2>2
<1>63. ASSUME NEW i \in DOMAIN s
       PROVE  \/ i \in 1..Len(a) /\ s[i] = a[i]
              \/ \E j \in 1..Len(b) : s[i] = b[j] /\ i > Len(a)
  <2>1. CASE i <= Len(a)
    BY <1>4, <1>5, <2>1
  <2>2. CASE ~ (i <= Len(a))
    <3>1. s[i] = b[i - Len(a)]
      BY <1>4, <1>5, <2>2
    <3>2. i - Len(a) \in 1..Len(b) /\ i > Len(a)
      BY <1>5, <2>2
    <3> QED BY <3>1, <3>2
  <2> QED BY <2>1, <2>2
<1>7. FrameCalls(s)
  <2>1. \A i \in DOMAIN s : s[i].do \in {"join", "leave"}
    BY <1>1, <1>2, <1>63
  <2>2. ASSUME NEW i \in DOMAIN s, NEW j \in DOMAIN s, i < j, s[j].do = "join"
        PROVE  s[i].do = "join"
    <3>1. j \in 1..Len(a)
      BY <1>2, <1>63, <2>2
    <3>2. i \in 1..Len(a)
      BY <1>5, <2>2, <3>1
    <3> QED BY <1>1, <1>61, <3>2
  <2> QED BY <2>1, <2>2 DEF FrameCalls
<1>8. \A k \in 1..Len(s) : s[k].nic \in ToSet(nics)
  BY <1>1, <1>2, <1>4, <1>5, <1>63
<1>9. ASSUME NEW n \in ToSet(nics)
      PROVE  ToJoin(s, n) = ToJoin(a, n)
  <2>3. ASSUME NEW i \in DOMAIN s, s[i].do = "join", s[i].nic = n
        PROVE  i \in DOMAIN a /\ a[i].do = "join" /\ a[i].nic = n /\ a[i].arg = s[i].arg
    <3>1. ~ \E j \in 1..Len(b) : s[i] = b[j]
      BY <1>2, <2>3
    <3> QED BY <1>5, <1>63, <2>3, <3>1
  <2>1. ToJoin(s, n) \subseteq ToJoin(a, n)
    BY <2>3 DEF ToJoin
  <2>2. ToJoin(a, n) \subseteq ToJoin(s, n)
    BY <1>5, <1>61 DEF ToJoin
  <2> QED BY <2>1, <2>2
<1>10. ASSUME NEW n \in ToSet(nics)
       PROVE  ToLeave(s, n) = ToLeave(b, n)
  <2>1. ASSUME NEW i \in DOMAIN s, s[i].do = "leave", s[i].nic = n
        PROVE  \E j \in DOMAIN b : b[j].do = "leave" /\ b[j].nic = n /\ b[j].arg = s[i].arg
    <3>1. i \notin 1..Len(a) \/ s[i] # a[i]
      BY <1>1, <2>1
    <3> QED BY <1>5, <1>63, <2>1, <3>1
  <2>2. ToLeave(b, n) \subseteq ToLeave(s, n)
    BY <1>5, <1>62 DEF ToLeave
  <2>3. ToLeave(s, n) \subseteq ToLeave(b, n)
    BY <2>1 DEF ToLeave
  <2> QED BY <2>2, <2>3
<1> QED BY <1>1, <1>2, <1>3, <1>4, <1>7, <1>8, <1>9, <1>10

-----------------------------------------------------------------------------
\* The jobs from step to step.

\* What a call is about.
LEMMA CallArgs ==
  ASSUME NEW c \in Calls
  PROVE  /\ c.do # "address" => c.nic \in Nics
         /\ c.do \in {"untag", "tag", "tagGvrp", "leave"} => c.arg \in Vlans
         /\ c.do = "type" => c.arg \in Types
         /\ c.do = "join" => c.arg \in SUBSET Vlans
         /\ c.do = "address" => c.nic \in SUBSET Nics /\ c.arg \in Vlans
BY DEF Calls

\* A thread makes its next call: its job goes on, the others' stay.
LEMMA Making ==
  ASSUME Typed, NEW t \in Threads, NEW what, Makes(t, what)
  PROVE  /\ Head(job[t].todo) \in Calls /\ Head(job[t].todo).do \in what
         /\ Head(job[t].todo).do # "address" => Nic(t) \in job[t].on
         /\ DOMAIN job' = Threads
         /\ \A o \in Threads : JobOK(job[o]')
         /\ \A o \in Threads : job[o].on' = job[o].on
         /\ \A o \in Threads \ {t} : job[o]' = job[o]
         /\ job[t].todo' = Tail(job[t].todo) /\ job[t].todo # << >>
         /\ Busy' = Busy
<1> DEFINE s == job[t].todo
           j == [todo |-> Tail(s), on |-> job[t].on]
<1>1. JobOK(job[t]) /\ s \in Seq(Calls) /\ s # << >> /\ job[t] = [todo |-> s, on |-> job[t].on]
  BY DEF Typed, JobOK, Makes
<1>2. /\ job' = [job EXCEPT ![t].todo = Tail(s)]
      /\ Head(s).do \in what
  BY DEF Makes
<1>3. DOMAIN job = Threads /\ \A o \in Threads : JobOK(job[o])
  BY DEF Typed
<1>4. DOMAIN job' = Threads /\ job'[t] = j /\ \A o \in Threads \ {t} : job'[o] = job[o]
  BY <1>1, <1>2, <1>3
<1>5. /\ Head(s) = s[1] /\ Head(s) \in Calls
      /\ Tail(s) \in Seq(Calls)
      /\ 1 \in DOMAIN s
      /\ \A i \in DOMAIN Tail(s) : i + 1 \in DOMAIN s /\ Tail(s)[i] = s[i + 1]
  BY <1>1, TailOf
<1>6. Head(s).do # "address" => Nic(t) \in job[t].on
  BY <1>1, <1>5 DEF JobOK, Nic
<1>7. JobOK(j)
  BY <1>1, <1>5 DEF JobOK
<1>8. \A o \in Threads : job'[o].on = job[o].on
  BY <1>4
<1>9. Busy' = Busy
  BY <1>8, Zenon DEF Busy
<1> QED BY <1>1, <1>2, <1>3, <1>4, <1>5, <1>6, <1>7, <1>8, <1>9

\* A handler enters.
LEMMA Entering ==
  ASSUME Typed, NEW t \in Threads, NEW nics \in SUBSET Nics, NEW told,
         NEW todo \in Seq(Calls),
         \A i \in DOMAIN todo : todo[i].do # "address" => todo[i].nic \in nics,
         Enter(t, todo, nics, told)
  PROVE  /\ DOMAIN job' = Threads
         /\ \A o \in Threads : JobOK(job[o]')
         /\ \A o \in Threads \ {t} : job[o]' = job[o]
         /\ job[t] = Idle /\ job[t].todo' = todo /\ job[t].on' = nics
         /\ job[t].on = {}
         /\ Busy' = Busy \cup nics
         /\ entered' \in 0..MaxHandlers
<1> DEFINE j == [todo |-> todo, on |-> nics]
<1>1. /\ job' = [job EXCEPT ![t] = j] /\ job[t] = Idle
      /\ entered < MaxHandlers /\ entered' = entered + 1
  BY DEF Enter
<1>2. DOMAIN job = Threads /\ \A o \in Threads : JobOK(job[o])
  BY DEF Typed
<1>3. DOMAIN job' = Threads /\ job'[t] = j /\ \A o \in Threads \ {t} : job'[o] = job[o]
  BY <1>1, <1>2
<1>4. JobOK(j)
  BY DEF JobOK
<1>5. entered' \in 0..MaxHandlers
  BY <1>1, PagesAssumption DEF Typed, TypeOK
<1>6. job[t].on = {}
  BY <1>1 DEF Idle
<1>7. Busy' = Busy \cup nics
  <2>1. \A n : n \in Busy' <=> \E o \in Threads : n \in job'[o].on
    BY DEF Busy
  <2>2. \A n : n \in Busy <=> \E o \in Threads : n \in job[o].on
    BY DEF Busy
  <2>3. job'[t].on = nics
    BY <1>3
  <2>4. ASSUME NEW n
        PROVE  (\E o \in Threads : n \in job'[o].on) <=> (\E o \in Threads : n \in job[o].on) \/ n \in nics
    <3>1. CASE n \in nics
      BY <2>3, <3>1
    <3>2. CASE n \notin nics
      <4>1. \A o \in Threads : n \in job'[o].on <=> n \in job[o].on
        BY <1>3, <1>6, <2>3, <3>2
      <4> QED BY <3>2, <4>1
    <3> QED BY <3>1, <3>2
  <2>5. \A n : n \in Busy' <=> n \in Busy \/ n \in nics
    BY <2>1, <2>2, <2>4
  <2> QED BY <2>5
<1> QED BY <1>1, <1>2, <1>3, <1>4, <1>5, <1>6, <1>7

\* A thread has no job any more.
LEMMA Ending ==
  ASSUME Typed, NEW t \in Threads, job' = [job EXCEPT ![t] = Idle]
  PROVE  /\ DOMAIN job' = Threads
         /\ \A o \in Threads : JobOK(job[o]')
         /\ \A o \in Threads \ {t} : job[o]' = job[o]
         /\ job[t].on' = {}
<1>1. DOMAIN job = Threads /\ \A o \in Threads : JobOK(job[o])
  BY DEF Typed
<1>2. DOMAIN job' = Threads /\ job'[t] = Idle /\ \A o \in Threads \ {t} : job'[o] = job[o]
  BY <1>1
<1>3. JobOK(Idle)
  BY DEF JobOK, Idle
<1>4. Idle.on = {}
  BY DEF Idle
<1> QED BY <1>1, <1>2, <1>3, <1>4

\* The calls AnalyseFrame makes of a batch.
LEMMA BatchCalls ==
  ASSUME Typed, NEW b \in Batches
  PROVE  LET s == FrameProg(SetToSeq(Adds(b)), SetToSeq(Removes(b)), SetToSeq(GvrpPorts),
                            [n \in GvrpPorts |-> VlansOf(n)])
         IN  /\ Adds(b) \in SUBSET Vlans /\ Removes(b) \in SUBSET Vlans
             /\ s \in Seq(Calls)
             /\ FrameCalls(s)
             /\ \A k \in 1..Len(s) : s[k].nic \in GvrpPorts
             /\ \A n \in GvrpPorts :
                  /\ ToJoin(s, n) = IF Adds(b) = {} THEN {} ELSE VlansOf(n) \cup Adds(b)
                  /\ ToLeave(s, n) = Removes(b)
<1> DEFINE had == [n \in GvrpPorts |-> VlansOf(n)]
           adds == SetToSeq(Adds(b))
           removes == SetToSeq(Removes(b))
           nics == SetToSeq(GvrpPorts)
<1>1. Adds(b) \in SUBSET Vlans /\ IsFiniteSet(Adds(b))
  BY SaidType DEF Adds
<1>2. Removes(b) \in SUBSET Vlans /\ IsFiniteSet(Removes(b))
  <2>1. Said(b, 3) \in SUBSET Vlans /\ IsFiniteSet(Said(b, 3))
    BY SaidType
  <2>2. Removes(b) \in SUBSET Said(b, 3)
    BY DEF Removes
  <2> QED BY <2>1, <2>2, FS_Subset
<1>3. GvrpPorts \in SUBSET Nics /\ IsFiniteSet(GvrpPorts)
  <2>1. GvrpPorts \in SUBSET Nics
    BY DEF GvrpPorts
  <2> QED BY <2>1, PagesAssumption, FS_Subset
<1>4. adds \in Seq(Vlans) /\ ToSet(adds) = Adds(b) /\ (adds = << >> <=> Adds(b) = {})
  BY <1>1, ListedSet
<1>5. removes \in Seq(Vlans) /\ ToSet(removes) = Removes(b)
  BY <1>2, ListedSet
<1>6. nics \in Seq(Nics) /\ ToSet(nics) = GvrpPorts
  BY <1>3, ListedSet
<1>7. \A n \in GvrpPorts : had[n] = VlansOf(n) /\ had[n] \in SUBSET Vlans
  BY <1>3 DEF Typed, TypeOK, VlansOf
<1>8. had \in [ToSet(nics) -> SUBSET Vlans]
  BY <1>6, <1>7
<1> HIDE DEF adds, removes, nics, had
<1> DEFINE s == FrameProg(adds, removes, nics, had)
<1>9. /\ s \in Seq(Calls) /\ FrameCalls(s)
      /\ \A k \in 1..Len(s) : s[k].nic \in ToSet(nics)
      /\ \A n \in ToSet(nics) :
           /\ ToJoin(s, n) = IF adds = << >> THEN {} ELSE had[n] \cup ToSet(adds)
           /\ ToLeave(s, n) = ToSet(removes)
  BY <1>4, <1>5, <1>6, <1>8, FrameProgCalls
<1> HIDE DEF s
<1>10. /\ \A k \in 1..Len(s) : s[k].nic \in GvrpPorts
       /\ \A n \in GvrpPorts :
            /\ ToJoin(s, n) = IF Adds(b) = {} THEN {} ELSE VlansOf(n) \cup Adds(b)
            /\ ToLeave(s, n) = Removes(b)
  BY <1>4, <1>5, <1>6, <1>7, <1>9
<1> QED BY <1>1, <1>2, <1>9, <1>10 DEF s, adds, removes, nics, had

\* The calls of an edit are about its port.
LEMMA EditNics ==
  ASSUME NEW f \in Forms
  PROVE  \A i \in DOMAIN EditProg(f) : EditProg(f)[i].nic = f.nic
<1> DEFINE s == EditProg(f)
<1>1. /\ Size(f) \in Nat /\ Len(f.vlans) \in Nat /\ s \in Seq(Calls) /\ Len(s) = Size(f)
      /\ s[1] = Call(IF f.active THEN "up" ELSE "down", f.nic, "none")
      /\ s[2] = Call("clear", f.nic, "none")
      /\ \A j \in 1..Len(f.vlans) : s[j + 2] = Call(Applies(f), f.nic, f.vlans[j])
      /\ s[Size(f)] = Call("type", f.nic, f.type)
  BY EditCalls
<1>3. Size(f) = Len(f.vlans) + 3
  BY DEF Size
<1> HIDE DEF s
<1>2. /\ s[1].nic = f.nic /\ s[2].nic = f.nic /\ s[Size(f)].nic = f.nic
      /\ \A j \in 1..Len(f.vlans) : s[j + 2].nic = f.nic
  <2>1. \A do, arg : Call(do, f.nic, arg).nic = f.nic
    BY DEF Call
  <2> QED BY <1>1, <2>1
<1>4. ASSUME NEW i \in DOMAIN s, i # 1, i # 2, i # Size(f)
      PROVE  i - 2 \in 1..Len(f.vlans) /\ (i - 2) + 2 = i
  BY <1>1, <1>3, <1>4
<1>5. ASSUME NEW i \in DOMAIN s, i # 1, i # 2, i # Size(f)
      PROVE  s[i].nic = f.nic
  <2>1. s[(i - 2) + 2].nic = f.nic
    BY <1>2, <1>4, <1>5
  <2> QED BY <1>4, <1>5, <2>1
<1> QED BY <1>2, <1>5 DEF s

-----------------------------------------------------------------------------
\* The type.

LEMMA InitTyped == Init => Typed
<1> SUFFICES ASSUME Init PROVE Typed
  OBVIOUS
<1>1. TypeOK
  BY PagesAssumption DEF Init, TypeOK, VlansOf, Types
<1>2. JobOK(Idle)
  BY DEF JobOK, Idle
<1>3. DOMAIN job = Threads /\ \A t \in Threads : JobOK(job[t])
  BY <1>2 DEF Init
<1>4. gvrp \in [Nics -> SUBSET Vlans]
  BY DEF Init
<1> QED BY <1>1, <1>3, <1>4 DEF Typed

\* The calls that change VLANs keep the types, and the ports' VLANs keep their bridges.
LEMMA ClearTyped ==
  ASSUME Typed, NEW t \in Threads, Clear(t)
  PROVE  TypeOK' /\ (gvrp \in [Nics -> SUBSET Vlans])'
<1>1. Makes(t, {"clear"})
  BY DEF Clear
<1>2. Nic(t) \in Nics
  BY <1>1, Making, CallArgs DEF Nic
<1> QED BY <1>2 DEF Clear, Typed, TypeOK, VlansOf, Drop

LEMMA UntagTyped ==
  ASSUME Typed, NEW t \in Threads, Untag(t)
  PROVE  TypeOK' /\ (gvrp \in [Nics -> SUBSET Vlans])'
<1>1. Makes(t, {"untag"})
  BY DEF Untag
<1>2. Nic(t) \in Nics /\ Arg(t) \in Vlans
  BY <1>1, Making, CallArgs DEF Nic, Arg
<1>3. PICK n \in Nics, v \in Vlans : n = Nic(t) /\ v = Arg(t)
  BY <1>2
<1>4. /\ untagged' = [untagged EXCEPT ![n] = v] /\ bridges' = bridges \cup {v}
      /\ tagged' = tagged /\ gvrp' = gvrp
  BY <1>3 DEF Untag
<1>5. /\ tagged \in [Nics -> SUBSET Vlans] /\ gvrp \in [Nics -> SUBSET Vlans]
      /\ untagged \in [Nics -> Vlans \cup {"none"}]
      /\ bridges \in SUBSET Vlans /\ addressed \in SUBSET bridges
      /\ \A m \in Nics : gvrp[m] \subseteq tagged[m]
      /\ \A m \in Nics : VlansOf(m) \subseteq bridges
  BY DEF Typed, TypeOK
<1>6. \A m \in Nics : (VlansOf(m) \subseteq bridges)'
  BY <1>4, <1>5 DEF VlansOf
<1>7. nicAddr' \in SUBSET Nics
  BY <1>3 DEF Typed, TypeOK, Untag, Flush
<1>8. /\ untagged' \in [Nics -> Vlans \cup {"none"}]
      /\ bridges' \in SUBSET Vlans /\ addressed \in SUBSET bridges'
  BY <1>4, <1>5
<1> QED BY <1>4, <1>5, <1>6, <1>7, <1>8 DEF Untag, Typed, TypeOK, history

LEMMA TagTyped ==
  ASSUME Typed, NEW t \in Threads, Tag(t)
  PROVE  TypeOK' /\ (gvrp \in [Nics -> SUBSET Vlans])'
<1>1. Makes(t, {"tag", "tagGvrp"})
  BY DEF Tag
<1>2. Nic(t) \in Nics /\ Arg(t) \in Vlans
  BY <1>1, Making, CallArgs DEF Nic, Arg
<1>3. PICK n \in Nics, v \in Vlans : n = Nic(t) /\ v = Arg(t)
  BY <1>2
<1>4. /\ tagged' = [tagged EXCEPT ![n] = @ \cup {v}] /\ bridges' = bridges \cup {v}
      /\ gvrp' = gvrp \/ gvrp' = [gvrp EXCEPT ![n] = @ \cup {v}]
      /\ untagged' = untagged /\ up' = up \cup {n}
  BY <1>3 DEF Tag
<1>5. /\ tagged \in [Nics -> SUBSET Vlans] /\ gvrp \in [Nics -> SUBSET Vlans]
      /\ untagged \in [Nics -> Vlans \cup {"none"}]
      /\ bridges \in SUBSET Vlans /\ addressed \in SUBSET bridges
      /\ \A m \in Nics : gvrp[m] \subseteq tagged[m]
      /\ \A m \in Nics : VlansOf(m) \subseteq bridges
  BY DEF Typed, TypeOK
<1>6. \A m \in Nics : (VlansOf(m) \subseteq bridges)'
  BY <1>4, <1>5 DEF VlansOf
<1>7. \A m \in Nics : gvrp'[m] \subseteq tagged'[m]
  BY <1>4, <1>5
<1>8. /\ tagged' \in [Nics -> SUBSET Vlans] /\ gvrp' \in [Nics -> SUBSET Vlans]
      /\ bridges' \in SUBSET Vlans /\ addressed \in SUBSET bridges'
  BY <1>4, <1>5
<1> QED BY <1>4, <1>5, <1>6, <1>7, <1>8 DEF Tag, Typed, TypeOK, history

LEMMA JoinTyped ==
  ASSUME Typed, NEW t \in Threads, Join(t)
  PROVE  TypeOK' /\ (gvrp \in [Nics -> SUBSET Vlans])'
<1>1. Makes(t, {"join"})
  BY DEF Join
<1>2. Nic(t) \in Nics /\ Arg(t) \in SUBSET Vlans
  BY <1>1, Making, CallArgs DEF Nic, Arg
<1>3. PICK n \in Nics, v \in SUBSET Vlans : n = Nic(t) /\ v = Arg(t)
  BY <1>2
<1>4. /\ tagged' = [tagged EXCEPT ![n] = @ \cup v] /\ bridges' = bridges \cup v
      /\ gvrp' = [gvrp EXCEPT ![n] = @ \cup (v \ tagged[n])]
      /\ untagged' = untagged /\ up' = up \cup {n}
  BY <1>3 DEF Join
<1>5. /\ tagged \in [Nics -> SUBSET Vlans] /\ gvrp \in [Nics -> SUBSET Vlans]
      /\ untagged \in [Nics -> Vlans \cup {"none"}]
      /\ bridges \in SUBSET Vlans /\ addressed \in SUBSET bridges
      /\ \A m \in Nics : gvrp[m] \subseteq tagged[m]
      /\ \A m \in Nics : VlansOf(m) \subseteq bridges
  BY DEF Typed, TypeOK
<1>6. \A m \in Nics : (VlansOf(m) \subseteq bridges)'
  BY <1>4, <1>5 DEF VlansOf
<1>7. \A m \in Nics : gvrp'[m] \subseteq tagged'[m]
  BY <1>4, <1>5
<1>8. /\ tagged' \in [Nics -> SUBSET Vlans] /\ gvrp' \in [Nics -> SUBSET Vlans]
      /\ bridges' \in SUBSET Vlans /\ addressed \in SUBSET bridges'
  BY <1>4, <1>5
<1> QED BY <1>4, <1>5, <1>6, <1>7, <1>8 DEF Join, Typed, TypeOK, history

LEMMA LeaveTyped ==
  ASSUME Typed, NEW t \in Threads, Leave(t)
  PROVE  TypeOK' /\ (gvrp \in [Nics -> SUBSET Vlans])'
<1>1. Makes(t, {"leave"})
  BY DEF Leave
<1>2. Nic(t) \in Nics /\ Arg(t) \in Vlans
  BY <1>1, Making, CallArgs DEF Nic, Arg
<1>3. PICK n \in Nics, v \in Vlans : n = Nic(t) /\ v = Arg(t)
  BY <1>2
<1> DEFINE left == IF v \in tagged[n] /\ untagged[n] = v THEN {} ELSE {v} \cap VlansOf(n)
<1>4. /\ tagged' = [tagged EXCEPT ![n] = @ \ {v}]
      /\ gvrp' = [gvrp EXCEPT ![n] = @ \ {v}]
      /\ untagged' = [untagged EXCEPT ![n] = IF @ = v /\ v \notin tagged[n] THEN "none" ELSE @]
      /\ Drop(n, left)
  BY <1>3 DEF Leave
<1>5. /\ tagged \in [Nics -> SUBSET Vlans] /\ gvrp \in [Nics -> SUBSET Vlans]
      /\ untagged \in [Nics -> Vlans \cup {"none"}]
      /\ bridges \in SUBSET Vlans /\ addressed \in SUBSET bridges
      /\ \A m \in Nics : gvrp[m] \subseteq tagged[m]
      /\ \A m \in Nics : VlansOf(m) \subseteq bridges
  BY DEF Typed, TypeOK
<1>6. ASSUME NEW m \in Nics
      PROVE  VlansOf(m)' \subseteq bridges'
  <2> HIDE DEF left
  <2>1. CASE m # n
    <3>1. VlansOf(m)' = VlansOf(m)
      BY <1>4, <1>5, <2>1 DEF VlansOf
    <3> QED BY <1>4, <1>5, <2>1, <3>1 DEF Drop
  <2>2. CASE m = n
    <3>1. VlansOf(n)' \subseteq VlansOf(n) \ left
      BY <1>4, <1>5 DEF VlansOf, left
    <3> QED BY <1>4, <1>5, <2>2, <3>1 DEF Drop
  <2> QED BY <2>1, <2>2
<1>7. \A m \in Nics : gvrp'[m] \subseteq tagged'[m]
  BY <1>4, <1>5
<1>8. /\ tagged' \in [Nics -> SUBSET Vlans] /\ gvrp' \in [Nics -> SUBSET Vlans]
      /\ untagged' \in [Nics -> Vlans \cup {"none"}]
      /\ bridges' \in SUBSET Vlans /\ addressed' \in SUBSET bridges'
  BY <1>4, <1>5 DEF Drop
<1> QED BY <1>6, <1>7, <1>8 DEF Leave, Typed, TypeOK, history

\* What it takes for a step to keep Typed.
LEMMA TypedStep ==
  ASSUME TypeOK', (gvrp \in [Nics -> SUBSET Vlans])',
         DOMAIN job' = Threads, \A o \in Threads : JobOK(job[o]')
  PROVE  Typed'
BY DEF Typed, JobOK

\* The VLANs and the addresses stay as they are.
LEMMA QuietTyped ==
  ASSUME Typed, UNCHANGED port, UNCHANGED missed,
         wish' \in [Nics -> {"Listening", "Off", "unset"}], forgotten' \in SUBSET Nics,
         entered' \in 0..MaxHandlers, faults' \in 0..MaxFaults
  PROVE  TypeOK' /\ (gvrp \in [Nics -> SUBSET Vlans])'
BY DEF Typed, TypeOK, port, VlansOf

LEMMA WishType ==
  ASSUME Typed, NEW f \in Forms, Wish(f)
  PROVE  wish' \in [Nics -> {"Listening", "Off", "unset"}]
BY DEF Typed, TypeOK, Wish

\* Every step keeps the state typed.
LEMMA Typing ==
  ASSUME Typed, [Next]_vars
  PROVE  Typed'
<1>0. /\ wish \in [Nics -> {"Listening", "Off", "unset"}] /\ forgotten \in SUBSET Nics
      /\ entered \in 0..MaxHandlers /\ faults \in 0..MaxFaults
      /\ DOMAIN job = Threads /\ \A o \in Threads : JobOK(job[o])
      /\ MaxFaults \in Nat
  BY PagesAssumption DEF Typed, TypeOK
<1>1. ASSUME NEW t \in Threads, NEW f \in Forms, Edit(t, f)
      PROVE  Typed'
  <2>1. /\ f.nic \in Nics /\ EditProg(f) \in Seq(Calls)
        /\ \A i \in DOMAIN EditProg(f) : EditProg(f)[i].nic = f.nic
    BY EditCalls, EditNics
  <2>2. /\ {f.nic} \in SUBSET Nics
        /\ \A i \in DOMAIN EditProg(f) : EditProg(f)[i].do # "address" => EditProg(f)[i].nic \in {f.nic}
    BY <2>1
  <2>3. Enter(t, EditProg(f), {f.nic}, [n \in {f.nic} |-> Asked(f)])
    BY <1>1 DEF Edit
  <2>4. DOMAIN job' = Threads /\ (\A o \in Threads : JobOK(job[o]')) /\ entered' \in 0..MaxHandlers
    BY <2>1, <2>2, <2>3, Entering
  <2>5. /\ UNCHANGED <<port, missed, faults>> /\ forgotten' = forgotten \ {f.nic}
        /\ wish' \in [Nics -> {"Listening", "Off", "unset"}]
    BY <1>1, WishType DEF Edit
  <2>6. TypeOK' /\ (gvrp \in [Nics -> SUBSET Vlans])'
    BY <1>0, <2>4, <2>5, QuietTyped
  <2> QED BY <2>4, <2>6, TypedStep
<1>2. ASSUME NEW t \in Threads, NEW f \in Forms, Refuse(t, f)
      PROVE  Typed'
  <2>1. /\ UNCHANGED <<port, job, missed, entered, faults>>
        /\ forgotten' = forgotten \cup {f.nic} /\ f.nic \in Nics
        /\ wish' \in [Nics -> {"Listening", "Off", "unset"}]
    BY <1>2, WishType, EditCalls DEF Refuse
  <2>2. TypeOK' /\ (gvrp \in [Nics -> SUBSET Vlans])'
    BY <1>0, <2>1, QuietTyped
  <2> QED BY <1>0, <2>1, <2>2, TypedStep
<1>3. ASSUME NEW t \in Threads, NEW v \in Vlans, EditBridge(t, v)
      PROVE  Typed'
  <2> DEFINE listed == {n \in Nics : v \in VlansOf(n)}
             todo == <<[do |-> "address", nic |-> listed, arg |-> v]>>
  <2>1. todo \in Seq(Calls) /\ \A i \in DOMAIN todo : todo[i].do = "address"
    BY DEF Calls
  <2>2. Enter(t, todo, {}, << >>) /\ UNCHANGED <<wish, port, forgotten, missed, faults>>
    BY <1>3 DEF EditBridge
  <2> HIDE DEF todo
  <2>3. DOMAIN job' = Threads /\ (\A o \in Threads : JobOK(job[o]')) /\ entered' \in 0..MaxHandlers
    BY <2>1, <2>2, Entering
  <2>4. TypeOK' /\ (gvrp \in [Nics -> SUBSET Vlans])'
    BY <1>0, <2>2, <2>3, QuietTyped
  <2> QED BY <2>3, <2>4, TypedStep
<1>4. ASSUME NEW t \in Threads, NEW b \in Batches, AnalyseFrame(t, b)
      PROVE  Typed'
  <2>1. PICK todo, told :
          /\ Enter(t, todo, GvrpPorts, told)
          /\ todo = FrameProg(SetToSeq(Adds(b)), SetToSeq(Removes(b)), SetToSeq(GvrpPorts),
                              [n \in GvrpPorts |-> VlansOf(n)])
    BY <1>4, Zenon DEF AnalyseFrame
  <2>2. todo \in Seq(Calls) /\ \A k \in 1..Len(todo) : todo[k].nic \in GvrpPorts
    BY <2>1, BatchCalls
  <2>3. GvrpPorts \in SUBSET Nics /\ DOMAIN todo = 1..Len(todo)
    BY <2>2, LenProperties DEF GvrpPorts
  <2>4. DOMAIN job' = Threads /\ (\A o \in Threads : JobOK(job[o]')) /\ entered' \in 0..MaxHandlers
    BY <2>1, <2>2, <2>3, Entering
  <2>5. UNCHANGED <<wish, port, forgotten, missed, faults>>
    BY <1>4 DEF AnalyseFrame
  <2>6. TypeOK' /\ (gvrp \in [Nics -> SUBSET Vlans])'
    BY <1>0, <2>4, <2>5, QuietTyped
  <2> QED BY <2>4, <2>6, TypedStep
<1>5. ASSUME NEW t \in Threads, SetState(t)
      PROVE  Typed'
  <2>1. Makes(t, {"up", "down"})
    BY <1>5 DEF SetState
  <2>2. DOMAIN job' = Threads /\ (\A o \in Threads : JobOK(job[o]')) /\ Nic(t) \in Nics
    BY <2>1, Making, CallArgs DEF Nic
  <2>3. TypeOK' /\ (gvrp \in [Nics -> SUBSET Vlans])'
    BY <1>5, <2>2 DEF SetState, Typed, TypeOK, VlansOf, history
  <2> QED BY <2>2, <2>3, TypedStep
<1>6. ASSUME NEW t \in Threads, Clear(t)
      PROVE  Typed'
  <2>1. Makes(t, {"clear"})
    BY <1>6 DEF Clear
  <2> QED BY <1>6, <2>1, Making, ClearTyped, TypedStep
<1>7. ASSUME NEW t \in Threads, Untag(t)
      PROVE  Typed'
  <2>1. Makes(t, {"untag"})
    BY <1>7 DEF Untag
  <2> QED BY <1>7, <2>1, Making, UntagTyped, TypedStep
<1>8. ASSUME NEW t \in Threads, Tag(t)
      PROVE  Typed'
  <2>1. Makes(t, {"tag", "tagGvrp"})
    BY <1>8 DEF Tag
  <2> QED BY <1>8, <2>1, Making, TagTyped, TypedStep
<1>9. ASSUME NEW t \in Threads, SetType(t)
      PROVE  Typed'
  <2>1. Makes(t, {"type"})
    BY <1>9 DEF SetType
  <2>2. DOMAIN job' = Threads /\ (\A o \in Threads : JobOK(job[o]')) /\ Arg(t) \in Types
    BY <2>1, Making, CallArgs DEF Arg
  <2>3. TypeOK' /\ (gvrp \in [Nics -> SUBSET Vlans])'
    BY <1>9, <2>2 DEF SetType, Typed, TypeOK, VlansOf, history
  <2> QED BY <2>2, <2>3, TypedStep
<1>10. ASSUME NEW t \in Threads, Address(t)
       PROVE  Typed'
  <2>1. Makes(t, {"address"})
    BY <1>10 DEF Address
  <2>2. DOMAIN job' = Threads /\ \A o \in Threads : JobOK(job[o]')
    BY <2>1, Making
  <2>3. TypeOK' /\ (gvrp \in [Nics -> SUBSET Vlans])'
    BY <1>10 DEF Address, Typed, TypeOK, VlansOf
  <2> QED BY <2>2, <2>3, TypedStep
<1>11. ASSUME NEW t \in Threads, Join(t)
       PROVE  Typed'
  <2>1. Makes(t, {"join"})
    BY <1>11 DEF Join
  <2> QED BY <1>11, <2>1, Making, JoinTyped, TypedStep
<1>12. ASSUME NEW t \in Threads, Leave(t)
       PROVE  Typed'
  <2>1. Makes(t, {"leave"})
    BY <1>12 DEF Leave
  <2> QED BY <1>12, <2>1, Making, LeaveTyped, TypedStep
<1>13. ASSUME NEW t \in Threads, Fail(t)
       PROVE  Typed'
  <2>1. /\ job' = [job EXCEPT ![t] = Idle] /\ UNCHANGED <<wish, port, forgotten, missed, entered>>
        /\ UNCHANGED faults \/ (faults < MaxFaults /\ faults' = faults + 1)
    BY <1>13 DEF Fail
  <2>2. faults' \in 0..MaxFaults
    BY <1>0, <2>1
  <2>3. DOMAIN job' = Threads /\ \A o \in Threads : JobOK(job[o]')
    BY <2>1, Ending
  <2>4. TypeOK' /\ (gvrp \in [Nics -> SUBSET Vlans])'
    BY <1>0, <2>1, <2>2, QuietTyped
  <2> QED BY <2>3, <2>4, TypedStep
<1>14. ASSUME NEW t \in Threads, Return(t)
       PROVE  Typed'
  <2>1. job' = [job EXCEPT ![t] = Idle] /\ UNCHANGED <<wish, port, forgotten, missed, entered, faults>>
    BY <1>14 DEF Return, history
  <2>2. DOMAIN job' = Threads /\ \A o \in Threads : JobOK(job[o]')
    BY <2>1, Ending
  <2>3. TypeOK' /\ (gvrp \in [Nics -> SUBSET Vlans])'
    BY <1>0, <2>1, QuietTyped
  <2> QED BY <2>2, <2>3, TypedStep
<1>15. CASE Crash
  <2>1. /\ job' = [t \in Threads |-> Idle] /\ UNCHANGED <<port, missed, entered>>
        /\ faults < MaxFaults /\ faults' = faults + 1
        /\ wish' = [n \in Nics |-> "unset"] /\ forgotten' = Nics
    BY <1>15 DEF Crash
  <2>2. DOMAIN job' = Threads /\ \A o \in Threads : JobOK(job[o]')
    BY <2>1 DEF JobOK, Idle
  <2>3. faults' \in 0..MaxFaults
    BY <1>0, <2>1
  <2>4. TypeOK' /\ (gvrp \in [Nics -> SUBSET Vlans])'
    BY <1>0, <2>1, <2>3, QuietTyped
  <2> QED BY <2>2, <2>4, TypedStep
<1>16. CASE UNCHANGED vars
  <2>1. TypeOK' /\ (gvrp \in [Nics -> SUBSET Vlans])'
    BY <1>16 DEF vars, Typed, TypeOK, VlansOf
  <2> QED BY <1>0, <1>16, <2>1, TypedStep DEF vars
<1> QED
  BY <1>1, <1>2, <1>3, <1>4, <1>5, <1>6, <1>7, <1>8, <1>9, <1>10, <1>11, <1>12, <1>13, <1>14,
     <1>15, <1>16 DEF Next

-----------------------------------------------------------------------------
\* What the ports are told.

\* What a form that is not refused asks for.
LEMMA AskedOK ==
  ASSUME NEW f \in Forms, ~Refused(f)
  PROVE  /\ Asked(f) \in Told
         /\ Asked(f).type # "Off" => Cardinality(Asked(f).vlans) <= 1
         /\ Asked(f).gvrp => f.gvrp
<1>1. /\ f.vlans \in Seq(Vlans) /\ f.type \in Types /\ f.active \in BOOLEAN
      /\ f.tagged \in BOOLEAN /\ f.gvrp \in BOOLEAN /\ Len(f.vlans) \in Nat
  BY EditCalls
<1>2. ToSet(f.vlans) \in SUBSET Vlans /\ ToSet(f.vlans) = {f.vlans[i] : i \in 1..Len(f.vlans)}
  BY <1>1, Elements
<1>3. f.vlans # << >> => Last(f.vlans) = f.vlans[Len(f.vlans)] /\ Last(f.vlans) \in Vlans
  <2>1. f.vlans # << >> => Len(f.vlans) \in 1..Len(f.vlans)
    BY <1>1, EmptySeq
  <2> QED BY <1>1, <2>1 DEF Last
<1>4. Asked(f) \in Told
  BY <1>1, <1>2, <1>3 DEF Asked, Told
<1>5. ASSUME f.type # "Off"
      PROVE  Cardinality(Asked(f).vlans) <= 1
  <2>1. Len(f.vlans) <= 1
    BY <1>1, <1>5 DEF Refused
  <2>2. Asked(f).vlans = {} \/ \E x : Asked(f).vlans = {x}
    <3>1. CASE Len(f.vlans) = 0
      BY <1>1, <1>2, <3>1, EmptySeq DEF Asked
    <3>2. CASE Len(f.vlans) = 1
      <4>1. ToSet(f.vlans) = {f.vlans[1]}
        BY <1>2, <3>2
      <4> QED BY <4>1 DEF Asked
    <3>3. Len(f.vlans) = 0 \/ Len(f.vlans) = 1
      <4>1. PICK k \in Nat : k = Len(f.vlans)
        BY <1>1
      <4>2. k <= 1
        BY <2>1, <4>1
      <4>3. k = 0 \/ k = 1
        BY <4>2
      <4> QED BY <4>1, <4>3
    <3> QED BY <3>1, <3>2, <3>3
  <2>3. Cardinality({}) = 0 /\ \A x : Cardinality({x}) = 1
    BY FS_EmptySet, FS_Singleton
  <2> QED BY <2>2, <2>3
<1> QED BY <1>4, <1>5 DEF Asked

\* A port told nothing else keeps what it was told, unless its wish was written.
LEMMA DueStep ==
  ASSUME DueOK,
         \A n \in Nics : due'[n] # Anything =>
           \/ /\ due'[n] = due[n]
              /\ n \in forgotten => n \in forgotten'
              /\ n \in forgotten' \/ wish'[n] = wish[n]
           \/ /\ due'[n] \in Told
              /\ due'[n].type # "Off" /\ ~due'[n].gvrp => Cardinality(due'[n].vlans) <= 1
              /\ n \notin forgotten' /\ due'[n].gvrp => wish'[n] = "Listening"
  PROVE  DueOK'
<1> SUFFICES ASSUME NEW n \in Nics, due'[n] # Anything
             PROVE  /\ due'[n] \in Told
                    /\ due'[n].type # "Off" /\ ~due'[n].gvrp => Cardinality(due'[n].vlans) <= 1
                    /\ n \notin forgotten' /\ due'[n].gvrp => wish'[n] = "Listening"
  BY DEF DueOK, Told, Anything
<1>1. CASE /\ due'[n] = due[n]
           /\ n \in forgotten => n \in forgotten'
           /\ n \in forgotten' \/ wish'[n] = wish[n]
  <2>1. /\ due[n] \in Told
        /\ due[n].type # "Off" /\ ~due[n].gvrp => Cardinality(due[n].vlans) <= 1
        /\ n \notin forgotten /\ due[n].gvrp => wish[n] = "Listening"
    BY <1>1 DEF DueOK
  <2>2. n \notin forgotten' => n \notin forgotten /\ wish'[n] = wish[n]
    BY <1>1
  <2> QED BY <1>1, <2>1, <2>2
<1> QED BY <1>1

\* A GVRP port that no handler is on was told to do GVRP, if it was told anything.
LEMMA GvrpTold ==
  ASSUME Rest, NEW n \in GvrpPorts \ Busy, due[n] # Anything
  PROVE  due[n].gvrp /\ AsTold(n) /\ n \in Nics /\ gvrp[n] # {}
BY DEF Rest, Settled, GvrpPorts, AsTold

\* What a batch tells a port it notes.
ToldByBatch(n, b) ==
  IF due[n] = Anything THEN Anything
  ELSE [due[n] EXCEPT !.vlans = (@ \cup Adds(b)) \ Removes(b), !.up = TRUE]

LEMMA BatchTells ==
  ASSUME NEW t \in Threads, NEW b \in Batches, AnalyseFrame(t, b)
  PROVE  \A n \in Nics : due'[n] = IF n \notin GvrpPorts THEN due[n]
                                   ELSE IF n \in Busy THEN Anything ELSE ToldByBatch(n, b)
<1>1. due' = [n \in Nics |-> IF n \notin GvrpPorts THEN due[n]
                              ELSE IF n \in Busy THEN Anything
                              ELSE [m \in GvrpPorts |-> ToldByBatch(m, b)][n]]
  BY DEF AnalyseFrame, Enter, ToldByBatch
<1> QED BY <1>1

LEMMA DueKept ==
  ASSUME Typed, DueOK, Rest, [Next]_vars
  PROVE  DueOK'
<1>1. ASSUME NEW t \in Threads, NEW f \in Forms, Edit(t, f)
      PROVE  DueOK'
  <2>1. /\ ~Refused(f) /\ forgotten' = forgotten \ {f.nic} /\ f.nic \in Nics
        /\ \A n \in Nics : n # f.nic => due'[n] = due[n] /\ wish'[n] = wish[n]
        /\ due'[f.nic] = Anything \/ due'[f.nic] = Asked(f)
        /\ f.gvrp => wish'[f.nic] = "Listening"
    BY <1>1, EditCalls DEF Edit, Enter, Wish, Typed, TypeOK
  <2>2. /\ Asked(f) \in Told
        /\ Asked(f).type # "Off" => Cardinality(Asked(f).vlans) <= 1
        /\ Asked(f).gvrp => f.gvrp
    BY <2>1, AskedOK
  <2> QED BY <2>1, <2>2, DueStep
<1>2. ASSUME NEW t \in Threads, NEW f \in Forms, Refuse(t, f)
      PROVE  DueOK'
  <2>1. /\ due' = due /\ forgotten' = forgotten \cup {f.nic}
        /\ \A n \in Nics : n # f.nic => wish'[n] = wish[n]
    BY <1>2, EditCalls DEF Refuse, Wish, Typed, TypeOK
  <2> QED BY <2>1, DueStep
<1>3. ASSUME NEW t \in Threads, NEW v \in Vlans, EditBridge(t, v)
      PROVE  DueOK'
  <2>1. /\ wish' = wish /\ forgotten' = forgotten
        /\ \A n \in Nics : due'[n] = due[n]
    BY <1>3 DEF EditBridge, Enter
  <2> QED BY <2>1, DueStep
<1>4. ASSUME NEW t \in Threads, NEW b \in Batches, AnalyseFrame(t, b)
      PROVE  DueOK'
  <2>1. wish' = wish /\ forgotten' = forgotten
    BY <1>4 DEF AnalyseFrame
  <2>2. ASSUME NEW n \in GvrpPorts \ Busy, due[n] # Anything
        PROVE  /\ ToldByBatch(n, b) \in Told
               /\ ToldByBatch(n, b).gvrp
               /\ n \notin forgotten => wish[n] = "Listening"
    <3>1. due[n].gvrp /\ n \in Nics
      BY <2>2, GvrpTold
    <3>2. due[n] \in Told /\ (n \notin forgotten => wish[n] = "Listening")
      BY <2>2, <3>1 DEF DueOK
    <3>3. Adds(b) \in SUBSET Vlans
      BY BatchCalls
    <3> QED BY <2>2, <3>1, <3>2, <3>3 DEF ToldByBatch, Told
  <2>3. \A n \in Nics : due'[n] = due[n] \/ due'[n] = Anything
                         \/ (n \in GvrpPorts \ Busy /\ due[n] # Anything /\ due'[n] = ToldByBatch(n, b))
    BY <1>4, BatchTells DEF ToldByBatch
  <2> QED BY <2>1, <2>2, <2>3, DueStep
<1>5. ASSUME NEW t \in Threads, Fail(t)
      PROVE  DueOK'
  <2>1. /\ wish' = wish /\ forgotten' = forgotten
        /\ \A n \in Nics : due'[n] = due[n] \/ due'[n] = Anything
    BY <1>5 DEF Fail
  <2> QED BY <2>1, DueStep
<1>6. CASE Crash
  <2>1. /\ forgotten' = Nics
        /\ \A n \in Nics : due'[n] = due[n] \/ due'[n] = Anything
    BY <1>6 DEF Crash
  <2> QED BY <2>1, DueStep
<1>7. CASE UNCHANGED <<wish, due, forgotten>>
  BY <1>7, DueStep
<1>8. ASSUME NEW t \in Threads,
             SetState(t) \/ Clear(t) \/ Untag(t) \/ Tag(t) \/ SetType(t) \/ Address(t)
               \/ Join(t) \/ Leave(t) \/ Return(t)
      PROVE  UNCHANGED <<wish, due, forgotten>>
  BY <1>8 DEF SetState, Clear, Untag, Tag, SetType, Address, Join, Leave, Return, history
<1>9. UNCHANGED vars => UNCHANGED <<wish, due, forgotten>>
  BY DEF vars
<1> QED BY <1>1, <1>2, <1>3, <1>4, <1>5, <1>6, <1>7, <1>8, <1>9 DEF Next

-----------------------------------------------------------------------------
\* Who is on a port.

LEMMA SoleStep ==
  ASSUME Sole,
         \A o \in Threads, n \in Nics : n \in job'[o].on => n \in job[o].on,
         \A n \in Nics : due'[n] = due[n] \/ due'[n] = Anything
  PROVE  Sole'
BY DEF Sole, Anything

LEMMA SoleEnter ==
  ASSUME Typed, Sole, NEW t \in Threads, NEW nics \in SUBSET Nics, NEW told, NEW todo \in Seq(Calls),
         \A i \in DOMAIN todo : todo[i].do # "address" => todo[i].nic \in nics,
         Enter(t, todo, nics, told)
  PROVE  Sole'
<1>1. /\ \A o \in Threads \ {t} : job[o]' = job[o]
      /\ job[t].on' = nics
  BY Entering
<1>2. \A n \in Nics : due'[n] = IF n \notin nics THEN due[n]
                                ELSE IF n \in Busy THEN Anything ELSE told[n]
  BY DEF Enter
<1>3. \A o \in Threads : job[o].on \subseteq Busy
  BY DEF Busy
<1> SUFFICES ASSUME NEW o1 \in Threads, NEW o2 \in Threads, NEW n \in Nics,
                    o1 # o2, n \in job'[o1].on, n \in job'[o2].on
             PROVE  due'[n] = Anything
  BY DEF Sole, Anything
<1>4. CASE n \in nics
  BY <1>1, <1>2, <1>3, <1>4
<1>5. CASE n \notin nics
  <2>1. o1 # t /\ o2 # t
    BY <1>1, <1>5
  <2>2. due[n] = Anything
    BY <1>1, <2>1 DEF Sole
  <2> QED BY <1>2, <1>5, <2>2
<1> QED BY <1>4, <1>5

LEMMA SoleKept ==
  ASSUME Typed, Sole, [Next]_vars
  PROVE  Sole'
<1>0. \A o \in Threads : JobOK(job[o])
  BY DEF Typed
<1>1. ASSUME NEW t \in Threads, NEW f \in Forms, Edit(t, f)
      PROVE  Sole'
  <2>1. /\ f.nic \in Nics /\ EditProg(f) \in Seq(Calls)
        /\ \A i \in DOMAIN EditProg(f) : EditProg(f)[i].nic = f.nic
    BY EditCalls, EditNics
  <2>2. /\ {f.nic} \in SUBSET Nics
        /\ \A i \in DOMAIN EditProg(f) : EditProg(f)[i].do # "address" => EditProg(f)[i].nic \in {f.nic}
    BY <2>1
  <2>3. Enter(t, EditProg(f), {f.nic}, [n \in {f.nic} |-> Asked(f)])
    BY <1>1 DEF Edit
  <2> QED BY <2>1, <2>2, <2>3, SoleEnter
<1>2. ASSUME NEW t \in Threads, NEW v \in Vlans, EditBridge(t, v)
      PROVE  Sole'
  <2> DEFINE listed == {n \in Nics : v \in VlansOf(n)}
             todo == <<[do |-> "address", nic |-> listed, arg |-> v]>>
  <2>1. todo \in Seq(Calls) /\ \A i \in DOMAIN todo : todo[i].do = "address"
    BY DEF Calls
  <2>2. Enter(t, todo, {}, << >>)
    BY <1>2 DEF EditBridge
  <2> HIDE DEF todo
  <2> QED BY <2>1, <2>2, SoleEnter
<1>3. ASSUME NEW t \in Threads, NEW b \in Batches, AnalyseFrame(t, b)
      PROVE  Sole'
  <2>1. PICK todo, told :
          /\ Enter(t, todo, GvrpPorts, told)
          /\ todo = FrameProg(SetToSeq(Adds(b)), SetToSeq(Removes(b)), SetToSeq(GvrpPorts),
                              [n \in GvrpPorts |-> VlansOf(n)])
    BY <1>3, Zenon DEF AnalyseFrame
  <2>2. todo \in Seq(Calls) /\ \A k \in 1..Len(todo) : todo[k].nic \in GvrpPorts
    BY <2>1, BatchCalls
  <2>3. GvrpPorts \in SUBSET Nics /\ DOMAIN todo = 1..Len(todo)
    BY <2>2, LenProperties DEF GvrpPorts
  <2> QED BY <2>1, <2>2, <2>3, SoleEnter
<1>4. ASSUME NEW t \in Threads,
             SetState(t) \/ Clear(t) \/ Untag(t) \/ Tag(t) \/ SetType(t) \/ Address(t)
               \/ Join(t) \/ Leave(t)
      PROVE  Sole'
  <2>1. PICK what : Makes(t, what)
    BY <1>4 DEF SetState, Clear, Untag, Tag, SetType, Address, Join, Leave
  <2>2. due' = due
    BY <1>4 DEF SetState, Clear, Untag, Tag, SetType, Address, Join, Leave, history
  <2>3. \A o \in Threads : job[o].on' = job[o].on
    BY <2>1, Making
  <2> QED BY <2>2, <2>3, SoleStep
<1>5. ASSUME NEW t \in Threads, Fail(t)
      PROVE  Sole'
  <2>1. job' = [job EXCEPT ![t] = Idle] /\ \A n \in Nics : due'[n] = due[n] \/ due'[n] = Anything
    BY <1>5 DEF Fail
  <2>2. /\ \A o \in Threads \ {t} : job[o]' = job[o]
        /\ job[t].on' = {}
    BY <2>1, Ending
  <2> QED BY <2>1, <2>2, SoleStep
<1>6. ASSUME NEW t \in Threads, Return(t)
      PROVE  Sole'
  <2>1. job' = [job EXCEPT ![t] = Idle] /\ due' = due
    BY <1>6 DEF Return, history
  <2>2. /\ \A o \in Threads \ {t} : job[o]' = job[o]
        /\ job[t].on' = {}
    BY <2>1, Ending
  <2> QED BY <2>1, <2>2, SoleStep
<1>7. CASE Crash
  <2>1. /\ \A n \in Nics : due'[n] = due[n] \/ due'[n] = Anything
        /\ \A o \in Threads : job'[o].on = {}
    BY <1>7 DEF Crash, Idle
  <2> QED BY <2>1, SoleStep
<1>8. ASSUME UNCHANGED <<job, due>>
      PROVE  Sole'
  BY <1>8, SoleStep
<1>9. ASSUME NEW t \in Threads, NEW f \in Forms, Refuse(t, f)
      PROVE  UNCHANGED <<job, due>>
  BY <1>9 DEF Refuse
<1>10. UNCHANGED vars => UNCHANGED <<job, due>>
  BY DEF vars
<1> QED BY <1>1, <1>2, <1>3, <1>4, <1>5, <1>6, <1>7, <1>8, <1>9, <1>10 DEF Next

-----------------------------------------------------------------------------
\* A batch, call by call.

\* What a job still has to give a port and to take of it, before and after a call.
LEMMA TailSets ==
  ASSUME NEW s \in Seq(Calls), s # << >>, NEW n
  PROVE  /\ IF Head(s).do = "join" /\ Head(s).nic = n
            THEN ToJoin(s, n) = ToJoin(Tail(s), n) \cup Head(s).arg
            ELSE ToJoin(s, n) = ToJoin(Tail(s), n)
         /\ IF Head(s).do = "leave" /\ Head(s).nic = n
            THEN ToLeave(s, n) = ToLeave(Tail(s), n) \cup {Head(s).arg}
            ELSE ToLeave(s, n) = ToLeave(Tail(s), n)
         /\ FrameCalls(s) => FrameCalls(Tail(s)) /\ Head(s).do \in {"join", "leave"}
         /\ FrameCalls(s) /\ Head(s).do = "leave" => ToJoin(s, n) = {}
<1>1. /\ Head(s) = s[1]
      /\ Len(s) \in Nat /\ Len(s) > 0
      /\ Len(Tail(s)) = Len(s) - 1
      /\ DOMAIN s = 1..Len(s) /\ DOMAIN Tail(s) = 1..Len(Tail(s))
      /\ \A i \in 1..Len(Tail(s)) : i + 1 \in 1..Len(s) /\ Tail(s)[i] = s[i + 1]
  BY TailOf
<1>2. PICK r : r = Tail(s)
  OBVIOUS
<1>3. \A i \in DOMAIN r : i \in Int /\ i + 1 \in DOMAIN s /\ r[i] = s[i + 1]
  BY <1>1, <1>2
<1>4. ASSUME NEW i \in DOMAIN s, i # 1
      PROVE  i - 1 \in DOMAIN r /\ r[i - 1] = s[i] /\ i > 1
  <2>1. i - 1 \in 1..Len(r) /\ (i - 1) + 1 = i
    BY <1>1, <1>2, <1>4
  <2> QED BY <1>1, <1>2, <2>1
<1>5. 1 \in DOMAIN s
  BY <1>1
<1>6. IF s[1].do = "join" /\ s[1].nic = n
      THEN ToJoin(s, n) = ToJoin(r, n) \cup s[1].arg ELSE ToJoin(s, n) = ToJoin(r, n)
  <2>1. \A a : a \in ToJoin(s, n) <=> \E i \in DOMAIN s : s[i].do = "join" /\ s[i].nic = n /\ a \in s[i].arg
    BY DEF ToJoin
  <2>2. \A a : a \in ToJoin(r, n) <=> \E i \in DOMAIN r : r[i].do = "join" /\ r[i].nic = n /\ a \in r[i].arg
    BY DEF ToJoin
  <2>3. ASSUME NEW a
        PROVE  a \in ToJoin(s, n) <=> \/ s[1].do = "join" /\ s[1].nic = n /\ a \in s[1].arg
                                      \/ a \in ToJoin(r, n)
    <3>1. ASSUME NEW i \in DOMAIN s, i # 1, s[i].do = "join", s[i].nic = n, a \in s[i].arg
          PROVE  a \in ToJoin(r, n)
      BY <1>4, <2>2, <3>1
    <3>2. a \in ToJoin(r, n) => a \in ToJoin(s, n)
      BY <1>3, <2>1, <2>2
    <3> QED BY <1>5, <2>1, <3>1, <3>2
  <2>4. CASE s[1].do = "join" /\ s[1].nic = n
    <3>1. \A a : a \in ToJoin(s, n) <=> a \in ToJoin(r, n) \/ a \in s[1].arg
      BY <2>3, <2>4
    <3>2. ToJoin(s, n) = ToJoin(r, n) \cup s[1].arg
      BY <3>1
    <3> QED BY <2>4, <3>2
  <2>5. CASE ~ (s[1].do = "join" /\ s[1].nic = n)
    <3>1. \A a : a \in ToJoin(s, n) <=> a \in ToJoin(r, n)
      BY <2>3, <2>5
    <3>2. ToJoin(s, n) = ToJoin(r, n)
      BY <3>1
    <3> QED BY <2>5, <3>2
  <2> QED BY <2>4, <2>5
<1>7. IF s[1].do = "leave" /\ s[1].nic = n
      THEN ToLeave(s, n) = ToLeave(r, n) \cup {s[1].arg} ELSE ToLeave(s, n) = ToLeave(r, n)
  <2>1. \A a : a \in ToLeave(s, n) <=> \E i \in DOMAIN s : s[i].do = "leave" /\ s[i].nic = n /\ a = s[i].arg
    BY DEF ToLeave
  <2>2. \A a : a \in ToLeave(r, n) <=> \E i \in DOMAIN r : r[i].do = "leave" /\ r[i].nic = n /\ a = r[i].arg
    BY DEF ToLeave
  <2>3. ASSUME NEW a
        PROVE  a \in ToLeave(s, n) <=> \/ s[1].do = "leave" /\ s[1].nic = n /\ a = s[1].arg
                                      \/ a \in ToLeave(r, n)
    <3>1. ASSUME NEW i \in DOMAIN s, i # 1, s[i].do = "leave", s[i].nic = n, a = s[i].arg
          PROVE  a \in ToLeave(r, n)
      BY <1>4, <2>2, <3>1
    <3>2. a \in ToLeave(r, n) => a \in ToLeave(s, n)
      BY <1>3, <2>1, <2>2
    <3> QED BY <1>5, <2>1, <3>1, <3>2
  <2>4. CASE s[1].do = "leave" /\ s[1].nic = n
    <3>1. \A a : a \in ToLeave(s, n) <=> a \in ToLeave(r, n) \/ a \in {s[1].arg}
      BY <2>3, <2>4
    <3>2. ToLeave(s, n) = ToLeave(r, n) \cup {s[1].arg}
      BY <3>1
    <3> QED BY <2>4, <3>2
  <2>5. CASE ~ (s[1].do = "leave" /\ s[1].nic = n)
    <3>1. \A a : a \in ToLeave(s, n) <=> a \in ToLeave(r, n)
      BY <2>3, <2>5
    <3>2. ToLeave(s, n) = ToLeave(r, n)
      BY <3>1
    <3> QED BY <2>5, <3>2
  <2> QED BY <2>4, <2>5
<1>8. FrameCalls(s) => FrameCalls(r) /\ s[1].do \in {"join", "leave"}
  BY <1>3, <1>5 DEF FrameCalls
<1>9. FrameCalls(s) /\ s[1].do = "leave" => ToJoin(s, n) = {}
  BY <1>4, <1>5 DEF FrameCalls, ToJoin
<1> QED BY <1>1, <1>2, <1>6, <1>7, <1>8, <1>9

\* A port no call is about: its VLANs, its type and its state stay.
SameAt(n) == /\ UNCHANGED <<tagged[n], gvrp[n], untagged[n], type[n], due[n]>>
             /\ (n \in up)' = (n \in up)

\* The batch of t makes its next call, which leaves port n alone or is about it.
LEMMA FramingElsewhere ==
  ASSUME Typed, NEW t \in Threads, NEW n \in Nics, NEW what, Makes(t, what),
         Framing(t, n), SameAt(n), Nic(t) # n
  PROVE  Framing(t, n)'
<1>1. job[t].todo \in Seq(Calls) /\ job[t].todo # << >> /\ job[t].todo' = Tail(job[t].todo)
  BY Making DEF Typed, JobOK
<1>2. PICK s \in Seq(Calls) : s = job[t].todo
  BY <1>1
<1>3. /\ ToJoin(s, n) = ToJoin(Tail(s), n) /\ ToLeave(s, n) = ToLeave(Tail(s), n)
      /\ FrameCalls(Tail(s))
  <2>1. s # << >> /\ Head(s).nic # n /\ FrameCalls(s)
    BY <1>1, <1>2 DEF Framing, Nic
  <2>2. FrameCalls(Tail(s))
    BY <2>1, TailSets
  <2>3. ToJoin(s, n) = ToJoin(Tail(s), n)
    BY <2>1, TailSets
  <2>4. ToLeave(s, n) = ToLeave(Tail(s), n)
    BY <2>1, TailSets
  <2> QED BY <2>2, <2>3, <2>4
<1>4. VlansOf(n)' = VlansOf(n)
  BY DEF SameAt, VlansOf
<1> QED BY <1>1, <1>2, <1>3, <1>4 DEF Framing, SameAt

LEMMA FramingJoin ==
  ASSUME Typed, NEW t \in Threads, NEW n \in Nics, Join(t), Framing(t, n), Nic(t) = n
  PROVE  Framing(t, n)'
<1>1. Makes(t, {"join"})
  BY DEF Join
<1>2. /\ job[t].todo \in Seq(Calls) /\ job[t].todo # << >> /\ job[t].todo' = Tail(job[t].todo)
      /\ Head(job[t].todo).do = "join" /\ Arg(t) \in SUBSET Vlans
  BY <1>1, Making, CallArgs DEF Typed, JobOK, Arg
<1>3. PICK s \in Seq(Calls), vs \in SUBSET Vlans : s = job[t].todo /\ vs = Arg(t)
  BY <1>2
<1>4. /\ ToJoin(s, n) = ToJoin(Tail(s), n) \cup vs /\ ToLeave(s, n) = ToLeave(Tail(s), n)
      /\ FrameCalls(Tail(s))
  <2>1. s # << >> /\ Head(s).nic = n /\ Head(s).do = "join" /\ Head(s).arg = vs /\ FrameCalls(s)
    BY <1>2, <1>3 DEF Framing, Nic, Arg
  <2>2. FrameCalls(Tail(s))
    BY <2>1, TailSets
  <2>3. ToJoin(s, n) = ToJoin(Tail(s), n) \cup vs
    BY <2>1, TailSets
  <2>4. ToLeave(s, n) = ToLeave(Tail(s), n)
    BY <2>1, TailSets
  <2> QED BY <2>2, <2>3, <2>4
<1>5. /\ tagged' = [tagged EXCEPT ![n] = @ \cup vs] /\ up' = up \cup {n}
      /\ untagged' = untagged /\ type' = type /\ due' = due
  BY <1>3 DEF Join, history
<1>6. VlansOf(n)' = VlansOf(n) \cup vs
  BY <1>5 DEF VlansOf, Typed, TypeOK
<1> QED BY <1>2, <1>3, <1>4, <1>5, <1>6 DEF Framing

LEMMA FramingLeave ==
  ASSUME Typed, NEW t \in Threads, NEW n \in Nics, Leave(t), Framing(t, n), Nic(t) = n
  PROVE  Framing(t, n)'
<1>1. Makes(t, {"leave"})
  BY DEF Leave
<1>2. /\ job[t].todo \in Seq(Calls) /\ job[t].todo # << >> /\ job[t].todo' = Tail(job[t].todo)
      /\ Head(job[t].todo).do = "leave" /\ Arg(t) \in Vlans
  BY <1>1, Making, CallArgs DEF Typed, JobOK, Arg
<1>3. PICK s \in Seq(Calls), v \in Vlans : s = job[t].todo /\ v = Arg(t)
  BY <1>2
<1>4. /\ ToJoin(s, n) = {} /\ ToJoin(Tail(s), n) = {}
      /\ ToLeave(s, n) = ToLeave(Tail(s), n) \cup {v}
      /\ FrameCalls(Tail(s))
  <2>1. s # << >> /\ Head(s).nic = n /\ Head(s).do = "leave" /\ Head(s).arg = v /\ FrameCalls(s)
    BY <1>2, <1>3 DEF Framing, Nic, Arg
  <2>2. FrameCalls(Tail(s)) /\ ToJoin(s, n) = {} /\ ToJoin(s, n) = ToJoin(Tail(s), n)
    BY <2>1, TailSets
  <2>3. ToLeave(s, n) = ToLeave(Tail(s), n) \cup {v}
    BY <2>1, TailSets
  <2> QED BY <2>2, <2>3
<1>5. /\ tagged' = [tagged EXCEPT ![n] = @ \ {v}]
      /\ untagged' = [untagged EXCEPT ![n] = IF @ = v /\ v \notin tagged[n] THEN "none" ELSE @]
      /\ up' = up /\ type' = type /\ due' = due
  BY <1>3 DEF Leave, history
<1>6. untagged[n] = "none" /\ untagged'[n] = "none"
  BY <1>5 DEF Framing, Typed, TypeOK
<1>7. VlansOf(n)' = VlansOf(n) \ {v}
  BY <1>5, <1>6 DEF VlansOf, Typed, TypeOK
<1> QED BY <1>2, <1>3, <1>4, <1>5, <1>6, <1>7 DEF Framing

-----------------------------------------------------------------------------
\* An edit, call by call.

\* The call an edit is at, and the rest of them.
LEMMA EditHead ==
  ASSUME NEW f \in Forms, NEW k \in 1..Size(f) + 1, NEW s, s = SubSeq(EditProg(f), k, Size(f))
  PROVE  /\ s = << >> <=> k = Size(f) + 1
         /\ s # << >> =>
              /\ k \in 1..Size(f) /\ k + 1 \in 1..Size(f) + 1
              /\ Head(s) = EditProg(f)[k]
              /\ Tail(s) = SubSeq(EditProg(f), k + 1, Size(f))
<1>1. /\ Size(f) \in Nat /\ EditProg(f) \in Seq(Calls) /\ Len(EditProg(f)) = Size(f)
  BY EditCalls
<1>2. PICK e \in Seq(Calls), m \in Nat : e = EditProg(f) /\ m = Size(f)
  BY <1>1
<1>3. e \in Seq(Calls) /\ Len(e) = m /\ k \in 1..m + 1 /\ s = SubSeq(e, k, m)
  BY <1>1, <1>2
<1>4. /\ s \in Seq(Calls) /\ Len(s) = m - k + 1
      /\ \A i \in 1..(m - k + 1) : s[i] = e[k + i - 1]
  BY <1>3, SubSeqProperties
<1>5. s = << >> <=> k = m + 1
  BY <1>3, <1>4, EmptySeq
<1>6. ASSUME s # << >>
      PROVE  /\ k \in 1..m /\ k + 1 \in 1..m + 1
             /\ Head(s) = e[k] /\ Tail(s) = SubSeq(e, k + 1, m)
  <2>1. k \in 1..m /\ k + 1 \in 1..m + 1
    BY <1>3, <1>5, <1>6
  <2>2. Head(s) = s[1] /\ s[1] = e[k]
    BY <1>3, <1>4, <1>6, <2>1
  <2>3. /\ Tail(s) \in Seq(Calls) /\ Len(Tail(s)) = m - k
        /\ \A i \in 1..(m - k) : Tail(s)[i] = e[k + i]
    <3>1. /\ Tail(s) \in Seq(Calls) /\ Len(Tail(s)) = Len(s) - 1
          /\ \A i \in 1..Len(Tail(s)) : i + 1 \in 1..Len(s) /\ Tail(s)[i] = s[i + 1]
      BY <1>4, <1>6, TailOf
    <3>2. Len(Tail(s)) = m - k
      BY <1>3, <1>4, <3>1
    <3>3. ASSUME NEW i \in 1..(m - k) PROVE Tail(s)[i] = e[k + i]
      <4>1. Tail(s)[i] = s[i + 1] /\ i + 1 \in 1..(m - k + 1) /\ k + (i + 1) - 1 = k + i
        BY <1>3, <3>1, <3>2
      <4> QED BY <1>4, <4>1
    <3> QED BY <3>1, <3>2, <3>3
  <2>4. /\ SubSeq(e, k + 1, m) \in Seq(Calls) /\ Len(SubSeq(e, k + 1, m)) = m - k
        /\ \A i \in 1..(m - k) : SubSeq(e, k + 1, m)[i] = e[k + i]
    <3>1. PICK l \in 1..m + 1 : l = k + 1
      BY <2>1
    <3>2. /\ SubSeq(e, l, m) \in Seq(Calls) /\ Len(SubSeq(e, l, m)) = m - l + 1
          /\ \A i \in 1..(m - l + 1) : SubSeq(e, l, m)[i] = e[l + i - 1]
      BY <1>3, SubSeqProperties
    <3>3. m - l + 1 = m - k /\ \A i \in 1..(m - k) : l + i - 1 = k + i
      BY <3>1
    <3> QED BY <3>1, <3>2, <3>3
  <2>5. Tail(s) = SubSeq(e, k + 1, m)
    BY <2>3, <2>4, SeqEqual
  <2> QED BY <2>1, <2>2, <2>5
<1> QED BY <1>2, <1>5, <1>6

\* The call an edit makes at k.
LEMMA EditNow ==
  ASSUME NEW f \in Forms, NEW k \in 1..Size(f)
  PROVE  \/ k = 1 /\ EditProg(f)[k] = Call(IF f.active THEN "up" ELSE "down", f.nic, "none")
         \/ k = 2 /\ EditProg(f)[k] = Call("clear", f.nic, "none")
         \/ /\ k > 2 /\ k < Size(f) /\ k - 2 \in 1..Len(f.vlans)
            /\ EditProg(f)[k] = Call(Applies(f), f.nic, f.vlans[k - 2])
         \/ k > 2 /\ k = Size(f) /\ EditProg(f)[k] = Call("type", f.nic, f.type)
<1>1. Size(f) = Len(f.vlans) + 3 /\ Size(f) \in Nat /\ Len(f.vlans) \in Nat
  BY EditCalls DEF Size
<1>2. CASE k = 1
  BY <1>2, EditCalls
<1>3. CASE k = 2
  BY <1>3, EditCalls
<1>4. CASE k = Size(f)
  <2>1. k > 2
    BY <1>1, <1>4
  <2> QED BY <1>4, <2>1, EditCalls
<1>5. CASE k # 1 /\ k # 2 /\ k # Size(f)
  <2>1. k > 2 /\ k < Size(f) /\ k - 2 \in 1..Len(f.vlans) /\ (k - 2) + 2 = k
    BY <1>1, <1>5
  <2>2. EditProg(f)[(k - 2) + 2] = Call(Applies(f), f.nic, f.vlans[k - 2])
    BY <2>1, EditCalls
  <2> QED BY <2>1, <2>2
<1> QED BY <1>2, <1>3, <1>4, <1>5

\* What each kind of call tells of where the edit is.
LEMMA EditCall ==
  ASSUME NEW f \in Forms, NEW k \in 1..Size(f), NEW c, c = EditProg(f)[k]
  PROVE  /\ c.do \in {"up", "down"} => k = 1 /\ (c.do = "up" <=> f.active)
         /\ c.do = "clear" => k = 2
         /\ c.do \in {"untag", "tag", "tagGvrp"} =>
              /\ k > 2 /\ k < Size(f) /\ k - 2 \in 1..Len(f.vlans)
              /\ c.do = Applies(f) /\ c.arg = f.vlans[k - 2]
         /\ c.do = "type" => k > 2 /\ k = Size(f) /\ c.arg = f.type
         /\ c.do \in {"up", "down", "clear", "untag", "tag", "tagGvrp", "type"}
<1>1. \A do, arg : Call(do, f.nic, arg).do = do /\ Call(do, f.nic, arg).arg = arg
  BY DEF Call
<1>2. Applies(f) \in {"untag", "tag", "tagGvrp"} /\ f.active \in BOOLEAN
  BY EditCalls DEF Applies
<1>3. CASE k = 1 /\ c = Call(IF f.active THEN "up" ELSE "down", f.nic, "none")
  BY <1>1, <1>2, <1>3
<1>4. CASE k = 2 /\ c = Call("clear", f.nic, "none")
  BY <1>1, <1>4
<1>5. CASE /\ k > 2 /\ k < Size(f) /\ k - 2 \in 1..Len(f.vlans)
           /\ c = Call(Applies(f), f.nic, f.vlans[k - 2])
  BY <1>1, <1>2, <1>5
<1>6. CASE k > 2 /\ k = Size(f) /\ c = Call("type", f.nic, f.type)
  BY <1>1, <1>6
<1> QED BY <1>3, <1>4, <1>5, <1>6, EditNow

\* The VLANs given before and after a call.
LEMMA GivenNext ==
  ASSUME NEW f \in Forms, NEW k \in 1..Size(f)
  PROVE  /\ k <= 2 => Given(f, k) = {} /\ Given(f, k + 1) = {}
         /\ k > 2 /\ k < Size(f) => Given(f, k + 1) = Given(f, k) \cup {f.vlans[k - 2]}
         /\ k = Size(f) => Given(f, k + 1) = Given(f, k)
         /\ Given(f, Size(f) + 1) = ToSet(f.vlans)
<1>1. PICK m \in Nat, z \in Nat : m = Len(f.vlans) /\ z = Size(f) /\ z = m + 3
  BY EditCalls DEF Size
<1>2. f.vlans \in Seq(Vlans)
  BY EditCalls
<1>3. ToSet(f.vlans) = {f.vlans[i] : i \in 1..m}
  BY <1>1, <1>2, Elements
<1>4. k \in 1..z
  BY <1>1
<1>5. k <= 2 => {j \in 1..m : j + 2 < k} = {} /\ {j \in 1..m : j + 2 < k + 1} = {}
  BY <1>1, <1>4
<1>6. k > 2 /\ k < z => {j \in 1..m : j + 2 < k + 1} = {j \in 1..m : j + 2 < k} \cup {k - 2}
  BY <1>1, <1>4
<1>7. k = z => {j \in 1..m : j + 2 < k + 1} = {j \in 1..m : j + 2 < k}
  BY <1>1, <1>4
<1>8. {j \in 1..m : j + 2 < z + 1} = 1..m
  BY <1>1
<1>9. \A l : Given(f, l) = {f.vlans[i] : i \in {j \in 1..m : j + 2 < l}}
  BY <1>1 DEF Given
<1>10. k <= 2 => Given(f, k) = {} /\ Given(f, k + 1) = {}
  BY <1>5, <1>9
<1>11. k > 2 /\ k < z => Given(f, k + 1) = Given(f, k) \cup {f.vlans[k - 2]}
  <2> DEFINE A == {j \in 1..m : j + 2 < k}
             B == {j \in 1..m : j + 2 < k + 1}
  <2>1. k > 2 /\ k < z => B = A \cup {k - 2}
    BY <1>6
  <2>2. Given(f, k) = {f.vlans[i] : i \in A} /\ Given(f, k + 1) = {f.vlans[i] : i \in B}
    BY <1>9
  <2> HIDE DEF A, B
  <2> QED BY <2>1, <2>2
<1>12. k = z => Given(f, k + 1) = Given(f, k)
  BY <1>7, <1>9
<1>13. Given(f, z + 1) = ToSet(f.vlans)
  BY <1>3, <1>8, <1>9
<1> QED BY <1>1, <1>10, <1>11, <1>12, <1>13

\* The edit of t makes its next call.
LEMMA EditMaking ==
  ASSUME Typed, NEW t \in Threads, NEW n \in Nics, NEW what, Makes(t, what),
         NEW f \in Forms, NEW k \in 1..Size(f) + 1, EditAt(t, n, f, k)
  PROVE  /\ k \in 1..Size(f) /\ k + 1 \in 1..Size(f) + 1
         /\ Head(job[t].todo) = EditProg(f)[k] /\ EditProg(f)[k].do \in what
         /\ Nic(t) = n /\ Head(job[t].todo).nic = n
         /\ (due'[n] = due[n] /\ Made(f, n, k + 1)') => Editing(t, n)'
<1>1. /\ job[t].todo' = Tail(job[t].todo) /\ job[t].todo # << >> /\ job[t].on' = job[t].on
      /\ Head(job[t].todo).do \in what
  BY Making
<1>2. PICK s : s = job[t].todo /\ s = SubSeq(EditProg(f), k, Size(f))
  BY DEF EditAt
<1>3. /\ k \in 1..Size(f) /\ k + 1 \in 1..Size(f) + 1
      /\ Head(s) = EditProg(f)[k]
      /\ Tail(s) = SubSeq(EditProg(f), k + 1, Size(f))
  BY <1>1, <1>2, EditHead
<1>4. EditProg(f)[k].nic = f.nic
  <2>1. DOMAIN EditProg(f) = 1..Size(f)
    BY EditCalls, LenProperties
  <2> QED BY <1>3, <2>1, EditNics
<1>5. Nic(t) = n
  BY <1>2, <1>3, <1>4 DEF Nic, EditAt
<1>6. ASSUME due'[n] = due[n], Made(f, n, k + 1)'
      PROVE  Editing(t, n)'
  <2>1. EditAt(t, n, f, k + 1)'
    BY <1>1, <1>2, <1>3, <1>6 DEF EditAt
  <2> QED BY <1>3, <2>1 DEF Editing
<1> QED BY <1>1, <1>2, <1>3, <1>5, <1>6 DEF Nic

\* Each call of an edit makes of the port what it is to make.
LEMMA EditingSetState ==
  ASSUME Typed, NEW t \in Threads, NEW n \in Nics, SetState(t), Editing(t, n)
  PROVE  Editing(t, n)'
<1>0. PICK f \in Forms : \E k \in 1..Size(f) + 1 : EditAt(t, n, f, k)
  BY DEF Editing
<1>1. PICK k \in 1..Size(f) + 1 : EditAt(t, n, f, k)
  BY <1>0
<1>2. Makes(t, {"up", "down"})
  BY DEF SetState
<1>3. /\ k \in 1..Size(f) /\ Head(job[t].todo) = EditProg(f)[k]
      /\ EditProg(f)[k].do \in {"up", "down"} /\ Nic(t) = n
      /\ (due'[n] = due[n] /\ Made(f, n, k + 1)') => Editing(t, n)'
  BY <1>1, <1>2, EditMaking
<1>4. /\ f.vlans \in Seq(Vlans) /\ Len(f.vlans) \in Nat /\ Size(f) = Len(f.vlans) + 3
      /\ f.active \in BOOLEAN /\ f.tagged \in BOOLEAN /\ f.gvrp \in BOOLEAN
  BY EditCalls DEF Size
<1>5. Made(f, n, k)
  BY <1>1 DEF EditAt
<1>7. k = 1 /\ (EditProg(f)[k].do = "up" <=> f.active)
  BY <1>3, EditCall
<1>8. Given(f, k + 1) = {}
  BY <1>3, <1>7, GivenNext
<1>9. (n \in up)' = f.active /\ due' = due
  BY <1>3, <1>4, <1>7 DEF SetState, history
<1>10. Made(f, n, k + 1)'
  BY <1>4, <1>7, <1>8, <1>9 DEF Made
<1> QED BY <1>3, <1>9, <1>10

LEMMA EditingClear ==
  ASSUME Typed, NEW t \in Threads, NEW n \in Nics, Clear(t), Editing(t, n)
  PROVE  Editing(t, n)'
<1>0. PICK f \in Forms : \E k \in 1..Size(f) + 1 : EditAt(t, n, f, k)
  BY DEF Editing
<1>1. PICK k \in 1..Size(f) + 1 : EditAt(t, n, f, k)
  BY <1>0
<1>2. Makes(t, {"clear"})
  BY DEF Clear
<1>3. /\ k \in 1..Size(f) /\ Head(job[t].todo) = EditProg(f)[k]
      /\ EditProg(f)[k].do \in {"clear"} /\ Nic(t) = n
      /\ (due'[n] = due[n] /\ Made(f, n, k + 1)') => Editing(t, n)'
  BY <1>1, <1>2, EditMaking
<1>4. /\ f.vlans \in Seq(Vlans) /\ Len(f.vlans) \in Nat /\ Size(f) = Len(f.vlans) + 3
      /\ f.active \in BOOLEAN /\ f.tagged \in BOOLEAN /\ f.gvrp \in BOOLEAN
  BY EditCalls DEF Size
<1>5. Made(f, n, k)
  BY <1>1 DEF EditAt
<1>7. k = 2
  BY <1>3, EditCall
<1>8. Given(f, k) = {} /\ Given(f, k + 1) = {}
  BY <1>3, <1>7, GivenNext
<1>9. /\ tagged'[n] = {} /\ gvrp'[n] = {} /\ untagged'[n] = "none"
      /\ up' = up /\ due' = due
  BY <1>3 DEF Clear, Typed, TypeOK
<1>10. (n \in up) = f.active
  BY <1>4, <1>5, <1>7, <1>8 DEF Made
<1>11. Made(f, n, k + 1)'
  BY <1>4, <1>7, <1>8, <1>9, <1>10 DEF Made
<1> QED BY <1>3, <1>9, <1>11

LEMMA EditingUntag ==
  ASSUME Typed, NEW t \in Threads, NEW n \in Nics, Untag(t), Editing(t, n)
  PROVE  Editing(t, n)'
<1>0. PICK f \in Forms : \E k \in 1..Size(f) + 1 : EditAt(t, n, f, k)
  BY DEF Editing
<1>1. PICK k \in 1..Size(f) + 1 : EditAt(t, n, f, k)
  BY <1>0
<1>2. Makes(t, {"untag"})
  BY DEF Untag
<1>3. /\ k \in 1..Size(f) /\ Head(job[t].todo) = EditProg(f)[k]
      /\ EditProg(f)[k].do \in {"untag"} /\ Nic(t) = n
      /\ (due'[n] = due[n] /\ Made(f, n, k + 1)') => Editing(t, n)'
  BY <1>1, <1>2, EditMaking
<1>4. /\ f.vlans \in Seq(Vlans) /\ Len(f.vlans) \in Nat /\ Size(f) = Len(f.vlans) + 3
      /\ f.active \in BOOLEAN /\ f.tagged \in BOOLEAN /\ f.gvrp \in BOOLEAN
  BY EditCalls DEF Size
<1>5. Made(f, n, k)
  BY <1>1 DEF EditAt
<1>7. /\ k > 2 /\ k < Size(f) /\ k - 2 \in 1..Len(f.vlans)
      /\ Arg(t) = f.vlans[k - 2] /\ ~f.tagged
  BY <1>3, EditCall DEF Applies, Arg
<1>8. /\ untagged'[n] = f.vlans[k - 2]
      /\ tagged' = tagged /\ gvrp' = gvrp /\ up' = up /\ due' = due
  BY <1>3, <1>7 DEF Untag, Typed, TypeOK, history
<1>9. tagged[n] = {} /\ gvrp[n] = {} /\ (n \in up) = f.active
  BY <1>4, <1>5, <1>7 DEF Made
<1>10. /\ (k + 1) - 3 = k - 2 /\ ~ (k + 1 = 3) /\ k + 1 \in Int
       /\ f.vlans # << >> /\ ~ (k + 1 > Size(f))
  BY <1>3, <1>4, <1>7
<1>11. Made(f, n, k + 1)'
  BY <1>4, <1>7, <1>8, <1>9, <1>10 DEF Made
<1> QED BY <1>3, <1>8, <1>11

LEMMA EditingTag ==
  ASSUME Typed, NEW t \in Threads, NEW n \in Nics, Tag(t), Editing(t, n)
  PROVE  Editing(t, n)'
<1>0. PICK f \in Forms : \E k \in 1..Size(f) + 1 : EditAt(t, n, f, k)
  BY DEF Editing
<1>1. PICK k \in 1..Size(f) + 1 : EditAt(t, n, f, k)
  BY <1>0
<1>2. Makes(t, {"tag", "tagGvrp"})
  BY DEF Tag
<1>3. /\ k \in 1..Size(f) /\ Head(job[t].todo) = EditProg(f)[k]
      /\ EditProg(f)[k].do \in {"tag", "tagGvrp"} /\ Nic(t) = n
      /\ (due'[n] = due[n] /\ Made(f, n, k + 1)') => Editing(t, n)'
  BY <1>1, <1>2, EditMaking
<1>4. /\ f.vlans \in Seq(Vlans) /\ Len(f.vlans) \in Nat /\ Size(f) = Len(f.vlans) + 3
      /\ f.active \in BOOLEAN /\ f.tagged \in BOOLEAN /\ f.gvrp \in BOOLEAN
  BY EditCalls DEF Size
<1>5. Made(f, n, k)
  BY <1>1 DEF EditAt
<1>7. /\ k > 2 /\ k < Size(f) /\ k - 2 \in 1..Len(f.vlans)
      /\ Arg(t) = f.vlans[k - 2] /\ f.tagged
      /\ Head(job[t].todo).do = "tagGvrp" => f.gvrp
  BY <1>3, EditCall DEF Applies, Arg
<1>8. Given(f, k + 1) = Given(f, k) \cup {f.vlans[k - 2]}
  BY <1>3, <1>7, GivenNext
<1>9. /\ tagged'[n] = tagged[n] \cup {f.vlans[k - 2]}
      /\ f.gvrp \/ gvrp' = gvrp
      /\ n \in up' /\ untagged' = untagged /\ due' = due
  BY <1>3, <1>7 DEF Tag, Typed, TypeOK, history
<1>10. /\ tagged[n] = Given(f, k) /\ untagged[n] = "none"
       /\ gvrp[n] # {} => f.gvrp
  BY <1>5, <1>7 DEF Made
<1>11. ~ (k + 1 > Size(f)) /\ k + 1 \in Int
  BY <1>3, <1>4, <1>7
<1>12. Made(f, n, k + 1)'
  BY <1>4, <1>7, <1>8, <1>9, <1>10, <1>11 DEF Made
<1> QED BY <1>3, <1>9, <1>12

LEMMA EditingSetType ==
  ASSUME Typed, NEW t \in Threads, NEW n \in Nics, SetType(t), Editing(t, n)
  PROVE  Editing(t, n)'
<1>0. PICK f \in Forms : \E k \in 1..Size(f) + 1 : EditAt(t, n, f, k)
  BY DEF Editing
<1>1. PICK k \in 1..Size(f) + 1 : EditAt(t, n, f, k)
  BY <1>0
<1>2. Makes(t, {"type"})
  BY DEF SetType
<1>3. /\ k \in 1..Size(f) /\ Head(job[t].todo) = EditProg(f)[k]
      /\ EditProg(f)[k].do \in {"type"} /\ Nic(t) = n
      /\ (due'[n] = due[n] /\ Made(f, n, k + 1)') => Editing(t, n)'
  BY <1>1, <1>2, EditMaking
<1>4. /\ f.vlans \in Seq(Vlans) /\ Len(f.vlans) \in Nat /\ Size(f) = Len(f.vlans) + 3
      /\ f.active \in BOOLEAN /\ f.tagged \in BOOLEAN /\ f.gvrp \in BOOLEAN
  BY EditCalls DEF Size
<1>5. Made(f, n, k)
  BY <1>1 DEF EditAt
<1>7. k > 2 /\ k = Size(f) /\ Arg(t) = f.type
  BY <1>3, EditCall DEF Arg
<1>8. Given(f, k + 1) = Given(f, k)
  BY <1>3, <1>7, GivenNext
<1>9. /\ type'[n] = f.type
      /\ tagged' = tagged /\ gvrp' = gvrp /\ untagged' = untagged /\ up' = up /\ due' = due
  BY <1>3, <1>7 DEF SetType, Typed, TypeOK, history
<1>10. /\ k + 1 > Size(f) /\ ~ (k > Size(f)) /\ k + 1 > 2 /\ k - 3 = Len(f.vlans) /\ ~ (k + 1 = 3)
       /\ k = 3 => f.vlans = << >>
  BY <1>3, <1>4, <1>7, EmptySeq
<1>11. /\ (n \in up) = (f.active \/ (f.tagged /\ Given(f, k) # {}))
       /\ gvrp[n] # {} => f.tagged /\ f.gvrp
       /\ tagged[n] = IF f.tagged THEN Given(f, k) ELSE {}
       /\ untagged[n] = IF f.tagged \/ f.vlans = << >> THEN "none" ELSE f.vlans[Len(f.vlans)]
  BY <1>5, <1>7, <1>10 DEF Made
<1>12. Made(f, n, k + 1)'
  BY <1>8, <1>9, <1>10, <1>11 DEF Made
<1> QED BY <1>3, <1>9, <1>12

\* An edit that has made all its calls has made the port what it was told to be.
LEMMA EditDone ==
  ASSUME Typed, NEW t \in Threads, NEW n \in Nics, Editing(t, n), job[t].todo = << >>
  PROVE  AsTold(n)
<1>0. PICK f \in Forms : \E k \in 1..Size(f) + 1 : EditAt(t, n, f, k)
  BY DEF Editing
<1>1. PICK k \in 1..Size(f) + 1 : EditAt(t, n, f, k)
  BY <1>0
<1>2. k = Size(f) + 1
  BY <1>1, EditHead DEF EditAt
<1>3. /\ f.vlans \in Seq(Vlans) /\ Len(f.vlans) \in Nat /\ Size(f) = Len(f.vlans) + 3
      /\ f.active \in BOOLEAN /\ f.tagged \in BOOLEAN /\ f.gvrp \in BOOLEAN
  BY EditCalls DEF Size
<1>4. Given(f, k) = ToSet(f.vlans)
  <2>1. Size(f) \in 1..Size(f)
    BY <1>3
  <2> QED BY <1>2, <2>1, GivenNext
<1>5. k > Size(f) /\ k > 2 /\ k > 1 /\ ~ (k = 3)
  BY <1>2, <1>3
<1>6. /\ (n \in up) = (f.active \/ (f.tagged /\ ToSet(f.vlans) # {}))
      /\ gvrp[n] # {} => f.tagged /\ f.gvrp
      /\ tagged[n] = IF f.tagged THEN ToSet(f.vlans) ELSE {}
      /\ untagged[n] = IF f.tagged \/ f.vlans = << >> THEN "none" ELSE f.vlans[Len(f.vlans)]
      /\ type[n] = f.type
  BY <1>1, <1>4, <1>5 DEF EditAt, Made
<1>7. ToSet(f.vlans) = {} <=> f.vlans = << >>
  <2>1. ToSet(f.vlans) = {f.vlans[i] : i \in 1..Len(f.vlans)}
    BY <1>3, Elements
  <2>2. f.vlans = << >> <=> Len(f.vlans) = 0
    BY <1>3, EmptySeq
  <2>3. ToSet(f.vlans) = {} <=> Len(f.vlans) = 0
    <3>1. \A l \in Nat : 1..l = {} <=> l = 0
      OBVIOUS
    <3>2. 1..Len(f.vlans) = {} <=> Len(f.vlans) = 0
      BY <1>3, <3>1
    <3> QED BY <2>1, <3>2
  <2> QED BY <2>2, <2>3
<1>8. due[n] = Asked(f) /\ gvrp[n] \subseteq tagged[n]
  BY <1>1 DEF EditAt, Typed, TypeOK
<1>9. \A i \in 1..Len(f.vlans) : f.vlans[i] # "none"
  BY <1>3, PagesAssumption
<1>10. VlansOf(n) = due[n].vlans
  <2>1. CASE f.tagged
    BY <1>6, <1>8, <2>1 DEF VlansOf, Asked
  <2>2. CASE ~f.tagged /\ f.vlans = << >>
    BY <1>6, <1>7, <1>8, <2>2 DEF VlansOf, Asked
  <2>3. CASE ~f.tagged /\ f.vlans # << >>
    <3>1. Len(f.vlans) \in 1..Len(f.vlans)
      BY <1>3, <2>3, EmptySeq
    <3>2. VlansOf(n) = {f.vlans[Len(f.vlans)]}
      BY <1>6, <1>9, <2>3, <3>1 DEF VlansOf
    <3> QED BY <1>8, <2>3, <3>2 DEF Asked, Last
  <2> QED BY <1>3, <2>1, <2>2, <2>3
<1>11. type[n] = due[n].type /\ (n \in up) = due[n].up
  BY <1>3, <1>6, <1>7, <1>8 DEF Asked
<1>12. gvrp[n] # {} => due[n].gvrp /\ due[n].up
  BY <1>3, <1>6, <1>7, <1>8 DEF Asked
<1>13. untagged[n] = "none" \/ tagged[n] = {}
  BY <1>3, <1>6
<1> QED BY <1>10, <1>11, <1>12, <1>13 DEF AsTold

\* A batch that has made all its calls has made each port what it was told to be.
LEMMA FramingDone ==
  ASSUME NEW t \in Threads, NEW n \in Nics, Framing(t, n), job[t].todo = << >>
  PROVE  AsTold(n)
<1>1. ToJoin(<< >>, n) = {} /\ ToLeave(<< >>, n) = {}
  BY DEF ToJoin, ToLeave
<1> QED BY <1>1 DEF Framing, AsTold

-----------------------------------------------------------------------------
\* The ports that handlers are on, and those that rest.

LEMMA SameUnderway ==
  ASSUME NEW o \in Threads, NEW n \in Nics, SameAt(n), job[o]' = job[o]
  PROVE  /\ Editing(o, n) => Editing(o, n)'
         /\ Framing(o, n) => Framing(o, n)'
<1>1. ASSUME NEW f \in Forms, NEW k \in 1..Size(f) + 1, EditAt(o, n, f, k)
      PROVE  EditAt(o, n, f, k)'
  BY <1>1 DEF SameAt, EditAt, Made
<1>2. Editing(o, n) => Editing(o, n)'
  BY <1>1 DEF Editing
<1>3. VlansOf(n)' = VlansOf(n)
  BY DEF SameAt, VlansOf
<1>4. Framing(o, n) => Framing(o, n)'
  BY <1>3 DEF SameAt, Framing
<1> QED BY <1>2, <1>4

LEMMA SameTold ==
  ASSUME NEW n \in Nics, SameAt(n), AsTold(n)
  PROVE  AsTold(n)'
<1>1. VlansOf(n)' = VlansOf(n)
  BY DEF SameAt, VlansOf
<1> QED BY <1>1 DEF SameAt, AsTold

\* An edit and a batch make calls of their own.
LEMMA EditMakes ==
  ASSUME Typed, NEW t \in Threads, NEW n \in Nics, NEW what, Makes(t, what), Editing(t, n)
  PROVE  Nic(t) = n /\ \E do \in what : do \notin {"join", "leave", "address"}
<1>0. PICK f \in Forms : \E k \in 1..Size(f) + 1 : EditAt(t, n, f, k)
  BY DEF Editing
<1>1. PICK k \in 1..Size(f) + 1 : EditAt(t, n, f, k)
  BY <1>0
<1>2. k \in 1..Size(f) /\ EditProg(f)[k].do \in what /\ Nic(t) = n
  BY <1>1, EditMaking
<1>3. EditProg(f)[k].do \in {"up", "down", "clear", "untag", "tag", "tagGvrp", "type"}
  BY <1>2, EditCall
<1> QED BY <1>2, <1>3

LEMMA FrameMakes ==
  ASSUME Typed, NEW t \in Threads, NEW n \in Nics, NEW what, Makes(t, what), Framing(t, n)
  PROVE  \E do \in what : do \in {"join", "leave"}
<1>1. /\ job[t].todo \in Seq(Calls) /\ job[t].todo # << >> /\ Head(job[t].todo).do \in what
      /\ FrameCalls(job[t].todo)
  BY Making DEF Typed, JobOK, Framing
<1>2. Head(job[t].todo).do \in {"join", "leave"}
  BY <1>1, TailSets
<1> QED BY <1>1, <1>2

\* A call changes the port it is about, and no other handler that is on it counts.
LEMMA CallKeeps ==
  ASSUME PortInv, NEW t \in Threads, NEW what, Makes(t, what), due' = due,
         \A n \in Nics : SameAt(n) \/ (n = Nic(t) /\ n \in job[t].on),
         \A n \in Nics : n \in job[t].on /\ (Editing(t, n) \/ Framing(t, n))
                           => Editing(t, n)' \/ Framing(t, n)'
  PROVE  Underway' /\ Rest'
<1>1. /\ \A o \in Threads : job[o].on' = job[o].on
      /\ \A o \in Threads \ {t} : job[o]' = job[o]
      /\ Busy' = Busy
  BY Making DEF PortInv
<1>2. ASSUME NEW o \in Threads, NEW n \in Nics, n \in job'[o].on, due'[n] # Anything
      PROVE  Editing(o, n)' \/ Framing(o, n)'
  <2>1. n \in job[o].on /\ due[n] # Anything
    BY <1>1, <1>2
  <2>2. Editing(o, n) \/ Framing(o, n)
    BY <2>1 DEF PortInv, Underway
  <2>3. CASE o = t
    BY <2>1, <2>2, <2>3
  <2>4. CASE o # t
    <3>1. ~ (n \in job[t].on)
      BY <2>1, <2>4 DEF PortInv, Sole
    <3>2. SameAt(n) /\ job[o]' = job[o]
      BY <1>1, <2>4, <3>1
    <3> QED BY <2>2, <3>2, SameUnderway
  <2> QED BY <2>3, <2>4
<1>3. Underway'
  BY <1>2 DEF Underway, Anything
<1>4. ASSUME NEW n \in Settled'
      PROVE  AsTold(n)'
  <2>1. n \in Nics /\ n \notin Busy /\ due[n] # Anything
    BY <1>1 DEF Settled, Anything
  <2>2. n \notin job[t].on
    BY <2>1 DEF Busy
  <2>3. AsTold(n)
    BY <2>1 DEF PortInv, Rest, Settled
  <2> QED BY <2>1, <2>2, <2>3, SameTold
<1>5. Rest'
  BY <1>4 DEF Rest
<1> QED BY <1>3, <1>5

\* The handlers that go on stay where they are.
LEMMA OthersKeep ==
  ASSUME PortInv, NEW o \in Threads, NEW n \in Nics, job[o]' = job[o],
         n \in job[o].on, due'[n] = due[n], due[n] # Anything, UNCHANGED port
  PROVE  Editing(o, n)' \/ Framing(o, n)'
<1>1. SameAt(n)
  BY DEF SameAt, port
<1>2. Editing(o, n) \/ Framing(o, n)
  BY DEF PortInv, Underway
<1> QED BY <1>1, <1>2, SameUnderway

\* What it takes for a step that makes no call to keep Underway and Rest.
LEMMA HandlerKeeps ==
  ASSUME PortInv, UNCHANGED port,
         \A n \in Nics : due'[n] = due[n] \/ n \in Busy' \/ due'[n] = Anything,
         \A o \in Threads, n \in Nics :
           n \in job'[o].on /\ due'[n] # Anything =>
             \/ job'[o] = job[o] /\ due'[n] = due[n]
             \/ Editing(o, n)' \/ Framing(o, n)',
         \A n \in Nics : n \in Busy /\ n \notin Busy' /\ due'[n] # Anything => AsTold(n)
  PROVE  Underway' /\ Rest'
<1>1. ASSUME NEW o \in Threads, NEW n \in Nics, n \in job'[o].on, due'[n] # Anything
      PROVE  Editing(o, n)' \/ Framing(o, n)'
  <2>1. CASE job'[o] = job[o] /\ due'[n] = due[n]
    BY <1>1, <2>1, OthersKeep
  <2> QED BY <1>1, <2>1
<1>2. Underway'
  BY <1>1 DEF Underway, Anything
<1>3. ASSUME NEW n \in Settled'
      PROVE  AsTold(n)'
  <2>1. n \in Nics /\ n \notin Busy' /\ due'[n] # Anything
    BY DEF Settled, Anything
  <2>2. due'[n] = due[n]
    BY <2>1
  <2>3. AsTold(n)
    BY <2>1, <2>2 DEF PortInv, Rest, Settled
  <2>4. SameAt(n)
    BY <2>2 DEF SameAt, port
  <2> QED BY <2>1, <2>3, <2>4, SameTold
<1>4. Rest'
  BY <1>3 DEF Rest
<1> QED BY <1>2, <1>4

\* The calls.
LEMMA SetStateKeeps ==
  ASSUME PortInv, NEW t \in Threads, SetState(t)
  PROVE  Underway' /\ Rest'
<1>1. Makes(t, {"up", "down"}) /\ due' = due
  BY DEF SetState, history
<1>2. Typed /\ Nic(t) \in Nics /\ Nic(t) \in job[t].on
  BY <1>1, Making, CallArgs DEF PortInv, Nic
<1>3. \A n \in Nics : n # Nic(t) => SameAt(n)
  BY <1>2 DEF SetState, SameAt, Typed, TypeOK, history
<1>4. ASSUME NEW n \in Nics, Editing(t, n) \/ Framing(t, n)
      PROVE  Editing(t, n)'
  <2>1. ~Framing(t, n)
    BY <1>1, <1>2, FrameMakes
  <2> QED BY <1>2, <1>4, <2>1, EditingSetState
<1> QED BY <1>1, <1>2, <1>3, <1>4, CallKeeps

LEMMA ClearKeeps ==
  ASSUME PortInv, NEW t \in Threads, Clear(t)
  PROVE  Underway' /\ Rest'
<1>1. Makes(t, {"clear"}) /\ due' = due
  BY DEF Clear, history
<1>2. Typed /\ Nic(t) \in Nics /\ Nic(t) \in job[t].on
  BY <1>1, Making, CallArgs DEF PortInv, Nic
<1>3. \A n \in Nics : n # Nic(t) => SameAt(n)
  BY <1>2 DEF Clear, SameAt, Typed, TypeOK, history
<1>4. ASSUME NEW n \in Nics, Editing(t, n) \/ Framing(t, n)
      PROVE  Editing(t, n)'
  <2>1. ~Framing(t, n)
    BY <1>1, <1>2, FrameMakes
  <2> QED BY <1>2, <1>4, <2>1, EditingClear
<1> QED BY <1>1, <1>2, <1>3, <1>4, CallKeeps

LEMMA UntagKeeps ==
  ASSUME PortInv, NEW t \in Threads, Untag(t)
  PROVE  Underway' /\ Rest'
<1>1. Makes(t, {"untag"}) /\ due' = due
  BY DEF Untag, history
<1>2. Typed /\ Nic(t) \in Nics /\ Nic(t) \in job[t].on
  BY <1>1, Making, CallArgs DEF PortInv, Nic
<1>3. \A n \in Nics : n # Nic(t) => SameAt(n)
  BY <1>2 DEF Untag, SameAt, Typed, TypeOK, history
<1>4. ASSUME NEW n \in Nics, Editing(t, n) \/ Framing(t, n)
      PROVE  Editing(t, n)'
  <2>1. ~Framing(t, n)
    BY <1>1, <1>2, FrameMakes
  <2> QED BY <1>2, <1>4, <2>1, EditingUntag
<1> QED BY <1>1, <1>2, <1>3, <1>4, CallKeeps

LEMMA TagKeeps ==
  ASSUME PortInv, NEW t \in Threads, Tag(t)
  PROVE  Underway' /\ Rest'
<1>1. Makes(t, {"tag", "tagGvrp"}) /\ due' = due
  BY DEF Tag, history
<1>2. Typed /\ Nic(t) \in Nics /\ Nic(t) \in job[t].on
  BY <1>1, Making, CallArgs DEF PortInv, Nic
<1>3. \A n \in Nics : n # Nic(t) => SameAt(n)
  BY <1>2 DEF Tag, SameAt, Typed, TypeOK, history
<1>4. ASSUME NEW n \in Nics, Editing(t, n) \/ Framing(t, n)
      PROVE  Editing(t, n)'
  <2>1. ~Framing(t, n)
    BY <1>1, <1>2, FrameMakes
  <2> QED BY <1>2, <1>4, <2>1, EditingTag
<1> QED BY <1>1, <1>2, <1>3, <1>4, CallKeeps

LEMMA SetTypeKeeps ==
  ASSUME PortInv, NEW t \in Threads, SetType(t)
  PROVE  Underway' /\ Rest'
<1>1. Makes(t, {"type"}) /\ due' = due
  BY DEF SetType, history
<1>2. Typed /\ Nic(t) \in Nics /\ Nic(t) \in job[t].on
  BY <1>1, Making, CallArgs DEF PortInv, Nic
<1>3. \A n \in Nics : n # Nic(t) => SameAt(n)
  BY <1>2 DEF SetType, SameAt, Typed, TypeOK, history
<1>4. ASSUME NEW n \in Nics, Editing(t, n) \/ Framing(t, n)
      PROVE  Editing(t, n)'
  <2>1. ~Framing(t, n)
    BY <1>1, <1>2, FrameMakes
  <2> QED BY <1>2, <1>4, <2>1, EditingSetType
<1> QED BY <1>1, <1>2, <1>3, <1>4, CallKeeps

LEMMA JoinKeeps ==
  ASSUME PortInv, NEW t \in Threads, Join(t)
  PROVE  Underway' /\ Rest'
<1>1. Makes(t, {"join"}) /\ due' = due
  BY DEF Join, history
<1>2. Typed /\ Nic(t) \in Nics /\ Nic(t) \in job[t].on
  BY <1>1, Making, CallArgs DEF PortInv, Nic
<1>3. \A n \in Nics : n # Nic(t) => SameAt(n)
  BY <1>2 DEF Join, SameAt, Typed, TypeOK, history
<1>4. ASSUME NEW n \in Nics, Editing(t, n) \/ Framing(t, n)
      PROVE  Framing(t, n)'
  <2>1. Framing(t, n)
    BY <1>1, <1>2, <1>4, EditMakes
  <2>2. CASE Nic(t) = n
    BY <1>2, <2>1, <2>2, FramingJoin
  <2>3. CASE Nic(t) # n
    BY <1>1, <1>2, <1>3, <2>1, <2>3, FramingElsewhere
  <2> QED BY <2>2, <2>3
<1> QED BY <1>1, <1>2, <1>3, <1>4, CallKeeps

LEMMA LeaveKeeps ==
  ASSUME PortInv, NEW t \in Threads, Leave(t)
  PROVE  Underway' /\ Rest'
<1>1. Makes(t, {"leave"}) /\ due' = due
  BY DEF Leave, history
<1>2. Typed /\ Nic(t) \in Nics /\ Nic(t) \in job[t].on
  BY <1>1, Making, CallArgs DEF PortInv, Nic
<1>3. \A n \in Nics : n # Nic(t) => SameAt(n)
  BY <1>2 DEF Leave, SameAt, Typed, TypeOK, history
<1>4. ASSUME NEW n \in Nics, Editing(t, n) \/ Framing(t, n)
      PROVE  Framing(t, n)'
  <2>1. Framing(t, n)
    BY <1>1, <1>2, <1>4, EditMakes
  <2>2. CASE Nic(t) = n
    BY <1>2, <2>1, <2>2, FramingLeave
  <2>3. CASE Nic(t) # n
    BY <1>1, <1>2, <1>3, <2>1, <2>3, FramingElsewhere
  <2> QED BY <2>2, <2>3
<1> QED BY <1>1, <1>2, <1>3, <1>4, CallKeeps

LEMMA AddressKeeps ==
  ASSUME PortInv, NEW t \in Threads, Address(t)
  PROVE  Underway' /\ Rest'
<1>1. Makes(t, {"address"}) /\ due' = due
  BY DEF Address
<1>2. Typed
  BY DEF PortInv
<1>3. \A n \in Nics : SameAt(n)
  BY DEF Address, SameAt
<1>4. ASSUME NEW n \in Nics
      PROVE  ~Editing(t, n) /\ ~Framing(t, n)
  BY <1>1, <1>2, EditMakes, FrameMakes
<1> QED BY <1>1, <1>3, <1>4, CallKeeps

\* An edit enters: it has made nothing of its port yet.
LEMMA EditKeeps ==
  ASSUME PortInv, NEW t \in Threads, NEW f \in Forms, Edit(t, f)
  PROVE  Underway' /\ Rest'
<1>1. /\ f.nic \in Nics /\ EditProg(f) \in Seq(Calls) /\ Len(EditProg(f)) = Size(f) /\ Size(f) \in Nat
      /\ \A i \in DOMAIN EditProg(f) : EditProg(f)[i].nic = f.nic
      /\ Len(f.vlans) \in Nat /\ Size(f) = Len(f.vlans) + 3
  BY EditCalls, EditNics DEF Size
<1>2. /\ {f.nic} \in SUBSET Nics
      /\ \A i \in DOMAIN EditProg(f) : EditProg(f)[i].do # "address" => EditProg(f)[i].nic \in {f.nic}
  BY <1>1
<1>3. /\ Enter(t, EditProg(f), {f.nic}, [n \in {f.nic} |-> Asked(f)])
      /\ UNCHANGED port /\ ~Refused(f)
  BY DEF Edit
<1>4. /\ \A o \in Threads \ {t} : job[o]' = job[o]
      /\ job[t].todo' = EditProg(f) /\ job[t].on' = {f.nic}
      /\ Busy' = Busy \cup {f.nic}
  <2>1. /\ Typed /\ EditProg(f) \in Seq(Calls) /\ {f.nic} \in SUBSET Nics
        /\ \A i \in DOMAIN EditProg(f) : EditProg(f)[i].do # "address" => EditProg(f)[i].nic \in {f.nic}
        /\ Enter(t, EditProg(f), {f.nic}, [n \in {f.nic} |-> Asked(f)])
    BY <1>1, <1>2, <1>3 DEF PortInv
  <2>2. \A o \in Threads \ {t} : job[o]' = job[o]
    BY <2>1, Entering
  <2>3. job[t].todo' = EditProg(f)
    BY <2>1 DEF Enter, Typed
  <2>4. job[t].on' = {f.nic}
    BY <2>1, Entering
  <2>5. Busy' = Busy \cup {f.nic}
    BY <2>1, Entering
  <2> QED BY <2>2, <2>3, <2>4, <2>5
<1>5. /\ \A n \in Nics : n # f.nic => due'[n] = due[n]
      /\ due'[f.nic] = IF f.nic \in Busy THEN Anything ELSE Asked(f)
  BY <1>1, <1>3 DEF Enter
<1>6. ASSUME due'[f.nic] # Anything
      PROVE  Editing(t, f.nic)'
  <2>1. SubSeq(EditProg(f), 1, Size(f)) = EditProg(f)
    <3>1. PICK e \in Seq(Calls), m \in Nat : e = EditProg(f) /\ m = Size(f) /\ Len(e) = m
      BY <1>1
    <3>2. /\ SubSeq(e, 1, m) \in Seq(Calls) /\ Len(SubSeq(e, 1, m)) = m
          /\ \A i \in 1..m : SubSeq(e, 1, m)[i] = e[i]
      <4>1. \A i \in 1..m : e[i] \in Calls
        BY <3>1
      <4>2. /\ SubSeq(e, 1, m) \in Seq(Calls)
            /\ Len(SubSeq(e, 1, m)) = IF 1 <= m THEN m - 1 + 1 ELSE 0
            /\ \A i \in 1..(m - 1 + 1) : SubSeq(e, 1, m)[i] = e[1 + i - 1]
        BY <4>1, SubSeqProperties
      <4>3. m - 1 + 1 = m /\ \A i \in 1..m : 1 + i - 1 = i
        OBVIOUS
      <4>4. ~ (1 <= m) => m = 0
        OBVIOUS
      <4> QED BY <4>2, <4>3, <4>4
    <3>3. SubSeq(e, 1, m) = e
      BY <3>1, <3>2, SeqEqual
    <3> QED BY <3>1, <3>3
  <2>2. Made(f, f.nic, 1)'
    BY <1>1 DEF Made
  <2>3. EditAt(t, f.nic, f, 1)'
    BY <1>3, <1>4, <1>5, <1>6, <2>1, <2>2 DEF EditAt
  <2>4. 1 \in 1..Size(f) + 1
    BY <1>1
  <2> QED BY <2>3, <2>4 DEF Editing
<1>7. \A o \in Threads, n \in Nics :
        n \in job'[o].on /\ due'[n] # Anything =>
          (job'[o] = job[o] /\ due'[n] = due[n]) \/ Editing(o, n)' \/ Framing(o, n)'
  <2> SUFFICES ASSUME NEW o \in Threads, NEW n \in Nics, n \in job'[o].on, due'[n] # Anything
               PROVE  (job'[o] = job[o] /\ due'[n] = due[n]) \/ Editing(o, n)'
    BY Zenon
  <2>1. CASE o = t
    BY <1>4, <1>6, <2>1
  <2>2. CASE o # t /\ n # f.nic
    BY <1>4, <1>5, <2>2
  <2>3. CASE o # t /\ n = f.nic
    <3>1. n \in Busy
      BY <1>4, <2>3 DEF Busy
    <3> QED BY <1>5, <2>3, <3>1
  <2> QED BY <2>1, <2>2, <2>3
<1>8. \A n \in Nics : due'[n] = due[n] \/ n \in Busy'
  BY <1>4, <1>5
<1>9. Busy \subseteq Busy'
  BY <1>4
<1> QED BY <1>3, <1>7, <1>8, <1>9, HandlerKeeps

\* A batch enters: each port it noted is what it was told, and has the calls before it.
LEMMA AnalyseFrameKeeps ==
  ASSUME PortInv, NEW t \in Threads, NEW b \in Batches, AnalyseFrame(t, b)
  PROVE  Underway' /\ Rest'
<1>1. PICK todo, told :
        /\ Enter(t, todo, GvrpPorts, told)
        /\ todo = FrameProg(SetToSeq(Adds(b)), SetToSeq(Removes(b)), SetToSeq(GvrpPorts),
                            [n \in GvrpPorts |-> VlansOf(n)])
  BY Zenon DEF AnalyseFrame
<1>2. /\ todo \in Seq(Calls) /\ FrameCalls(todo)
      /\ \A k \in 1..Len(todo) : todo[k].nic \in GvrpPorts
      /\ \A n \in GvrpPorts :
           /\ ToJoin(todo, n) = IF Adds(b) = {} THEN {} ELSE VlansOf(n) \cup Adds(b)
           /\ ToLeave(todo, n) = Removes(b)
  BY <1>1, BatchCalls DEF PortInv
<1>3. GvrpPorts \in SUBSET Nics /\ DOMAIN todo = 1..Len(todo)
  BY <1>2, LenProperties DEF GvrpPorts
<1>4. /\ \A o \in Threads \ {t} : job[o]' = job[o]
      /\ job[t].todo' = todo /\ job[t].on' = GvrpPorts
      /\ Busy' = Busy \cup GvrpPorts
  <2>1. /\ Typed /\ todo \in Seq(Calls) /\ GvrpPorts \in SUBSET Nics
        /\ \A i \in DOMAIN todo : todo[i].do # "address" => todo[i].nic \in GvrpPorts
        /\ Enter(t, todo, GvrpPorts, told)
    BY <1>1, <1>2, <1>3 DEF PortInv
  <2>2. \A o \in Threads \ {t} : job[o]' = job[o]
    BY <2>1, Entering
  <2>3. job[t].todo' = todo
    BY <2>1 DEF Enter, Typed
  <2>4. job[t].on' = GvrpPorts
    BY <2>1, Entering
  <2>5. Busy' = Busy \cup GvrpPorts
    BY <2>1, Entering
  <2> QED BY <2>2, <2>3, <2>4, <2>5
<1>5. UNCHANGED port
  BY DEF AnalyseFrame
<1>6. \A n \in Nics : due'[n] = IF n \notin GvrpPorts THEN due[n]
                                ELSE IF n \in Busy THEN Anything ELSE ToldByBatch(n, b)
  BY BatchTells
<1>7. ASSUME NEW n \in GvrpPorts, due'[n] # Anything
      PROVE  Framing(t, n)'
  <2>1. n \in GvrpPorts \ Busy /\ due[n] # Anything /\ due'[n] = ToldByBatch(n, b)
    BY <1>3, <1>6, <1>7 DEF ToldByBatch
  <2>2. AsTold(n) /\ gvrp[n] # {} /\ due[n].gvrp
    BY <2>1, GvrpTold DEF PortInv
  <2>3. due[n] \in Told
    BY <1>3, <2>1 DEF PortInv, DueOK
  <2>4. untagged[n] = "none"
    BY <1>3, <2>2 DEF AsTold, PortInv, Typed, TypeOK
  <2>5. /\ due'[n].vlans = (due[n].vlans \cup Adds(b)) \ Removes(b)
        /\ due'[n].up /\ due'[n].gvrp /\ due'[n].type = due[n].type
    BY <2>1, <2>2, <2>3 DEF ToldByBatch, Told
  <2>6. due'[n].vlans = (VlansOf(n) \cup ToJoin(todo, n)) \ ToLeave(todo, n)
    BY <1>2, <2>2, <2>5 DEF AsTold
  <2>7. n \in up /\ type[n] = due[n].type
    BY <2>2 DEF AsTold
  <2>8. VlansOf(n)' = VlansOf(n) /\ UNCHANGED <<up, type, untagged>>
    BY <1>5 DEF port, VlansOf
  <2> QED BY <1>2, <1>4, <2>4, <2>5, <2>6, <2>7, <2>8 DEF Framing
<1>8. \A o \in Threads, n \in Nics :
        n \in job'[o].on /\ due'[n] # Anything =>
          (job'[o] = job[o] /\ due'[n] = due[n]) \/ Editing(o, n)' \/ Framing(o, n)'
  <2> SUFFICES ASSUME NEW o \in Threads, NEW n \in Nics, n \in job'[o].on, due'[n] # Anything
               PROVE  (job'[o] = job[o] /\ due'[n] = due[n]) \/ Framing(o, n)'
    BY Zenon
  <2>1. CASE o = t
    BY <1>4, <1>7, <2>1
  <2>2. CASE o # t /\ n \notin GvrpPorts
    BY <1>4, <1>6, <2>2
  <2>3. CASE o # t /\ n \in GvrpPorts
    <3>1. n \in Busy
      BY <1>4, <2>3 DEF Busy
    <3> QED BY <1>6, <2>3, <3>1
  <2> QED BY <2>1, <2>2, <2>3
<1>9. \A n \in Nics : due'[n] = due[n] \/ n \in Busy'
  BY <1>4, <1>6
<1>10. Busy \subseteq Busy'
  BY <1>4
<1> QED BY <1>5, <1>8, <1>9, <1>10, HandlerKeeps

\* The form of an address enters and changes no port.
LEMMA EditBridgeKeeps ==
  ASSUME PortInv, NEW t \in Threads, NEW v \in Vlans, EditBridge(t, v)
  PROVE  Underway' /\ Rest'
<1> DEFINE listed == {n \in Nics : v \in VlansOf(n)}
           todo == <<[do |-> "address", nic |-> listed, arg |-> v]>>
<1>1. todo \in Seq(Calls) /\ \A i \in DOMAIN todo : todo[i].do = "address"
  BY DEF Calls
<1>2. Enter(t, todo, {}, << >>) /\ UNCHANGED port
  BY DEF EditBridge
<1> HIDE DEF todo
<1>3. /\ \A o \in Threads \ {t} : job[o]' = job[o]
      /\ job[t].on' = {} /\ Busy' = Busy \cup {}
  <2>1. /\ Typed /\ todo \in Seq(Calls) /\ {} \in SUBSET Nics
        /\ \A i \in DOMAIN todo : todo[i].do # "address" => todo[i].nic \in {}
        /\ Enter(t, todo, {}, << >>)
    BY <1>1, <1>2 DEF PortInv
  <2>2. /\ \A o \in Threads \ {t} : job[o]' = job[o]
        /\ job[t].on' = {}
    BY <2>1, Entering
  <2>3. Busy' = Busy \cup {}
    BY <2>1, Entering
  <2> QED BY <2>2, <2>3
<1>4. \A n \in Nics : due'[n] = due[n]
  BY <1>2 DEF Enter
<1>5. \A o \in Threads, n \in Nics : n \in job'[o].on => job'[o] = job[o] /\ due'[n] = due[n]
  BY <1>3, <1>4
<1>6. Busy' = Busy
  BY <1>3
<1> QED BY <1>2, <1>4, <1>5, <1>6, HandlerKeeps

\* A handler returns: its ports are what they were told to be.
LEMMA ReturnKeeps ==
  ASSUME PortInv, NEW t \in Threads, Return(t)
  PROVE  Underway' /\ Rest'
<1>1. job[t].todo = << >> /\ job' = [job EXCEPT ![t] = Idle] /\ UNCHANGED port /\ due' = due
  BY DEF Return, history
<1>2. /\ \A o \in Threads \ {t} : job[o]' = job[o]
      /\ job[t].on' = {}
  BY <1>1, Ending DEF PortInv
<1>3. ASSUME NEW n \in Nics, n \in Busy, n \notin Busy', due'[n] # Anything
      PROVE  AsTold(n)
  <2>1. PICK o \in Threads : n \in job[o].on
    BY <1>3 DEF Busy
  <2>2. n \in job[t].on
    BY <1>2, <1>3, <2>1 DEF Busy
  <2>3. Editing(t, n) \/ Framing(t, n)
    BY <1>1, <1>3, <2>2 DEF PortInv, Underway
  <2> QED BY <1>1, <2>3, EditDone, FramingDone DEF PortInv
<1>4. \A o \in Threads, n \in Nics : n \in job'[o].on => job'[o] = job[o] /\ due'[n] = due[n]
  BY <1>1, <1>2
<1> QED BY <1>1, <1>3, <1>4, HandlerKeeps

\* A handler fails: its ports are told nothing.
LEMMA FailKeeps ==
  ASSUME PortInv, NEW t \in Threads, Fail(t)
  PROVE  Underway' /\ Rest'
<1>1. /\ job' = [job EXCEPT ![t] = Idle] /\ UNCHANGED port
      /\ \A n \in Nics : due'[n] = IF n \in job[t].on THEN Anything ELSE due[n]
  BY DEF Fail
<1>2. /\ \A o \in Threads \ {t} : job[o]' = job[o]
      /\ job[t].on' = {}
  BY <1>1, Ending DEF PortInv
<1>3. \A n \in Nics : n \in Busy /\ n \notin Busy' => due'[n] = Anything
  BY <1>1, <1>2 DEF Busy
<1>4. \A o \in Threads, n \in Nics :
        n \in job'[o].on /\ due'[n] # Anything => job'[o] = job[o] /\ due'[n] = due[n]
  BY <1>1, <1>2
<1> QED BY <1>1, <1>3, <1>4, HandlerKeeps

LEMMA CrashKeeps ==
  ASSUME PortInv, Crash
  PROVE  Underway' /\ Rest'
<1>1. /\ \A t \in Threads : job'[t].on = {}
      /\ UNCHANGED port
      /\ \A n \in Nics : due'[n] = IF n \in Busy THEN Anything ELSE due[n]
  BY DEF Crash, Idle
<1> QED BY <1>1, HandlerKeeps

\* Every step keeps what is said of the ports that handlers are on and of those that rest.
LEMMA UnderwayRestKept ==
  ASSUME PortInv, [Next]_vars
  PROVE  Underway' /\ Rest'
<1>1. ASSUME UNCHANGED <<port, job, due>>
      PROVE  Underway' /\ Rest'
  <2>1. /\ UNCHANGED port /\ due' = due /\ job' = job /\ Busy' = Busy
    BY <1>1 DEF Busy
  <2> QED BY <2>1, HandlerKeeps
<1>2. ASSUME NEW t \in Threads, NEW f \in Forms, Refuse(t, f)
      PROVE  UNCHANGED <<port, job, due>>
  BY <1>2 DEF Refuse
<1>3. UNCHANGED vars => UNCHANGED <<port, job, due>>
  BY DEF vars, port
<1> QED
  BY <1>1, <1>2, <1>3, EditKeeps, EditBridgeKeeps, AnalyseFrameKeeps, SetStateKeeps, ClearKeeps,
     UntagKeeps, TagKeeps, SetTypeKeeps, AddressKeeps, JoinKeeps, LeaveKeeps, FailKeeps,
     ReturnKeeps, CrashKeeps DEF Next

LEMMA InitPortInv == Init => PortInv
<1> SUFFICES ASSUME Init PROVE PortInv
  OBVIOUS
<1>1. Typed
  BY InitTyped
<1>2. \A t \in Threads : job[t].on = {}
  BY DEF Init, Idle
<1>3. \A n \in Nics : due[n] = [up |-> TRUE, vlans |-> {}, gvrp |-> FALSE, type |-> "Off"]
  BY DEF Init
<1>4. DueOK
  <2>1. [up |-> TRUE, vlans |-> {}, gvrp |-> FALSE, type |-> "Off"] \in Told
    BY DEF Told, Types
  <2>2. \A n \in Nics : due[n] \in Told /\ due[n].type = "Off" /\ due[n].gvrp = FALSE
    BY <1>3, <2>1
  <2> QED BY <2>2 DEF DueOK
<1>5. Sole /\ Underway
  BY <1>2 DEF Sole, Underway
<1>6. Rest
  BY <1>3 DEF Init, Rest, Settled, AsTold, VlansOf
<1> QED BY <1>1, <1>4, <1>5, <1>6 DEF PortInv

LEMMA PortInvInvariant == Spec => []PortInv
<1>1. PortInv /\ [Next]_vars => PortInv'
  <2> SUFFICES ASSUME PortInv, [Next]_vars PROVE PortInv'
    OBVIOUS
  <2>1. Typed /\ DueOK /\ Sole /\ Rest
    BY DEF PortInv
  <2>2. Typed' /\ DueOK' /\ Sole'
    BY <2>1, Typing, DueKept, SoleKept
  <2>3. Underway' /\ Rest'
    BY UnderwayRestKept
  <2> QED BY <2>2, <2>3 DEF PortInv
<1> QED BY InitPortInv, <1>1, PTL DEF Spec

-----------------------------------------------------------------------------
\* What follows of it.

\* The state is well typed: each VLAN a port is in has a bridge and only bridges have the
\* addresses of VLANs, whatever handlers run at a time, fail or are cut off
\* (EthernetServices, EthernetController.Edit, FrameReader.AnalyseFrame).
THEOREM TypeCorrect == Spec => []TypeOK
<1>1. PortInv => TypeOK
  BY DEF PortInv, Typed
<1> QED BY PortInvInvariant, <1>1, PTL

\* A port on which no handler is has the VLANs, the type, the state and the GVRP of its last
\* edit and the frames since, if they ran to their ends and alone on it
\* (EthernetController.Edit, FrameReader.AnalyseFrame).
THEOREM PortsAreAsAsked == Spec => []PortsAsAsked
<1>1. PortInv => PortsAsAsked
  BY DEF PortInv, Rest, AsTold, PortsAsAsked
<1> QED BY PortInvInvariant, <1>1, PTL

\* Where such a port does GVRP the dictionary has it listen, unless its last form was
\* refused or the process was restarted since (EthernetController.Edit, GVRPActivePorts).
THEOREM GvrpOnlyWhereWished == Spec => []GvrpIsWished
<1>1. PortInv => GvrpIsWished
  <2> SUFFICES ASSUME PortInv, NEW n \in Settled \ forgotten, gvrp[n] # {}
               PROVE  wish[n] = "Listening"
    BY DEF GvrpIsWished
  <2>1. n \in Nics /\ due[n] # Anything /\ due[n].gvrp
    BY DEF PortInv, Rest, AsTold, Settled
  <2> QED BY <2>1 DEF PortInv, DueOK
<1> QED BY PortInvInvariant, <1>1, PTL

\* Such a port has one VLAN at most if it is isolated or promiscuous, unless it does GVRP
\* (the messages of EthernetController.Edit).
THEOREM PrivatePortHasOneVlan == Spec => []PrivateHasOneVlan
<1>1. PortInv => PrivateHasOneVlan
  <2> SUFFICES ASSUME PortInv, NEW n \in Settled, type[n] # "Off", ~due[n].gvrp
               PROVE  Cardinality(VlansOf(n)) <= 1
    BY DEF PrivateHasOneVlan
  <2>1. n \in Nics /\ due[n] # Anything /\ VlansOf(n) = due[n].vlans /\ type[n] = due[n].type
    BY DEF PortInv, Rest, AsTold, Settled
  <2> QED BY <2>1 DEF PortInv, DueOK
<1> QED BY PortInvInvariant, <1>1, PTL

-----------------------------------------------------------------------------
\* Addresses.

\* The ports and bridges that have addresses stay, and so do the untagged VLANs.
LEMMA FlushedQuiet ==
  ASSUME Flushed, UNCHANGED <<untagged, addressed, nicAddr, missed>>
  PROVE  Flushed'
BY DEF Flushed

LEMMA FlushedKept ==
  ASSUME Typed, Flushed, [Next]_vars
  PROVE  Flushed'
<1>1. ASSUME NEW t \in Threads, Clear(t)
      PROVE  Flushed'
  <2>1. Makes(t, {"clear"})
    BY <1>1 DEF Clear
  <2>2. PICK p \in Nics : p = Nic(t)
    BY <2>1, Making, CallArgs DEF Nic
  <2>3. /\ untagged' = [untagged EXCEPT ![p] = "none"] /\ missed' = missed \ {p}
        /\ addressed' \subseteq addressed /\ nicAddr' = nicAddr
    BY <1>1, <2>2 DEF Clear, Drop
  <2>4. "none" \notin addressed /\ untagged \in [Nics -> Vlans \cup {"none"}]
    BY PagesAssumption DEF Typed, TypeOK
  <2> QED BY <2>3, <2>4 DEF Flushed
<1>2. ASSUME NEW t \in Threads, Untag(t)
      PROVE  Flushed'
  <2>1. /\ untagged' = [untagged EXCEPT ![Nic(t)] = Arg(t)] /\ missed' = missed
        /\ addressed' = addressed
        /\ nicAddr' = IF Arg(t) \in addressed THEN nicAddr \ {Nic(t)} ELSE nicAddr
    BY <1>2 DEF Untag, Flush, history
  <2>2. untagged \in [Nics -> Vlans \cup {"none"}]
    BY DEF Typed, TypeOK
  <2> QED BY <2>1, <2>2 DEF Flushed
<1>3. ASSUME NEW t \in Threads, Address(t)
      PROVE  Flushed'
  <2>1. /\ nicAddr' = nicAddr \ Nic(t) /\ addressed' \subseteq addressed \cup {Arg(t)}
        /\ missed' = (missed \cup {n \in Nics : untagged[n] = Arg(t)}) \ Nic(t)
        /\ untagged' = untagged
    BY <1>3 DEF Address
  <2> QED BY <2>1 DEF Flushed
<1>4. ASSUME NEW t \in Threads, Leave(t)
      PROVE  Flushed'
  <2>1. Makes(t, {"leave"})
    BY <1>4 DEF Leave
  <2>2. PICK p \in Nics, v \in Vlans : p = Nic(t) /\ v = Arg(t)
    BY <2>1, Making, CallArgs DEF Nic, Arg
  <2>3. /\ untagged' = [untagged EXCEPT ![p] = IF @ = v /\ v \notin tagged[p] THEN "none" ELSE @]
        /\ missed' = missed /\ addressed' \subseteq addressed /\ nicAddr' = nicAddr
    BY <1>4, <2>2 DEF Leave, Drop, history
  <2>4. "none" \notin addressed /\ untagged \in [Nics -> Vlans \cup {"none"}]
    BY PagesAssumption DEF Typed, TypeOK
  <2> QED BY <2>3, <2>4 DEF Flushed
<1>5. ASSUME NEW t \in Threads, NEW f \in Forms, Edit(t, f) \/ Refuse(t, f)
      PROVE  UNCHANGED <<untagged, addressed, nicAddr, missed>>
  BY <1>5 DEF Edit, Refuse, port
<1>6. ASSUME NEW t \in Threads, NEW v \in Vlans, EditBridge(t, v)
      PROVE  UNCHANGED <<untagged, addressed, nicAddr, missed>>
  BY <1>6 DEF EditBridge, port
<1>7. ASSUME NEW t \in Threads, NEW b \in Batches, AnalyseFrame(t, b)
      PROVE  UNCHANGED <<untagged, addressed, nicAddr, missed>>
  BY <1>7 DEF AnalyseFrame, port
<1>8. ASSUME NEW t \in Threads, SetState(t) \/ Tag(t) \/ SetType(t) \/ Join(t) \/ Fail(t) \/ Return(t)
      PROVE  UNCHANGED <<untagged, addressed, nicAddr, missed>>
  BY <1>8 DEF SetState, Tag, SetType, Join, Fail, Return, port, history
<1>9. Crash \/ UNCHANGED vars => UNCHANGED <<untagged, addressed, nicAddr, missed>>
  BY DEF Crash, vars, port
<1> QED BY <1>1, <1>2, <1>3, <1>4, <1>5, <1>6, <1>7, <1>8, <1>9, FlushedQuiet DEF Next

\* Next to the address of its untagged VLAN's bridge no port holds one of its own, unless
\* the address was posted from a page shown before the port joined
\* (EthernetServices.SetBridgeAddress, ApplyEthernetInterfaceVLANs).
THEOREM AddressesOnBridgesAlone == Spec => []NoAddressBehindBridge
<1>1. Init => Typed /\ Flushed
  <2>1. Init => Flushed
    BY DEF Init, Flushed
  <2> QED BY <2>1, InitTyped
<1>2. (Typed /\ Flushed) /\ [Next]_vars => (Typed /\ Flushed)'
  BY Typing, FlushedKept
<1>3. Typed /\ Flushed => NoAddressBehindBridge
  BY DEF Flushed, NoAddressBehindBridge, Settled
<1> QED BY <1>1, <1>2, <1>3, PTL DEF Spec

=============================================================================
