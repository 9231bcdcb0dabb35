------------------------- MODULE VlanBridgesProofs -------------------------
(***************************************************************************)
(* Proofs about VlanBridges, for any ports, VLANs, threads and calls, and  *)
(* with any handlers at once: its type, and that a bridge no handler works *)
(* on serves its ports.                                                    *)
(***************************************************************************)
EXTENDS VlanBridges, SequenceFacts

-----------------------------------------------------------------------------
\* What a handler still has to run.

\* Commands whose failure nobody catches.
Bare == {"clear", "reported", "hasVLAN", "master", "addif", "tidy", "delete"}

Commands ==
  {c \in [do : Dos, nic : Nics \cup {"none"}, vlan : Vlans \cup {"none"},
          catch : {"no", "yes", "try"}] :
     /\ c.nic \in Nics \/ c.do \in {"flushBridge", "address"}
     /\ c.vlan \in Vlans \/ c.do \in {"nicUp", "nicDown", "clear"}
     /\ c.catch = "no" \/ c.do \notin Bare}

Jobs == [op : {"none", "edit", "address", "frame"}, todo : Seq(Commands), tagged : BOOLEAN,
         gvrp : BOOLEAN, seen : SUBSET {"bridge", "address"}, on : SUBSET Nics,
         sound : SUBSET Nics, uses : SUBSET (Nics \cup Vlans)]

\* After the i-th command comes one of these, to the bridge of VLAN v.
Later(s, i, dos, v) == \E j \in DOMAIN s : j > i /\ s[j].do \in dos /\ s[j].vlan = v

\* Between the i-th command and the j-th, the sub-interface the latter adds is made.
Linked(s, i, j) ==
  \E k \in DOMAIN s : /\ i < k /\ k < j
                      /\ s[k].do \in {"link", "linkGvrp"}
                      /\ s[k].nic = s[j].nic /\ s[k].vlan = s[j].vlan

\* After the i-th command comes one that gives VLAN v a port, or one of dos: a port
\* joins untagged, or through a sub-interface that exists (it is in subs) or is made.
Fills(s, i, v, dos, subs) ==
  \E j \in DOMAIN s :
    /\ j > i /\ s[j].vlan = v
    /\ \/ s[j].do \in dos
       \/ s[j].do = "addsub" /\ (<<s[j].nic, v>> \in subs \/ Linked(s, i, j))

\* What the i-th command takes from a bridge, a later one gives back: a bridge taken
\* down goes up or away, one that was made gets a port, one a port left is tidied.  The
\* VLANs in d are excused.
Kept(s, i, d) ==
  LET v == s[i].vlan IN
  /\ s[i].do = "down" => v \in d \/ Later(s, i, {"up", "delete"}, v)
  /\ s[i].do = "addbr" => Later(s, i, {"up"}, v) /\ Fills(s, i, v, {"addif"}, {})
  /\ s[i].do \in {"unlink", "delif"} => v \in d \/ Later(s, i, {"tidy"}, v)
  /\ s[i].do = "look" => Later(s, i, {"tidy"}, v)

Sound(s, d) == \A i \in DOMAIN s : Kept(s, i, d)

\* A try that several commands share is over before the last command, and all of them
\* are about one VLAN.
Guarded(s) ==
  \E p \in Nat :
    /\ p = 0 \/ p < Len(s)
    /\ \A i \in DOMAIN s : /\ i <= p => s[i].catch = "try" /\ s[i].vlan = s[1].vlan
                           /\ i > p => s[i].catch # "try"

Typed == TypeOK /\ job \in [Threads -> Jobs]

AllSound == \A t \in Threads : Sound(job[t].todo, dirty) /\ Guarded(job[t].todo)

Subs == {p \in Nics \X Vlans : sub[p] # "absent"}

\* A bridge that is down goes up or away, one without ports is filled or tidied.
Raised(v) == \E t \in Threads : Later(job[t].todo, 0, {"up", "delete"}, v)
Filled(v) == \E t \in Threads :
               Fills(job[t].todo, 0, v, {"addif", "tidy", "delete"}, Subs)

Served ==
  \A v \in Vlans \ dirty :
    bridge[v] # "absent" => (bridge[v] = "down" => Raised(v)) /\ (Empty(v) => Filled(v))

BridgesInv == Typed /\ AllSound /\ Served

-----------------------------------------------------------------------------
\* Sequences of commands, as others are put before or after them.

LEMMA LaterMoves ==
  ASSUME NEW s, NEW r, NEW lo \in Nat, NEW k \in Int, Placed(s, lo, r, k),
         DOMAIN s \in SUBSET Nat, NEW i \in Nat, i >= lo, NEW dos, NEW v,
         NEW h \in Int, h <= i + k,
         Later(s, i, dos, v)
  PROVE  Later(r, h, dos, v)
<1>1. PICK j \in DOMAIN s : j > i /\ s[j].do \in dos /\ s[j].vlan = v
  BY DEF Later
<1>2. j \in Nat /\ j > lo /\ j + k > h
  BY <1>1
<1>3. j + k \in DOMAIN r /\ r[j + k] = s[j]
  BY <1>2 DEF Placed
<1> QED BY <1>1, <1>2, <1>3 DEF Later

LEMMA FillsMoves ==
  ASSUME NEW s, NEW r, NEW lo \in Nat, NEW k \in Int, Placed(s, lo, r, k),
         DOMAIN s \in SUBSET Nat, NEW i \in Nat, i >= lo, NEW v, NEW dos,
         NEW subs, NEW more, \A n : <<n, v>> \in subs => <<n, v>> \in more,
         NEW h \in Int, h <= i + k,
         Fills(s, i, v, dos, subs)
  PROVE  Fills(r, h, v, dos, more)
<1>1. PICK j \in DOMAIN s :
        /\ j > i /\ s[j].vlan = v
        /\ \/ s[j].do \in dos
           \/ s[j].do = "addsub" /\ (<<s[j].nic, v>> \in subs \/ Linked(s, i, j))
  BY DEF Fills
<1>2. ASSUME NEW l \in DOMAIN s, l > i
      PROVE  l + k \in DOMAIN r /\ r[l + k] = s[l] /\ l + k > h
  <2>1. l \in Nat /\ l > lo /\ l + k > h
    BY <1>2
  <2> QED BY <2>1 DEF Placed
<1>3. j + k \in DOMAIN r /\ r[j + k] = s[j] /\ j + k > h
  BY <1>1, <1>2
<1>4. Linked(s, i, j) => Linked(r, h, j + k)
  <2>1. SUFFICES ASSUME NEW l \in DOMAIN s, i < l, l < j, s[l].do \in {"link", "linkGvrp"},
                        s[l].nic = s[j].nic, s[l].vlan = s[j].vlan
                 PROVE  Linked(r, h, j + k)
    BY DEF Linked
  <2>2. l + k \in DOMAIN r /\ r[l + k] = s[l] /\ h < l + k
    BY <1>2, <2>1
  <2>3. l + k < j + k
    BY <2>1
  <2> QED BY <1>3, <2>1, <2>2, <2>3 DEF Linked
<1> QED BY <1>1, <1>3, <1>4 DEF Fills

LEMMA KeptMoves ==
  ASSUME NEW s, NEW r, NEW lo \in Nat, NEW k \in Int, Placed(s, lo, r, k),
         DOMAIN s \in SUBSET Nat, NEW i \in DOMAIN s, i > lo,
         NEW d, NEW e, d \subseteq e, Kept(s, i, d)
  PROVE  Kept(r, i + k, e)
<1>1. i \in Nat /\ i >= lo /\ r[i + k] = s[i]
  BY DEF Placed
<1> DEFINE v == s[i].vlan
<1>2. i + k \in Int /\ i + k <= i + k
  BY <1>1
<1>3. \A dos : Later(s, i, dos, v) => Later(r, i + k, dos, v)
  BY <1>1, <1>2, LaterMoves
<1>4. Fills(s, i, v, {"addif"}, {}) => Fills(r, i + k, v, {"addif"}, {})
  BY <1>1, <1>2, FillsMoves
<1> QED BY <1>1, <1>3, <1>4 DEF Kept

LEMMA SoundConcat ==
  ASSUME NEW a \in Seq(Commands), NEW b \in Seq(Commands), NEW d, Sound(a, d), Sound(b, d)
  PROVE  Sound(a \o b, d)
<1> DEFINE r == a \o b
<1>0. Appended(a, b, r)
  BY ConcatPlaced
<1> HIDE DEF r
<1>1. /\ Len(a) \in Nat
      /\ DOMAIN a \in SUBSET Nat /\ DOMAIN b \in SUBSET Nat /\ DOMAIN r \in SUBSET Nat
      /\ \A i \in DOMAIN a : i > 0
      /\ \A i \in DOMAIN b : i > 0
      /\ Placed(a, 0, r, 0) /\ Placed(b, 0, r, Len(a))
      /\ \A i \in DOMAIN r : i \in DOMAIN a \/ i - Len(a) \in DOMAIN b
  BY <1>0 DEF Appended
<1>2. ASSUME NEW i \in DOMAIN r
      PROVE  Kept(r, i, d)
  <2>1. CASE i \in DOMAIN a
    <3>1. Kept(a, i, d) /\ i > 0
      BY <1>1, <2>1 DEF Sound
    <3>2. Kept(r, i + 0, d)
      BY <1>1, <2>1, <3>1, KeptMoves
    <3>3. i + 0 = i
      BY <1>1, <2>1
    <3> QED BY <3>2, <3>3
  <2>2. CASE i - Len(a) \in DOMAIN b
    <3> DEFINE j == i - Len(a)
    <3>1. Kept(b, j, d) /\ j > 0 /\ j + Len(a) = i
      BY <1>1, <2>2 DEF Sound
    <3> HIDE DEF j
    <3>2. j \in DOMAIN b
      BY <2>2 DEF j
    <3>3. Kept(r, j + Len(a), d)
      BY <1>1, <3>1, <3>2, KeptMoves
    <3> QED BY <3>1, <3>3
  <2> QED BY <1>1, <2>1, <2>2
<1> QED BY <1>2 DEF Sound, r

\* Others are run in the stead of the first command, which leave nothing to do, or whose
\* dues those behind it pay.
LEMMA SoundResumed ==
  ASSUME NEW s \in Seq(Commands), s # << >>, NEW more \in Seq(Commands),
         NEW d, NEW e, d \subseteq e, Sound(s, d),
         \A i \in DOMAIN more : Kept(more \o Tail(s), i, e)
  PROVE  Sound(more \o Tail(s), e)
<1>1. PICK r, k : r = more \o Tail(s) /\ Resumed(s, more, r, k)
  BY ResumedPlaced
<1>2. /\ k \in Int
        /\ DOMAIN s \in SUBSET Nat /\ DOMAIN more \in SUBSET Nat /\ DOMAIN r \in SUBSET Nat
        /\ Placed(s, 1, r, k)
        /\ \A i \in DOMAIN r : i \in DOMAIN more \/ (i - k \in DOMAIN s /\ i - k > 1)
  BY <1>1 DEF Resumed
<1>3. \A i \in DOMAIN more : Kept(r, i, e)
  BY <1>1
<1>4. ASSUME NEW i \in DOMAIN r, i - k \in DOMAIN s, i - k > 1
      PROVE  Kept(r, i, e)
  <2> DEFINE j == i - k
  <2>1. Kept(s, j, d) /\ j > 1 /\ j + k = i /\ j \in DOMAIN s
    BY <1>2, <1>4 DEF Sound
  <2> HIDE DEF j
  <2>2. Kept(r, j + k, e)
    BY <1>2, <2>1, KeptMoves
  <2> QED BY <2>1, <2>2
<1>5. \A i \in DOMAIN r : Kept(r, i, e)
  BY <1>2, <1>3, <1>4
<1> QED BY <1>1, <1>5 DEF Sound

\* Commands that leave nothing to do.
LEMMA SoundMore ==
  ASSUME NEW s \in Seq(Commands), s # << >>, NEW more \in Seq(Commands),
         NEW d, NEW e, d \subseteq e, Sound(s, d), Sound(more, {})
  PROVE  Sound(more \o Tail(s), e)
<1> DEFINE r == more \o Tail(s)
<1>0. PICK k : Resumed(s, more, r, k)
  BY ResumedPlaced
<1> HIDE DEF r
<1>1. /\ DOMAIN more \in SUBSET Nat
      /\ \A i \in DOMAIN more : i > 0
      /\ Placed(more, 0, r, 0)
  BY <1>0 DEF Resumed
<1>2. ASSUME NEW i \in DOMAIN more
      PROVE  Kept(r, i, e)
  <2>1. Kept(more, i, {}) /\ i > 0
    BY <1>1 DEF Sound
  <2>2. Kept(r, i + 0, e)
    BY <1>1, <2>1, KeptMoves
  <2>3. i + 0 = i
    BY <1>1
  <2> QED BY <2>2, <2>3
<1> QED BY <1>2, SoundResumed DEF r

\* The try of a handler, as it goes on.
LEMMA GuardedTail ==
  ASSUME NEW s \in Seq(Commands), s # << >>, Guarded(s)
  PROVE  Guarded(Tail(s))
<1>1. /\ Len(s) \in Nat /\ Len(s) > 0 /\ Len(Tail(s)) = Len(s) - 1
      /\ DOMAIN s = 1..Len(s) /\ DOMAIN Tail(s) = 1..Len(Tail(s))
      /\ \A i \in 1..Len(Tail(s)) : i + 1 \in 1..Len(s) /\ Tail(s)[i] = s[i + 1]
  BY TailOf
<1>2. PICK p \in Nat : /\ p = 0 \/ p < Len(s)
                       /\ \A i \in DOMAIN s : /\ i <= p => s[i].catch = "try" /\ s[i].vlan = s[1].vlan
                                              /\ i > p => s[i].catch # "try"
  BY DEF Guarded
<1>3. PICK r : r = Tail(s)
  OBVIOUS
<1>4. \A i \in DOMAIN r : i \in Nat /\ i > 0 /\ i + 1 \in DOMAIN s /\ r[i] = s[i + 1]
  BY <1>1, <1>3
<1>5. PICK n \in Nat : n = Len(r) /\ Len(s) = n + 1 /\ DOMAIN r = 1..n
  <2>1. Len(s) - 1 \in Nat /\ (Len(s) - 1) + 1 = Len(s)
    BY <1>1
  <2> QED BY <1>1, <1>3, <2>1
<1>6. CASE p = 0
  <2>1. \A i \in DOMAIN r : ~ (i <= 0) /\ i + 1 > p
    BY <1>4, <1>6
  <2>2. \A i \in DOMAIN r : r[i].catch # "try"
    BY <1>2, <1>4, <2>1
  <2> QED BY <1>3, <2>1, <2>2 DEF Guarded
<1>7. CASE p > 0
  <2>1. p - 1 \in Nat /\ p - 1 < n
    BY <1>2, <1>5, <1>7
  <2>2. ASSUME NEW i \in DOMAIN r, i <= p - 1
        PROVE  r[i].catch = "try" /\ r[i].vlan = r[1].vlan
    <3>1. i + 1 <= p /\ 1 \in DOMAIN r /\ 1 + 1 <= p
      BY <1>4, <1>5, <2>2
    <3>2. r[1].vlan = s[1].vlan
      BY <1>2, <1>4, <3>1
    <3> QED BY <1>2, <1>4, <2>2, <3>1, <3>2
  <2>3. ASSUME NEW i \in DOMAIN r, i > p - 1
        PROVE  r[i].catch # "try"
    <3>1. i + 1 > p
      BY <1>4, <2>3
    <3> QED BY <1>2, <1>4, <3>1
  <2> QED BY <1>3, <1>5, <2>1, <2>2, <2>3 DEF Guarded
<1> QED BY <1>2, <1>6, <1>7

\* Outside a try, none is to come.
LEMMA GuardedNone ==
  ASSUME NEW s \in Seq(Commands), Guarded(s), s # << >>, s[1].catch # "try"
  PROVE  \A i \in DOMAIN s : s[i].catch # "try"
<1>1. DOMAIN s \in SUBSET Nat /\ \A i \in DOMAIN s : i > 0
  BY LenProperties
<1>2. 1 \in DOMAIN s
  BY TailOf
<1>3. PICK p \in Nat : /\ p = 0 \/ p < Len(s)
                       /\ \A i \in DOMAIN s : /\ i <= p => s[i].catch = "try" /\ s[i].vlan = s[1].vlan
                                              /\ i > p => s[i].catch # "try"
  BY DEF Guarded
<1>4. p = 0
  BY <1>2, <1>3
<1> QED BY <1>1, <1>3, <1>4

LEMMA GuardedMore ==
  ASSUME NEW s \in Seq(Commands), s # << >>, Guarded(s), s[1].catch # "try",
         NEW more \in Seq(Commands), Guarded(more)
  PROVE  Guarded(more \o Tail(s))
<1>0a. PICK r, k : r = more \o Tail(s) /\ Resumed(s, more, r, k)
  BY ResumedPlaced
<1>0. \A i \in DOMAIN s : s[i].catch # "try"
  BY GuardedNone
<1>1. /\ k \in Int
      /\ Len(more) \in Nat /\ Len(s) \in Nat /\ k = Len(more) - 1 /\ Len(r) = Len(s) + k
      /\ 1 \in DOMAIN s
      /\ DOMAIN s \in SUBSET Nat /\ DOMAIN more \in SUBSET Nat /\ DOMAIN r \in SUBSET Nat
      /\ \A i \in DOMAIN more : i > 0
      /\ \A i \in DOMAIN r : i > 0
      /\ Placed(more, 0, r, 0) /\ Placed(s, 1, r, k)
      /\ \A i \in DOMAIN r : i \in DOMAIN more \/ (i - k \in DOMAIN s /\ i - k > 1)
  BY <1>0a DEF Resumed
<1>2. DOMAIN more = 1..Len(more) /\ DOMAIN s = 1..Len(s)
  BY LenProperties
<1>3. PICK p \in Nat : /\ p = 0 \/ p < Len(more)
                       /\ \A i \in DOMAIN more :
                            /\ i <= p => more[i].catch = "try" /\ more[i].vlan = more[1].vlan
                            /\ i > p => more[i].catch # "try"
  BY DEF Guarded
<1>4. \A i \in DOMAIN more : i + 0 = i /\ r[i] = more[i]
  <2>1. \A i \in DOMAIN more : i + 0 = i
    BY <1>1
  <2> QED BY <1>1, <2>1 DEF Placed
<1>5. ASSUME NEW i \in DOMAIN r, i \notin DOMAIN more
      PROVE  r[i].catch # "try" /\ i > p
  <2> DEFINE j == i - k
  <2>1. j \in DOMAIN s /\ j > 1 /\ j + k = i
    BY <1>1, <1>5
  <2>2. r[j + k] = s[j]
    BY <1>1, <2>1 DEF Placed
  <2>3. i > p
    BY <1>1, <1>2, <1>3, <1>5
  <2> QED BY <1>0, <2>1, <2>2, <2>3
<1>6. p = 0 \/ p < Len(r)
  BY <1>1, <1>2, <1>3
<1>7. ASSUME NEW i \in DOMAIN r
      PROVE  /\ i <= p => r[i].catch = "try" /\ r[i].vlan = r[1].vlan
             /\ i > p => r[i].catch # "try"
  <2>1. CASE i \notin DOMAIN more
    BY <1>1, <1>5, <2>1
  <2>2. CASE i \in DOMAIN more
    <3>1. r[i] = more[i] /\ r[1] = more[1]
      BY <1>1, <1>2, <1>4, <2>2
    <3> QED BY <1>3, <2>2, <3>1
  <2> QED BY <2>1, <2>2
<1>8. Guarded(r)
  BY <1>6, <1>7 DEF Guarded
<1> QED BY <1>0a, <1>8

\* Inside a try, it grows.
LEMMA GuardedTry ==
  ASSUME NEW s \in Seq(Commands), s # << >>, Guarded(s), s[1].catch = "try",
         NEW more \in Seq(Commands), more # << >>,
         \A i \in DOMAIN more : more[i].catch = "try" /\ more[i].vlan = s[1].vlan
  PROVE  Guarded(more \o Tail(s))
<1>0a. PICK r, k : r = more \o Tail(s) /\ Resumed(s, more, r, k)
  BY ResumedPlaced
<1>1. /\ k \in Int
      /\ Len(more) \in Nat /\ Len(s) \in Nat /\ k = Len(more) - 1 /\ Len(r) = Len(s) + k
      /\ 1 \in DOMAIN s
      /\ DOMAIN s \in SUBSET Nat /\ DOMAIN more \in SUBSET Nat /\ DOMAIN r \in SUBSET Nat
      /\ \A i \in DOMAIN more : i > 0
      /\ \A i \in DOMAIN r : i > 0
      /\ Placed(more, 0, r, 0) /\ Placed(s, 1, r, k)
      /\ \A i \in DOMAIN r : i \in DOMAIN more \/ (i - k \in DOMAIN s /\ i - k > 1)
  BY <1>0a DEF Resumed
<1>2. DOMAIN more = 1..Len(more) /\ DOMAIN s = 1..Len(s) /\ 1 \in DOMAIN more
  <2>1. 1 \in DOMAIN more
    BY TailOf
  <2> QED BY <2>1, LenProperties
<1>3. PICK p \in Nat : /\ p = 0 \/ p < Len(s)
                       /\ \A i \in DOMAIN s :
                            /\ i <= p => s[i].catch = "try" /\ s[i].vlan = s[1].vlan
                            /\ i > p => s[i].catch # "try"
  BY DEF Guarded
<1>4. p > 0 /\ p < Len(s)
  <2>1. ~ (1 > p)
    BY <1>1, <1>3
  <2> QED BY <1>3, <2>1
<1> DEFINE q == p + k
<1>5. q \in Nat /\ q < Len(r)
  BY <1>1, <1>2, <1>4
<1>6. \A i \in DOMAIN more : r[i] = more[i] /\ i <= q
  <2>1. \A i \in DOMAIN more : i + 0 = i /\ i <= q
    BY <1>1, <1>2, <1>4
  <2> QED BY <1>1, <2>1 DEF Placed
<1>7. ASSUME NEW i \in DOMAIN r, i \notin DOMAIN more
      PROVE  /\ i <= q => r[i].catch = "try" /\ r[i].vlan = s[1].vlan
             /\ i > q => r[i].catch # "try"
  <2> DEFINE j == i - k
  <2>1. j \in DOMAIN s /\ j > 1 /\ j + k = i
    <3>1. k \in Int /\ i \in Nat
      BY <1>1
    <3>2. j + k = i
      BY <3>1
    <3> QED BY <1>1, <1>7, <3>2
  <2>2. r[i] = s[j]
    <3>1. r[j + k] = s[j]
      BY <1>1, <2>1 DEF Placed
    <3> QED BY <2>1, <3>1
  <2>3. (i <= q => j <= p) /\ (i > q => j > p)
    BY <1>1, <2>1
  <2> HIDE DEF j, q
  <2> QED BY <1>3, <2>1, <2>2, <2>3
<1>8. r[1].vlan = s[1].vlan
  BY <1>2, <1>6
<1> HIDE DEF q
<1>9. ASSUME NEW i \in DOMAIN r
      PROVE  /\ i <= q => r[i].catch = "try" /\ r[i].vlan = r[1].vlan
             /\ i > q => r[i].catch # "try"
  <2>1. CASE i \notin DOMAIN more
    BY <1>7, <1>8, <2>1
  <2>2. CASE i \in DOMAIN more
    <3>1. r[i] = more[i] /\ ~ (i > q)
      BY <1>1, <1>5, <1>6, <2>2
    <3> QED BY <1>8, <2>2, <3>1
  <2> QED BY <2>1, <2>2
<1>10. Guarded(r)
  BY <1>5, <1>9 DEF Guarded
<1> QED BY <1>0a, <1>10

-----------------------------------------------------------------------------
\* The programs of the handlers.

\* Commands that leave nothing to do and share no try.
Plain == {s \in Seq(Commands) : Sound(s, {}) /\ \A i \in DOMAIN s : s[i].catch # "try"}

LEMMA CmdType ==
  ASSUME NEW do \in Dos, NEW n \in Nics, NEW v \in Vlans, NEW catch \in {"no", "yes", "try"},
         catch = "no" \/ do \notin Bare
  PROVE  Cmd(do, n, v, catch) \in Commands
BY DEF Cmd, Commands

LEMMA PlainNone == << >> \in Plain
<1>1. << >> \in Seq(Commands) /\ DOMAIN << >> = {}
  OBVIOUS
<1> QED BY <1>1 DEF Plain, Sound

LEMMA PlainAppend ==
  ASSUME NEW a \in Plain, NEW b \in Plain
  PROVE  a \o b \in Plain
<1> DEFINE r == a \o b
<1>1. a \in Seq(Commands) /\ b \in Seq(Commands) /\ Sound(a, {}) /\ Sound(b, {})
  BY DEF Plain
<1>2. r \in Seq(Commands) /\ Appended(a, b, r)
  BY <1>1, ConcatPlaced
<1>3. Sound(r, {})
  BY <1>1, SoundConcat
<1> HIDE DEF r
<1>4. ASSUME NEW i \in DOMAIN r
      PROVE  r[i].catch # "try"
  <2>1. CASE i \in DOMAIN a
    <3>1. i + 0 = i /\ i > 0
      BY <1>2, <2>1 DEF Appended
    <3>2. r[i] = a[i]
      BY <1>2, <2>1, <3>1 DEF Appended, Placed
    <3> QED BY <2>1, <3>2 DEF Plain
  <2>2. CASE i - Len(a) \in DOMAIN b
    <3> DEFINE j == i - Len(a)
    <3>1. j + Len(a) = i /\ j \in DOMAIN b /\ j > 0
      BY <1>2, <2>2 DEF Appended
    <3> HIDE DEF j
    <3>2. r[j + Len(a)] = b[j]
      BY <1>2, <3>1 DEF Appended, Placed
    <3> QED BY <3>1, <3>2 DEF Plain
  <2> QED BY <1>2, <2>1, <2>2 DEF Appended
<1> QED BY <1>2, <1>3, <1>4 DEF Plain, r

LEMMA PlainFlat ==
  ASSUME NEW s \in Seq(Plain)
  PROVE  FlattenSeq(s) \in Plain
<1>1. Plain \in SUBSET Seq(Commands)
  BY DEF Plain
<1>2. \A a, b \in Plain : a \o b \in Plain
  BY PlainAppend
<1> QED BY <1>1, <1>2, PlainNone, Flattened

\* Commands that take nothing from a bridge.
LEMMA PlainFree ==
  ASSUME NEW s \in Seq(Commands),
         \A i \in DOMAIN s : /\ s[i].do \notin {"down", "addbr", "unlink", "delif", "look"}
                             /\ s[i].catch # "try"
  PROVE  s \in Plain
BY DEF Plain, Sound, Kept

LEMMA PlainProbes ==
  ASSUME NEW n \in Nics, NEW v \in Vlans
  PROVE  Probes(n, v) \in Plain
<1> DEFINE s == Probes(n, v)
<1>1. s \in Seq(Commands)
  BY CmdType DEF Probes, Dos, Bare
<1>2. DOMAIN s = 1..3 /\ s[1] = Cmd("hasAddress", n, v, "no") /\ s[2] = Cmd("exists", n, v, "no")
      /\ s[3] = Cmd("hasVLAN", n, v, "no")
  BY DEF Probes
<1> HIDE DEF s
<1>3. \A i \in DOMAIN s : /\ s[i].do \notin {"down", "addbr", "unlink", "delif", "look"}
                          /\ s[i].catch # "try"
  BY <1>2 DEF Cmd
<1> QED BY <1>1, <1>3, PlainFree DEF s

LEMMA LeaveSound ==
  ASSUME NEW n \in Nics, NEW v \in Vlans, NEW catch \in {"no", "yes", "try"}
  PROVE  /\ Leave(n, v, catch) \in Seq(Commands) /\ Sound(Leave(n, v, catch), {})
         /\ catch # "try" => Leave(n, v, catch) \in Plain
         /\ Guarded(Leave(n, v, catch))
<1> DEFINE s == Leave(n, v, catch)
<1>1. s \in Seq(Commands)
  BY CmdType DEF Leave, Dos, Bare
<1>2. DOMAIN s = 1..2 /\ s[1] = Cmd("look", n, v, catch) /\ s[2] = Cmd("tidy", n, v, "no") /\ Len(s) = 2
  BY DEF Leave
<1> HIDE DEF s
<1>3. Later(s, 1, {"tidy"}, v)
  BY <1>2 DEF Later, Cmd
<1>4. Sound(s, {})
  <2>1. Kept(s, 1, {})
    BY <1>2, <1>3 DEF Kept, Cmd
  <2>2. Kept(s, 2, {})
    BY <1>2 DEF Kept, Cmd
  <2>3. \A i \in DOMAIN s : i = 1 \/ i = 2
    BY <1>2
  <2> QED BY <2>1, <2>2, <2>3 DEF Sound
<1>5. \A i \in DOMAIN s : s[i].catch = IF i = 1 THEN catch ELSE "no"
  BY <1>2 DEF Cmd
<1>6. CASE catch = "try"
  <2>1. \A i \in DOMAIN s : /\ i <= 1 => s[i].catch = "try" /\ s[i].vlan = s[1].vlan
                            /\ i > 1 => s[i].catch # "try"
    <3>1. \A i \in DOMAIN s : i <= 1 => i = 1
      BY <1>2
    <3> QED BY <1>5, <1>6, <3>1
  <2>2. Guarded(s)
    BY <1>2, <2>1 DEF Guarded
  <2> QED BY <1>1, <1>4, <1>6, <2>2 DEF s
<1>7. CASE catch # "try"
  <2>1. \A i \in DOMAIN s : s[i].catch # "try" /\ ~ (i <= 0)
    BY <1>2, <1>5, <1>7
  <2>2. Guarded(s)
    BY <2>1 DEF Guarded
  <2> QED BY <1>1, <1>4, <2>1, <2>2 DEF s, Plain
<1> QED BY <1>6, <1>7

\* The commands that join a port give the VLAN a port.
LEMMA JoinTaggedPlain ==
  ASSUME NEW n \in Nics, NEW v \in Vlans, NEW link \in {"link", "linkGvrp"},
         NEW catch \in {"no", "yes"}
  PROVE  /\ JoinTagged(n, v, link, catch) \in Plain
         /\ Fills(JoinTagged(n, v, link, catch), 0, v, {"addif"}, {})
<1> DEFINE s == JoinTagged(n, v, link, catch)
<1>1. s \in Seq(Commands)
  <2>1. /\ Cmd("down", n, v, catch) \in Commands /\ Cmd("up", n, v, catch) \in Commands
        /\ Cmd("nicUp", n, v, catch) \in Commands /\ Cmd("addsub", n, v, catch) \in Commands
        /\ Cmd("subUp", n, v, catch) \in Commands /\ Cmd(link, n, v, catch) \in Commands
    BY CmdType DEF Dos, Bare
  <2> QED BY <2>1 DEF JoinTagged
<1>2. /\ DOMAIN s = 1..8
      /\ s[1] = Cmd("down", n, v, catch) /\ s[2] = Cmd(link, n, v, catch)
      /\ s[3] = Cmd("up", n, v, catch) /\ s[4] = Cmd("nicUp", n, v, catch)
      /\ s[5] = Cmd("down", n, v, catch) /\ s[6] = Cmd("addsub", n, v, catch)
      /\ s[7] = Cmd("subUp", n, v, catch) /\ s[8] = Cmd("up", n, v, catch)
  BY DEF JoinTagged
<1> HIDE DEF s
<1>3. \A i \in DOMAIN s : i \in 1..8 /\ s[i].vlan = v /\ s[i].nic = n /\ s[i].catch = catch
  BY <1>2 DEF Cmd
<1>4. /\ s[1].do = "down" /\ s[2].do = link /\ s[3].do = "up" /\ s[4].do = "nicUp"
      /\ s[5].do = "down" /\ s[6].do = "addsub" /\ s[7].do = "subUp" /\ s[8].do = "up"
  BY <1>2 DEF Cmd
<1>5. Later(s, 1, {"up", "delete"}, v) /\ Later(s, 5, {"up", "delete"}, v)
  <2>1. 8 \in DOMAIN s /\ s[8].vlan = v
    BY <1>2, <1>3
  <2> QED BY <1>4, <2>1 DEF Later
<1>6. \A i \in DOMAIN s : s[i].do \in {"down", "addbr", "unlink", "delif", "look"} => i = 1 \/ i = 5
  BY <1>3, <1>4
<1>7. Sound(s, {})
  <2>1. ASSUME NEW i \in DOMAIN s
        PROVE  Kept(s, i, {})
    <3>1. CASE s[i].do = "down"
      BY <1>3, <1>5, <1>6, <3>1 DEF Kept
    <3>2. CASE s[i].do # "down"
      <4>1. s[i].do \notin {"down", "addbr", "unlink", "delif", "look"}
        BY <1>4, <1>6, <3>2
      <4> QED BY <4>1 DEF Kept
    <3> QED BY <3>1, <3>2
  <2> QED BY <2>1 DEF Sound
<1>8. s \in Plain
  BY <1>1, <1>3, <1>7 DEF Plain
<1>9. Linked(s, 0, 6)
  <2>1. 2 \in DOMAIN s /\ 6 \in DOMAIN s
    BY <1>2
  <2> QED BY <1>3, <1>4, <2>1 DEF Linked
<1>10. Fills(s, 0, v, {"addif"}, {})
  <2>1. 6 \in DOMAIN s
    BY <1>2
  <2> QED BY <1>3, <1>4, <1>9, <2>1 DEF Fills
<1> QED BY <1>8, <1>10 DEF s

LEMMA JoinUntaggedPlain ==
  ASSUME NEW n \in Nics, NEW v \in Vlans
  PROVE  /\ JoinUntagged(n, v) \in Plain
         /\ Fills(JoinUntagged(n, v), 0, v, {"addif"}, {})
<1> DEFINE s == JoinUntagged(n, v)
<1>1. s \in Seq(Commands)
  BY CmdType DEF JoinUntagged, Dos, Bare
<1>2. /\ DOMAIN s = 1..3
      /\ s[1] = Cmd("down", n, v, "no") /\ s[2] = Cmd("addif", n, v, "no")
      /\ s[3] = Cmd("up", n, v, "no")
  BY DEF JoinUntagged
<1> HIDE DEF s
<1>3. \A i \in DOMAIN s : i \in 1..3 /\ s[i].vlan = v /\ s[i].catch = "no"
  BY <1>2 DEF Cmd
<1>4. s[1].do = "down" /\ s[2].do = "addif" /\ s[3].do = "up"
  BY <1>2 DEF Cmd
<1>5. Later(s, 1, {"up", "delete"}, v)
  <2>1. 3 \in DOMAIN s
    BY <1>2
  <2> QED BY <1>3, <1>4, <2>1 DEF Later
<1>6. Sound(s, {})
  <2>1. Kept(s, 1, {})
    BY <1>2, <1>3, <1>4, <1>5 DEF Kept
  <2>2. Kept(s, 2, {}) /\ Kept(s, 3, {})
    BY <1>4 DEF Kept
  <2>3. \A i \in DOMAIN s : i = 1 \/ i = 2 \/ i = 3
    BY <1>3
  <2> QED BY <2>1, <2>2, <2>3 DEF Sound
<1>7. s \in Plain
  BY <1>1, <1>3, <1>6 DEF Plain
<1>8. Fills(s, 0, v, {"addif"}, {})
  <2>1. 2 \in DOMAIN s
    BY <1>2
  <2> QED BY <1>3, <1>4, <2>1 DEF Fills
<1> QED BY <1>7, <1>8 DEF s

\* What is appended in front or behind gives the VLAN no fewer ports.
LEMMA FillsAppend ==
  ASSUME NEW a \in Plain, NEW b \in Plain, NEW v,
         Fills(a, 0, v, {"addif"}, {}) \/ Fills(b, 0, v, {"addif"}, {})
  PROVE  Fills(a \o b, 0, v, {"addif"}, {})
<1> DEFINE r == a \o b
<1>1. r \in Seq(Commands) /\ Appended(a, b, r)
  BY ConcatPlaced DEF Plain
<1> HIDE DEF r
<1>2. DOMAIN a \in SUBSET Nat /\ DOMAIN b \in SUBSET Nat /\ DOMAIN r \in SUBSET Nat /\ Len(a) \in Nat
  BY <1>1 DEF Appended
<1>3. CASE Fills(a, 0, v, {"addif"}, {})
  <2>1. Placed(a, 0, r, 0) /\ 0 <= 0 + 0
    BY <1>1 DEF Appended
  <2>2. Fills(r, 0, v, {"addif"}, {})
    BY <1>2, <1>3, <2>1, FillsMoves
  <2> QED BY <2>2 DEF r
<1>4. CASE Fills(b, 0, v, {"addif"}, {})
  <2>1. Placed(b, 0, r, Len(a)) /\ 0 <= 0 + Len(a) /\ Len(a) \in Int
    BY <1>1, <1>2 DEF Appended
  <2>2. Fills(r, 0, v, {"addif"}, {})
    BY <1>2, <1>4, <2>1, FillsMoves
  <2> QED BY <2>2 DEF r
<1> QED BY <1>3, <1>4

\* A bridge made for a port that joins.
LEMMA CreatePlain ==
  ASSUME NEW n \in Nics, NEW v \in Vlans, NEW catch \in {"no", "yes"},
         NEW x \in Plain, Fills(x, 0, v, {"addif"}, {})
  PROVE  <<Cmd("addbr", n, v, catch), Cmd("up", n, v, catch)>> \o x \in Plain
<1> DEFINE a == <<Cmd("addbr", n, v, catch), Cmd("up", n, v, catch)>>
           r == a \o x
<1>1. a \in Seq(Commands) /\ Len(a) = 2
  BY CmdType DEF Dos, Bare
<1>2. DOMAIN a = 1..2 /\ a[1] = Cmd("addbr", n, v, catch) /\ a[2] = Cmd("up", n, v, catch)
  OBVIOUS
<1>3. x \in Seq(Commands) /\ Sound(x, {}) /\ \A i \in DOMAIN x : x[i].catch # "try"
  BY DEF Plain
<1> HIDE DEF a
<1>4. r \in Seq(Commands) /\ Appended(a, x, r)
  BY <1>1, <1>3, ConcatPlaced
<1> HIDE DEF r
<1>5. /\ DOMAIN x \in SUBSET Nat /\ DOMAIN r \in SUBSET Nat
      /\ \A i \in DOMAIN x : i > 0
      /\ Placed(a, 0, r, 0) /\ Placed(x, 0, r, 2)
      /\ \A i \in DOMAIN r : i \in DOMAIN a \/ i - 2 \in DOMAIN x
  BY <1>1, <1>4 DEF Appended
<1>6. 1 \in DOMAIN r /\ 2 \in DOMAIN r /\ r[1] = a[1] /\ r[2] = a[2]
  <2>1. 1 + 0 = 1 /\ 2 + 0 = 2 /\ 1 \in DOMAIN a /\ 2 \in DOMAIN a
    BY <1>2
  <2> QED BY <1>5, <2>1 DEF Placed
<1>7. Later(r, 1, {"up"}, v)
  BY <1>2, <1>6 DEF Later, Cmd
<1>8. Fills(r, 1, v, {"addif"}, {})
  <2>1. 1 <= 0 + 2
    OBVIOUS
  <2> QED BY <1>5, <2>1, FillsMoves
<1>9. ASSUME NEW i \in DOMAIN r
      PROVE  Kept(r, i, {}) /\ r[i].catch # "try"
  <2>1. CASE i = 1
    BY <1>2, <1>6, <1>7, <1>8, <2>1 DEF Kept, Cmd
  <2>2. CASE i = 2
    BY <1>2, <1>6, <2>2 DEF Kept, Cmd
  <2>3. CASE i - 2 \in DOMAIN x
    <3> DEFINE j == i - 2
    <3>1. j \in DOMAIN x /\ j > 0 /\ j + 2 = i
      BY <1>5, <2>3
    <3> HIDE DEF j
    <3>2. Kept(x, j, {})
      BY <1>3, <3>1 DEF Sound
    <3>3. Kept(r, j + 2, {})
      BY <1>5, <3>1, <3>2, KeptMoves
    <3>4. r[j + 2] = x[j]
      BY <1>5, <3>1 DEF Placed
    <3> QED BY <1>3, <3>1, <3>3, <3>4
  <2> QED BY <1>2, <1>5, <2>1, <2>2, <2>3
<1> QED BY <1>4, <1>9 DEF Plain, Sound, r, a

\* A single command that takes nothing.
LEMMA PlainOne ==
  ASSUME NEW c \in Commands, c.do \notin {"down", "addbr", "unlink", "delif", "look"},
         c.catch # "try"
  PROVE  <<c>> \in Plain
<1> DEFINE s == <<c>>
<1>1. s \in Seq(Commands) /\ \A i \in DOMAIN s : s[i] = c
  OBVIOUS
<1> HIDE DEF s
<1>2. s \in Plain
  BY <1>1, PlainFree
<1> QED BY <1>2 DEF s

LEMMA JoinPlain ==
  ASSUME NEW n \in Nics, NEW v \in Vlans, NEW j \in Jobs, NEW hasVLAN
  PROVE  Join(n, v, j, hasVLAN) \in Plain
<1> DEFINE link == IF j.gvrp THEN "linkGvrp" ELSE "link"
           up == IF hasVLAN THEN <<Cmd("master", n, v, "no")>> ELSE << >>
           flush == IF {"bridge", "address"} \subseteq j.seen
                    THEN <<Cmd("flushNic", n, v, "no")>> ELSE << >>
           x == IF j.tagged THEN JoinTagged(n, v, link, "no")
                ELSE up \o JoinUntagged(n, v) \o flush
<1>1. up \in Plain
  <2>1. Cmd("master", n, v, "no") \in Commands
    BY CmdType DEF Dos, Bare
  <2>2. <<Cmd("master", n, v, "no")>> \in Plain
    BY <2>1, PlainOne DEF Cmd
  <2> QED BY <2>2, PlainNone
<1>2. flush \in Plain
  <2>1. Cmd("flushNic", n, v, "no") \in Commands
    BY CmdType DEF Dos, Bare
  <2>2. <<Cmd("flushNic", n, v, "no")>> \in Plain
    BY <2>1, PlainOne DEF Cmd
  <2> QED BY <2>2, PlainNone
<1>3. link \in {"link", "linkGvrp"}
  OBVIOUS
<1>4. Join(n, v, j, hasVLAN) = (IF "bridge" \in j.seen THEN << >> ELSE Create(n, v)) \o x
  BY DEF Join
<1> HIDE DEF up, flush, link
<1>5. x \in Plain /\ Fills(x, 0, v, {"addif"}, {})
  <2>1. CASE j.tagged
    BY <1>3, <2>1, JoinTaggedPlain
  <2>2. CASE ~j.tagged
    <3>1. up \o JoinUntagged(n, v) \in Plain
      BY <1>1, JoinUntaggedPlain, PlainAppend
    <3>2. Fills(up \o JoinUntagged(n, v), 0, v, {"addif"}, {})
      BY <1>1, JoinUntaggedPlain, FillsAppend
    <3> DEFINE y == up \o JoinUntagged(n, v)
    <3> HIDE DEF y
    <3>3. y \o flush \in Plain /\ Fills(y \o flush, 0, v, {"addif"}, {})
      BY <1>2, <3>1, <3>2, PlainAppend, FillsAppend DEF y
    <3>4. x = y \o flush
      BY <2>2 DEF y
    <3> QED BY <3>3, <3>4
  <2> QED BY <2>1, <2>2
<1> HIDE DEF x
<1>6. Create(n, v) \o x \in Plain
  BY <1>5, CreatePlain DEF Create
<1>7. << >> \o x \in Plain
  BY <1>5, PlainNone, PlainAppend
<1> QED BY <1>4, <1>6, <1>7

LEMMA JoinGvrpPlain ==
  ASSUME NEW n \in Nics, NEW v \in Vlans
  PROVE  JoinGVRP(n, v) \in Plain
<1> DEFINE x == JoinTagged(n, v, "linkGvrp", "yes")
<1>1. x \in Plain /\ Fills(x, 0, v, {"addif"}, {})
  BY JoinTaggedPlain
<1> HIDE DEF x
<1>2. <<Cmd("addbr", n, v, "yes"), Cmd("up", n, v, "yes")>> \o x \in Plain
  BY <1>1, CreatePlain
<1> QED BY <1>2 DEF JoinGVRP, x

LEMMA EditPlain ==
  ASSUME NEW c \in Forms, c.op = "edit"
  PROVE  EditProg(c) \in Plain
<1> DEFINE a == <<Cmd(IF c.active THEN "nicUp" ELSE "nicDown", c.nic, "none", "no"),
                  Cmd("clear", c.nic, "none", "no")>>
           f == [k \in DOMAIN c.vlans |-> Probes(c.nic, c.vlans[k])]
<1>1. c.nic \in Nics /\ c.vlans \in Seq(Vlans)
  BY DEF Forms
<1>2. a \in Plain
  <2>1. a \in Seq(Commands)
    BY <1>1 DEF Cmd, Commands, Dos, Bare
  <2>2. \A i \in DOMAIN a : a[i].do \in {"nicUp", "nicDown", "clear"} /\ a[i].catch = "no"
    BY DEF Cmd
  <2> HIDE DEF a
  <2> QED BY <2>1, <2>2, PlainFree
<1>3. f \in Seq(Plain)
  <2>1. DOMAIN c.vlans = 1..Len(c.vlans) /\ Len(c.vlans) \in Nat /\ \A k \in DOMAIN c.vlans : c.vlans[k] \in Vlans
    BY <1>1
  <2>2. \A k \in DOMAIN c.vlans : Probes(c.nic, c.vlans[k]) \in Plain
    BY <1>1, <2>1, PlainProbes
  <2> QED BY <2>1, <2>2
<1>4. EditProg(c) = a \o FlattenSeq(f)
  BY DEF EditProg, Each
<1> HIDE DEF a, f
<1>5. FlattenSeq(f) \in Plain
  BY <1>3, PlainFlat
<1> QED BY <1>2, <1>4, <1>5, PlainAppend

LEMMA AddressPlain ==
  ASSUME NEW c \in Forms, c.op = "address", NEW nics \in Seq(Nics)
  PROVE  AddressProg(c, nics) \in Plain
<1> DEFINE b == <<Cmd("flushBridge", "none", c.vlan, "yes"), Cmd("address", "none", c.vlan, "yes")>>
           f == [k \in DOMAIN nics |-> <<Cmd("flushNic", nics[k], c.vlan, "yes")>>]
<1>1. c.vlan \in Vlans
  BY DEF Forms
<1>2. b \in Plain
  <2>1. b \in Seq(Commands)
    BY <1>1 DEF Cmd, Commands, Dos, Bare
  <2>2. \A i \in DOMAIN b : b[i].do \in {"flushBridge", "address"} /\ b[i].catch = "yes"
    BY DEF Cmd
  <2> HIDE DEF b
  <2> QED BY <2>1, <2>2, PlainFree
<1>3. f \in Seq(Plain)
  <2>1. DOMAIN nics = 1..Len(nics) /\ Len(nics) \in Nat /\ \A k \in DOMAIN nics : nics[k] \in Nics
    OBVIOUS
  <2>2. ASSUME NEW k \in DOMAIN nics
        PROVE  <<Cmd("flushNic", nics[k], c.vlan, "yes")>> \in Plain
    <3>1. Cmd("flushNic", nics[k], c.vlan, "yes") \in Commands
      BY <1>1, <2>1, CmdType DEF Dos, Bare
    <3> QED BY <3>1, PlainOne DEF Cmd
  <2> QED BY <2>1, <2>2
<1>4. AddressProg(c, nics) = FlattenSeq(f) \o b
  BY DEF AddressProg, Each
<1> HIDE DEF b, f
<1>5. FlattenSeq(f) \in Plain
  BY <1>3, PlainFlat
<1> QED BY <1>2, <1>4, <1>5, PlainAppend

LEMMA FramePlain ==
  ASSUME NEW c \in Forms, c.op = "frame", NEW on \in SUBSET Nics, NEW nics \in Seq(on),
         NEW had \in [on -> Seq(Vlans)]
  PROVE  FrameProg(c, nics, had) \in Plain
<1> DEFINE Had(n) == [i \in DOMAIN had[n] |-> JoinGVRP(n, had[n][i])]
           Port(v, n) == FlattenSeq(Had(n)) \o JoinGVRP(n, v)
           Add(v) == [k \in DOMAIN nics |-> Port(v, nics[k])]
           adds == [l \in DOMAIN c.adds |-> FlattenSeq(Add(c.adds[l]))]
           Gone(v) == [k \in DOMAIN nics |-> <<Cmd("reported", nics[k], v, "no")>>]
           removes == [l \in DOMAIN c.removes |-> FlattenSeq(Gone(c.removes[l]))]
<1>1. c.adds \in Seq(Vlans) /\ c.removes \in Seq(Vlans)
  BY DEF Forms
<1>2. FrameProg(c, nics, had) = FlattenSeq(adds) \o FlattenSeq(removes)
  BY DEF FrameProg, Each
<1>3. DOMAIN nics = 1..Len(nics) /\ Len(nics) \in Nat /\ \A k \in DOMAIN nics : nics[k] \in on
  OBVIOUS
<1>4. ASSUME NEW n \in on, NEW v \in Vlans
      PROVE  Port(v, n) \in Plain
  <2>1. had[n] \in Seq(Vlans) /\ n \in Nics
    OBVIOUS
  <2>2. DOMAIN had[n] = 1..Len(had[n]) /\ Len(had[n]) \in Nat /\ \A i \in DOMAIN had[n] : had[n][i] \in Vlans
    BY <2>1
  <2>3. \A i \in DOMAIN had[n] : JoinGVRP(n, had[n][i]) \in Plain
    BY <2>1, <2>2, JoinGvrpPlain
  <2>4. Had(n) \in Seq(Plain)
    BY <2>2, <2>3
  <2> HIDE DEF Had
  <2>5. FlattenSeq(Had(n)) \in Plain
    BY <2>4, PlainFlat
  <2> QED BY <2>1, <2>5, JoinGvrpPlain, PlainAppend
<1>5. ASSUME NEW v \in Vlans
      PROVE  FlattenSeq(Add(v)) \in Plain
  <2> HIDE DEF Port
  <2>1. \A k \in DOMAIN nics : Port(v, nics[k]) \in Plain
    BY <1>3, <1>4
  <2>2. Add(v) \in Seq(Plain)
    BY <1>3, <2>1
  <2> HIDE DEF Add
  <2> QED BY <2>2, PlainFlat
<1>6. ASSUME NEW v \in Vlans
      PROVE  FlattenSeq(Gone(v)) \in Plain
  <2>1. ASSUME NEW k \in DOMAIN nics
        PROVE  <<Cmd("reported", nics[k], v, "no")>> \in Plain
    <3>1. Cmd("reported", nics[k], v, "no") \in Commands
      BY <1>3, CmdType DEF Dos, Bare
    <3> QED BY <3>1, PlainOne DEF Cmd
  <2>2. Gone(v) \in Seq(Plain)
    BY <1>3, <2>1
  <2> HIDE DEF Gone
  <2> QED BY <2>2, PlainFlat
<1> HIDE DEF Add, Gone
<1>7. adds \in Seq(Plain)
  <2>1. DOMAIN c.adds = 1..Len(c.adds) /\ Len(c.adds) \in Nat /\ \A l \in DOMAIN c.adds : c.adds[l] \in Vlans
    BY <1>1
  <2>2. \A l \in DOMAIN c.adds : FlattenSeq(Add(c.adds[l])) \in Plain
    BY <1>5, <2>1
  <2> QED BY <2>1, <2>2
<1>8. removes \in Seq(Plain)
  <2>1. DOMAIN c.removes = 1..Len(c.removes) /\ Len(c.removes) \in Nat /\ \A l \in DOMAIN c.removes : c.removes[l] \in Vlans
    BY <1>1
  <2>2. \A l \in DOMAIN c.removes : FlattenSeq(Gone(c.removes[l])) \in Plain
    BY <1>6, <2>1
  <2> QED BY <2>1, <2>2
<1> HIDE DEF adds, removes
<1>9. FlattenSeq(adds) \in Plain /\ FlattenSeq(removes) \in Plain
  BY <1>7, <1>8, PlainFlat
<1> QED BY <1>2, <1>9, PlainAppend

LEMMA ClearPlain ==
  ASSUME NEW n \in Nics, NEW vs \in Seq(Vlans)
  PROVE  Each(vs, LAMBDA v : Leave(n, v, "no")) \in Plain
<1> DEFINE f == [k \in DOMAIN vs |-> Leave(n, vs[k], "no")]
<1>1. DOMAIN vs = 1..Len(vs) /\ Len(vs) \in Nat /\ \A k \in DOMAIN vs : vs[k] \in Vlans
  OBVIOUS
<1>2. \A k \in DOMAIN vs : Leave(n, vs[k], "no") \in Plain
  BY <1>1, LeaveSound
<1>3. f \in Seq(Plain)
  BY <1>1, <1>2
<1>4. Each(vs, LAMBDA v : Leave(n, v, "no")) = FlattenSeq(f)
  BY DEF Each
<1> HIDE DEF f
<1> QED BY <1>3, <1>4, PlainFlat

LEMMA TidyPlain ==
  ASSUME NEW n \in Nics, NEW v \in Vlans
  PROVE  <<Cmd("down", n, v, "no"), Cmd("delete", n, v, "no")>> \in Plain
<1> DEFINE s == <<Cmd("down", n, v, "no"), Cmd("delete", n, v, "no")>>
<1>1. s \in Seq(Commands)
  BY CmdType DEF Dos, Bare
<1>2. DOMAIN s = 1..2 /\ s[1] = Cmd("down", n, v, "no") /\ s[2] = Cmd("delete", n, v, "no")
  OBVIOUS
<1> HIDE DEF s
<1>3. Later(s, 1, {"up", "delete"}, v)
  BY <1>2 DEF Later, Cmd
<1>4. Kept(s, 1, {}) /\ Kept(s, 2, {}) /\ s[1].catch = "no" /\ s[2].catch = "no"
  BY <1>2, <1>3 DEF Kept, Cmd
<1>5. \A i \in DOMAIN s : i = 1 \/ i = 2
  BY <1>2
<1> QED BY <1>1, <1>4, <1>5 DEF Plain, Sound, s

-----------------------------------------------------------------------------
\* A thread goes on.

\* Thread t runs others in the stead of its first command.
Advances(t, more) ==
  /\ job[t].todo \in Seq(Commands) /\ job[t].todo # << >> /\ more \in Seq(Commands)
  /\ job'[t].todo = more \o Tail(job[t].todo)
  /\ \A o \in Threads \ {t} : job'[o].todo = job[o].todo

LEMMA Current ==
  ASSUME Typed, NEW t \in Threads, job[t].todo # << >>
  PROVE  /\ job[t] \in Jobs /\ job[t].todo \in Seq(Commands)
         /\ Cur(t) = job[t].todo[1] /\ Cur(t) \in Commands /\ 1 \in DOMAIN job[t].todo
<1>1. job[t] \in Jobs
  BY DEF Typed
<1>2. job[t].todo \in Seq(Commands)
  BY <1>1 DEF Jobs
<1> DEFINE s == job[t].todo
<1>3. Head(s) = s[1] /\ Head(s) \in Commands /\ 1 \in DOMAIN s
  <2> HIDE DEF s
  <2>1. s \in Seq(Commands) /\ s # << >>
    BY <1>2 DEF s
  <2> QED BY <2>1, TailOf
<1> QED BY <1>1, <1>2, <1>3 DEF Cur

LEMMA ThenAdvances ==
  ASSUME Typed, NEW t \in Threads, job[t].todo # << >>, NEW more \in Seq(Commands), Then(t, more)
  PROVE  job' \in [Threads -> Jobs] /\ Advances(t, more)
<1> DEFINE s == job[t].todo
           r == more \o Tail(s)
           j == [job[t] EXCEPT !.todo = r]
<1>1. job \in [Threads -> Jobs] /\ job[t] \in Jobs /\ s \in Seq(Commands)
  BY Current DEF Typed
<1>2. r \in Seq(Commands)
  <2> HIDE DEF s
  <2> QED BY <1>1, ResumedPlaced DEF s
<1>3. job' = [job EXCEPT ![t] = j]
  BY <1>1 DEF Then
<1> HIDE DEF r
<1>4. j \in Jobs /\ j.todo = r
  BY <1>1, <1>2 DEF Jobs
<1> HIDE DEF j
<1>5. job' \in [Threads -> Jobs] /\ job'[t] = j /\ \A o \in Threads \ {t} : job'[o] = job[o]
  BY <1>1, <1>3, <1>4
<1> QED BY <1>1, <1>4, <1>5 DEF Advances, r

LEMMA ProceedAdvances ==
  ASSUME Typed, NEW t \in Threads, job[t].todo # << >>, Proceed(t)
  PROVE  job' \in [Threads -> Jobs] /\ Advances(t, << >>)
<1>1. << >> \in Seq(Commands)
  OBVIOUS
<1> QED BY <1>1, ThenAdvances DEF Proceed

\* What comes after the first command is still to come, at some place.
LEMMA LaterStays ==
  ASSUME NEW t \in Threads, NEW more, Advances(t, more), NEW dos, NEW v,
         Later(job[t].todo, 1, dos, v)
  PROVE  Later(job'[t].todo, 0, dos, v)
<1> DEFINE s == job[t].todo
           r == job'[t].todo
<1>1. s \in Seq(Commands) /\ s # << >> /\ more \in Seq(Commands) /\ r = more \o Tail(s)
  BY DEF Advances
<1>2. Later(s, 1, dos, v)
  OBVIOUS
<1> HIDE DEF s, r
<1>3. PICK k : Resumed(s, more, r, k)
  BY <1>1, ResumedPlaced
<1>4. /\ k \in Int /\ Placed(s, 1, r, k) /\ DOMAIN s \in SUBSET Nat /\ 0 <= 1 + k
  BY <1>3 DEF Resumed
<1>5. Later(r, 0, dos, v)
  BY <1>2, <1>4, LaterMoves
<1> QED BY <1>5 DEF r

LEMMA FillsStays ==
  ASSUME NEW t \in Threads, NEW more, Advances(t, more), NEW v, NEW dos,
         NEW subs, NEW subs2, \A n : <<n, v>> \in subs => <<n, v>> \in subs2,
         Fills(job[t].todo, 1, v, dos, subs)
  PROVE  Fills(job'[t].todo, 0, v, dos, subs2)
<1> DEFINE s == job[t].todo
           r == job'[t].todo
<1>1. s \in Seq(Commands) /\ s # << >> /\ more \in Seq(Commands) /\ r = more \o Tail(s)
  BY DEF Advances
<1>2. Fills(s, 1, v, dos, subs)
  OBVIOUS
<1> HIDE DEF s, r
<1>3. PICK k : Resumed(s, more, r, k)
  BY <1>1, ResumedPlaced
<1>4. /\ k \in Int /\ Placed(s, 1, r, k) /\ DOMAIN s \in SUBSET Nat /\ 0 <= 1 + k
  BY <1>3 DEF Resumed
<1>5. Fills(r, 0, v, dos, subs2)
  BY <1>2, <1>4, FillsMoves
<1> QED BY <1>5 DEF r

\* What is to fill a VLAN does not depend on the first command, unless it is that very
\* command, or makes the sub-interface.
LEMMA FillsRest ==
  ASSUME NEW s \in Seq(Commands), NEW v, NEW dos, NEW subs, NEW subs2,
         \A n : <<n, v>> \in subs => <<n, v>> \in subs2,
         Fills(s, 0, v, dos, subs),
         s[1].vlan = v => /\ s[1].do \notin dos
                          /\ s[1].do = "addsub" => <<s[1].nic, v>> \notin subs
                          /\ s[1].do \in {"link", "linkGvrp"} => <<s[1].nic, v>> \in subs2
  PROVE  Fills(s, 1, v, dos, subs2)
<1>1. PICK j \in DOMAIN s :
        /\ j > 0 /\ s[j].vlan = v
        /\ \/ s[j].do \in dos
           \/ s[j].do = "addsub" /\ (<<s[j].nic, v>> \in subs \/ Linked(s, 0, j))
  BY DEF Fills
<1>2. DOMAIN s \in SUBSET Nat /\ \A i \in DOMAIN s : i > 0
  BY LenProperties
<1>3. ~ Linked(s, 0, 1)
  BY <1>2 DEF Linked
<1>4. j > 1
  <2>1. j # 1
    BY <1>1, <1>3
  <2> QED BY <1>1, <1>2, <2>1
<1>5. Linked(s, 0, j) => Linked(s, 1, j) \/ <<s[j].nic, v>> \in subs2
  <2>1. SUFFICES ASSUME NEW k \in DOMAIN s, 0 < k, k < j, s[k].do \in {"link", "linkGvrp"},
                        s[k].nic = s[j].nic, s[k].vlan = s[j].vlan
                 PROVE  Linked(s, 1, j) \/ <<s[j].nic, v>> \in subs2
    BY DEF Linked
  <2>2. CASE k = 1
    BY <1>1, <2>1, <2>2
  <2>3. CASE k # 1
    <3>1. 1 < k
      BY <1>2, <2>3
    <3> QED BY <2>1, <3>1 DEF Linked
  <2> QED BY <2>2, <2>3
<1> QED BY <1>1, <1>4, <1>5 DEF Fills

\* A bridge that was to go up or away still is, unless the command did it.
LEMMA RaisedStays ==
  ASSUME NEW t \in Threads, NEW more, Advances(t, more), NEW v, Raised(v),
         job[t].todo[1].vlan = v => job[t].todo[1].do \notin {"up", "delete"}
  PROVE  Raised(v)'
<1> DEFINE dos == {"up", "delete"}
<1>1. PICK o \in Threads : Later(job[o].todo, 0, dos, v)
  BY DEF Raised
<1>2. CASE o # t
  <2>1. Later(job'[o].todo, 0, dos, v)
    BY <1>1, <1>2 DEF Advances
  <2> QED BY <2>1 DEF Raised
<1>3. CASE o = t
  <2> DEFINE s == job[t].todo
  <2>1. s \in Seq(Commands)
    BY DEF Advances
  <2>2. DOMAIN s \in SUBSET Nat
    BY <2>1, LenProperties
  <2>3. PICK j \in DOMAIN s : j > 0 /\ s[j].do \in dos /\ s[j].vlan = v
    BY <1>1, <1>3 DEF Later
  <2>4. j > 1
    BY <2>2, <2>3
  <2>5. Later(s, 1, dos, v)
    BY <2>3, <2>4 DEF Later
  <2>6. Later(job'[t].todo, 0, dos, v)
    BY <2>5, LaterStays
  <2> QED BY <2>6 DEF Raised
<1> QED BY <1>2, <1>3

\* A bridge that was to be filled or tidied still is, unless the command did it.
LEMMA FilledStays ==
  ASSUME NEW t \in Threads, NEW more, Advances(t, more), NEW v, Filled(v),
         \A n : <<n, v>> \in Subs => <<n, v>> \in Subs',
         job[t].todo[1].vlan = v =>
           /\ job[t].todo[1].do \notin {"addif", "tidy", "delete"}
           /\ job[t].todo[1].do = "addsub" => <<job[t].todo[1].nic, v>> \notin Subs
           /\ job[t].todo[1].do \in {"link", "linkGvrp"} => <<job[t].todo[1].nic, v>> \in Subs'
  PROVE  Filled(v)'
<1> DEFINE dos == {"addif", "tidy", "delete"}
<1>1. PICK o \in Threads : Fills(job[o].todo, 0, v, dos, Subs)
  BY DEF Filled
<1>2. CASE o # t
  <2>1. job'[o].todo = job[o].todo
    BY <1>2 DEF Advances
  <2>2. Fills(job[o].todo, 0, v, dos, Subs')
    BY <1>1 DEF Fills
  <2>3. Fills(job'[o].todo, 0, v, dos, Subs')
    BY <2>1, <2>2
  <2> QED BY <2>3 DEF Filled
<1>3. CASE o = t
  <2> DEFINE s == job[t].todo
  <2>1. s \in Seq(Commands) /\ Fills(s, 0, v, dos, Subs)
    BY <1>1, <1>3 DEF Advances
  <2>2. s[1].vlan = v => /\ s[1].do \notin dos
                         /\ s[1].do = "addsub" => <<s[1].nic, v>> \notin Subs
                         /\ s[1].do \in {"link", "linkGvrp"} => <<s[1].nic, v>> \in Subs'
    OBVIOUS
  <2>3. Fills(s, 1, v, dos, Subs')
    <3> HIDE DEF s, dos
    <3> QED BY <2>1, <2>2, FillsRest
  <2>4. Fills(job'[t].todo, 0, v, dos, Subs')
    BY <2>3, FillsStays
  <2> QED BY <2>4 DEF Filled
<1> QED BY <1>2, <1>3

\* A bridge a command leaves down goes up or away by one of the thread's next commands.
LEMMA RaisedPaid ==
  ASSUME NEW t \in Threads, NEW more, Advances(t, more), NEW v,
         NEW dos, dos \subseteq {"up", "delete"}, Later(job[t].todo, 1, dos, v)
  PROVE  Raised(v)'
<1>1. Later(job'[t].todo, 0, dos, v)
  BY LaterStays
<1>2. Later(job'[t].todo, 0, {"up", "delete"}, v)
  BY <1>1 DEF Later
<1> QED BY <1>2 DEF Raised

\* A bridge a command leaves without ports is tidied by one of the thread's next commands.
LEMMA FilledPaid ==
  ASSUME NEW t \in Threads, NEW more, Advances(t, more), NEW v,
         Later(job[t].todo, 1, {"tidy"}, v)
  PROVE  Filled(v)'
<1>1. Later(job'[t].todo, 0, {"tidy"}, v)
  BY LaterStays
<1>2. Fills(job'[t].todo, 0, v, {"addif", "tidy", "delete"}, Subs')
  BY <1>1 DEF Later, Fills
<1> QED BY <1>2 DEF Filled

\* The threads still pay what they owe.
LEMMA SoundAdvances ==
  ASSUME Typed, AllSound, NEW t \in Threads, NEW more, Advances(t, more), dirty \subseteq dirty',
         Sound(job'[t].todo, dirty'), Guarded(job'[t].todo)
  PROVE  AllSound'
<1>1. ASSUME NEW o \in Threads, o # t
      PROVE  Sound(job'[o].todo, dirty') /\ Guarded(job'[o].todo)
  <2>1. job'[o].todo = job[o].todo
    BY <1>1 DEF Advances
  <2>2. Sound(job[o].todo, dirty) /\ Guarded(job[o].todo)
    BY DEF AllSound
  <2>3. Sound(job[o].todo, dirty')
    BY <2>2 DEF Sound, Kept
  <2> QED BY <2>1, <2>2, <2>3
<1> QED BY <1>1 DEF AllSound

LEMMA SoundPlain ==
  ASSUME Typed, AllSound, NEW t \in Threads, NEW more \in Plain, Advances(t, more),
         dirty \subseteq dirty', job[t].todo[1].catch # "try"
  PROVE  AllSound'
<1> DEFINE s == job[t].todo
<1>1. /\ s \in Seq(Commands) /\ s # << >> /\ more \in Seq(Commands)
      /\ job'[t].todo = more \o Tail(s)
  BY DEF Advances
<1>2. Sound(s, dirty) /\ Guarded(s) /\ s[1].catch # "try"
  BY DEF AllSound
<1>3. Sound(more, {}) /\ \A i \in DOMAIN more : more[i].catch # "try"
  BY DEF Plain
<1>4. Guarded(more)
  <2>1. \A i \in DOMAIN more : ~ (i <= 0)
    BY <1>1, LenProperties
  <2> QED BY <1>3, <2>1 DEF Guarded
<1> HIDE DEF s
<1>5. Sound(more \o Tail(s), dirty')
  BY <1>1, <1>2, <1>3, SoundMore
<1>6. Guarded(more \o Tail(s))
  BY <1>1, <1>2, <1>4, GuardedMore
<1> QED BY <1>1, <1>5, <1>6, SoundAdvances

LEMMA SoundProceeds ==
  ASSUME Typed, AllSound, NEW t \in Threads, Advances(t, << >>), dirty \subseteq dirty'
  PROVE  AllSound'
<1> DEFINE s == job[t].todo
<1>1. s \in Seq(Commands) /\ s # << >> /\ job'[t].todo = << >> \o Tail(s)
  BY DEF Advances
<1>2. Sound(s, dirty) /\ Guarded(s)
  BY DEF AllSound
<1> HIDE DEF s
<1>3. << >> \o Tail(s) = Tail(s)
  <2>1. Tail(s) \in Seq(Commands)
    BY <1>1, TailOf
  <2> QED BY <2>1, ConcatEmptySeq
<1>4. Sound(<< >> \o Tail(s), dirty')
  <2>1. << >> \in Seq(Commands) /\ Sound(<< >>, {})
    BY PlainNone DEF Plain
  <2> QED BY <1>1, <1>2, <2>1, SoundMore
<1>5. Guarded(Tail(s))
  BY <1>1, <1>2, GuardedTail
<1> QED BY <1>1, <1>3, <1>4, <1>5, SoundAdvances

-----------------------------------------------------------------------------
\* The steps.

KernelOK ==
  /\ bridge \in [Vlans -> {"absent", "down", "up"}]
  /\ master \in [Nics -> Vlans \cup {"none"}]
  /\ sub \in [Nics \X Vlans -> {"absent", "free", "member"}]
  /\ gvrp \in SUBSET {p \in Nics \X Vlans : sub[p] # "absent"}
  /\ nicUp \in SUBSET Nics /\ nicAddr \in SUBSET Nics
  /\ bridgeAddr \in SUBSET Vlans
  /\ \A n \in Nics, v \in Vlans : Member(n, v) => bridge[v] # "absent"

HistoryOK == settled \in SUBSET Nics /\ dirty \in SUBSET Vlans /\ crashes \in 0..MaxCrashes

LEMMA TypedParts == Typed <=> KernelOK /\ HistoryOK /\ job \in [Threads -> Jobs]
<1>1. ASSUME job \in [Threads -> Jobs], NEW t \in Threads, NEW c \in ToSet(job[t].todo)
      PROVE  /\ c.do \in Dos
             /\ c.nic \in Nics \/ c.do \in {"flushBridge", "address"}
             /\ c.vlan \in Vlans \/ c.do \in {"nicUp", "nicDown", "clear"}
  <2>1. job[t].todo \in Seq(Commands)
    BY <1>1 DEF Jobs
  <2>2. c \in Commands
    BY <2>1, Elements
  <2> QED BY <2>2 DEF Commands
<1> QED BY <1>1 DEF Typed, TypeOK, KernelOK, HistoryOK

LEMMA TypedNext ==
  ASSUME KernelOK', HistoryOK', job' \in [Threads -> Jobs]
  PROVE  Typed'
<1>1. ASSUME NEW t \in Threads, NEW c \in ToSet(job'[t].todo)
      PROVE  /\ c.do \in Dos
             /\ c.nic \in Nics \/ c.do \in {"flushBridge", "address"}
             /\ c.vlan \in Vlans \/ c.do \in {"nicUp", "nicDown", "clear"}
  <2>1. job'[t].todo \in Seq(Commands)
    BY DEF Jobs
  <2>2. c \in Commands
    BY <2>1, Elements
  <2> QED BY <2>2 DEF Commands
<1> QED BY <1>1 DEF Typed, TypeOK, KernelOK, HistoryOK

\* Nothing in the kernel changes but addresses and the state of ports, and the command
\* is none that a bridge waits for.
LEMMA ServedQuiet ==
  ASSUME BridgesInv, NEW t \in Threads, NEW more, Advances(t, more),
         UNCHANGED <<bridge, master, sub>>, dirty \subseteq dirty',
         job[t].todo[1].do \notin {"up", "delete", "addif", "tidy", "addsub", "link", "linkGvrp"}
  PROVE  Served'
<1>1. Subs' = Subs
  BY DEF Subs
<1>2. ASSUME NEW v \in Vlans \ dirty', bridge'[v] # "absent"
      PROVE  (bridge'[v] = "down" => Raised(v)') /\ (Empty(v)' => Filled(v)')
  <2>1. Empty(v)' <=> Empty(v)
    BY DEF Empty, Member
  <2>2. (bridge[v] = "down" => Raised(v)) /\ (Empty(v) => Filled(v))
    BY <1>2 DEF BridgesInv, Served
  <2>3. Raised(v) => Raised(v)'
    BY RaisedStays
  <2>4. Filled(v) => Filled(v)'
    BY <1>1, FilledStays
  <2> QED BY <2>1, <2>2, <2>3, <2>4
<1> QED BY <1>2 DEF Served

\* The type of what a command of the kernel leaves alone.
LEMMA KeepHistory ==
  ASSUME Typed, Keep
  PROVE  HistoryOK' /\ dirty' = dirty /\ goal' = goal
BY TypedParts DEF Keep, history, HistoryOK

LEMMA SetPortKeeps ==
  ASSUME BridgesInv, NEW t \in Threads, SetPort(t)
  PROVE  BridgesInv'
<1>1. /\ job[t].todo # << >> /\ Cur(t).do \in {"nicUp", "nicDown"} /\ Proceed(t)
      /\ UNCHANGED <<bridge, master, sub, gvrp, nicAddr, bridgeAddr>> /\ Keep
      /\ nicUp' = IF Cur(t).do = "nicUp" THEN nicUp \cup {Cur(t).nic} ELSE nicUp \ {Cur(t).nic}
  BY DEF SetPort, Runs
<1>2. Typed /\ AllSound
  BY DEF BridgesInv
<1>3. Cur(t) = job[t].todo[1] /\ Cur(t) \in Commands
  BY <1>1, <1>2, Current
<1>4. job' \in [Threads -> Jobs] /\ Advances(t, << >>)
  BY <1>1, <1>2, ProceedAdvances
<1>5. HistoryOK' /\ dirty' = dirty
  BY <1>1, <1>2, KeepHistory
<1>6. KernelOK'
  <2>1. Cur(t).nic \in Nics
    BY <1>1, <1>3 DEF Commands
  <2> QED BY <1>1, <1>2, <2>1, TypedParts DEF KernelOK, Member
<1>7. Typed'
  BY <1>4, <1>5, <1>6, TypedNext
<1>8. AllSound'
  BY <1>2, <1>4, <1>5, SoundProceeds
<1>9. Served'
  BY <1>1, <1>3, <1>4, <1>5, ServedQuiet
<1> QED BY <1>7, <1>8, <1>9 DEF BridgesInv

LEMMA SetAddressKeeps ==
  ASSUME BridgesInv, NEW t \in Threads, SetAddress(t)
  PROVE  BridgesInv'
<1>1. /\ job[t].todo # << >> /\ Cur(t).do \in {"flushNic", "flushBridge", "address"} /\ Proceed(t)
      /\ UNCHANGED <<bridge, master, sub, gvrp, nicUp>> /\ Keep
      /\ nicAddr' = IF Cur(t).do = "flushNic" THEN nicAddr \ {Cur(t).nic} ELSE nicAddr
      /\ bridgeAddr' = CASE Cur(t).do = "flushBridge" -> bridgeAddr \ {Cur(t).vlan}
                         [] Cur(t).do = "address" -> bridgeAddr \cup {Cur(t).vlan}
                         [] OTHER -> bridgeAddr
  BY DEF SetAddress, Runs
<1>2. Typed /\ AllSound
  BY DEF BridgesInv
<1>3. Cur(t) = job[t].todo[1] /\ Cur(t) \in Commands
  BY <1>1, <1>2, Current
<1>4. job' \in [Threads -> Jobs] /\ Advances(t, << >>)
  BY <1>1, <1>2, ProceedAdvances
<1>5. HistoryOK' /\ dirty' = dirty
  BY <1>1, <1>2, KeepHistory
<1>6. KernelOK'
  <2>1. Cur(t).vlan \in Vlans
    BY <1>1, <1>3 DEF Commands
  <2>2. nicAddr' \in SUBSET Nics /\ bridgeAddr' \in SUBSET Vlans
    BY <1>1, <1>2, <2>1, TypedParts DEF KernelOK
  <2> QED BY <1>1, <1>2, <2>2, TypedParts DEF KernelOK, Member
<1>7. Typed'
  BY <1>4, <1>5, <1>6, TypedNext
<1>8. AllSound'
  BY <1>2, <1>4, <1>5, SoundProceeds
<1>9. Served'
  BY <1>1, <1>3, <1>4, <1>5, ServedQuiet
<1> QED BY <1>7, <1>8, <1>9 DEF BridgesInv

\* What the command at the head of a thread owes.
LEMMA HeadKept ==
  ASSUME BridgesInv, NEW t \in Threads, job[t].todo # << >>
  PROVE  Kept(job[t].todo, 1, dirty)
<1>1. 1 \in DOMAIN job[t].todo
  BY Current DEF BridgesInv
<1> QED BY <1>1 DEF BridgesInv, AllSound, Sound

LEMMA AddBridgeKeeps ==
  ASSUME BridgesInv, NEW t \in Threads, AddBridge(t)
  PROVE  BridgesInv'
<1> DEFINE v == Cur(t).vlan
<1>1. /\ job[t].todo # << >> /\ Cur(t).do = "addbr" /\ ~Impossible(Cur(t)) /\ Proceed(t)
      /\ bridge' = [bridge EXCEPT ![v] = "down"]
      /\ UNCHANGED <<master, sub, gvrp, nicUp, nicAddr, bridgeAddr>> /\ Keep
  BY DEF AddBridge, Runs
<1>2. Typed /\ AllSound /\ Served
  BY DEF BridgesInv
<1>3. Cur(t) = job[t].todo[1] /\ Cur(t) \in Commands
  BY <1>1, <1>2, Current
<1>4. job' \in [Threads -> Jobs] /\ Advances(t, << >>)
  BY <1>1, <1>2, ProceedAdvances
<1>5. HistoryOK' /\ dirty' = dirty
  BY <1>1, <1>2, KeepHistory
<1>6. v \in Vlans /\ bridge \in [Vlans -> {"absent", "down", "up"}]
  BY <1>1, <1>2, <1>3, TypedParts DEF Commands, KernelOK
<1>7. KernelOK'
  BY <1>1, <1>2, <1>6, TypedParts DEF KernelOK, Member
<1>8. Typed'
  BY <1>4, <1>5, <1>7, TypedNext
<1>9. AllSound'
  BY <1>2, <1>4, <1>5, SoundProceeds
<1>10. Subs' = Subs /\ \A w : Empty(w)' <=> Empty(w)
  BY <1>1 DEF Subs, Empty, Member
<1>11. ASSUME NEW w \in Vlans \ dirty', bridge'[w] # "absent"
       PROVE  (bridge'[w] = "down" => Raised(w)') /\ (Empty(w)' => Filled(w)')
  <2>1. CASE w # v
    <3>1. (bridge'[w] = "down" => Raised(w)) /\ (Empty(w)' => Filled(w))
      BY <1>1, <1>2, <1>5, <1>6, <1>10, <1>11, <2>1 DEF Served
    <3>2. (Raised(w) => Raised(w)') /\ (Filled(w) => Filled(w)')
      BY <1>3, <1>4, <1>10, <2>1, RaisedStays, FilledStays
    <3> QED BY <3>1, <3>2
  <2>2. CASE w = v
    <3>1. Later(job[t].todo, 1, {"up"}, w) /\ Fills(job[t].todo, 1, w, {"addif"}, {})
      BY <1>1, <1>3, <2>2, HeadKept DEF Kept
    <3>2. Raised(w)'
      BY <1>4, <3>1, RaisedPaid
    <3>3. Fills(job'[t].todo, 0, w, {"addif"}, Subs')
      BY <1>4, <3>1, FillsStays
    <3>4. Fills(job'[t].todo, 0, w, {"addif", "tidy", "delete"}, Subs')
      BY <3>3 DEF Fills
    <3>5. Filled(w)'
      BY <3>4 DEF Filled
    <3> QED BY <3>2, <3>5
  <2> QED BY <2>1, <2>2
<1>12. Served'
  BY <1>11 DEF Served
<1> QED BY <1>8, <1>9, <1>12 DEF BridgesInv

LEMMA SetBridgeKeeps ==
  ASSUME BridgesInv, NEW t \in Threads, SetBridge(t)
  PROVE  BridgesInv'
<1> DEFINE v == Cur(t).vlan
<1>1. /\ job[t].todo # << >> /\ Cur(t).do \in {"up", "down"} /\ ~Impossible(Cur(t)) /\ Proceed(t)
      /\ bridge' = [bridge EXCEPT ![v] = Cur(t).do]
      /\ UNCHANGED <<master, sub, gvrp, nicUp, nicAddr, bridgeAddr>> /\ Keep
  BY DEF SetBridge, Runs
<1>2. Typed /\ AllSound /\ Served
  BY DEF BridgesInv
<1>3. Cur(t) = job[t].todo[1] /\ Cur(t) \in Commands
  BY <1>1, <1>2, Current
<1>4. job' \in [Threads -> Jobs] /\ Advances(t, << >>)
  BY <1>1, <1>2, ProceedAdvances
<1>5. HistoryOK' /\ dirty' = dirty
  BY <1>1, <1>2, KeepHistory
<1>6. v \in Vlans /\ bridge \in [Vlans -> {"absent", "down", "up"}] /\ bridge[v] # "absent"
  BY <1>1, <1>2, <1>3, TypedParts DEF Commands, KernelOK, Impossible
<1>7. KernelOK'
  <2>1. bridge' \in [Vlans -> {"absent", "down", "up"}]
    BY <1>1, <1>6
  <2>2. \A w \in Vlans : bridge[w] # "absent" => bridge'[w] # "absent"
    BY <1>1, <1>6
  <2> QED BY <1>1, <1>2, <2>1, <2>2, TypedParts DEF KernelOK, Member
<1>8. Typed'
  BY <1>4, <1>5, <1>7, TypedNext
<1>9. AllSound'
  BY <1>2, <1>4, <1>5, SoundProceeds
<1>10. Subs' = Subs /\ \A w : Empty(w)' <=> Empty(w)
  BY <1>1 DEF Subs, Empty, Member
<1>11. ASSUME NEW w \in Vlans \ dirty', bridge'[w] # "absent"
       PROVE  (bridge'[w] = "down" => Raised(w)') /\ (Empty(w)' => Filled(w)')
  <2>1. bridge[w] # "absent" /\ (w # v => bridge'[w] = bridge[w]) /\ (w = v => bridge'[w] = Cur(t).do)
    BY <1>1, <1>6, <1>11
  <2>2. (bridge[w] = "down" => Raised(w)) /\ (Empty(w)' => Filled(w))
    BY <1>2, <1>5, <1>10, <1>11, <2>1 DEF Served
  <2>3. Filled(w) => Filled(w)'
    BY <1>1, <1>3, <1>4, <1>10, FilledStays
  <2>4. CASE w # v
    <3>1. Raised(w) => Raised(w)'
      BY <1>3, <1>4, <2>4, RaisedStays
    <3> QED BY <2>1, <2>2, <2>3, <2>4, <3>1
  <2>5. CASE w = v
    <3>1. ASSUME Cur(t).do = "down"
          PROVE  Raised(w)'
      <4>1. Later(job[t].todo, 1, {"up", "delete"}, w)
        BY <1>1, <1>3, <1>5, <1>11, <2>5, <3>1, HeadKept DEF Kept
      <4> QED BY <1>4, <4>1, RaisedPaid
    <3> QED BY <2>1, <2>2, <2>3, <2>5, <3>1
  <2> QED BY <2>4, <2>5
<1>12. Served'
  BY <1>11 DEF Served
<1> QED BY <1>8, <1>9, <1>12 DEF BridgesInv

LEMMA DeleteBridgeKeeps ==
  ASSUME BridgesInv, NEW t \in Threads, DeleteBridge(t)
  PROVE  BridgesInv'
<1> DEFINE v == Cur(t).vlan
<1>1. /\ job[t].todo # << >> /\ Cur(t).do = "delete" /\ ~Impossible(Cur(t)) /\ Proceed(t)
      /\ bridge' = [bridge EXCEPT ![v] = "absent"]
      /\ master' = [n \in Nics |-> IF master[n] = v THEN "none" ELSE master[n]]
      /\ sub' = [p \in Nics \X Vlans |-> IF p[2] = v /\ sub[p] = "member" THEN "free" ELSE sub[p]]
      /\ bridgeAddr' = bridgeAddr \ {v}
      /\ UNCHANGED <<gvrp, nicUp, nicAddr>> /\ Keep
  BY DEF DeleteBridge, Runs
<1>2. Typed /\ AllSound /\ Served /\ KernelOK
  BY TypedParts DEF BridgesInv
<1>3. Cur(t) = job[t].todo[1] /\ Cur(t) \in Commands
  BY <1>1, <1>2, Current
<1>4. job' \in [Threads -> Jobs] /\ Advances(t, << >>)
  BY <1>1, <1>2, ProceedAdvances
<1>5. HistoryOK' /\ dirty' = dirty
  BY <1>1, <1>2, KeepHistory
<1>6. v \in Vlans /\ bridge \in [Vlans -> {"absent", "down", "up"}]
  BY <1>1, <1>2, <1>3 DEF Commands, KernelOK
<1>7. v # "none"
  BY <1>6, VlanAssumption
<1>8. \A p \in Nics \X Vlans : (sub'[p] = "absent" <=> sub[p] = "absent")
  BY <1>1
<1>9. \A n \in Nics, w \in Vlans : (Member(n, w)' <=> Member(n, w) /\ w # v)
  <2>1. ASSUME NEW n \in Nics, NEW w \in Vlans
        PROVE  /\ master'[n] = w <=> master[n] = w /\ w # v
               /\ sub'[<<n, w>>] = "member" <=> sub[<<n, w>>] = "member" /\ w # v
    <3>1. <<n, w>> \in Nics \X Vlans /\ <<n, w>>[2] = w /\ w # "none"
      BY VlanAssumption
    <3> QED BY <1>1, <1>7, <3>1
  <2> QED BY <2>1 DEF Member
<1>10. KernelOK'
  <2>1. bridge' \in [Vlans -> {"absent", "down", "up"}]
    BY <1>1, <1>6
  <2>2. master' \in [Nics -> Vlans \cup {"none"}]
    BY <1>1, <1>2 DEF KernelOK
  <2>3. sub' \in [Nics \X Vlans -> {"absent", "free", "member"}]
    BY <1>1, <1>2 DEF KernelOK
  <2>4. gvrp' \in SUBSET {p \in Nics \X Vlans : sub'[p] # "absent"}
    BY <1>1, <1>2, <1>8 DEF KernelOK
  <2>5. \A n \in Nics, w \in Vlans : Member(n, w)' => bridge'[w] # "absent"
    BY <1>1, <1>2, <1>6, <1>9 DEF KernelOK
  <2> QED BY <1>1, <1>2, <2>1, <2>2, <2>3, <2>4, <2>5 DEF KernelOK
<1>11. Typed'
  BY <1>4, <1>5, <1>10, TypedNext
<1>12. AllSound'
  BY <1>2, <1>4, <1>5, SoundProceeds
<1>13. Subs' = Subs
  BY <1>8 DEF Subs
<1>14. ASSUME NEW w \in Vlans \ dirty', bridge'[w] # "absent"
       PROVE  (bridge'[w] = "down" => Raised(w)') /\ (Empty(w)' => Filled(w)')
  <2>1. w # v /\ bridge'[w] = bridge[w]
    BY <1>1, <1>6, <1>14
  <2>2. Empty(w)' => Empty(w)
    BY <1>9, <2>1 DEF Empty
  <2>3. (bridge[w] = "down" => Raised(w)) /\ (Empty(w) => Filled(w))
    BY <1>2, <1>5, <1>14, <2>1 DEF Served
  <2>4. (Raised(w) => Raised(w)') /\ (Filled(w) => Filled(w)')
    BY <1>3, <1>4, <1>13, <2>1, RaisedStays, FilledStays
  <2> QED BY <2>1, <2>2, <2>3, <2>4
<1>15. Served'
  BY <1>14 DEF Served
<1> QED BY <1>11, <1>12, <1>15 DEF BridgesInv

LEMMA EnslaveKeeps ==
  ASSUME BridgesInv, NEW t \in Threads, Enslave(t)
  PROVE  BridgesInv'
<1> DEFINE v == Cur(t).vlan
           m == Cur(t).nic
<1>1. /\ job[t].todo # << >> /\ Cur(t).do \in {"addif", "delif"} /\ ~Impossible(Cur(t)) /\ Proceed(t)
      /\ master' = [master EXCEPT ![m] = IF Cur(t).do = "addif" THEN v ELSE "none"]
      /\ UNCHANGED <<bridge, sub, gvrp, nicUp, nicAddr, bridgeAddr>> /\ Keep
  BY DEF Enslave, Runs
<1>2. Typed /\ AllSound /\ Served /\ KernelOK
  BY TypedParts DEF BridgesInv
<1>3. Cur(t) = job[t].todo[1] /\ Cur(t) \in Commands
  BY <1>1, <1>2, Current
<1>4. job' \in [Threads -> Jobs] /\ Advances(t, << >>)
  BY <1>1, <1>2, ProceedAdvances
<1>5. HistoryOK' /\ dirty' = dirty
  BY <1>1, <1>2, KeepHistory
<1>6. v \in Vlans /\ m \in Nics
  BY <1>1, <1>3 DEF Commands
<1>7. /\ Cur(t).do = "addif" => bridge[v] # "absent" /\ master[m] = "none"
      /\ Cur(t).do = "delif" => master[m] = v
  BY <1>1 DEF Impossible
<1>8. master \in [Nics -> Vlans \cup {"none"}]
  BY <1>2 DEF KernelOK
<1>9. /\ master' \in [Nics -> Vlans \cup {"none"}]
      /\ \A n \in Nics : n # m => master'[n] = master[n]
      /\ master'[m] = IF Cur(t).do = "addif" THEN v ELSE "none"
  BY <1>1, <1>6, <1>8
<1>10. \A n \in Nics, w \in Vlans : w # v => (Member(n, w)' <=> Member(n, w))
  <2>1. ASSUME NEW n \in Nics, NEW w \in Vlans, w # v
        PROVE  master'[n] = w <=> master[n] = w
    <3>1. w # "none"
      BY VlanAssumption
    <3>2. CASE n # m
      BY <1>9, <3>2
    <3>3. CASE n = m
      BY <1>1, <1>7, <1>9, <2>1, <3>1, <3>3
    <3> QED BY <3>2, <3>3
  <2> QED BY <1>1, <2>1 DEF Member
<1>11. KernelOK'
  <2>1. ASSUME NEW n \in Nics, NEW w \in Vlans, Member(n, w)'
        PROVE  bridge'[w] # "absent"
    <3>1. CASE w # v
      BY <1>1, <1>2, <1>10, <2>1, <3>1 DEF KernelOK
    <3>2. CASE w = v /\ Cur(t).do = "addif"
      BY <1>1, <1>7, <3>2
    <3>3. CASE w = v /\ Cur(t).do = "delif"
      <4>1. Member(m, v)
        BY <1>7, <3>3 DEF Member
      <4> QED BY <1>1, <1>2, <1>6, <3>3, <4>1 DEF KernelOK
    <3> QED BY <1>1, <3>1, <3>2, <3>3
  <2> QED BY <1>1, <1>2, <1>9, <2>1 DEF KernelOK
<1>12. Typed'
  BY <1>4, <1>5, <1>11, TypedNext
<1>13. AllSound'
  BY <1>2, <1>4, <1>5, SoundProceeds
<1>14. Subs' = Subs
  BY <1>1 DEF Subs
<1>15. ASSUME NEW w \in Vlans \ dirty', bridge'[w] # "absent"
       PROVE  (bridge'[w] = "down" => Raised(w)') /\ (Empty(w)' => Filled(w)')
  <2>1. (bridge'[w] = "down" => Raised(w)) /\ (Empty(w) => Filled(w))
    BY <1>1, <1>2, <1>5, <1>15 DEF Served
  <2>2. Raised(w) => Raised(w)'
    BY <1>1, <1>3, <1>4, RaisedStays
  <2>3. CASE w # v
    <3>1. Empty(w)' => Empty(w)
      BY <1>10, <2>3 DEF Empty
    <3>2. Filled(w) => Filled(w)'
      BY <1>3, <1>4, <1>14, <2>3, FilledStays
    <3> QED BY <2>1, <2>2, <3>1, <3>2
  <2>4. CASE w = v /\ Cur(t).do = "addif"
    <3>1. \E n \in Nics : master'[n] = w
      BY <1>6, <1>9, <2>4
    <3>2. ~ Empty(w)'
      BY <3>1 DEF Empty, Member
    <3> QED BY <2>1, <2>2, <3>2
  <2>5. CASE w = v /\ Cur(t).do = "delif"
    <3>1. Later(job[t].todo, 1, {"tidy"}, w)
      BY <1>1, <1>3, <1>5, <1>15, <2>5, HeadKept DEF Kept
    <3>2. Filled(w)'
      BY <1>4, <3>1, FilledPaid
    <3> QED BY <2>1, <2>2, <3>2
  <2> QED BY <1>1, <2>3, <2>4, <2>5
<1>16. Served'
  BY <1>15 DEF Served
<1> QED BY <1>12, <1>13, <1>16 DEF BridgesInv

LEMMA SetSubKeeps ==
  ASSUME BridgesInv, NEW t \in Threads, SetSub(t)
  PROVE  BridgesInv'
<1> DEFINE do == Cur(t).do
           v == Cur(t).vlan
           m == Cur(t).nic
           p == <<m, v>>
<1>1. /\ job[t].todo # << >> /\ ~Impossible(Cur(t)) /\ Proceed(t)
      /\ do \in {"link", "linkGvrp", "addsub", "unlink", "subUp", "subDown"}
      /\ sub' = [sub EXCEPT ![p] = CASE do \in {"link", "linkGvrp"} -> "free"
                                     [] do = "addsub" -> "member"
                                     [] do = "unlink" -> "absent"
                                     [] OTHER -> @]
      /\ gvrp' = CASE do = "linkGvrp" -> gvrp \cup {p}
                   [] do = "unlink" -> gvrp \ {p}
                   [] OTHER -> gvrp
      /\ UNCHANGED <<bridge, master, nicUp, nicAddr, bridgeAddr>> /\ Keep
  BY DEF SetSub, Runs
<1>2. Typed /\ AllSound /\ Served /\ KernelOK
  BY TypedParts DEF BridgesInv
<1>3. Cur(t) = job[t].todo[1] /\ Cur(t) \in Commands
  BY <1>1, <1>2, Current
<1>4. job' \in [Threads -> Jobs] /\ Advances(t, << >>)
  BY <1>1, <1>2, ProceedAdvances
<1>5. HistoryOK' /\ dirty' = dirty
  BY <1>1, <1>2, KeepHistory
<1>6. v \in Vlans /\ m \in Nics /\ p \in Nics \X Vlans
  BY <1>1, <1>3 DEF Commands
<1>7. /\ do \in {"link", "linkGvrp"} => sub[p] = "absent"
      /\ do = "addsub" => sub[p] = "free" /\ bridge[v] # "absent"
      /\ do \in {"unlink", "subUp", "subDown"} => sub[p] # "absent"
  BY <1>1 DEF Impossible
<1>8. sub \in [Nics \X Vlans -> {"absent", "free", "member"}]
  BY <1>2 DEF KernelOK
<1>9. /\ sub' \in [Nics \X Vlans -> {"absent", "free", "member"}]
      /\ \A q \in Nics \X Vlans : q # p => sub'[q] = sub[q]
      /\ do \in {"link", "linkGvrp"} => sub'[p] = "free"
      /\ do = "addsub" => sub'[p] = "member"
      /\ do = "unlink" => sub'[p] = "absent"
      /\ do \in {"subUp", "subDown"} => sub'[p] = sub[p]
  BY <1>1, <1>6, <1>8
<1>10. \A n \in Nics, w \in Vlans : w # v => <<n, w>> # p /\ sub'[<<n, w>>] = sub[<<n, w>>]
  BY <1>9
<1>11. gvrp' \in SUBSET {q \in Nics \X Vlans : sub'[q] # "absent"}
  <2>1. gvrp \in SUBSET {q \in Nics \X Vlans : sub[q] # "absent"}
    BY <1>2 DEF KernelOK
  <2>2. ASSUME NEW q \in gvrp'
        PROVE  q \in Nics \X Vlans /\ sub'[q] # "absent"
    <3>1. CASE q = p
      <4>1. do # "unlink"
        BY <1>1, <3>1
      <4>2. do \notin {"link", "linkGvrp"} => sub[p] # "absent"
        BY <1>1, <2>1, <2>2, <3>1
      <4> QED BY <1>1, <1>6, <1>9, <3>1, <4>1, <4>2
    <3>2. CASE q # p
      <4>1. q \in gvrp
        BY <1>1, <2>2, <3>2
      <4> QED BY <1>9, <2>1, <3>2, <4>1
    <3> QED BY <3>1, <3>2
  <2> QED BY <2>2
<1>12. KernelOK'
  <2>1. ASSUME NEW n \in Nics, NEW w \in Vlans, Member(n, w)'
        PROVE  bridge'[w] # "absent"
    <3>1. CASE <<n, w>> = p /\ do = "addsub"
      BY <1>1, <1>7, <3>1
    <3>2. CASE ~ (<<n, w>> = p /\ do = "addsub")
      <4>1. <<n, w>> \in Nics \X Vlans
        OBVIOUS
      <4>2. sub'[<<n, w>>] = "member" => sub[<<n, w>>] = "member"
        BY <1>1, <1>9, <3>2, <4>1
      <4>3. Member(n, w)
        BY <1>1, <2>1, <4>2 DEF Member
      <4> QED BY <1>1, <1>2, <4>3 DEF KernelOK
    <3> QED BY <3>1, <3>2
  <2> QED BY <1>1, <1>2, <1>9, <1>11, <2>1 DEF KernelOK
<1>13. Typed'
  BY <1>4, <1>5, <1>12, TypedNext
<1>14. AllSound'
  BY <1>2, <1>4, <1>5, SoundProceeds
<1>15. ASSUME NEW w \in Vlans \ dirty', bridge'[w] # "absent"
       PROVE  (bridge'[w] = "down" => Raised(w)') /\ (Empty(w)' => Filled(w)')
  <2>1. (bridge'[w] = "down" => Raised(w)) /\ (Empty(w) => Filled(w))
    BY <1>1, <1>2, <1>5, <1>15 DEF Served
  <2>2. Raised(w) => Raised(w)'
    BY <1>1, <1>3, <1>4, RaisedStays
  <2>3. CASE w # v
    <3>1. Empty(w)' => Empty(w)
      BY <1>1, <1>10, <2>3 DEF Empty, Member
    <3>2. \A n : <<n, w>> \in Subs => <<n, w>> \in Subs'
      BY <1>10, <2>3 DEF Subs
    <3>3. Filled(w) => Filled(w)'
      BY <1>3, <1>4, <2>3, <3>2, FilledStays
    <3> QED BY <2>1, <2>2, <3>1, <3>3
  <2>4. CASE w = v /\ do = "addsub"
    <3>1. sub'[<<m, w>>] = "member" /\ m \in Nics
      BY <1>6, <1>9, <2>4
    <3>2. ~ Empty(w)'
      <4>1. PICK n : n = m
        OBVIOUS
      <4> QED BY <3>1, <4>1 DEF Empty, Member
    <3> QED BY <2>1, <2>2, <3>2
  <2>5. CASE w = v /\ do = "unlink"
    <3>1. Later(job[t].todo, 1, {"tidy"}, w)
      BY <1>1, <1>3, <1>5, <1>15, <2>5, HeadKept DEF Kept
    <3>2. Filled(w)'
      BY <1>4, <3>1, FilledPaid
    <3> QED BY <2>1, <2>2, <3>2
  <2>6. CASE w = v /\ do \in {"link", "linkGvrp", "subUp", "subDown"}
    <3>1. \A n \in Nics : sub[<<n, w>>] = "member" => sub'[<<n, w>>] = "member"
      BY <1>7, <1>9, <2>6
    <3>2. Empty(w)' => Empty(w)
      BY <1>1, <3>1 DEF Empty, Member
    <3>3. \A n : <<n, w>> \in Subs => <<n, w>> \in Subs'
      BY <1>9, <2>6 DEF Subs
    <3>4. do \in {"link", "linkGvrp"} => p \in Subs'
      BY <1>6, <1>9 DEF Subs
    <3>5. Filled(w) => Filled(w)'
      BY <1>3, <1>4, <2>6, <3>3, <3>4, FilledStays
    <3> QED BY <2>1, <2>2, <3>2, <3>5
  <2> QED BY <1>1, <2>3, <2>4, <2>5, <2>6
<1>16. Served'
  BY <1>15 DEF Served
<1> QED BY <1>13, <1>14, <1>16 DEF BridgesInv

\* A thread that only asks leaves the kernel as it is.
LEMMA AskedTyped ==
  ASSUME Typed, UNCHANGED kernel, HistoryOK', job' \in [Threads -> Jobs]
  PROVE  Typed'
<1>1. KernelOK
  BY TypedParts
<1>2. KernelOK'
  BY <1>1 DEF KernelOK, kernel, Member
<1> QED BY <1>2, TypedNext

\* The VLANs ip link names are VLANs.
LEMMA LinesType ==
  ASSUME KernelOK, NEW n \in Nics, NEW vs \in LinesOf(n)
  PROVE  vs \in Seq(Vlans)
<1> DEFINE S == {v \in Vlans : sub[<<n, v>>] = "member"}
           own == IF master[n] = "none" THEN << >> ELSE <<master[n]>>
<1>1. PICK subs \in SetToSeqs(S) : vs = own \o subs
  BY DEF LinesOf
<1>2. Cardinality(S) \in Nat
  <2>1. S \subseteq Vlans
    OBVIOUS
  <2> HIDE DEF S
  <2>2. IsFiniteSet(S)
    BY <2>1, VlanAssumption, FS_Subset
  <2> QED BY <2>2, FS_CardinalityType
<1>3. subs \in [1..Cardinality(S) -> S]
  BY <1>1 DEF SetToSeqs
<1>4. subs \in Seq(Vlans)
  <2>1. subs \in [1..Cardinality(S) -> Vlans]
    BY <1>3
  <2> HIDE DEF S
  <2> QED BY <1>2, <2>1
<1>5. own \in Seq(Vlans)
  <2>1. master[n] \in Vlans \cup {"none"}
    BY DEF KernelOK
  <2> QED BY <2>1
<1> HIDE DEF own, S
<1> QED BY <1>1, <1>4, <1>5, ConcatProperties

LEMMA ClearKeeps ==
  ASSUME BridgesInv, NEW t \in Threads, Clear(t)
  PROVE  BridgesInv'
<1>1. job[t].todo # << >> /\ Cur(t).do = "clear" /\ UNCHANGED kernel /\ Keep
  BY DEF Clear, Runs
<1>2. Typed /\ AllSound /\ KernelOK
  BY TypedParts DEF BridgesInv
<1>3. Cur(t) = job[t].todo[1] /\ Cur(t) \in Commands
  BY <1>1, <1>2, Current
<1>4. Cur(t).nic \in Nics /\ Cur(t).catch = "no"
  BY <1>1, <1>3 DEF Commands, Bare
<1>5. PICK vs \in LinesOf(Cur(t).nic) : Then(t, Each(vs, LAMBDA v : Leave(Cur(t).nic, v, "no")))
  BY DEF Clear
<1> DEFINE more == Each(vs, LAMBDA v : Leave(Cur(t).nic, v, "no"))
<1>6. more \in Plain
  <2>1. vs \in Seq(Vlans)
    BY <1>2, <1>4, LinesType
  <2> QED BY <1>4, <2>1, ClearPlain
<1>7. Then(t, more)
  BY <1>5
<1> HIDE DEF more
<1>8. more \in Seq(Commands)
  BY <1>6 DEF Plain
<1>9. job' \in [Threads -> Jobs] /\ Advances(t, more)
  BY <1>1, <1>2, <1>7, <1>8, ThenAdvances
<1>10. HistoryOK' /\ dirty' = dirty
  BY <1>1, <1>2, KeepHistory
<1>11. Typed'
  BY <1>1, <1>2, <1>9, <1>10, AskedTyped
<1>12. AllSound'
  BY <1>2, <1>3, <1>4, <1>6, <1>9, <1>10, SoundPlain
<1>13. Served'
  BY <1>1, <1>3, <1>9, <1>10, ServedQuiet DEF kernel
<1> QED BY <1>11, <1>12, <1>13 DEF BridgesInv

LEMMA ProbeKeeps ==
  ASSUME BridgesInv, NEW t \in Threads, Probe(t)
  PROVE  BridgesInv'
<1> DEFINE v == Cur(t).vlan
           seen == IF Cur(t).do = "hasAddress"
                   THEN IF v \in bridgeAddr THEN {"address"} ELSE {}
                   ELSE job[t].seen \cup (IF bridge[v] # "absent" THEN {"bridge"} ELSE {})
<1>1. /\ job[t].todo # << >> /\ Cur(t).do \in {"hasAddress", "exists"} /\ UNCHANGED kernel /\ Keep
      /\ job' = [job EXCEPT ![t].seen = seen, ![t].todo = Tail(@)]
  BY DEF Probe, Runs
<1>2. Typed /\ AllSound
  BY DEF BridgesInv
<1>3. /\ Cur(t) = job[t].todo[1] /\ job[t] \in Jobs /\ job[t].todo \in Seq(Commands)
  BY <1>1, <1>2, Current
<1>4. job' \in [Threads -> Jobs] /\ Advances(t, << >>)
  <2> DEFINE s == job[t].todo
             j == [job[t] EXCEPT !.seen = seen, !.todo = Tail(s)]
  <2>1. Tail(s) \in Seq(Commands) /\ << >> \o Tail(s) = Tail(s) /\ << >> \in Seq(Commands)
    <3> HIDE DEF s
    <3>1. Tail(s) \in Seq(Commands)
      BY <1>1, <1>3, TailOf DEF s
    <3> QED BY <3>1, ConcatEmptySeq
  <2>2. seen \in SUBSET {"bridge", "address"}
    BY <1>3 DEF Jobs
  <2> HIDE DEF seen
  <2>3. j \in Jobs /\ j.todo = Tail(s)
    BY <1>3, <2>1, <2>2 DEF Jobs
  <2>4. job \in [Threads -> Jobs]
    BY <1>2 DEF Typed
  <2>5. job' = [job EXCEPT ![t] = j]
    BY <1>1, <2>4
  <2> HIDE DEF j
  <2>6. job' \in [Threads -> Jobs] /\ job'[t] = j /\ \A o \in Threads \ {t} : job'[o] = job[o]
    BY <2>3, <2>4, <2>5
  <2> QED BY <1>1, <1>3, <2>1, <2>3, <2>6 DEF Advances
<1>5. HistoryOK' /\ dirty' = dirty
  BY <1>1, <1>2, KeepHistory
<1>6. Typed'
  BY <1>1, <1>2, <1>4, <1>5, AskedTyped
<1>7. AllSound'
  BY <1>2, <1>4, <1>5, SoundProceeds
<1>8. Served'
  BY <1>1, <1>3, <1>4, <1>5, ServedQuiet DEF kernel
<1> QED BY <1>6, <1>7, <1>8 DEF BridgesInv

LEMMA HasVLANKeeps ==
  ASSUME BridgesInv, NEW t \in Threads, HasVLAN(t)
  PROVE  BridgesInv'
<1> DEFINE more == Join(Cur(t).nic, Cur(t).vlan, job[t], \E v \in Vlans : Member(Cur(t).nic, v))
<1>1. job[t].todo # << >> /\ Cur(t).do = "hasVLAN" /\ Then(t, more) /\ UNCHANGED kernel /\ Keep
  BY DEF HasVLAN, Runs
<1>2. Typed /\ AllSound
  BY DEF BridgesInv
<1>3. Cur(t) = job[t].todo[1] /\ Cur(t) \in Commands /\ job[t] \in Jobs
  BY <1>1, <1>2, Current
<1>4. Cur(t).nic \in Nics /\ Cur(t).vlan \in Vlans /\ Cur(t).catch = "no"
  BY <1>1, <1>3 DEF Commands, Bare
<1>5. more \in Plain
  BY <1>3, <1>4, JoinPlain
<1> HIDE DEF more
<1>6. more \in Seq(Commands)
  BY <1>5 DEF Plain
<1>7. job' \in [Threads -> Jobs] /\ Advances(t, more)
  BY <1>1, <1>2, <1>6, ThenAdvances
<1>8. HistoryOK' /\ dirty' = dirty
  BY <1>1, <1>2, KeepHistory
<1>9. Typed'
  BY <1>1, <1>2, <1>7, <1>8, AskedTyped
<1>10. AllSound'
  BY <1>2, <1>3, <1>4, <1>5, <1>7, <1>8, SoundPlain
<1>11. Served'
  BY <1>1, <1>3, <1>7, <1>8, ServedQuiet DEF kernel
<1> QED BY <1>9, <1>10, <1>11 DEF BridgesInv

LEMMA TidyKeeps ==
  ASSUME BridgesInv, NEW t \in Threads, Tidy(t)
  PROVE  BridgesInv'
<1> DEFINE c == Cur(t)
           out == <<Cmd("down", c.nic, c.vlan, "no"), Cmd("delete", c.nic, c.vlan, "no")>>
           more == IF Empty(c.vlan) THEN out ELSE << >>
<1>1. job[t].todo # << >> /\ c.do = "tidy" /\ Then(t, more) /\ UNCHANGED kernel /\ Keep
  BY DEF Tidy, Runs
<1>2. Typed /\ AllSound /\ Served
  BY DEF BridgesInv
<1>3. c = job[t].todo[1] /\ c \in Commands
  BY <1>1, <1>2, Current
<1>4. c.nic \in Nics /\ c.vlan \in Vlans /\ c.catch = "no"
  BY <1>1, <1>3 DEF Commands, Bare
<1>5. out \in Plain
  BY <1>4, TidyPlain
<1>6. more \in Plain
  BY <1>5, PlainNone
<1>7. more \in Seq(Commands)
  BY <1>6 DEF Plain
<1>8. job' \in [Threads -> Jobs] /\ Advances(t, more)
  <2> HIDE DEF more
  <2> QED BY <1>1, <1>2, <1>7, ThenAdvances
<1>9. HistoryOK' /\ dirty' = dirty
  BY <1>1, <1>2, KeepHistory
<1>10. Typed'
  BY <1>1, <1>2, <1>8, <1>9, AskedTyped
<1>11. AllSound'
  <2> HIDE DEF more
  <2> QED BY <1>2, <1>3, <1>4, <1>6, <1>8, <1>9, SoundPlain
<1>12. Subs' = Subs /\ (\A w : Empty(w)' <=> Empty(w)) /\ bridge' = bridge
  BY <1>1 DEF kernel, Subs, Empty, Member
<1>13. ASSUME NEW w \in Vlans \ dirty', bridge'[w] # "absent"
       PROVE  (bridge'[w] = "down" => Raised(w)') /\ (Empty(w)' => Filled(w)')
  <2>1. (bridge'[w] = "down" => Raised(w)) /\ (Empty(w)' => Filled(w))
    BY <1>2, <1>9, <1>12, <1>13 DEF Served
  <2>2. Raised(w) => Raised(w)'
    <3> HIDE DEF more
    <3> QED BY <1>1, <1>3, <1>8, RaisedStays
  <2>3. CASE w # c.vlan
    <3> HIDE DEF more
    <3>1. Filled(w) => Filled(w)'
      BY <1>3, <1>8, <1>12, <2>3, FilledStays
    <3> QED BY <2>1, <2>2, <3>1
  <2>4. CASE w = c.vlan
    <3>1. ASSUME Empty(w)
          PROVE  Filled(w)'
      <4>1. more = out
        BY <2>4, <3>1
      <4>2. 2 \in DOMAIN out /\ out[2].do = "delete" /\ out[2].vlan = w
        BY <2>4 DEF Cmd
      <4> DEFINE s == job[t].todo
                 r == job'[t].todo
      <4>3. s \in Seq(Commands) /\ s # << >> /\ more \in Seq(Commands) /\ r = more \o Tail(s)
        BY <1>8 DEF Advances
      <4> HIDE DEF out, more, s, r
      <4>4. PICK k : Resumed(s, more, r, k)
        BY <4>3, ResumedPlaced
      <4>5. 2 + 0 = 2 /\ 2 > 0
        OBVIOUS
      <4>6. 2 \in DOMAIN r /\ r[2] = out[2]
        BY <4>1, <4>2, <4>4, <4>5 DEF Resumed, Placed
      <4>7. Fills(r, 0, w, {"addif", "tidy", "delete"}, Subs')
        BY <4>2, <4>5, <4>6 DEF Fills
      <4> QED BY <4>7 DEF Filled, r
    <3> QED BY <1>12, <2>1, <2>2, <3>1
  <2> QED BY <2>3, <2>4
<1>14. Served'
  BY <1>13 DEF Served
<1> QED BY <1>10, <1>11, <1>14 DEF BridgesInv

\* What Clear and RemoveVlan run once they saw whether the port is tagged: all but the
\* tidying that follows.
LEMMA TakeType ==
  ASSUME NEW n \in Nics, NEW v \in Vlans, NEW exists \in BOOLEAN, NEW catch \in {"no", "yes", "try"}
  PROVE  LET s == Take(n, v, exists, catch)
         IN  /\ s \in Seq(Commands) /\ s # << >>
             /\ \A i \in DOMAIN s :
                  /\ s[i].catch = catch /\ s[i].vlan = v
                  /\ s[i].do \in {"subDown", "unlink", "down", "delif", "up"}
                  /\ s[i].do = "down" => Later(s, i, {"up", "delete"}, v)
<1>1. CASE exists
  <2> DEFINE s == Take(n, v, exists, catch)
  <2>1. s = <<Cmd("subDown", n, v, catch), Cmd("unlink", n, v, catch)>>
    BY <1>1 DEF Take
  <2> HIDE DEF s
  <2>2. s \in Seq(Commands) /\ s # << >>
    <3>1. Cmd("subDown", n, v, catch) \in Commands /\ Cmd("unlink", n, v, catch) \in Commands
      BY CmdType DEF Dos, Bare
    <3> QED BY <2>1, <3>1
  <2>3. \A i \in DOMAIN s : i \in 1..2
    BY <2>1
  <2>4. \A i \in DOMAIN s : /\ s[i].catch = catch /\ s[i].vlan = v
                            /\ s[i].do \in {"subDown", "unlink"}
    BY <2>1, <2>3 DEF Cmd
  <2> QED BY <2>2, <2>4 DEF s
<1>2. CASE ~exists
  <2> DEFINE s == Take(n, v, exists, catch)
  <2>1. s = <<Cmd("down", n, v, catch), Cmd("delif", n, v, catch), Cmd("up", n, v, catch)>>
    BY <1>2 DEF Take
  <2> HIDE DEF s
  <2>2. s \in Seq(Commands) /\ s # << >>
    <3>1. /\ Cmd("down", n, v, catch) \in Commands /\ Cmd("delif", n, v, catch) \in Commands
          /\ Cmd("up", n, v, catch) \in Commands
      BY CmdType DEF Dos, Bare
    <3> QED BY <2>1, <3>1
  <2>3. /\ DOMAIN s = 1..3 /\ s[1] = Cmd("down", n, v, catch)
        /\ s[2] = Cmd("delif", n, v, catch) /\ s[3] = Cmd("up", n, v, catch)
    BY <2>1
  <2>4. \A i \in DOMAIN s : /\ s[i].catch = catch /\ s[i].vlan = v
                            /\ s[i].do \in {"down", "delif", "up"}
                            /\ s[i].do = "down" => i = 1
    <3>1. \A i \in DOMAIN s : i = 1 \/ i = 2 \/ i = 3
      BY <2>3
    <3> QED BY <2>3, <3>1 DEF Cmd
  <2>5. Later(s, 1, {"up", "delete"}, v)
    <3>1. 3 \in DOMAIN s /\ s[3].do = "up" /\ s[3].vlan = v
      BY <2>3 DEF Cmd
    <3> QED BY <3>1 DEF Later
  <2> QED BY <2>2, <2>4, <2>5 DEF s
<1> QED BY <1>1, <1>2

LEMMA LookKeeps ==
  ASSUME BridgesInv, NEW t \in Threads, Look(t)
  PROVE  BridgesInv'
<1> DEFINE c == Cur(t)
           more == Take(c.nic, c.vlan, sub[<<c.nic, c.vlan>>] # "absent", c.catch)
           s == job[t].todo
           r == more \o Tail(s)
<1>1. job[t].todo # << >> /\ c.do = "look" /\ Then(t, more) /\ UNCHANGED kernel /\ Keep
  BY DEF Look, Runs
<1>2. Typed /\ AllSound
  BY DEF BridgesInv
<1>3. c = s[1] /\ c \in Commands /\ s \in Seq(Commands)
  BY <1>1, <1>2, Current
<1>4. PICK n, v, catch, exists :
        /\ n = c.nic /\ v = c.vlan /\ catch = c.catch
        /\ exists = (sub[<<c.nic, c.vlan>>] # "absent")
  OBVIOUS
<1>5. n \in Nics /\ v \in Vlans /\ catch \in {"no", "yes", "try"} /\ exists \in BOOLEAN
  BY <1>1, <1>3, <1>4 DEF Commands
<1>6. /\ more \in Seq(Commands) /\ more # << >>
      /\ \A i \in DOMAIN more :
           /\ more[i].catch = catch /\ more[i].vlan = v
           /\ more[i].do \in {"subDown", "unlink", "down", "delif", "up"}
           /\ more[i].do = "down" => Later(more, i, {"up", "delete"}, v)
  <2>1. more = Take(n, v, exists, catch)
    BY <1>4
  <2> HIDE DEF more
  <2> QED BY <1>5, <2>1, TakeType
<1> HIDE DEF more
<1>7. job' \in [Threads -> Jobs] /\ Advances(t, more)
  BY <1>1, <1>2, <1>6, ThenAdvances
<1>8. HistoryOK' /\ dirty' = dirty
  BY <1>1, <1>2, KeepHistory
<1>9. Typed'
  BY <1>1, <1>2, <1>7, <1>8, AskedTyped
<1>10. Later(s, 1, {"tidy"}, v) /\ Sound(s, dirty) /\ Guarded(s)
  BY <1>1, <1>2, <1>3, <1>4, HeadKept DEF Kept, AllSound
<1>11. s # << >> /\ s[1].catch = catch /\ s[1].vlan = v
  BY <1>1, <1>3, <1>4
<1> HIDE DEF s
<1>12. \A i \in DOMAIN more : Kept(r, i, dirty)
  <2>1. PICK k : Resumed(s, more, r, k)
    BY <1>3, <1>6, <1>11, ResumedPlaced
  <2> HIDE DEF r
  <2>2. /\ k \in Int /\ k = Len(more) - 1 /\ Len(more) \in Nat
        /\ DOMAIN s \in SUBSET Nat /\ DOMAIN more \in SUBSET Nat
        /\ \A i \in DOMAIN more : i > 0
        /\ Placed(more, 0, r, 0) /\ Placed(s, 1, r, k)
    BY <2>1 DEF Resumed
  <2>3. DOMAIN more = 1..Len(more)
    BY <1>6, LenProperties
  <2>4. ASSUME NEW i \in DOMAIN more
        PROVE  Kept(r, i, dirty)
    <3>1. i \in Nat /\ i > 0 /\ i + 0 = i /\ i <= 1 + k
      BY <2>2, <2>3
    <3>2. r[i] = more[i]
      BY <2>2, <3>1 DEF Placed
    <3>3. Later(r, i, {"tidy"}, v)
      BY <1>10, <2>2, <3>1, LaterMoves
    <3>4. more[i].do = "down" => Later(r, i, {"up", "delete"}, v)
      <4>1. Later(more, i, {"up", "delete"}, v) => Later(r, i, {"up", "delete"}, v)
        BY <2>2, <3>1, LaterMoves
      <4> QED BY <1>6, <4>1
    <3>5. more[i].vlan = v /\ more[i].do \in {"subDown", "unlink", "down", "delif", "up"}
      BY <1>6
    <3> QED BY <3>2, <3>3, <3>4, <3>5 DEF Kept
  <2> QED BY <2>4
<1>13. Sound(r, dirty)
  BY <1>3, <1>6, <1>10, <1>11, <1>12, SoundResumed
<1>14. Guarded(r)
  <2>1. CASE catch = "try"
    BY <1>3, <1>6, <1>10, <1>11, <2>1, GuardedTry
  <2>2. CASE catch # "try"
    <3>1. \A i \in DOMAIN more : ~ (i <= 0) /\ more[i].catch # "try"
      BY <1>6, <2>2, LenProperties
    <3>2. Guarded(more)
      BY <3>1 DEF Guarded
    <3> QED BY <1>3, <1>6, <1>10, <1>11, <2>2, <3>2, GuardedMore
  <2> QED BY <2>1, <2>2
<1>15. job'[t].todo = r
  BY <1>7 DEF Advances, s
<1> HIDE DEF r
<1>16. AllSound'
  BY <1>2, <1>7, <1>8, <1>13, <1>14, <1>15, SoundAdvances
<1>17. Served'
  BY <1>1, <1>3, <1>7, <1>8, ServedQuiet DEF kernel, s
<1> QED BY <1>9, <1>16, <1>17 DEF BridgesInv

LEMMA ReportedKeeps ==
  ASSUME BridgesInv, NEW t \in Threads, Reported(t)
  PROVE  BridgesInv'
<1> DEFINE c == Cur(t)
           more == IF Member(c.nic, c.vlan) THEN Leave(c.nic, c.vlan, "try") ELSE << >>
<1>1. job[t].todo # << >> /\ c.do = "reported" /\ Then(t, more) /\ UNCHANGED kernel /\ Keep
  BY DEF Reported, Runs
<1>2. Typed /\ AllSound
  BY DEF BridgesInv
<1>3. c = job[t].todo[1] /\ c \in Commands /\ job[t].todo \in Seq(Commands)
  BY <1>1, <1>2, Current
<1>4. PICK n \in Nics, v \in Vlans : n = c.nic /\ v = c.vlan
  BY <1>1, <1>3 DEF Commands
<1>5. more \in Seq(Commands) /\ Sound(more, {}) /\ Guarded(more)
  <2>1. CASE Member(c.nic, c.vlan)
    <3>1. more = Leave(n, v, "try")
      BY <1>4, <2>1
    <3> HIDE DEF more
    <3> QED BY <3>1, LeaveSound
  <2>2. CASE ~Member(c.nic, c.vlan)
    <3>1. more = << >>
      BY <2>2
    <3> HIDE DEF more
    <3>2. \A i \in DOMAIN << >> : FALSE
      OBVIOUS
    <3>3. Guarded(<< >>)
      BY <3>2 DEF Guarded
    <3> QED BY <3>1, <3>3, PlainNone DEF Plain
  <2> QED BY <2>1, <2>2
<1> HIDE DEF more
<1>6. job' \in [Threads -> Jobs] /\ Advances(t, more)
  BY <1>1, <1>2, <1>5, ThenAdvances
<1>7. HistoryOK' /\ dirty' = dirty
  BY <1>1, <1>2, KeepHistory
<1>8. Typed'
  BY <1>1, <1>2, <1>6, <1>7, AskedTyped
<1>9. AllSound'
  <2> DEFINE s == job[t].todo
  <2>1. /\ s \in Seq(Commands) /\ s # << >> /\ job'[t].todo = more \o Tail(s)
        /\ Sound(s, dirty) /\ Guarded(s)
    BY <1>2, <1>6 DEF Advances, AllSound
  <2>2. s[1].catch # "try"
    BY <1>1, <1>3 DEF Commands, Bare
  <2> HIDE DEF s
  <2>3. Sound(more \o Tail(s), dirty)
    BY <1>5, <2>1, SoundMore
  <2>4. Guarded(more \o Tail(s))
    BY <1>5, <2>1, <2>2, GuardedMore
  <2> QED BY <1>2, <1>6, <1>7, <2>1, <2>3, <2>4, SoundAdvances
<1>10. Served'
  BY <1>1, <1>3, <1>6, <1>7, ServedQuiet DEF kernel
<1> QED BY <1>8, <1>9, <1>10 DEF BridgesInv

LEMMA MasterKeeps ==
  ASSUME BridgesInv, NEW t \in Threads, Master(t)
  PROVE  BridgesInv'
<1> DEFINE c == Cur(t)
           more == <<Cmd("down", c.nic, master[c.nic], "no"), Cmd("delif", c.nic, master[c.nic], "no")>>
<1>1. /\ job[t].todo # << >> /\ c.do = "master" /\ master[c.nic] # "none"
      /\ Then(t, more) /\ dirty' = dirty \cup {master[c.nic]}
      /\ UNCHANGED <<kernel, goal, settled, crashes>>
  BY DEF Master, Runs, Impossible
<1>2. Typed /\ AllSound /\ KernelOK /\ HistoryOK
  BY TypedParts DEF BridgesInv
<1>3. c = job[t].todo[1] /\ c \in Commands /\ job[t].todo \in Seq(Commands)
  BY <1>1, <1>2, Current
<1>4. c.nic \in Nics /\ c.catch = "no" /\ master[c.nic] \in Vlans
  BY <1>1, <1>2, <1>3 DEF Commands, Bare, KernelOK
<1>5. PICK n \in Nics, w \in Vlans : n = c.nic /\ w = master[c.nic]
  BY <1>4
<1>6. more = <<Cmd("down", n, w, "no"), Cmd("delif", n, w, "no")>> /\ w \in dirty'
  BY <1>1, <1>5
<1> HIDE DEF more
<1>7. Cmd("down", n, w, "no") \in Commands /\ Cmd("delif", n, w, "no") \in Commands
  BY CmdType DEF Dos
<1>8. more \in Seq(Commands)
  BY <1>6, <1>7
<1>9. \A i \in DOMAIN more : more[i].do \in {"down", "delif"} /\ more[i].vlan = w /\ more[i].catch = "no"
  <2>1. \A i \in DOMAIN more : i = 1 \/ i = 2
    BY <1>6
  <2> QED BY <1>6, <2>1 DEF Cmd
<1>10. job' \in [Threads -> Jobs] /\ Advances(t, more)
  BY <1>1, <1>2, <1>8, ThenAdvances
<1>11. HistoryOK' /\ dirty \subseteq dirty'
  BY <1>1, <1>2, <1>4 DEF HistoryOK
<1>12. Typed'
  BY <1>1, <1>2, <1>10, <1>11, AskedTyped
<1>13. AllSound'
  <2> DEFINE s == job[t].todo
             r == more \o Tail(s)
  <2>1. /\ s \in Seq(Commands) /\ s # << >> /\ job'[t].todo = more \o Tail(s)
        /\ Sound(s, dirty) /\ Guarded(s) /\ s[1].catch # "try"
    BY <1>2, <1>3, <1>4, <1>10 DEF Advances, AllSound
  <2> HIDE DEF s
  <2>2. \A i \in DOMAIN more : Kept(r, i, dirty')
    <3>1. PICK k : Resumed(s, more, r, k)
      BY <1>8, <2>1, ResumedPlaced
    <3> HIDE DEF r
    <3>2. \A i \in DOMAIN more : i \in Nat /\ i > 0 /\ i + 0 = i
      BY <3>1 DEF Resumed
    <3>3. \A i \in DOMAIN more : r[i] = more[i]
      BY <3>1, <3>2 DEF Resumed, Placed
    <3> QED BY <1>6, <1>9, <3>3 DEF Kept
  <2>3. Sound(r, dirty')
    BY <1>8, <1>11, <2>1, <2>2, SoundResumed
  <2>4. Guarded(r)
    <3>1. \A i \in DOMAIN more : ~ (i <= 0) /\ more[i].catch # "try"
      BY <1>8, <1>9, LenProperties
    <3>2. Guarded(more)
      BY <3>1 DEF Guarded
    <3> QED BY <1>8, <2>1, <3>2, GuardedMore
  <2> QED BY <1>2, <1>10, <1>11, <2>1, <2>3, <2>4, SoundAdvances
<1>14. Served'
  BY <1>1, <1>3, <1>10, <1>11, ServedQuiet DEF kernel
<1> QED BY <1>12, <1>13, <1>14 DEF BridgesInv

-----------------------------------------------------------------------------
\* Handlers begin, end and break off.

\* What the others have to run stays.
Alone(t) == \A o \in Threads \ {t} : job'[o].todo = job[o].todo

LEMMA SoundAlone ==
  ASSUME AllSound, NEW t \in Threads, Alone(t), dirty \subseteq dirty',
         Sound(job'[t].todo, dirty'), Guarded(job'[t].todo)
  PROVE  AllSound'
<1>1. ASSUME NEW o \in Threads, o # t
      PROVE  Sound(job'[o].todo, dirty') /\ Guarded(job'[o].todo)
  <2>1. job'[o].todo = job[o].todo
    BY <1>1 DEF Alone
  <2>2. Sound(job[o].todo, dirty) /\ Guarded(job[o].todo)
    BY DEF AllSound
  <2>3. Sound(job[o].todo, dirty')
    BY <2>2 DEF Sound, Kept
  <2> QED BY <2>1, <2>2, <2>3
<1> QED BY <1>1 DEF AllSound

\* The kernel stays, and so does what t owes the bridges it does not leave half done.
LEMMA ServedAlone ==
  ASSUME BridgesInv, NEW t \in Threads, Alone(t), UNCHANGED kernel, dirty \subseteq dirty',
         \A v \in Vlans \ dirty' :
           /\ \A dos : Later(job[t].todo, 0, dos, v) => Later(job'[t].todo, 0, dos, v)
           /\ \A dos : Fills(job[t].todo, 0, v, dos, Subs) => Fills(job'[t].todo, 0, v, dos, Subs)
  PROVE  Served'
<1>1. Subs' = Subs /\ bridge' = bridge
  BY DEF Subs, kernel
<1>2. ASSUME NEW v \in Vlans \ dirty', bridge'[v] # "absent"
      PROVE  (bridge'[v] = "down" => Raised(v)') /\ (Empty(v)' => Filled(v)')
  <2>1. Empty(v)' <=> Empty(v)
    BY DEF Empty, Member, kernel
  <2>2. (bridge[v] = "down" => Raised(v)) /\ (Empty(v) => Filled(v))
    BY <1>1, <1>2 DEF BridgesInv, Served
  <2>3. \A dos : \A o \in Threads :
          /\ Later(job[o].todo, 0, dos, v) => Later(job'[o].todo, 0, dos, v)
          /\ Fills(job[o].todo, 0, v, dos, Subs) => Fills(job'[o].todo, 0, v, dos, Subs)
    BY DEF Alone
  <2>4. Raised(v) => Raised(v)'
    BY <2>3 DEF Raised
  <2>5. Filled(v) => Filled(v)'
    BY <1>1, <2>3 DEF Filled
  <2> QED BY <1>1, <2>1, <2>2, <2>4, <2>5
<1> QED BY <1>2 DEF Served

\* What a handler is to do to a VLAN's bridge shows in the VLANs of its commands.
LEMMA VlanListed ==
  ASSUME NEW s \in Seq(Commands), NEW v \in Vlans, v \notin VlansIn(s)
  PROVE  /\ \A dos : ~ Later(s, 0, dos, v)
         /\ \A dos, subs : ~ Fills(s, 0, v, dos, subs)
<1>1. ToSet(s) = {s[i] : i \in 1..Len(s)} /\ DOMAIN s = 1..Len(s)
  BY Elements, LenProperties
<1>2. \A i \in DOMAIN s : s[i].vlan # v
  BY <1>1 DEF VlansIn
<1> QED BY <1>2 DEF Later, Fills

\* One that has nothing to run owes nothing.
LEMMA NothingDue ==
  /\ Sound(<< >>, {}) /\ Guarded(<< >>)
  /\ \A dos, v : ~ Later(<< >>, 0, dos, v)
  /\ \A dos, subs, v : ~ Fills(<< >>, 0, v, dos, subs)
<1>1. \A i \in DOMAIN << >> : FALSE
  OBVIOUS
<1> QED BY <1>1 DEF Sound, Guarded, Later, Fills

LEMMA SoundMono ==
  ASSUME NEW s, NEW d, NEW e, d \subseteq e, Sound(s, d)
  PROVE  Sound(s, e)
BY DEF Sound, Kept

LEMMA IdleType == Idle \in Jobs /\ Idle.todo = << >>
BY DEF Idle, Jobs

\* The place a handler goes on at when a try that it shares among commands is over.
LEMMA AfterTry ==
  ASSUME NEW s \in Seq(Commands), Guarded(s), s # << >>, s[1].catch = "try",
         NEW a, a = SelectInSeq(s, LAMBDA c : c.catch # "try")
  PROVE  /\ a \in Nat /\ a > 1 /\ a <= Len(s)
         /\ \A i \in DOMAIN s : i < a => s[i].vlan = s[1].vlan /\ s[i].catch = "try"
         /\ \A i \in DOMAIN s : i >= a => s[i].catch # "try"
<1>1. Len(s) \in Nat /\ DOMAIN s = 1..Len(s) /\ 1 \in DOMAIN s
  BY TailOf
<1>2. PICK p \in Nat : /\ p = 0 \/ p < Len(s)
                       /\ \A i \in DOMAIN s : /\ i <= p => s[i].catch = "try" /\ s[i].vlan = s[1].vlan
                                              /\ i > p => s[i].catch # "try"
  BY DEF Guarded
<1> DEFINE I == {i \in 1..Len(s) : s[i].catch # "try"}
<1>3. p > 0 /\ p < Len(s) /\ p + 1 \in I
  BY <1>1, <1>2
<1>4. I \in SUBSET Nat /\ I # {}
  BY <1>1, <1>3
<1>5. a = Min(I)
  BY <1>4 DEF SelectInSeq
<1>6. \A i \in I : i \in DOMAIN s /\ s[i].catch # "try"
  BY <1>1
<1>7. \A i \in DOMAIN s : s[i].catch # "try" => i \in I
  BY <1>1
<1> HIDE DEF I
<1>8. a \in I /\ \A i \in I : a <= i
  BY <1>4, <1>5, FirstPosition
<1>9. a \in Nat /\ a > p /\ a <= Len(s)
  BY <1>1, <1>2, <1>6, <1>8
<1>10. \A i \in DOMAIN s : i < a => i <= p
  <2>1. ASSUME NEW i \in DOMAIN s, i < a, i > p
        PROVE  FALSE
    <3>1. i \in I
      BY <1>2, <1>7, <2>1
    <3> QED BY <1>1, <1>8, <1>9, <2>1, <3>1
  <2> QED BY <1>1, <2>1
<1> QED BY <1>1, <1>2, <1>3, <1>9, <1>10

\* From there on, it runs what it would have run.
LEMMA RestPlaced ==
  ASSUME NEW s \in Seq(Commands), NEW a \in Nat, a > 1, a <= Len(s),
         NEW r, r = SubSeq(s, a, Len(s))
  PROVE  /\ r \in Seq(Commands) /\ Placed(s, a - 1, r, 1 - a)
         /\ \A i \in DOMAIN r : /\ i \in Nat /\ i > 0
                                /\ i + (a - 1) \in DOMAIN s /\ r[i] = s[i + (a - 1)]
<1>1. /\ Len(s) \in Nat /\ DOMAIN s = 1..Len(s)
      /\ \A i \in 1..Len(s) : s[i] \in Commands
  BY LenProperties, ElementOfSeq
<1>2. /\ r \in Seq(Commands)
      /\ Len(r) = Len(s) - a + 1
      /\ \A i \in 1..(Len(s) - a + 1) : r[i] = s[a + i - 1]
  <2>1. \A i \in a..Len(s) : s[i] \in Commands
    BY <1>1
  <2> QED BY <1>1, <2>1, SubSeqProperties
<1>3. DOMAIN r = 1..(Len(s) - a + 1)
  BY <1>2, LenProperties
<1>4. ASSUME NEW j \in DOMAIN s, j > a - 1
      PROVE  j + (1 - a) \in DOMAIN r /\ r[j + (1 - a)] = s[j]
  <2>1. j \in Nat /\ j + (1 - a) \in 1..(Len(s) - a + 1)
    BY <1>1, <1>4
  <2>2. PICK i : i = j + (1 - a)
    OBVIOUS
  <2>3. i \in 1..(Len(s) - a + 1) /\ a + i - 1 = j
    BY <2>1, <2>2
  <2>4. r[i] = s[j]
    BY <1>2, <2>3
  <2> QED BY <1>3, <2>2, <2>3, <2>4
<1>5. ASSUME NEW i \in DOMAIN r
      PROVE  /\ i \in Nat /\ i > 0
             /\ i + (a - 1) \in DOMAIN s /\ r[i] = s[i + (a - 1)]
  <2>1. PICK n \in Nat : n = Len(s) /\ a <= n
    BY <1>1
  <2>2. i \in 1..(n - a + 1)
    BY <1>3, <2>1
  <2>3. i \in Nat /\ i > 0 /\ i + (a - 1) \in 1..n /\ a + i - 1 = i + (a - 1)
    <3>1. \A x, y, z \in Nat : y > 1 /\ y <= z /\ x \in 1..(z - y + 1) =>
            /\ x > 0 /\ x + (y - 1) \in 1..z /\ y + x - 1 = x + (y - 1)
      OBVIOUS
    <3>2. i \in Nat
      BY <2>1, <2>2
    <3> QED BY <2>1, <2>2, <3>1, <3>2
  <2>4. r[i] = s[a + i - 1]
    BY <1>2, <1>3
  <2> QED BY <1>1, <2>1, <2>3, <2>4
<1> QED BY <1>2, <1>4, <1>5 DEF Placed

LEMMA FailKeeps ==
  ASSUME BridgesInv, NEW t \in Threads, Fail(t)
  PROVE  BridgesInv'
<1> DEFINE c == Cur(t)
           s == job[t].todo
           a == SelectInSeq(s, LAMBDA x : x.catch # "try")
           j == CASE c.catch = "no" -> Idle
                  [] c.catch = "yes" -> [job[t] EXCEPT !.todo = Tail(s)]
                  [] c.catch = "try" -> [job[t] EXCEPT !.todo = SubSeq(s, a, Len(s))]
<1>1. /\ s # << >> /\ Impossible(c)
      /\ job' = [job EXCEPT ![t] = CASE c.catch = "no" -> Idle
                  [] c.catch = "yes" -> [@ EXCEPT !.todo = Tail(s)]
                  [] c.catch = "try" -> [@ EXCEPT !.todo = SubSeq(s, a, Len(s))]]
      /\ dirty' = CASE c.catch = "no" -> dirty \cup VlansIn(s)
                    [] c.catch = "yes" -> dirty
                    [] c.catch = "try" -> dirty \cup {c.vlan}
      /\ UNCHANGED <<kernel, goal, settled, crashes>>
  BY DEF Fail
<1>2. Typed /\ AllSound /\ Served /\ KernelOK /\ HistoryOK /\ job \in [Threads -> Jobs]
  BY TypedParts DEF BridgesInv
<1>3. c = s[1] /\ c \in Commands /\ s \in Seq(Commands) /\ job[t] \in Jobs
  BY <1>1, <1>2, Current
<1>4. c.catch \in {"no", "yes", "try"} /\ Sound(s, dirty) /\ Guarded(s)
  BY <1>2, <1>3 DEF Commands, AllSound
<1>5. job' = [job EXCEPT ![t] = j]
  BY <1>1, <1>2
<1>6. job'[t] = j /\ Alone(t)
  <2> HIDE DEF j
  <2>1. job'[t] = j /\ \A o \in Threads \ {t} : job'[o] = job[o]
    BY <1>2, <1>5
  <2> QED BY <2>1 DEF Alone
<1>7. ASSUME j \in Jobs
      PROVE  job' \in [Threads -> Jobs]
  <2> HIDE DEF j
  <2> QED BY <1>2, <1>5, <1>7
<1>8. CASE c.catch = "no"
  <2>1. j = Idle /\ dirty' = dirty \cup VlansIn(s)
    BY <1>1, <1>8
  <2> HIDE DEF j, s
  <2>2. job' \in [Threads -> Jobs] /\ job'[t].todo = << >>
    BY <1>6, <1>7, <2>1, IdleType
  <2>3. HistoryOK' /\ dirty \subseteq dirty'
    BY <1>1, <1>2, <2>1 DEF HistoryOK, VlansIn
  <2>4. Typed'
    BY <1>1, <1>2, <2>2, <2>3, AskedTyped
  <2>5. Sound(<< >>, dirty') /\ Guarded(<< >>)
    BY NothingDue DEF Sound, Kept
  <2>6. AllSound'
    BY <1>2, <1>6, <2>2, <2>3, <2>5, SoundAlone
  <2>7. \A v \in Vlans \ dirty' : /\ \A dos : ~ Later(s, 0, dos, v)
                                  /\ \A dos : ~ Fills(s, 0, v, dos, Subs)
    BY <1>3, <2>1, VlanListed
  <2>8. Served'
    BY <1>1, <1>6, <2>3, <2>7, ServedAlone DEF s
  <2> QED BY <2>4, <2>6, <2>8 DEF BridgesInv
<1>9. CASE c.catch = "yes"
  <2>1. j = [job[t] EXCEPT !.todo = Tail(s)] /\ dirty' = dirty
    BY <1>1, <1>9
  <2>2. Tail(s) \in Seq(Commands) /\ << >> \o Tail(s) = Tail(s) /\ << >> \in Seq(Commands)
    <3> HIDE DEF s
    <3>1. Tail(s) \in Seq(Commands)
      BY <1>1, <1>3, TailOf
    <3> QED BY <3>1, ConcatEmptySeq
  <2> HIDE DEF j
  <2>3. j \in Jobs /\ j.todo = Tail(s)
    BY <1>3, <2>1, <2>2 DEF Jobs
  <2>4. job' \in [Threads -> Jobs] /\ Advances(t, << >>)
    BY <1>1, <1>3, <1>6, <1>7, <2>2, <2>3 DEF Advances, Alone
  <2>5. HistoryOK'
    BY <1>1, <1>2, <2>1 DEF HistoryOK
  <2>6. Typed'
    BY <1>1, <1>2, <2>4, <2>5, AskedTyped
  <2>7. AllSound'
    BY <1>2, <2>1, <2>4, SoundProceeds
  <2>8. c.do \notin Bare
    BY <1>3, <1>9 DEF Commands
  <2>9. bridge' = bridge /\ Subs' = Subs
    BY <1>1 DEF kernel, Subs
  <2>10. ASSUME NEW w \in Vlans \ dirty', bridge'[w] # "absent"
         PROVE  (bridge'[w] = "down" => Raised(w)') /\ (Empty(w)' => Filled(w)')
    <3>1. (bridge[w] = "down" => Raised(w)) /\ (Empty(w) => Filled(w))
      BY <1>2, <2>1, <2>9, <2>10 DEF Served
    <3>2. Empty(w)' <=> Empty(w)
      BY <1>1 DEF kernel, Empty, Member
    <3>3. c.vlan = w => c.do \notin {"up", "delete"}
      BY <1>1, <2>8, <2>9, <2>10 DEF Impossible, Bare
    <3>4. Raised(w) => Raised(w)'
      BY <1>3, <2>4, <3>3, RaisedStays
    <3>5. ASSUME Empty(w), c.vlan = w
          PROVE  /\ c.do = "addsub" => <<c.nic, w>> \notin Subs
                 /\ c.do \in {"link", "linkGvrp"} => <<c.nic, w>> \in Subs'
      <4>1. c.do \in {"addsub", "link", "linkGvrp"} => c.nic \in Nics
        BY <1>3 DEF Commands
      <4>2. c.nic \in Nics => sub[<<c.nic, w>>] # "member" /\ sub[<<c.nic, w>>] \in {"absent", "free", "member"}
        BY <1>2, <2>10, <3>5 DEF Empty, Member, KernelOK
      <4>3. c.do = "addsub" => sub[<<c.nic, w>>] # "free"
        BY <1>1, <2>9, <2>10, <3>5 DEF Impossible
      <4>4. c.do \in {"link", "linkGvrp"} => sub[<<c.nic, w>>] # "absent"
        BY <1>1, <2>9, <2>10, <3>5 DEF Impossible
      <4>5. c.do = "addsub" => <<c.nic, w>> \notin Subs
        BY <4>1, <4>2, <4>3 DEF Subs
      <4>6. c.do \in {"link", "linkGvrp"} => <<c.nic, w>> \in Subs
        BY <2>10, <4>1, <4>4 DEF Subs
      <4> QED BY <2>9, <4>5, <4>6
    <3>6. Empty(w) /\ Filled(w) => Filled(w)'
      <4>1. c.do \notin {"addif", "tidy", "delete"}
        BY <2>8 DEF Bare
      <4> QED BY <1>3, <2>4, <2>9, <3>5, <4>1, FilledStays
    <3> QED BY <2>9, <3>1, <3>2, <3>4, <3>6
  <2>11. Served'
    BY <2>10 DEF Served
  <2> QED BY <2>6, <2>7, <2>11 DEF BridgesInv
<1>10. CASE c.catch = "try"
  <2> DEFINE r == SubSeq(s, a, Len(s))
  <2>1. j = [job[t] EXCEPT !.todo = r] /\ dirty' = dirty \cup {c.vlan}
    BY <1>1, <1>10
  <2>2. /\ a \in Nat /\ a > 1 /\ a <= Len(s)
        /\ \A i \in DOMAIN s : i < a => s[i].vlan = s[1].vlan
        /\ \A i \in DOMAIN s : i >= a => s[i].catch # "try"
    <3> HIDE DEF s
    <3> QED BY <1>1, <1>3, <1>4, <1>10, AfterTry
  <2> HIDE DEF a, s
  <2>3. /\ r \in Seq(Commands) /\ Placed(s, a - 1, r, 1 - a)
        /\ \A i \in DOMAIN r : /\ i \in Nat /\ i > 0
                               /\ i + (a - 1) \in DOMAIN s /\ r[i] = s[i + (a - 1)]
    BY <1>3, <2>2, RestPlaced
  <2>4. DOMAIN s \in SUBSET Nat /\ a - 1 \in Nat /\ 1 - a \in Int /\ 0 <= (a - 1) + (1 - a)
    <3>1. DOMAIN s \in SUBSET Nat
      BY <1>3, LenProperties
    <3> QED BY <2>2, <3>1
  <2> HIDE DEF r, j
  <2>5. j \in Jobs /\ j.todo = r
    BY <1>3, <2>1, <2>3 DEF Jobs
  <2>6. job' \in [Threads -> Jobs] /\ job'[t].todo = r
    BY <1>6, <1>7, <2>5
  <2>7. c.vlan \in Vlans
    <3>1. c.do \notin {"nicUp", "nicDown", "clear"}
      BY <1>1 DEF Impossible
    <3> QED BY <1>3, <3>1 DEF Commands
  <2>8. HistoryOK' /\ dirty \subseteq dirty'
    BY <1>1, <1>2, <2>1, <2>7 DEF HistoryOK
  <2>9. Typed'
    BY <1>1, <1>2, <2>6, <2>8, AskedTyped
  <2>10. Sound(r, dirty')
    <3>1. ASSUME NEW i \in DOMAIN r
          PROVE  Kept(r, i, dirty')
      <4>1. PICK l : l = i + (a - 1)
        OBVIOUS
      <4>2. l \in DOMAIN s /\ l > a - 1 /\ l + (1 - a) = i
        BY <2>2, <2>3, <4>1
      <4>3. Kept(s, l, dirty)
        BY <1>4, <4>2 DEF Sound
      <4>4. Kept(r, l + (1 - a), dirty')
        BY <2>3, <2>4, <2>8, <4>2, <4>3, KeptMoves
      <4> QED BY <4>2, <4>4
    <3> QED BY <3>1 DEF Sound
  <2>11. Guarded(r)
    <3>1. \A i \in DOMAIN r : ~ (i <= 0) /\ i + (a - 1) >= a
      BY <2>2, <2>3
    <3>2. \A i \in DOMAIN r : r[i].catch # "try"
      BY <2>2, <2>3, <3>1
    <3> QED BY <3>1, <3>2 DEF Guarded
  <2>12. AllSound'
    BY <1>2, <1>6, <2>6, <2>8, <2>10, <2>11, SoundAlone
  <2>13. ASSUME NEW v \in Vlans \ dirty'
         PROVE  \A i \in DOMAIN s : s[i].vlan = v => i > a - 1
    <3>1. v # s[1].vlan
      BY <1>3, <2>1, <2>13
    <3> QED BY <2>2, <2>4, <3>1
  <2>14. ASSUME NEW v \in Vlans \ dirty', NEW dos, Later(s, 0, dos, v)
         PROVE  Later(r, 0, dos, v)
    <3>1. Later(s, a - 1, dos, v)
      BY <2>13, <2>14 DEF Later
    <3>2. \A l \in Nat : l >= l
      OBVIOUS
    <3> QED BY <2>3, <2>4, <3>1, <3>2, LaterMoves
  <2>15. ASSUME NEW v \in Vlans \ dirty', NEW dos, Fills(s, 0, v, dos, Subs)
         PROVE  Fills(r, 0, v, dos, Subs)
    <3>1. \A i \in DOMAIN s : s[i].vlan = v /\ Linked(s, 0, i) => Linked(s, a - 1, i)
      BY <2>13 DEF Linked
    <3>2. Fills(s, a - 1, v, dos, Subs)
      BY <2>13, <2>15, <3>1 DEF Fills
    <3>3. \A l \in Nat : l >= l
      OBVIOUS
    <3> QED BY <2>3, <2>4, <3>2, <3>3, FillsMoves
  <2>16. Served'
    BY <1>1, <1>6, <2>6, <2>8, <2>14, <2>15, ServedAlone DEF s
  <2> QED BY <2>9, <2>12, <2>16 DEF BridgesInv
<1> QED BY <1>4, <1>8, <1>9, <1>10

\* A handler that had nothing left to run is given commands, or none.
LEMMA StartKeeps ==
  ASSUME BridgesInv, NEW t \in Threads, job[t].todo = << >>, job' \in [Threads -> Jobs],
         job'[t].todo \in Plain, Alone(t), UNCHANGED <<kernel, dirty>>, HistoryOK'
  PROVE  BridgesInv'
<1>1. Typed /\ AllSound
  BY DEF BridgesInv
<1>2. Typed'
  BY <1>1, AskedTyped
<1>3. PICK r : r = job'[t].todo
  OBVIOUS
<1>4. Sound(r, dirty') /\ Guarded(r)
  <2>1. r \in Seq(Commands) /\ Sound(r, {}) /\ \A i \in DOMAIN r : r[i].catch # "try"
    BY <1>3 DEF Plain
  <2>2. \A i \in DOMAIN r : ~ (i <= 0)
    BY <2>1, LenProperties
  <2>3. Guarded(r)
    BY <2>1, <2>2 DEF Guarded
  <2>4. Sound(r, dirty')
    BY <2>1, SoundMono
  <2> QED BY <2>3, <2>4
<1>5. AllSound'
  BY <1>1, <1>3, <1>4, SoundAlone
<1>6. Served'
  BY NothingDue, ServedAlone
<1> QED BY <1>2, <1>5, <1>6 DEF BridgesInv

LEMMA ReturnKeeps ==
  ASSUME BridgesInv, NEW t \in Threads, Return(t)
  PROVE  BridgesInv'
<1>1. /\ job[t].todo = << >> /\ job' = [job EXCEPT ![t] = Idle]
      /\ settled' = settled \cup {n \in job[t].sound \ Orphaned : goal[n] # Anything}
      /\ UNCHANGED <<kernel, goal, dirty, crashes>>
  BY DEF Return
<1>2. HistoryOK /\ job[t].sound \in SUBSET Nics
  BY TypedParts DEF BridgesInv, Typed, Jobs
<1>3. HistoryOK'
  BY <1>1, <1>2 DEF HistoryOK
<1>4. Idle \in Jobs /\ Idle.todo \in Plain
  BY IdleType, PlainNone
<1>5. job' \in [Threads -> Jobs] /\ job'[t] = Idle /\ Alone(t)
  <2>1. job \in [Threads -> Jobs]
    BY DEF BridgesInv, Typed
  <2> QED BY <1>1, <1>4, <2>1 DEF Alone
<1> QED BY <1>1, <1>3, <1>4, <1>5, StartKeeps

\* The ports and VLANs a call works on.
LEMMA TouchesType ==
  ASSUME NEW c \in Forms
  PROVE  Touches(c) \in SUBSET (Nics \cup Vlans)
<1>1. CASE c.op = "edit"
  <2>1. c.nic \in Nics /\ c.vlans \in Seq(Vlans)
    BY <1>1 DEF Forms
  <2>2. ToSet(c.vlans) \in SUBSET Vlans
    BY <2>1, Elements
  <2> QED BY <1>1, <2>1, <2>2 DEF Touches
<1>2. CASE c.op = "address"
  BY <1>2 DEF Forms, Touches
<1>3. CASE c.op = "frame"
  <2>1. c.adds \in Seq(Vlans) /\ c.removes \in Seq(Vlans)
    BY <1>3 DEF Forms
  <2>2. ToSet(c.adds) \in SUBSET Vlans /\ ToSet(c.removes) \in SUBSET Vlans
    BY <2>1, Elements
  <2> QED BY <1>3, <2>2 DEF Touches
<1> QED BY <1>1, <1>2, <1>3 DEF Forms

\* A handler begins: those it overlaps keep their commands, but not their promises.
LEMMA Entered ==
  ASSUME job \in [Threads -> Jobs], NEW t \in Threads, NEW c \in Forms, NEW j \in Jobs,
         Enter(t, c, j)
  PROVE  /\ job' \in [Threads -> Jobs] /\ Alone(t)
         /\ job'[t].todo = j.todo /\ job'[t].on = j.on /\ job'[t].tagged = j.tagged
         /\ \A o \in Threads \ {t} :
              /\ job'[o].op = job[o].op /\ job'[o].on = job[o].on
              /\ job'[o].tagged = job[o].tagged /\ job'[o].seen = job[o].seen
<1> DEFINE near == {o \in Threads : job[o].uses \cap Touches(c) # {}}
           uses == Touches(c) \cup UNION {job[o].uses : o \in near}
<1>1. job' = [o \in Threads |->
                IF o = t THEN [j EXCEPT !.uses = uses, !.sound = IF near = {} THEN @ ELSE {}]
                ELSE IF o \in near THEN [job[o] EXCEPT !.uses = uses, !.sound = {}]
                ELSE job[o]]
  BY DEF Enter
<1>2. uses \in SUBSET (Nics \cup Vlans)
  <2>1. \A o \in Threads : job[o].uses \in SUBSET (Nics \cup Vlans)
    BY DEF Jobs
  <2> QED BY <2>1, TouchesType
<1> HIDE DEF near, uses
<1>3. job'[t] = [j EXCEPT !.uses = uses, !.sound = IF near = {} THEN @ ELSE {}]
  BY <1>1
<1>4. job'[t] \in Jobs /\ job'[t].todo = j.todo /\ job'[t].on = j.on /\ job'[t].tagged = j.tagged
  <2>1. CASE near = {}
    BY <1>2, <1>3, <2>1 DEF Jobs
  <2>2. CASE near # {}
    BY <1>2, <1>3, <2>2 DEF Jobs
  <2> QED BY <2>1, <2>2
<1>5. ASSUME NEW o \in Threads \ {t}
      PROVE  /\ job'[o] \in Jobs /\ job'[o].todo = job[o].todo
             /\ job'[o].op = job[o].op /\ job'[o].on = job[o].on
             /\ job'[o].tagged = job[o].tagged /\ job'[o].seen = job[o].seen
  <2>1. job[o] \in Jobs
    OBVIOUS
  <2>2. CASE o \in near
    <3>1. job'[o] = [job[o] EXCEPT !.uses = uses, !.sound = {}]
      BY <1>1, <2>2
    <3> QED BY <1>2, <2>1, <3>1 DEF Jobs
  <2>3. CASE o \notin near
    BY <1>1, <2>1, <2>3
  <2> QED BY <2>2, <2>3
<1>6. job' \in [Threads -> Jobs]
  BY <1>1, <1>4, <1>5
<1> QED BY <1>4, <1>5, <1>6 DEF Alone

LEMMA EditKeeps ==
  ASSUME BridgesInv, NEW t \in Threads, NEW c \in Forms, Edit(t, c)
  PROVE  BridgesInv'
<1> DEFINE j == [op |-> "edit", todo |-> EditProg(c), tagged |-> c.tagged,
                 gvrp |-> c.gvrp, seen |-> {}, on |-> {c.nic},
                 sound |-> {c.nic} \ Orphaned, uses |-> {}]
<1>1. /\ job[t] = Idle /\ c.op = "edit" /\ Enter(t, c, j)
      /\ settled' = settled \ {c.nic} /\ UNCHANGED <<kernel, dirty, crashes>>
  BY DEF Edit, MayStart, Claim
<1>2. c.nic \in Nics /\ c.tagged \in BOOLEAN /\ c.gvrp \in BOOLEAN
  BY <1>1 DEF Forms
<1>3. EditProg(c) \in Plain /\ EditProg(c) \in Seq(Commands)
  BY <1>1, EditPlain DEF Plain
<1>4. j \in Jobs /\ j.todo \in Plain
  BY <1>2, <1>3 DEF Jobs
<1>5. HistoryOK' /\ job \in [Threads -> Jobs]
  BY <1>1, TypedParts DEF BridgesInv, HistoryOK
<1> HIDE DEF j
<1>6. job' \in [Threads -> Jobs] /\ Alone(t) /\ job'[t].todo = j.todo
  BY <1>1, <1>4, <1>5, Entered
<1> QED BY <1>1, <1>4, <1>5, <1>6, IdleType, StartKeeps

LEMMA EditBridgeKeeps ==
  ASSUME BridgesInv, NEW t \in Threads, NEW c \in Forms, EditBridge(t, c)
  PROVE  BridgesInv'
<1> DEFINE on == {n \in Nics : Member(n, c.vlan)}
           prog == AddressProg(c, SetToSeq(on))
           j == [Idle EXCEPT !.op = "address", !.todo = prog]
<1>1. /\ job[t] = Idle /\ c.op = "address" /\ Enter(t, c, j)
      /\ UNCHANGED <<kernel, history, crashes>>
  BY DEF EditBridge, MayStart
<1>2. SetToSeq(on) \in Seq(Nics)
  <2>1. on \in SUBSET Nics
    OBVIOUS
  <2> HIDE DEF on
  <2>2. IsFiniteSet(on)
    BY <2>1, VlanAssumption, FS_Subset
  <2> QED BY <2>1, <2>2, ListedSet
<1> HIDE DEF on
<1>3. prog \in Plain /\ prog \in Seq(Commands)
  BY <1>1, <1>2, AddressPlain DEF Plain
<1> HIDE DEF prog
<1>4. j \in Jobs /\ j.todo \in Plain
  BY <1>3 DEF Jobs, Idle
<1>5. HistoryOK' /\ UNCHANGED <<kernel, dirty>> /\ job \in [Threads -> Jobs]
  BY <1>1, TypedParts DEF BridgesInv, HistoryOK, history
<1> HIDE DEF j
<1>6. job' \in [Threads -> Jobs] /\ Alone(t) /\ job'[t].todo = j.todo
  BY <1>1, <1>4, <1>5, Entered
<1> QED BY <1>1, <1>4, <1>5, <1>6, IdleType, StartKeeps

LEMMA AnalyseFrameKeeps ==
  ASSUME BridgesInv, NEW t \in Threads, NEW c \in Forms, AnalyseFrame(t, c)
  PROVE  BridgesInv'
<1> DEFINE on == {n \in Nics : GVRPEnabled(n)}
<1>1. /\ job[t] = Idle /\ c.op = "frame" /\ settled' = settled \ on
      /\ UNCHANGED <<kernel, dirty, crashes>>
  BY DEF AnalyseFrame, MayStart, Claim
<1>2. PICK had \in [on -> UNION {LinesOf(n) : n \in on}] :
        /\ \A n \in on : had[n] \in LinesOf(n)
        /\ Enter(t, c, [Idle EXCEPT !.op = "frame", !.on = on, !.sound = on \cap settled,
                                   !.todo = FrameProg(c, SetToSeq(on), had)])
  BY DEF AnalyseFrame
<1> DEFINE prog == FrameProg(c, SetToSeq(on), had)
           j == [Idle EXCEPT !.op = "frame", !.on = on, !.sound = on \cap settled, !.todo = prog]
<1>3. Enter(t, c, j)
  BY <1>2
<1>4. on \in SUBSET Nics
  OBVIOUS
<1> HIDE DEF on
<1>5. SetToSeq(on) \in Seq(on)
  <2>1. IsFiniteSet(on)
    BY <1>4, VlanAssumption, FS_Subset
  <2> QED BY <2>1, Listed
<1>6. had \in [on -> Seq(Vlans)]
  <2>1. KernelOK
    BY TypedParts DEF BridgesInv
  <2>2. \A n \in on : had[n] \in Seq(Vlans)
    BY <1>2, <1>4, <2>1, LinesType
  <2> QED BY <1>2, <2>2
<1>7. prog \in Plain /\ prog \in Seq(Commands)
  BY <1>1, <1>4, <1>5, <1>6, FramePlain DEF Plain
<1> HIDE DEF prog
<1>8. j \in Jobs /\ j.todo \in Plain
  BY <1>4, <1>7 DEF Jobs, Idle
<1>9. HistoryOK' /\ job \in [Threads -> Jobs]
  BY <1>1, TypedParts DEF BridgesInv, HistoryOK
<1> HIDE DEF j
<1>10. job' \in [Threads -> Jobs] /\ Alone(t) /\ job'[t].todo = j.todo
  BY <1>3, <1>8, <1>9, Entered
<1> QED BY <1>1, <1>8, <1>9, <1>10, IdleType, StartKeeps

LEMMA CrashKeeps ==
  ASSUME BridgesInv, Crash
  PROVE  BridgesInv'
<1>1. /\ crashes < MaxCrashes /\ crashes' = crashes + 1
      /\ job' = [t \in Threads |-> Idle]
      /\ dirty' = dirty \cup UNION {VlansIn(job[t].todo) : t \in Threads}
      /\ UNCHANGED <<kernel, settled>>
  BY DEF Crash
<1>2. Typed /\ Served /\ HistoryOK /\ job \in [Threads -> Jobs]
  BY TypedParts DEF BridgesInv
<1>3. job' \in [Threads -> Jobs] /\ \A t \in Threads : job'[t].todo = << >>
  BY <1>1, IdleType
<1>4. HistoryOK'
  <2>1. crashes' \in 0..MaxCrashes
    BY <1>1, <1>2, VlanAssumption DEF HistoryOK
  <2> QED BY <1>1, <1>2, <2>1 DEF HistoryOK, VlansIn
<1>5. Typed'
  BY <1>1, <1>2, <1>3, <1>4, AskedTyped
<1>6. AllSound'
  <2>1. Sound(<< >>, dirty') /\ Guarded(<< >>)
    BY NothingDue DEF Sound, Kept
  <2> QED BY <1>3, <2>1 DEF AllSound
<1>7. ASSUME NEW v \in Vlans \ dirty', bridge'[v] # "absent"
      PROVE  (bridge'[v] = "down" => Raised(v)') /\ (Empty(v)' => Filled(v)')
  <2>1. bridge' = bridge /\ (Empty(v)' <=> Empty(v))
    BY <1>1 DEF kernel, Empty, Member
  <2>2. (bridge[v] = "down" => Raised(v)) /\ (Empty(v) => Filled(v))
    BY <1>1, <1>2, <1>7, <2>1 DEF Served
  <2>3. ASSUME NEW t \in Threads
        PROVE  /\ ~ Later(job[t].todo, 0, {"up", "delete"}, v)
               /\ ~ Fills(job[t].todo, 0, v, {"addif", "tidy", "delete"}, Subs)
    <3>1. job[t].todo \in Seq(Commands)
      BY <1>2 DEF Jobs
    <3>2. v \notin VlansIn(job[t].todo)
      BY <1>1, <1>7
    <3> QED BY <1>7, <3>1, <3>2, VlanListed
  <2>4. ~ Raised(v) /\ ~ Filled(v)
    BY <2>3 DEF Raised, Filled
  <2> QED BY <2>1, <2>2, <2>4
<1>8. Served'
  BY <1>7 DEF Served
<1> QED BY <1>5, <1>6, <1>8 DEF BridgesInv

-----------------------------------------------------------------------------
\* The theorems.

LEMMA InitHolds == Init => BridgesInv
<1> SUFFICES ASSUME Init PROVE BridgesInv
  OBVIOUS
<1>1. job \in [Threads -> Jobs] /\ \A t \in Threads : job[t].todo = << >>
  BY IdleType DEF Init
<1>2. KernelOK
  <2>1. \A n \in Nics, v \in Vlans : ~ Member(n, v)
    BY VlanAssumption DEF Init, Member
  <2> QED BY <2>1 DEF Init, KernelOK
<1>3. HistoryOK
  BY VlanAssumption DEF Init, HistoryOK
<1>4. Typed
  BY <1>1, <1>2, <1>3, TypedParts
<1>5. AllSound
  <2>1. Sound(<< >>, dirty) /\ Guarded(<< >>)
    BY NothingDue DEF Sound, Kept
  <2> QED BY <1>1, <2>1 DEF AllSound
<1>6. Served
  BY DEF Init, Served
<1> QED BY <1>4, <1>5, <1>6 DEF BridgesInv

LEMMA StutterKeeps ==
  ASSUME BridgesInv, UNCHANGED vars
  PROVE  BridgesInv'
<1>1. UNCHANGED kernel /\ UNCHANGED <<job, goal, settled, dirty, crashes>>
  BY DEF vars, kernel
<1>2. Typed'
  <2>1. Typed /\ HistoryOK /\ job \in [Threads -> Jobs]
    BY TypedParts DEF BridgesInv
  <2>2. HistoryOK' /\ job' \in [Threads -> Jobs]
    BY <1>1, <2>1 DEF HistoryOK
  <2> QED BY <1>1, <2>1, <2>2, AskedTyped
<1>3. AllSound'
  BY <1>1 DEF BridgesInv, AllSound
<1>4. Served'
  BY <1>1 DEF BridgesInv, Served, kernel, Raised, Filled, Empty, Member, Subs
<1> QED BY <1>2, <1>3, <1>4 DEF BridgesInv

LEMMA NextKeeps ==
  ASSUME BridgesInv, [Next]_vars
  PROVE  BridgesInv'
<1>1. ASSUME NEW t \in Threads, NEW c \in Calls[t],
             Edit(t, c) \/ EditBridge(t, c) \/ AnalyseFrame(t, c)
      PROVE  BridgesInv'
  <2>1. c \in Forms
    BY VlanAssumption
  <2> QED BY <1>1, <2>1, EditKeeps, EditBridgeKeeps, AnalyseFrameKeeps
<1>2. ASSUME NEW t \in Threads,
             Return(t) \/ Fail(t) \/ SetPort(t) \/ AddBridge(t) \/ SetBridge(t) \/ DeleteBridge(t)
      PROVE  BridgesInv'
  BY <1>2, ReturnKeeps, FailKeeps, SetPortKeeps, AddBridgeKeeps, SetBridgeKeeps, DeleteBridgeKeeps
<1>3. ASSUME NEW t \in Threads,
             Enslave(t) \/ SetSub(t) \/ SetAddress(t) \/ Clear(t) \/ Reported(t) \/ Look(t)
      PROVE  BridgesInv'
  BY <1>3, EnslaveKeeps, SetSubKeeps, SetAddressKeeps, ClearKeeps, ReportedKeeps, LookKeeps
<1>4. ASSUME NEW t \in Threads, Tidy(t) \/ Probe(t) \/ HasVLAN(t) \/ Master(t)
      PROVE  BridgesInv'
  BY <1>4, TidyKeeps, ProbeKeeps, HasVLANKeeps, MasterKeeps
<1> QED BY <1>1, <1>2, <1>3, <1>4, CrashKeeps, StutterKeeps DEF Next

\* The inductive invariant holds whatever the handlers do, one at a time or all at once.
LEMMA BridgesInvariant == Spec => []BridgesInv
<1>1. Init => BridgesInv
  BY InitHolds
<1>2. BridgesInv /\ [Next]_vars => BridgesInv'
  BY NextKeeps
<1> QED BY <1>1, <1>2, PTL DEF Spec

\* The state of the switch is well typed, whichever handlers of EthernetServices and
\* FrameReader run at once, fail or die: a port is only ever a member of a bridge that
\* exists, for brctl addif wants the bridge and ip link delete releases its ports.
THEOREM TypeCorrect == Spec => []TypeOK
<1>1. BridgesInv => TypeOK
  BY DEF BridgesInv, Typed
<1> QED BY <1>1, BridgesInvariant, PTL

\* A VLAN no handler works on serves its ports: its bridge is up and has a port, unless
\* a handler died or failed in the VLAN or Apply moved a port out of it.  No lock is
\* needed for that: every handler pays by its own later commands what it takes from a
\* bridge, and the handlers that interleave with it can only pay earlier.
THEOREM BridgesAlwaysServe == Spec => []BridgesServe
<1>1. BridgesInv => BridgesServe
  <2>1. SUFFICES ASSUME BridgesInv, NEW v \in Vlans \ dirty,
                        \A t \in Threads : v \notin VlansIn(job[t].todo), bridge[v] # "absent"
                 PROVE  bridge[v] = "up" /\ ~Empty(v)
    BY DEF BridgesServe
  <2>2. (bridge[v] = "down" => Raised(v)) /\ (Empty(v) => Filled(v))
    BY <2>1 DEF BridgesInv, Served
  <2>3. KernelOK /\ job \in [Threads -> Jobs]
    BY <2>1, TypedParts DEF BridgesInv
  <2>4. ASSUME NEW t \in Threads
        PROVE  /\ ~ Later(job[t].todo, 0, {"up", "delete"}, v)
               /\ ~ Fills(job[t].todo, 0, v, {"addif", "tidy", "delete"}, Subs)
    <3>1. job[t].todo \in Seq(Commands) /\ v \notin VlansIn(job[t].todo)
      BY <2>1, <2>3 DEF Jobs
    <3> QED BY <2>1, <3>1, VlanListed
  <2>5. ~ Raised(v) /\ ~ Filled(v)
    BY <2>4 DEF Raised, Filled
  <2>6. bridge[v] \in {"absent", "down", "up"}
    BY <2>1, <2>3 DEF KernelOK
  <2> QED BY <2>1, <2>2, <2>5, <2>6
<1> QED BY <1>1, BridgesInvariant, PTL
=============================================================================
