------------------------- MODULE ForwardRulesProofs -------------------------
(***************************************************************************)
(* Proofs about ForwardRules, for any ports, requests and bounds: its      *)
(* type, its rules, and that it implements PrivateVlan.                    *)
(***************************************************************************)
EXTENDS ForwardRules, SequenceFacts

-----------------------------------------------------------------------------
\* What the ways to change the chain do to it.

\* RemoveFirst leaves a sequence without the element alone, and otherwise closes
\* the gap at one of the element's positions.
LEMMA RemoveFirstShape ==
  ASSUME NEW S, NEW s \in Seq(S), NEW e
  PROVE  /\ RemoveFirst(s, e) \in Seq(S)
         /\ \/ RemoveFirst(s, e) = s /\ \A j \in 1..Len(s) : s[j] # e
            \/ \E k \in 1..Len(s) :
                 /\ s[k] = e
                 /\ Len(RemoveFirst(s, e)) = Len(s) - 1
                 /\ \A j \in 1..(Len(s) - 1) :
                      RemoveFirst(s, e)[j] = IF j < k THEN s[j] ELSE s[j + 1]
<1>0. Len(s) \in Nat /\ DOMAIN s = 1..Len(s)
  BY LenProperties
<1>3. Len(s) \in Nat
  BY LenProperties
<1>1. CASE \A j \in 1..Len(s) : s[j] # e
  <2>1. RemoveFirst(s, e) = s
    BY <1>0, <1>1 DEF RemoveFirst
  <2> QED BY <2>1, <1>1
<1>2. CASE \E j \in 1..Len(s) : s[j] = e
  <2>1. RemoveFirst(s, e) = RemoveAt(s, SelectInSeq(s, LAMBDA v : v = e))
    BY <1>0, <1>2 DEF RemoveFirst
  <2>2. SelectInSeq(s, LAMBDA v : v = e) \in {i \in 1..Len(s) : s[i] = e}
    <3> DEFINE I == {i \in 1..Len(s) : s[i] = e}
    <3>1. SelectInSeq(s, LAMBDA v : v = e) = CHOOSE x \in I : \A y \in I : x <= y
      BY <1>0, <1>2 DEF SelectInSeq, Min
    <3>2. I \in SUBSET Nat /\ I # {}
      BY <1>0, <1>2
    <3> HIDE DEF I
    <3>3. \E x \in I : \A y \in I : x <= y
      BY <3>2, FirstPosition
    <3> QED BY <3>1, <3>3 DEF I
  <2>4. PICK k \in 1..Len(s) : s[k] = e /\ RemoveFirst(s, e) = RemoveAt(s, k)
    BY <2>1, <2>2
  <2> DEFINE a == SubSeq(s, 1, k - 1)
             b == SubSeq(s, k + 1, Len(s))
  <2>5. RemoveFirst(s, e) = a \o b
    BY <2>4 DEF RemoveAt
  <2>6. \A i \in 1..Len(s) : s[i] \in S
    BY ElementOfSeq
  <2>7. /\ a \in Seq(S)
        /\ Len(a) = k - 1
        /\ \A i \in 1..(k - 1) : a[i] = s[i]
    <3>1. \A i \in 1..(k - 1) : s[i] \in S
      BY <1>0, <2>4, <2>6
    <3>2. /\ a \in Seq(S)
          /\ Len(a) = IF 1 <= k - 1 THEN k - 1 - 1 + 1 ELSE 0
          /\ \A i \in 1..(k - 1 - 1 + 1) : a[i] = s[1 + i - 1]
      BY <1>0, <2>4, <3>1, SubSeqProperties
    <3> HIDE DEF a
    <3> QED BY <1>0, <2>4, <3>2
  <2>8. /\ b \in Seq(S)
        /\ Len(b) = Len(s) - k
        /\ \A i \in 1..(Len(s) - k) : b[i] = s[k + i]
    <3>1. \A i \in (k + 1)..Len(s) : s[i] \in S
      BY <1>0, <2>4, <2>6
    <3>2. /\ b \in Seq(S)
          /\ Len(b) = IF k + 1 <= Len(s) THEN Len(s) - (k + 1) + 1 ELSE 0
          /\ \A i \in 1..(Len(s) - (k + 1) + 1) : b[i] = s[k + 1 + i - 1]
      BY <1>0, <2>4, <3>1, SubSeqProperties
    <3> HIDE DEF b
    <3>0. Len(s) - (k + 1) + 1 = Len(s) - k
      BY <1>0, <2>4
    <3>3. Len(b) = Len(s) - k
      <4>1. CASE k + 1 <= Len(s)
        BY <1>0, <3>0, <3>2, <4>1
      <4>2. CASE ~(k + 1 <= Len(s))
        <5>1. Len(s) - k = 0
          BY <1>3, <4>2
        <5> QED BY <5>1, <3>2, <4>2
      <4> QED BY <4>1, <4>2
    <3>4. ASSUME NEW i \in 1..(Len(s) - k)
          PROVE  b[i] = s[k + i]
      <4>1. b[i] = s[k + 1 + i - 1]
        BY <1>0, <3>0, <3>2
      <4>2. k + 1 + i - 1 = k + i
        BY <1>0, <2>4
      <4> QED BY <4>1, <4>2
    <3> QED BY <3>2, <3>3, <3>4
  <2> HIDE DEF a, b
  <2>9. /\ a \o b \in Seq(S)
        /\ Len(a \o b) = Len(a) + Len(b)
        /\ \A i \in 1..(Len(a) + Len(b)) :
             (a \o b)[i] = IF i <= Len(a) THEN a[i] ELSE b[i - Len(a)]
    BY <2>7, <2>8, ConcatProperties
  <2>10. \A j \in 1..(Len(s) - 1) : (a \o b)[j] = IF j < k THEN s[j] ELSE s[j + 1]
    <3> TAKE j \in 1..(Len(s) - 1)
    <3>1. CASE j < k
      BY <1>0, <2>4, <2>7, <2>8, <2>9, <3>1
    <3>2. CASE ~(j < k)
      <4>1. j - (k - 1) \in 1..(Len(s) - k) /\ k + (j - (k - 1)) = j + 1
        BY <1>0, <2>4, <3>2
      <4>2. (a \o b)[j] = b[j - (k - 1)]
        BY <1>0, <2>4, <2>7, <2>8, <2>9, <3>2
      <4> QED BY <4>1, <4>2, <2>8, <3>2
    <3> QED BY <3>1, <3>2
  <2>11. Len(a \o b) = Len(s) - 1
    BY <1>0, <2>4, <2>7, <2>8, <2>9
  <2> QED BY <1>0, <2>4, <2>5, <2>9, <2>10, <2>11
<1> QED BY <1>1, <1>2

-----------------------------------------------------------------------------
\* The inductive invariant.

\* A sequence holds at most one copy of a rule.
Once(s, rule) == \A p, q \in 1..Len(s) : s[p] = rule /\ s[q] = rule => p = q

\* Two requests for one port have disturbed it.
Exclusive ==
  \A r, o \in Requests :
    r # o /\ req[r] # Idle /\ req[o] # Idle /\ req[r].nic = req[o].nic
      => req[r].nic \in disturbed

\* An undisturbed port has no rule twice, so one -D deletes it altogether.
OwnedOnce ==
  \A i \in Nics \ disturbed, n \in Nics :
    Once(chain, DropRule(i, n)) /\ Once(chain, AcceptRule(i, n))

\* The rules of port i about port n are those of type t.
Exact(i, n, t) == /\ Has(DropRule(i, n)) <=> t = "Isolated"
                  /\ Has(AcceptRule(i, n)) <=> t = "Promiscuous"

\* The ports a request has dealt with.
Visited(r) ==
  covers[req[r].nic] \ (req[r].todo \cup IF req[r].step = "drop" THEN {} ELSE {req[r].at})

\* A request adds a rule only where AfterAccept lets it.
RuleStep ==
  \A r \in Requests :
    req[r].step = "rule" => req[r].at # req[r].nic /\ req[r].type # "Off"

\* What a request has brought about so far, on a port it has to itself.
ProgressOf(r) ==
  req[r] # Idle /\ req[r].nic \notin disturbed =>
    /\ \A n \in Visited(r) \ {req[r].nic} : Exact(req[r].nic, n, req[r].type)
    /\ req[r].step # "drop" => ~Has(DropRule(req[r].nic, req[r].at))
    /\ req[r].step = "rule" => ~Has(AcceptRule(req[r].nic, req[r].at))

Progress == \A r \in Requests : ProgressOf(r)

IInv == /\ TypeOK
        /\ AcceptsFirst
        /\ Exclusive
        /\ OwnedOnce
        /\ RuleStep
        /\ Progress
        /\ RulesMatchType

-----------------------------------------------------------------------------
\* What each ebtables command does to the chain, in these terms.

LEMMA RuleFacts ==
  ASSUME NEW i \in Nics, NEW n \in Nics
  PROVE  /\ DropRule(i, n) \in Rule /\ DropRule(i, n).target = "DROP"
         /\ AcceptRule(i, n) \in Rule /\ AcceptRule(i, n).target = "ACCEPT"
         /\ \A j, m \in Nics :
              /\ DropRule(i, n) # AcceptRule(j, m)
              /\ DropRule(i, n) = DropRule(j, m) <=> i = j /\ n = m
              /\ AcceptRule(i, n) = AcceptRule(j, m) <=> i = j /\ n = m
BY DEF DropRule, AcceptRule, Rule

\* ebtables -D: the order of the others stays, and one copy is gone.
LEMMA DeleteEffect ==
  ASSUME chain \in Seq(Rule), NEW e, chain' = Delete(e)
  PROVE  /\ chain' \in Seq(Rule)
         /\ AcceptsFirst => AcceptsFirst'
         /\ \A x : Once(chain, x) => Once(chain', x)
         /\ ToSet(chain) \ {e} \subseteq ToSet(chain') /\ ToSet(chain') \subseteq ToSet(chain)
         /\ Once(chain, e) => e \notin ToSet(chain')
<1>1. /\ chain' \in Seq(Rule)
      /\ \/ chain' = chain /\ \A j \in 1..Len(chain) : chain[j] # e
         \/ \E k \in 1..Len(chain) :
              /\ chain[k] = e
              /\ Len(chain') = Len(chain) - 1
              /\ \A j \in 1..(Len(chain) - 1) :
                   chain'[j] = IF j < k THEN chain[j] ELSE chain[j + 1]
  BY RemoveFirstShape DEF Delete
<1>2. /\ Len(chain) \in Nat /\ Len(chain') \in Nat
      /\ DOMAIN chain = 1..Len(chain) /\ DOMAIN chain' = 1..Len(chain')
  BY <1>1, LenProperties
<1>3. CASE chain' = chain /\ \A j \in 1..Len(chain) : chain[j] # e
  BY <1>1, <1>2, <1>3 DEF AcceptsFirst, Once, ToSet
<1>4. ASSUME NEW k \in 1..Len(chain),
             chain[k] = e,
             Len(chain') = Len(chain) - 1,
             \A j \in 1..(Len(chain) - 1) :
               chain'[j] = IF j < k THEN chain[j] ELSE chain[j + 1]
      PROVE  /\ AcceptsFirst => AcceptsFirst'
             /\ \A x : Once(chain, x) => Once(chain', x)
             /\ ToSet(chain) \ {e} \subseteq ToSet(chain') /\ ToSet(chain') \subseteq ToSet(chain)
             /\ Once(chain, e) => e \notin ToSet(chain')
  <2>1. ASSUME AcceptsFirst,
               NEW p \in 1..(Len(chain) - 1), NEW q \in 1..(Len(chain) - 1),
               chain'[p].target = "DROP", chain'[q].target = "ACCEPT"
        PROVE  q < p
    <3>1. PICK a \in 1..Len(chain) :
            chain'[p] = chain[a] /\ a = IF p < k THEN p ELSE p + 1
      <4>1. p \in 1..Len(chain) /\ p + 1 \in 1..Len(chain)
        BY LenProperties
      <4> QED BY <1>4, <4>1
    <3>2. PICK b \in 1..Len(chain) :
            chain'[q] = chain[b] /\ b = IF q < k THEN q ELSE q + 1
      <4>1. q \in 1..Len(chain) /\ q + 1 \in 1..Len(chain)
        BY LenProperties
      <4> QED BY <1>4, <4>1
    <3>3. b < a
      BY <1>2, <2>1, <3>1, <3>2 DEF AcceptsFirst
    <3>4. p \in Int /\ q \in Int /\ k \in Int
      BY LenProperties
    <3> QED BY <3>1, <3>2, <3>3, <3>4
  <2>2. ASSUME NEW x, Once(chain, x)
        PROVE  Once(chain', x)
    BY <1>2, <1>4, <2>2 DEF Once
  <2>3. ASSUME NEW x, x # e
        PROVE  x \in ToSet(chain') <=> x \in ToSet(chain)
    <3>1. ASSUME x \in ToSet(chain)
          PROVE  x \in ToSet(chain')
      <4>1. PICK p \in 1..Len(chain) : chain[p] = x
        BY <1>2, <3>1 DEF ToSet
      <4>2. CASE p < k
        <5>1. p \in 1..(Len(chain) - 1)
          BY <4>2, LenProperties
        <5> QED BY <1>2, <1>4, <4>1, <4>2, <5>1 DEF ToSet
      <4>3. CASE k < p
        <5>1. p - 1 \in 1..(Len(chain) - 1) /\ ~(p - 1 < k) /\ p - 1 + 1 = p
          BY <4>3, LenProperties
        <5> QED BY <1>2, <1>4, <4>1, <5>1 DEF ToSet
      <4> QED BY <1>4, <2>3, <4>1, <4>2, <4>3
    <3>2. ASSUME x \in ToSet(chain')
          PROVE  x \in ToSet(chain)
      <4>1. PICK p \in 1..(Len(chain) - 1) : chain'[p] = x
        BY <1>2, <1>4, <3>2 DEF ToSet
      <4>2. p \in 1..Len(chain) /\ p + 1 \in 1..Len(chain)
        BY LenProperties
      <4> QED BY <1>2, <1>4, <4>1, <4>2 DEF ToSet
    <3> QED BY <3>1, <3>2
  <2>4. ASSUME Once(chain, e), e \in ToSet(chain')
        PROVE  FALSE
    <3>1. PICK p \in 1..(Len(chain) - 1) : chain'[p] = e
      BY <1>2, <1>4, <2>4 DEF ToSet
    <3>2. p \in 1..Len(chain) /\ p + 1 \in 1..Len(chain)
      BY LenProperties
    <3>3. CASE p < k
      <4>1. chain[p] = e /\ p # k
        BY <1>4, <3>1, <3>3
      <4> QED BY <1>4, <2>4, <3>2, <4>1 DEF Once
    <3>4. CASE ~(p < k)
      <4>1. chain[p + 1] = e /\ p + 1 # k
        BY <1>4, <3>1, <3>4
      <4> QED BY <1>4, <2>4, <3>2, <4>1 DEF Once
    <3> QED BY <3>3, <3>4
  <2>5. AcceptsFirst => AcceptsFirst'
    BY <1>2, <1>4, <2>1 DEF AcceptsFirst
  <2>6. e \in ToSet(chain)
    BY <1>2, <1>4 DEF ToSet
  <2> QED BY <2>2, <2>3, <2>4, <2>5, <2>6
<1> QED BY <1>1, <1>3, <1>4

\* ebtables -A with a DROP rule.
LEMMA AppendEffect ==
  ASSUME chain \in Seq(Rule), NEW e \in Rule, e.target = "DROP",
         chain' = AppendRule(e)
  PROVE  /\ chain' \in Seq(Rule)
         /\ AcceptsFirst => AcceptsFirst'
         /\ \A x : x # e /\ Once(chain, x) => Once(chain', x)
         /\ ToSet(chain') = ToSet(chain) \cup {e}
         /\ e \notin ToSet(chain) => Once(chain', e)
<1>1. /\ chain' \in Seq(Rule)
      /\ Len(chain') = Len(chain) + 1
      /\ \A p \in 1..Len(chain) : chain'[p] = chain[p]
      /\ chain'[Len(chain) + 1] = e
  BY AppendProperties DEF AppendRule
<1>2. /\ Len(chain) \in Nat
      /\ DOMAIN chain = 1..Len(chain) /\ DOMAIN chain' = 1..(Len(chain) + 1)
  BY <1>1, LenProperties
<1>3. AcceptsFirst => AcceptsFirst'
  BY <1>1, <1>2 DEF AcceptsFirst
<1>4. ASSUME NEW x, x # e
      PROVE  (x \in ToSet(chain') <=> x \in ToSet(chain)) /\ (Once(chain, x) => Once(chain', x))
  BY <1>1, <1>2, <1>4 DEF ToSet, Once
<1>5. e \in ToSet(chain')
  BY <1>1, <1>2 DEF ToSet
<1>6. e \notin ToSet(chain) => Once(chain', e)
  BY <1>1, <1>2 DEF ToSet, Once
<1> QED BY <1>1, <1>3, <1>4, <1>5, <1>6

\* ebtables -I with an ACCEPT rule.
LEMMA InsertEffect ==
  ASSUME chain \in Seq(Rule), NEW e \in Rule, e.target = "ACCEPT",
         chain' = InsertRule(e)
  PROVE  /\ chain' \in Seq(Rule)
         /\ AcceptsFirst => AcceptsFirst'
         /\ \A x : x # e /\ Once(chain, x) => Once(chain', x)
         /\ ToSet(chain') = ToSet(chain) \cup {e}
         /\ e \notin ToSet(chain) => Once(chain', e)
<1>1. /\ chain' \in Seq(Rule)
      /\ Len(chain') = Len(chain) + 1
      /\ \A p \in 1..(Len(chain) + 1) :
           chain'[p] = IF p = 1 THEN e ELSE chain[p - 1]
  <2>1. <<e>> \in Seq(Rule) /\ Len(<<e>>) = 1 /\ <<e>>[1] = e
    OBVIOUS
  <2>2. /\ <<e>> \o chain \in Seq(Rule)
        /\ Len(<<e>> \o chain) = 1 + Len(chain)
        /\ \A p \in 1..(1 + Len(chain)) :
             (<<e>> \o chain)[p] = IF p <= 1 THEN <<e>>[p] ELSE chain[p - 1]
    BY <2>1, ConcatProperties
  <2> QED BY <2>1, <2>2, LenProperties DEF InsertRule
<1>2. /\ Len(chain) \in Nat
      /\ DOMAIN chain = 1..Len(chain) /\ DOMAIN chain' = 1..(Len(chain) + 1)
  BY <1>1, LenProperties
<1>7. chain'[1] = e
  BY <1>1, <1>2
<1>8. \A p \in 2..(Len(chain) + 1) : p - 1 \in 1..Len(chain) /\ chain'[p] = chain[p - 1]
  BY <1>1, <1>2
<1>9. \A p \in 1..Len(chain) : p + 1 \in 2..(Len(chain) + 1) /\ chain'[p + 1] = chain[p]
  <2> TAKE p \in 1..Len(chain)
  <2>1. p + 1 \in 2..(Len(chain) + 1) /\ p + 1 - 1 = p
    BY LenProperties
  <2> QED BY <1>8, <2>1
<1>10. 1..(Len(chain) + 1) = {1} \cup 2..(Len(chain) + 1)
  BY LenProperties
<1>3. AcceptsFirst => AcceptsFirst'
  <2> SUFFICES ASSUME AcceptsFirst,
                      NEW p \in 1..(Len(chain) + 1), NEW q \in 1..(Len(chain) + 1),
                      chain'[p].target = "DROP", chain'[q].target = "ACCEPT"
               PROVE  q < p
    BY <1>2 DEF AcceptsFirst
  <2>1. p \in 2..(Len(chain) + 1)
    BY <1>7, <1>10
  <2>2. CASE q = 1
    BY <2>1, <2>2
  <2>3. CASE q \in 2..(Len(chain) + 1)
    <3>1. q - 1 < p - 1
      BY <1>2, <1>8, <2>1, <2>3 DEF AcceptsFirst
    <3> QED BY <2>1, <2>3, <3>1
  <2> QED BY <1>10, <2>2, <2>3
<1>4. ASSUME NEW x, x # e
      PROVE  (x \in ToSet(chain') <=> x \in ToSet(chain)) /\ (Once(chain, x) => Once(chain', x))
  <2>1. \A p \in 1..(Len(chain) + 1) : chain'[p] = x => p \in 2..(Len(chain) + 1)
    BY <1>4, <1>7, <1>10
  <2>2. x \in ToSet(chain') => x \in ToSet(chain)
    BY <1>2, <1>8, <2>1 DEF ToSet
  <2>3. x \in ToSet(chain) => x \in ToSet(chain')
    BY <1>2, <1>9, <1>10 DEF ToSet
  <2>4. ASSUME Once(chain, x),
               NEW p \in 1..(Len(chain) + 1), NEW q \in 1..(Len(chain) + 1),
               chain'[p] = x, chain'[q] = x
        PROVE  p = q
    <3>1. p \in 2..(Len(chain) + 1) /\ q \in 2..(Len(chain) + 1)
      BY <2>1, <2>4
    <3>2. p - 1 = q - 1
      BY <1>8, <2>4, <3>1 DEF Once
    <3> QED BY <3>1, <3>2
  <2>5. Once(chain, x) => Once(chain', x)
    BY <1>1, <2>4 DEF Once
  <2> QED BY <2>2, <2>3, <2>5
<1>5. e \in ToSet(chain')
  BY <1>1, <1>2 DEF ToSet
<1>6. e \notin ToSet(chain) => Once(chain', e)
  <2> SUFFICES ASSUME e \notin ToSet(chain), NEW p \in 1..(Len(chain) + 1), chain'[p] = e
               PROVE  p = 1
    BY <1>1 DEF Once
  <2>1. p \notin 2..(Len(chain) + 1)
    BY <1>2, <1>8 DEF ToSet
  <2> QED BY <1>10, <2>1
<1> QED BY <1>1, <1>3, <1>4, <1>5, <1>6

-----------------------------------------------------------------------------
\* How the steps of the loop change a request.

LEMMA RequestShape ==
  ASSUME TypeOK, NEW r \in Requests
  PROVE  /\ req[r].step = "idle" <=> req[r] = Idle
         /\ req[r] # Idle => /\ req[r] \in Running
                            /\ req[r].step \in {"drop", "accept", "rule"}
                            /\ req[r].nic \in Nics /\ req[r].at \in Nics
                            /\ req[r].type \in Types
                            /\ req[r].todo \in SUBSET Nics
BY DEF TypeOK, Idle, Running

-----------------------------------------------------------------------------
\* Type correctness.

LEMMA MovedTyped ==
  ASSUME TypeOK, NEW r \in Requests, req[r] # Idle,
         NEW s \in {"drop", "accept", "rule"}, NEW n \in Nics, NEW T \in SUBSET Nics,
         s # "drop" => n \notin T,
         req' = [req EXCEPT ![r] = Moved(r, s, n, T)]
  PROVE  /\ req' \in [Requests -> {Idle} \cup Running]
         /\ \A o \in Requests :
              req'[o].step \in {"accept", "rule"} => req'[o].at \notin req'[o].todo
<1>1. Moved(r, s, n, T) \in Running
  BY RequestShape DEF Running, Moved
<1>2. req' \in [Requests -> {Idle} \cup Running]
  BY <1>1 DEF TypeOK
<1>3. \A o \in Requests : req'[o] = IF o = r THEN Moved(r, s, n, T) ELSE req[o]
  BY DEF TypeOK
<1>4. \A o \in Requests :
        req'[o].step \in {"accept", "rule"} => req'[o].at \notin req'[o].todo
  BY <1>3 DEF TypeOK, Moved
<1> QED BY <1>2, <1>4

LEMMA TypeStep == TypeOK /\ [Next]_vars => TypeOK'
<1> SUFFICES ASSUME TypeOK, [Next]_vars
             PROVE  TypeOK'
  OBVIOUS
<1> USE NicsAssumption
<1>1. ASSUME NEW r \in Requests, NEW i \in Nics, NEW t \in Types, Start(r, i, t)
      PROVE  TypeOK'
  <2>1. [step |-> "drop", nic |-> i, type |-> t, todo |-> present, at |-> i] \in Running
    BY DEF Running, TypeOK
  <2>2. req' \in [Requests -> {Idle} \cup Running]
    BY <1>1, <2>1 DEF Start, TypeOK
  <2>3. \A o \in Requests :
          req'[o].step \in {"accept", "rule"} => req'[o].at \notin req'[o].todo
    BY <1>1 DEF Start, TypeOK
  <2>4. edits' \in 0..MaxEdits
    BY <1>1 DEF Start, TypeOK
  <2>5. applied' \in [Nics -> Types \cup {"Unknown", "Contested"}]
    BY <1>1 DEF Start, TypeOK
  <2> QED BY <1>1, <2>2, <2>3, <2>4, <2>5 DEF Start, TypeOK
<1>2. ASSUME NEW r \in Requests, NEW n \in Nics, ClearDrop(r, n)
      PROVE  TypeOK'
  <2>1. chain' \in Seq(Rule)
    BY <1>2, DeleteEffect DEF ClearDrop, TypeOK
  <2>2. req[r].step = "drop" /\ req[r] # Idle /\ Reach(r, n)
    BY <1>2 DEF ClearDrop, Idle
  <2>3. req' = [req EXCEPT ![r] = Moved(r, "accept", n, req[r].todo \ {n})]
    BY <2>2 DEF Reach
  <2>4. req[r].todo \ {n} \in SUBSET Nics
    BY <2>2, RequestShape
  <2>5. /\ req' \in [Requests -> {Idle} \cup Running]
        /\ \A o \in Requests :
             req'[o].step \in {"accept", "rule"} => req'[o].at \notin req'[o].todo
    BY <2>2, <2>3, <2>4, MovedTyped
  <2> QED BY <1>2, <2>1, <2>5 DEF ClearDrop, TypeOK
<1>3. ASSUME NEW r \in Requests, ClearAccept(r)
      PROVE  TypeOK'
  <2> DEFINE s == AfterAccept(r)
  <2>1. chain' \in Seq(Rule)
    BY <1>3, DeleteEffect DEF ClearAccept, TypeOK
  <2>2. req[r].step = "accept" /\ req[r] # Idle /\ PassAccept(r)
    BY <1>3 DEF ClearAccept, Idle
  <2>3. req' = [req EXCEPT ![r] = Moved(r, s, req[r].at, req[r].todo)]
    BY <2>2 DEF PassAccept
  <2>4. /\ s \in {"drop", "accept", "rule"}
        /\ req[r].at \in Nics /\ req[r].todo \in SUBSET Nics
        /\ req[r].at \notin req[r].todo
    BY <2>2, RequestShape DEF TypeOK, AfterAccept
  <2>5. /\ req' \in [Requests -> {Idle} \cup Running]
        /\ \A o \in Requests :
             req'[o].step \in {"accept", "rule"} => req'[o].at \notin req'[o].todo
    BY <2>2, <2>3, <2>4, MovedTyped
  <2> QED BY <1>3, <2>1, <2>5 DEF ClearAccept, TypeOK
<1>4. ASSUME NEW r \in Requests, Block(r)
      PROVE  TypeOK'
  <2>2. req[r].step = "rule" /\ req[r] # Idle /\ PassRule(r)
    BY <1>4 DEF Block, Idle
  <2>3. req' = [req EXCEPT ![r] = Moved(r, "drop", req[r].at, req[r].todo)]
    BY <2>2 DEF PassRule
  <2>4. req[r].nic \in Nics /\ req[r].at \in Nics /\ req[r].todo \in SUBSET Nics
    BY <2>2, RequestShape
  <2>1. chain' \in Seq(Rule)
    BY <1>4, <2>4, RuleFacts, AppendEffect DEF Block, TypeOK
  <2>5. /\ req' \in [Requests -> {Idle} \cup Running]
        /\ \A o \in Requests :
             req'[o].step \in {"accept", "rule"} => req'[o].at \notin req'[o].todo
    BY <2>2, <2>3, <2>4, MovedTyped
  <2> QED BY <1>4, <2>1, <2>5 DEF Block, TypeOK
<1>5. ASSUME NEW r \in Requests, Grant(r)
      PROVE  TypeOK'
  <2>2. req[r].step = "rule" /\ req[r] # Idle /\ PassRule(r)
    BY <1>5 DEF Grant, Idle
  <2>3. req' = [req EXCEPT ![r] = Moved(r, "drop", req[r].at, req[r].todo)]
    BY <2>2 DEF PassRule
  <2>4. req[r].nic \in Nics /\ req[r].at \in Nics /\ req[r].todo \in SUBSET Nics
    BY <2>2, RequestShape
  <2>1. chain' \in Seq(Rule)
    BY <1>5, <2>4, RuleFacts, InsertEffect DEF Grant, TypeOK
  <2>5. /\ req' \in [Requests -> {Idle} \cup Running]
        /\ \A o \in Requests :
             req'[o].step \in {"accept", "rule"} => req'[o].at \notin req'[o].todo
    BY <2>2, <2>3, <2>4, MovedTyped
  <2> QED BY <1>5, <2>1, <2>5 DEF Grant, TypeOK
<1>6. ASSUME NEW r \in Requests, Reject(r)
      PROVE  TypeOK'
  <2>1. req[r] # Idle
    BY <1>6 DEF Reject
  <2>2. \E s \in {"drop", "accept", "rule"}, n \in Nics, T \in SUBSET Nics :
          /\ s # "drop" => n \notin T
          /\ req' = [req EXCEPT ![r] = Moved(r, s, n, T)]
    <3>1. ASSUME NEW n \in Nics, req[r].step = "drop", Reach(r, n)
          PROVE  req' = [req EXCEPT ![r] = Moved(r, "accept", n, req[r].todo \ {n})]
      BY <3>1 DEF Reach
    <3>2. ASSUME req[r].step = "accept", PassAccept(r)
          PROVE  \E s \in {"drop", "rule"} :
                   req' = [req EXCEPT ![r] = Moved(r, s, req[r].at, req[r].todo)]
      BY <3>2 DEF PassAccept, AfterAccept
    <3>3. ASSUME req[r].step = "rule", PassRule(r)
          PROVE  req' = [req EXCEPT ![r] = Moved(r, "drop", req[r].at, req[r].todo)]
      BY <3>3 DEF PassRule
    <3>4. /\ req[r].at \in Nics /\ req[r].todo \in SUBSET Nics
          /\ \A n : req[r].todo \ {n} \in SUBSET Nics
          /\ req[r].step = "accept" => req[r].at \notin req[r].todo
      BY <2>1, RequestShape DEF TypeOK
    <3> QED BY <1>6, <3>1, <3>2, <3>3, <3>4 DEF Reject
  <2>3. /\ req' \in [Requests -> {Idle} \cup Running]
        /\ \A o \in Requests :
             req'[o].step \in {"accept", "rule"} => req'[o].at \notin req'[o].todo
    BY <2>1, <2>2, MovedTyped
  <2>4. rejects' \in 0..MaxRejects /\ disturbed' \in SUBSET Nics
    BY <1>6, <2>1, RequestShape DEF Reject, TypeOK
  <2> QED BY <1>6, <2>3, <2>4 DEF Reject, TypeOK
<1>7. ASSUME NEW r \in Requests, Finish(r)
      PROVE  TypeOK'
  <2>1. req[r] # Idle
    BY <1>7 DEF Finish, Idle
  <2>2. req[r].nic \in Nics /\ req[r].type \in Types
    BY <2>1, RequestShape
  <2>3. req' \in [Requests -> {Idle} \cup Running]
    BY <1>7 DEF Finish, TypeOK
  <2>4. \A o \in Requests :
          req'[o].step \in {"accept", "rule"} => req'[o].at \notin req'[o].todo
    BY <1>7 DEF Finish, TypeOK, Idle
  <2>5. applied' \in [Nics -> Types \cup {"Unknown", "Contested"}]
    BY <1>7, <2>2 DEF Finish, TypeOK
  <2> QED BY <1>7, <2>3, <2>4, <2>5 DEF Finish, TypeOK
<1>8. CASE Crash
  BY <1>8 DEF Crash, TypeOK, Idle
<1>9. ASSUME NEW n \in Hotplug, Replug(n)
      PROVE  TypeOK'
  BY <1>9 DEF Replug, TypeOK
<1>10. CASE UNCHANGED vars
  BY <1>10 DEF vars, TypeOK
<1> QED BY <1>1, <1>2, <1>3, <1>4, <1>5, <1>6, <1>7, <1>8, <1>9, <1>10 DEF Next

\* Every behaviour is well typed.
THEOREM TypeCorrect == Spec => []TypeOK
<1>1. Init => TypeOK
  BY NicsAssumption DEF Init, TypeOK, Idle
<1> QED BY <1>1, TypeStep, PTL DEF Spec

-----------------------------------------------------------------------------
\* The safety properties.

\* A step of request r disturbs nothing that is about other requests and ports.
LEMMA OthersKept ==
  ASSUME IInv, NEW r \in Requests, req[r] # Idle,
         NEW s \in {"drop", "accept", "rule"}, NEW n \in Nics, NEW T \in SUBSET Nics,
         req' = [req EXCEPT ![r] = Moved(r, s, n, T)],
         UNCHANGED <<applied, covers>>, disturbed \subseteq disturbed',
         \A j, m \in Nics : j # req[r].nic =>
           /\ DropRule(j, m) \in ToSet(chain') <=> DropRule(j, m) \in ToSet(chain)
           /\ AcceptRule(j, m) \in ToSet(chain') <=> AcceptRule(j, m) \in ToSet(chain)
  PROVE  /\ Exclusive'
         /\ RulesMatchType'
         /\ \A o \in Requests \ {r} : ProgressOf(o)'
<1> USE DEF IInv
<1>1. /\ req'[r] = Moved(r, s, n, T) /\ req'[r] # Idle /\ req'[r].nic = req[r].nic
      /\ \A o \in Requests \ {r} : req'[o] = req[o]
  BY DEF TypeOK, Moved, Idle
<1>2. Exclusive'
  BY <1>1 DEF Exclusive
<1>3. \A j \in Nics : Busy(j)' <=> Busy(j)
  BY <1>1 DEF Busy
<1>4. Busy(req[r].nic)
  BY DEF Busy
<1>5. RulesMatchType'
  <2> SUFFICES ASSUME NEW j \in Nics, Settled(j)', NEW m \in covers[j] \ {j}
               PROVE  /\ DropRule(j, m) \in ToSet(chain') <=> applied[j] = "Isolated"
                      /\ AcceptRule(j, m) \in ToSet(chain') <=> applied[j] = "Promiscuous"
    BY DEF RulesMatchType, Has, DropRule, AcceptRule
  <2>1. Settled(j)
    BY <1>3 DEF Settled
  <2>2. j # req[r].nic
    BY <1>4, <2>1 DEF Settled
  <2>3. m \in Nics
    BY DEF TypeOK
  <2>4. /\ DropRule(j, m) \in ToSet(chain) <=> applied[j] = "Isolated"
        /\ AcceptRule(j, m) \in ToSet(chain) <=> applied[j] = "Promiscuous"
    BY <2>1 DEF RulesMatchType, Has
  <2> QED BY <2>2, <2>3, <2>4
<1>6. ASSUME NEW o \in Requests \ {r}
      PROVE  ProgressOf(o)'
  <2> DEFINE j == req[o].nic
  <2> SUFFICES ASSUME req[o] # Idle, j \notin disturbed'
               PROVE  /\ \A m \in Visited(o)' \ {j} :
                           /\ DropRule(j, m) \in ToSet(chain') <=> req[o].type = "Isolated"
                           /\ AcceptRule(j, m) \in ToSet(chain') <=> req[o].type = "Promiscuous"
                      /\ req[o].step # "drop" => DropRule(j, req[o].at) \notin ToSet(chain')
                      /\ req[o].step = "rule" => AcceptRule(j, req[o].at) \notin ToSet(chain')
    BY <1>1 DEF ProgressOf, Exact, Has, DropRule, AcceptRule
  <2>1. j # req[r].nic
    BY DEF Exclusive
  <2>2. j \in Nics /\ req[o].at \in Nics /\ covers[j] \in SUBSET Nics
    BY RequestShape DEF TypeOK
  <2>3. /\ \A m \in Visited(o) \ {j} :
             /\ DropRule(j, m) \in ToSet(chain) <=> req[o].type = "Isolated"
             /\ AcceptRule(j, m) \in ToSet(chain) <=> req[o].type = "Promiscuous"
        /\ req[o].step # "drop" => DropRule(j, req[o].at) \notin ToSet(chain)
        /\ req[o].step = "rule" => AcceptRule(j, req[o].at) \notin ToSet(chain)
    BY DEF Progress, ProgressOf, Exact, Has
  <2>4. Visited(o)' = Visited(o) /\ Visited(o) \subseteq Nics
    BY <1>1, <2>2 DEF Visited
  <2> QED BY <2>1, <2>2, <2>3, <2>4
<1> QED BY <1>2, <1>5, <1>6

\* A deletion brings no port a second copy of a rule.
LEMMA DeleteOwned ==
  ASSUME OwnedOnce, chain \in Seq(Rule), NEW e, chain' = Delete(e), UNCHANGED disturbed
  PROVE  OwnedOnce'
BY DeleteEffect DEF OwnedOnce, DropRule, AcceptRule

LEMMA ClearDropStep ==
  ASSUME IInv, NEW r \in Requests, NEW n \in Nics, ClearDrop(r, n)
  PROVE  /\ AcceptsFirst' /\ OwnedOnce' /\ RuleStep'
         /\ Exclusive' /\ RulesMatchType' /\ Progress'
<1> DEFINE i == req[r].nic
           rest == req[r].todo \ {n}
           e == DropRule(i, n)
<1> USE DEF IInv
<1>1. req[r] # Idle /\ req[r].step = "drop" /\ n \in req[r].todo
  BY DEF ClearDrop, Reach, Idle
<1>2. i \in Nics /\ req[r].type \in Types /\ rest \in SUBSET Nics
  BY <1>1, RequestShape
<1>3. req' = [req EXCEPT ![r] = Moved(r, "accept", n, rest)]
  BY DEF ClearDrop, Reach
<1>4. chain \in Seq(Rule) /\ chain' = Delete(e)
  BY DEF ClearDrop, TypeOK
<1>5. UNCHANGED <<applied, covers, disturbed>>
  BY DEF ClearDrop
<1>6. /\ AcceptsFirst'
      /\ ToSet(chain) \ {e} \subseteq ToSet(chain') /\ ToSet(chain') \subseteq ToSet(chain)
      /\ Once(chain, e) => e \notin ToSet(chain')
  BY <1>4, DeleteEffect
<1>7. OwnedOnce'
  BY <1>4, <1>5, DeleteOwned
<1>8. \A j, m \in Nics :
        /\ DropRule(j, m) # e =>
             (DropRule(j, m) \in ToSet(chain') <=> DropRule(j, m) \in ToSet(chain))
        /\ AcceptRule(j, m) \in ToSet(chain') <=> AcceptRule(j, m) \in ToSet(chain)
  BY <1>2, <1>6, RuleFacts
<1>9. \A j, m \in Nics : DropRule(j, m) = e => j = i /\ m = n
  BY <1>2, RuleFacts
<1>10. i \notin disturbed => e \notin ToSet(chain')
  BY <1>2, <1>6 DEF OwnedOnce
<1>11. /\ Exclusive' /\ RulesMatchType'
       /\ \A o \in Requests \ {r} : ProgressOf(o)'
  <2> HIDE DEF e, rest
  <2>1. \A j, m \in Nics : j # i =>
          /\ DropRule(j, m) \in ToSet(chain') <=> DropRule(j, m) \in ToSet(chain)
          /\ AcceptRule(j, m) \in ToSet(chain') <=> AcceptRule(j, m) \in ToSet(chain)
    BY <1>8, <1>9
  <2> QED BY <1>1, <1>2, <1>3, <1>5, <2>1, OthersKept
<1>12. req'[r] = Moved(r, "accept", n, rest) /\ \A o \in Requests \ {r} : req'[o] = req[o]
  BY <1>3 DEF TypeOK
<1>13. RuleStep'
  BY <1>12 DEF RuleStep, Moved
<1>14. ProgressOf(r)'
  <2> SUFFICES ASSUME i \notin disturbed
               PROVE  /\ \A m \in Visited(r)' \ {i} :
                           /\ DropRule(i, m) \in ToSet(chain') <=> req[r].type = "Isolated"
                           /\ AcceptRule(i, m) \in ToSet(chain') <=> req[r].type = "Promiscuous"
                      /\ e \notin ToSet(chain')
    BY <1>5, <1>12 DEF ProgressOf, Moved, Exact, Has, DropRule, AcceptRule
  <2>1. Visited(r)' = Visited(r) /\ n \notin Visited(r) /\ Visited(r) \subseteq Nics
    BY <1>1, <1>2, <1>5, <1>12 DEF Visited, Moved, TypeOK
  <2>2. \A m \in Visited(r) \ {i} :
          /\ DropRule(i, m) \in ToSet(chain) <=> req[r].type = "Isolated"
          /\ AcceptRule(i, m) \in ToSet(chain) <=> req[r].type = "Promiscuous"
    BY <1>1 DEF Progress, ProgressOf, Exact, Has
  <2> QED BY <1>2, <1>8, <1>9, <1>10, <2>1, <2>2
<1> QED BY <1>6, <1>7, <1>11, <1>13, <1>14 DEF Progress

LEMMA ClearAcceptStep ==
  ASSUME IInv, NEW r \in Requests, ClearAccept(r)
  PROVE  /\ AcceptsFirst' /\ OwnedOnce' /\ RuleStep'
         /\ Exclusive' /\ RulesMatchType' /\ Progress'
<1> DEFINE i == req[r].nic
           n == req[r].at
           s == AfterAccept(r)
           e == AcceptRule(i, n)
<1> USE DEF IInv
<1>1. req[r] # Idle /\ req[r].step = "accept" /\ n \notin req[r].todo
  BY DEF ClearAccept, Idle, TypeOK
<1>2. i \in Nics /\ n \in Nics /\ req[r].type \in Types /\ req[r].todo \in SUBSET Nics
  BY <1>1, RequestShape
<1>3. s \in {"drop", "accept", "rule"}
  BY DEF AfterAccept
<1>4. req' = [req EXCEPT ![r] = Moved(r, s, n, req[r].todo)]
  BY DEF ClearAccept, PassAccept
<1>5. chain \in Seq(Rule) /\ chain' = Delete(e)
  BY DEF ClearAccept, TypeOK
<1>6. UNCHANGED <<applied, covers, disturbed>>
  BY DEF ClearAccept
<1>7. /\ AcceptsFirst'
      /\ ToSet(chain) \ {e} \subseteq ToSet(chain') /\ ToSet(chain') \subseteq ToSet(chain)
      /\ Once(chain, e) => e \notin ToSet(chain')
  BY <1>5, DeleteEffect
<1>8. OwnedOnce'
  BY <1>5, <1>6, DeleteOwned
<1>9. \A j, m \in Nics :
        /\ DropRule(j, m) \in ToSet(chain') <=> DropRule(j, m) \in ToSet(chain)
        /\ AcceptRule(j, m) # e =>
             (AcceptRule(j, m) \in ToSet(chain') <=> AcceptRule(j, m) \in ToSet(chain))
  BY <1>2, <1>7, RuleFacts
<1>10. \A j, m \in Nics : AcceptRule(j, m) = e => j = i /\ m = n
  BY <1>2, RuleFacts
<1>11. i \notin disturbed => e \notin ToSet(chain') /\ DropRule(i, n) \notin ToSet(chain')
  BY <1>1, <1>2, <1>7, <1>9 DEF OwnedOnce, Progress, ProgressOf, Has
<1>12. /\ Exclusive' /\ RulesMatchType'
       /\ \A o \in Requests \ {r} : ProgressOf(o)'
  <2> HIDE DEF e, s, n
  <2>1. \A j, m \in Nics : j # i =>
          /\ DropRule(j, m) \in ToSet(chain') <=> DropRule(j, m) \in ToSet(chain)
          /\ AcceptRule(j, m) \in ToSet(chain') <=> AcceptRule(j, m) \in ToSet(chain)
    BY <1>9, <1>10
  <2> QED BY <1>1, <1>2, <1>3, <1>4, <1>6, <2>1, OthersKept
<1>13. /\ req'[r] = Moved(r, s, n, req[r].todo)
       /\ \A o \in Requests \ {r} : req'[o] = req[o]
  BY <1>4 DEF TypeOK
<1>14. RuleStep'
  BY <1>13 DEF RuleStep, Moved, AfterAccept
<1>15. ProgressOf(r)'
  <2> SUFFICES ASSUME i \notin disturbed
               PROVE  /\ \A m \in Visited(r)' \ {i} :
                           /\ DropRule(i, m) \in ToSet(chain') <=> req[r].type = "Isolated"
                           /\ AcceptRule(i, m) \in ToSet(chain') <=> req[r].type = "Promiscuous"
                      /\ DropRule(i, n) \notin ToSet(chain')
                      /\ AcceptRule(i, n) \notin ToSet(chain')
    BY <1>6, <1>13 DEF ProgressOf, Moved, Exact, Has, DropRule, AcceptRule
  <2>1. \A m \in Visited(r) \ {i} :
          /\ m \in Nics
          /\ DropRule(i, m) \in ToSet(chain) <=> req[r].type = "Isolated"
          /\ AcceptRule(i, m) \in ToSet(chain) <=> req[r].type = "Promiscuous"
    BY <1>1, <1>2 DEF Progress, ProgressOf, Exact, Has, Visited, TypeOK
  <2>2. /\ n \notin Visited(r)
        /\ Visited(r)' \subseteq Visited(r) \cup {n}
        /\ n \in Visited(r)' => s = "drop"
    BY <1>1, <1>6, <1>13 DEF Visited, Moved
  <2>3. s = "drop" => req[r].type = "Off" \/ n = i
    BY DEF AfterAccept
  <2> QED BY <1>2, <1>9, <1>10, <1>11, <2>1, <2>2, <2>3
<1> QED BY <1>7, <1>8, <1>12, <1>14, <1>15 DEF Progress

\* Block and Grant: the third command adds the rule e of the request's type.
LEMMA AddStep ==
  ASSUME IInv, NEW r \in Requests, req[r].step = "rule", PassRule(r),
         UNCHANGED <<applied, covers, disturbed>>,
         NEW e,
         e = IF req[r].type = "Isolated" THEN DropRule(req[r].nic, req[r].at)
                                         ELSE AcceptRule(req[r].nic, req[r].at),
         ToSet(chain') = ToSet(chain) \cup {e},
         \A x : x # e /\ Once(chain, x) => Once(chain', x),
         e \notin ToSet(chain) => Once(chain', e)
  PROVE  /\ OwnedOnce' /\ RuleStep'
         /\ Exclusive' /\ RulesMatchType' /\ Progress'
<1> DEFINE i == req[r].nic
           n == req[r].at
           T == req[r].todo
<1> USE DEF IInv
<1>1. req[r] # Idle /\ n \notin T /\ n # i /\ req[r].type # "Off"
  BY DEF Idle, TypeOK, RuleStep
<1>2. i \in Nics /\ n \in Nics /\ req[r].type \in Types /\ T \in SUBSET Nics
  BY <1>1, RequestShape
<1>3. req' = [req EXCEPT ![r] = Moved(r, "drop", n, T)]
  BY DEF PassRule
<1>4. \A j, m \in Nics :
        /\ DropRule(j, m) = e <=> j = i /\ m = n /\ req[r].type = "Isolated"
        /\ AcceptRule(j, m) = e <=> j = i /\ m = n /\ req[r].type = "Promiscuous"
  <2>1. req[r].type = "Isolated" \/ req[r].type = "Promiscuous"
    BY <1>1, <1>2 DEF Types
  <2> QED BY <1>2, <2>1, RuleFacts
<1>5. i \notin disturbed => /\ DropRule(i, n) \notin ToSet(chain)
                           /\ AcceptRule(i, n) \notin ToSet(chain)
  BY <1>1 DEF Progress, ProgressOf, Has
<1>6. OwnedOnce'
  <2> SUFFICES ASSUME NEW j \in Nics \ disturbed, NEW m \in Nics
               PROVE  Once(chain', DropRule(j, m)) /\ Once(chain', AcceptRule(j, m))
    BY DEF OwnedOnce, DropRule, AcceptRule
  <2>1. Once(chain, DropRule(j, m)) /\ Once(chain, AcceptRule(j, m))
    BY DEF OwnedOnce
  <2> QED BY <1>4, <1>5, <2>1
<1>7. /\ Exclusive' /\ RulesMatchType'
      /\ \A o \in Requests \ {r} : ProgressOf(o)'
  <2> HIDE DEF n, T
  <2>1. \A j, m \in Nics : j # i =>
          /\ DropRule(j, m) \in ToSet(chain') <=> DropRule(j, m) \in ToSet(chain)
          /\ AcceptRule(j, m) \in ToSet(chain') <=> AcceptRule(j, m) \in ToSet(chain)
    BY <1>4
  <2> QED BY <1>1, <1>2, <1>3, <2>1, OthersKept
<1>8. req'[r] = Moved(r, "drop", n, T) /\ \A o \in Requests \ {r} : req'[o] = req[o]
  BY <1>3 DEF TypeOK
<1>9. RuleStep'
  BY <1>8 DEF RuleStep, Moved
<1>10. ProgressOf(r)'
  <2> SUFFICES ASSUME i \notin disturbed, NEW m \in Visited(r)' \ {i}
               PROVE  /\ DropRule(i, m) \in ToSet(chain') <=> req[r].type = "Isolated"
                      /\ AcceptRule(i, m) \in ToSet(chain') <=> req[r].type = "Promiscuous"
    BY <1>8 DEF ProgressOf, Moved, Exact, Has, DropRule, AcceptRule
  <2>1. m = n \/ m \in Visited(r)
    BY <1>8 DEF Visited, Moved
  <2>2. CASE m = n
    BY <1>2, <1>4, <1>5, <2>2
  <2>3. CASE m \in Visited(r) /\ m # n
    <3>1. m \in Nics
      BY <1>2, <2>3 DEF Visited, TypeOK
    <3>2. /\ DropRule(i, m) \in ToSet(chain) <=> req[r].type = "Isolated"
          /\ AcceptRule(i, m) \in ToSet(chain) <=> req[r].type = "Promiscuous"
      BY <1>1, <2>3 DEF Progress, ProgressOf, Exact, Has
    <3> QED BY <1>2, <1>4, <2>3, <3>1, <3>2
  <2> QED BY <2>1, <2>2, <2>3
<1> QED BY <1>6, <1>7, <1>9, <1>10 DEF Progress

LEMMA BlockStep ==
  ASSUME IInv, NEW r \in Requests, Block(r)
  PROVE  /\ AcceptsFirst' /\ OwnedOnce' /\ RuleStep'
         /\ Exclusive' /\ RulesMatchType' /\ Progress'
<1> DEFINE e == DropRule(req[r].nic, req[r].at)
<1>1. req[r].nic \in Nics /\ req[r].at \in Nics
  BY RequestShape DEF Block, Idle, IInv
<1>2. e \in Rule /\ e.target = "DROP"
  BY <1>1, RuleFacts
<1>3. /\ AcceptsFirst'
      /\ \A x : x # e /\ Once(chain, x) => Once(chain', x)
      /\ ToSet(chain') = ToSet(chain) \cup {e}
      /\ e \notin ToSet(chain) => Once(chain', e)
  <2> HIDE DEF e
  <2> QED BY <1>2, AppendEffect DEF Block, IInv, TypeOK, e
<1>4. /\ OwnedOnce' /\ RuleStep'
      /\ Exclusive' /\ RulesMatchType' /\ Progress'
  BY <1>3, AddStep DEF Block
<1> QED BY <1>3, <1>4

LEMMA GrantStep ==
  ASSUME IInv, NEW r \in Requests, Grant(r)
  PROVE  /\ AcceptsFirst' /\ OwnedOnce' /\ RuleStep'
         /\ Exclusive' /\ RulesMatchType' /\ Progress'
<1> DEFINE e == AcceptRule(req[r].nic, req[r].at)
<1>1. req[r].nic \in Nics /\ req[r].at \in Nics
  BY RequestShape DEF Grant, Idle, IInv
<1>2. e \in Rule /\ e.target = "ACCEPT"
  BY <1>1, RuleFacts
<1>3. /\ AcceptsFirst'
      /\ \A x : x # e /\ Once(chain, x) => Once(chain', x)
      /\ ToSet(chain') = ToSet(chain) \cup {e}
      /\ e \notin ToSet(chain) => Once(chain', e)
  <2> HIDE DEF e
  <2> QED BY <1>2, InsertEffect DEF Grant, IInv, TypeOK, e
<1>4. /\ OwnedOnce' /\ RuleStep'
      /\ Exclusive' /\ RulesMatchType' /\ Progress'
  BY <1>3, AddStep DEF Grant
<1> QED BY <1>3, <1>4

LEMMA RejectStep ==
  ASSUME IInv, NEW r \in Requests, Reject(r)
  PROVE  /\ AcceptsFirst' /\ OwnedOnce' /\ RuleStep'
         /\ Exclusive' /\ RulesMatchType' /\ Progress'
<1> USE DEF IInv
<1>1. req[r] # Idle /\ chain' = chain /\ UNCHANGED <<applied, covers>>
  BY DEF Reject
<1>2. /\ req[r].nic \in disturbed' /\ disturbed \subseteq disturbed'
      /\ req[r].nic \in Nics /\ req[r].at \in Nics /\ req[r].todo \in SUBSET Nics
  BY <1>1, RequestShape DEF Reject
<1>3. PICK s \in {"drop", "accept", "rule"}, n \in Nics, T \in SUBSET Nics :
        /\ req' = [req EXCEPT ![r] = Moved(r, s, n, T)]
        /\ s = "rule" => n # req[r].nic /\ req[r].type # "Off"
  <2>1. ASSUME NEW n \in Nics, Reach(r, n)
        PROVE  /\ req' = [req EXCEPT ![r] = Moved(r, "accept", n, req[r].todo \ {n})]
               /\ req[r].todo \ {n} \in SUBSET Nics
    BY <1>2, <2>1 DEF Reach
  <2>2. PassAccept(r) =>
          /\ req' = [req EXCEPT ![r] = Moved(r, AfterAccept(r), req[r].at, req[r].todo)]
          /\ AfterAccept(r) \in {"drop", "rule"}
          /\ AfterAccept(r) = "rule" => req[r].at # req[r].nic /\ req[r].type # "Off"
    BY DEF PassAccept, AfterAccept
  <2>3. PassRule(r) => req' = [req EXCEPT ![r] = Moved(r, "drop", req[r].at, req[r].todo)]
    BY DEF PassRule
  <2>4. CASE req[r].step = "drop" /\ \E n \in Nics : Reach(r, n)
    <3>1. PICK n \in Nics : Reach(r, n)
      BY <2>4
    <3>2. /\ req' = [req EXCEPT ![r] = Moved(r, "accept", n, req[r].todo \ {n})]
          /\ req[r].todo \ {n} \in SUBSET Nics
      BY <2>1, <3>1
    <3>3. "accept" # "rule"
      OBVIOUS
    <3> QED BY <3>2, <3>3
  <2>5. CASE PassAccept(r)
    <3>1. AfterAccept(r) \in {"drop", "accept", "rule"}
      BY DEF AfterAccept
    <3> QED BY <1>2, <2>2, <2>5, <3>1
  <2>6. CASE PassRule(r)
    <3>1. "drop" # "rule"
      OBVIOUS
    <3> QED BY <1>2, <2>3, <2>6, <3>1
  <2> QED BY <2>4, <2>5, <2>6 DEF Reject
<1>4. AcceptsFirst' /\ OwnedOnce'
  BY <1>1, <1>2 DEF AcceptsFirst, OwnedOnce, DropRule, AcceptRule
<1>5. /\ Exclusive' /\ RulesMatchType'
      /\ \A o \in Requests \ {r} : ProgressOf(o)'
  BY <1>1, <1>2, <1>3, OthersKept
<1>6. req'[r] = Moved(r, s, n, T) /\ \A o \in Requests \ {r} : req'[o] = req[o]
  BY <1>3 DEF TypeOK
<1>7. RuleStep'
  BY <1>3, <1>6 DEF RuleStep, Moved
<1>8. ProgressOf(r)'
  BY <1>2, <1>6 DEF ProgressOf, Moved
<1> QED BY <1>4, <1>5, <1>7, <1>8 DEF Progress

LEMMA StartStep ==
  ASSUME IInv, NEW r \in Requests, NEW i \in Nics, NEW t \in Types, Start(r, i, t)
  PROVE  /\ AcceptsFirst' /\ OwnedOnce' /\ RuleStep'
         /\ Exclusive' /\ RulesMatchType' /\ Progress'
<1> USE DEF IInv
<1>1. /\ req[r] = Idle /\ chain' = chain
      /\ req'[r] # Idle /\ req'[r].nic = i /\ req'[r].step = "drop" /\ req'[r].todo = present
      /\ \A o \in Requests \ {r} : req'[o] = req[o]
  BY DEF Start, TypeOK, Idle
<1>2. /\ disturbed \subseteq disturbed'
      /\ Busy(i) => i \in disturbed'
      /\ \A j \in Nics \ {i} : applied'[j] = applied[j] /\ covers'[j] = covers[j]
      /\ covers'[i] = present
  BY DEF Start, TypeOK
<1>3. AcceptsFirst' /\ OwnedOnce'
  BY <1>1, <1>2 DEF AcceptsFirst, OwnedOnce, DropRule, AcceptRule
<1>4. RuleStep'
  BY <1>1 DEF RuleStep
<1>5. Exclusive'
  <2> SUFFICES ASSUME NEW a \in Requests, NEW b \in Requests, a # b,
                      req'[a] # Idle, req'[b] # Idle, req'[a].nic = req'[b].nic
               PROVE  req'[a].nic \in disturbed'
    BY DEF Exclusive, Idle
  <2>1. CASE a = r \/ b = r
    BY <1>1, <1>2, <2>1 DEF Busy
  <2>2. CASE a # r /\ b # r
    BY <1>1, <1>2, <2>2 DEF Exclusive
  <2> QED BY <2>1, <2>2
<1>6. RulesMatchType'
  <2> SUFFICES ASSUME NEW j \in Nics, Settled(j)', NEW m \in covers'[j] \ {j}
               PROVE  /\ DropRule(j, m) \in ToSet(chain') <=> applied'[j] = "Isolated"
                      /\ AcceptRule(j, m) \in ToSet(chain') <=> applied'[j] = "Promiscuous"
    BY DEF RulesMatchType, Has, DropRule, AcceptRule
  <2>1. Busy(i)'
    BY <1>1 DEF Busy
  <2>2. j # i
    BY <2>1 DEF Settled
  <2>3. Busy(j) => Busy(j)'
    BY <1>1 DEF Busy
  <2>4. Settled(j)
    BY <1>2, <2>2, <2>3 DEF Settled
  <2>5. m \in covers[j] \ {j} /\ applied'[j] = applied[j]
    BY <1>2, <2>2
  <2> QED BY <1>1, <2>4, <2>5 DEF RulesMatchType, Has
<1>7. ASSUME NEW o \in Requests
      PROVE  ProgressOf(o)'
  <2>1. CASE o = r
    <3>1. Visited(r)' = {}
      BY <1>1, <1>2 DEF Visited
    <3> QED BY <1>1, <2>1, <3>1 DEF ProgressOf
  <2>2. CASE o # r /\ req[o] # Idle /\ req[o].nic # i
    <3>1. req'[o] = req[o] /\ req[o].nic \in Nics \ {i}
      BY <1>1, <2>2, RequestShape
    <3>2. covers'[req[o].nic] = covers[req[o].nic]
      BY <1>2, <3>1
    <3>3. Visited(o)' = Visited(o)
      BY <3>1, <3>2 DEF Visited
    <3>4. req[o].nic \notin disturbed' => req[o].nic \notin disturbed
      BY <1>2
    <3> QED BY <1>1, <2>2, <3>1, <3>3, <3>4
            DEF Progress, ProgressOf, Exact, Has, DropRule, AcceptRule
  <2>3. CASE o # r /\ (req[o] = Idle \/ req[o].nic = i)
    BY <1>1, <1>2, <2>3 DEF ProgressOf, Busy, Idle
  <2> QED BY <2>1, <2>2, <2>3
<1> QED BY <1>3, <1>4, <1>5, <1>6, <1>7 DEF Progress

LEMMA FinishStep ==
  ASSUME IInv, NEW r \in Requests, Finish(r)
  PROVE  /\ AcceptsFirst' /\ OwnedOnce' /\ RuleStep'
         /\ Exclusive' /\ RulesMatchType' /\ Progress'
<1> DEFINE i == req[r].nic
<1> USE DEF IInv
<1>1. /\ req[r] # Idle /\ req[r].step = "drop" /\ req[r].todo = {}
      /\ UNCHANGED <<chain, covers, disturbed>>
  BY DEF Finish, Idle
<1>2. req'[r] = Idle /\ \A o \in Requests \ {r} : req'[o] = req[o]
  BY DEF Finish, TypeOK
<1>3. i \in Nics /\ req[r].type \in Types
  BY <1>1, RequestShape
<1>4. AcceptsFirst' /\ OwnedOnce'
  BY <1>1 DEF AcceptsFirst, OwnedOnce, DropRule, AcceptRule
<1>5. RuleStep' /\ Exclusive'
  BY <1>1, <1>2 DEF RuleStep, Exclusive, Idle
<1>6. ASSUME NEW o \in Requests
      PROVE  ProgressOf(o)'
  <2>1. CASE o = r
    BY <1>2, <2>1 DEF ProgressOf, Idle
  <2>2. CASE o # r
    <3>1. req'[o] = req[o] /\ Visited(o)' = Visited(o)
      BY <1>1, <1>2, <2>2 DEF Visited
    <3> QED BY <1>1, <3>1 DEF Progress, ProgressOf, Exact, Has, DropRule, AcceptRule
  <2> QED BY <2>1, <2>2
<1>7. ASSUME NEW j \in Nics, Settled(j)', NEW m \in covers[j] \ {j}
      PROVE  /\ DropRule(j, m) \in ToSet(chain) <=> applied'[j] = "Isolated"
             /\ AcceptRule(j, m) \in ToSet(chain) <=> applied'[j] = "Promiscuous"
  <2>1. CASE j = i
    <3>1. i \notin disturbed /\ applied'[i] \in Types
      BY <1>1, <1>7, <2>1 DEF Settled
    <3>2. applied'[i] = req[r].type
      BY <1>3, <3>1 DEF Finish, TypeOK, Types
    <3>3. m \in Visited(r) \ {i}
      BY <1>1, <1>7, <2>1 DEF Visited
    <3>4. Exact(i, m, req[r].type)
      BY <1>1, <3>1, <3>3 DEF Progress, ProgressOf
    <3> QED BY <2>1, <3>2, <3>4 DEF Exact, Has
  <2>2. CASE j # i
    <3>1. applied'[j] = applied[j]
      BY <2>2 DEF Finish, TypeOK
    <3>2. Busy(j) => Busy(j)'
      BY <1>2, <2>2 DEF Busy
    <3>3. Settled(j)
      BY <1>1, <1>7, <3>1, <3>2 DEF Settled
    <3> QED BY <1>7, <3>1, <3>3 DEF RulesMatchType, Has
  <2> QED BY <2>1, <2>2
<1>8. RulesMatchType'
  BY <1>1, <1>7 DEF RulesMatchType, Has, DropRule, AcceptRule
<1> QED BY <1>4, <1>5, <1>6, <1>8 DEF Progress

LEMMA CrashStep ==
  ASSUME IInv, Crash
  PROVE  /\ AcceptsFirst' /\ OwnedOnce' /\ RuleStep'
         /\ Exclusive' /\ RulesMatchType' /\ Progress'
<1> USE DEF IInv
<1>1. /\ \A r \in Requests : req'[r] = Idle
      /\ \A i \in Nics : applied'[i] = IF Busy(i) THEN "Unknown" ELSE applied[i]
      /\ UNCHANGED <<chain, covers, disturbed>>
  BY DEF Crash
<1>2. AcceptsFirst' /\ OwnedOnce' /\ RuleStep' /\ Exclusive' /\ Progress'
  BY <1>1 DEF AcceptsFirst, OwnedOnce, RuleStep, Exclusive, Progress, ProgressOf,
              DropRule, AcceptRule, Idle
<1>3. ASSUME NEW j \in Nics, Settled(j)'
      PROVE  Settled(j) /\ applied'[j] = applied[j]
  BY <1>1, <1>3 DEF Settled, Types
<1>4. RulesMatchType'
  BY <1>1, <1>3 DEF RulesMatchType, Has, DropRule, AcceptRule
<1> QED BY <1>2, <1>4

LEMMA SameStep ==
  ASSUME IInv, UNCHANGED <<chain, req, applied, covers, disturbed>>
  PROVE  /\ AcceptsFirst' /\ OwnedOnce' /\ RuleStep'
         /\ Exclusive' /\ RulesMatchType' /\ Progress'
BY DEF IInv, AcceptsFirst, OwnedOnce, RuleStep, Exclusive, RulesMatchType, Progress,
       ProgressOf, Visited, Exact, Has, Settled, Busy, Types, DropRule, AcceptRule, Idle

\* The invariant is inductive.
LEMMA IInvStep == IInv /\ [Next]_vars => IInv'
<1> SUFFICES ASSUME IInv, [Next]_vars
             PROVE  IInv'
  OBVIOUS
<1>1. TypeOK'
  BY TypeStep DEF IInv
<1> DEFINE Kept == /\ AcceptsFirst' /\ OwnedOnce' /\ RuleStep'
                   /\ Exclusive' /\ RulesMatchType' /\ Progress'
<1>2. ASSUME NEW r \in Requests, NEW i \in Nics, NEW t \in Types, Start(r, i, t)
      PROVE  Kept
  BY <1>2, StartStep
<1>3. ASSUME NEW r \in Requests, NEW n \in Nics, ClearDrop(r, n)
      PROVE  Kept
  BY <1>3, ClearDropStep
<1>4. ASSUME NEW r \in Requests, ClearAccept(r)
      PROVE  Kept
  BY <1>4, ClearAcceptStep
<1>5. ASSUME NEW r \in Requests, Block(r)
      PROVE  Kept
  BY <1>5, BlockStep
<1>6. ASSUME NEW r \in Requests, Grant(r)
      PROVE  Kept
  BY <1>6, GrantStep
<1>7. ASSUME NEW r \in Requests, Reject(r)
      PROVE  Kept
  BY <1>7, RejectStep
<1>8. ASSUME NEW r \in Requests, Finish(r)
      PROVE  Kept
  BY <1>8, FinishStep
<1>9. ASSUME Crash
      PROVE  Kept
  BY <1>9, CrashStep
<1>10. ASSUME NEW n \in Hotplug, Replug(n)
       PROVE  Kept
  BY <1>10, SameStep DEF Replug
<1>11. ASSUME UNCHANGED vars
       PROVE  Kept
  BY <1>11, SameStep DEF vars
<1>12. Kept
  <2> HIDE DEF Kept
  <2> QED BY <1>2, <1>3, <1>4, <1>5, <1>6, <1>7, <1>8, <1>9, <1>10, <1>11 DEF Next
<1> QED BY <1>1, <1>12 DEF IInv

LEMMA IInvInit == Init => IInv
<1> SUFFICES ASSUME Init
             PROVE  IInv
  OBVIOUS
<1>1. TypeOK
  BY NicsAssumption DEF Init, TypeOK, Idle
<1>2. AcceptsFirst /\ OwnedOnce
  BY DEF Init, AcceptsFirst, OwnedOnce, Once
<1>3. Exclusive /\ RuleStep /\ Progress
  BY DEF Init, Exclusive, RuleStep, Progress, ProgressOf, Idle
<1>4. RulesMatchType
  BY DEF Init, RulesMatchType, Settled, Types
<1> QED BY <1>1, <1>2, <1>3, <1>4 DEF IInv

LEMMA Invariance == Spec => []IInv
BY IInvInit, IInvStep, PTL DEF Spec

\* However requests interleave, fail or die, the grants of promiscuous ports
\* stay ahead of the blocks of isolated ones.
THEOREM AcceptsStayFirst == Spec => []AcceptsFirst
<1>1. IInv => AcceptsFirst
  BY DEF IInv
<1> QED BY <1>1, Invariance, PTL

\* A port whose last edit ran alone to its end owns exactly the rules of its
\* type, whatever other ports' edits did and wherever earlier edits died.
THEOREM RulesAreExact == Spec => []RulesMatchType
<1>1. IInv => RulesMatchType
  BY DEF IInv
<1> QED BY <1>1, Invariance, PTL

-----------------------------------------------------------------------------
\* The type that is read back.

\* No port has a rule to itself.
NoSelfRule == \A e \in ToSet(chain) : e.in # e.out

LEMMA NoSelfRuleStep ==
  ASSUME IInv, NoSelfRule, [Next]_vars
  PROVE  NoSelfRule'
<1> USE DEF IInv, TypeOK
<1>1. ASSUME NEW e, chain' = Delete(e) PROVE NoSelfRule'
  <2>1. ToSet(chain') \subseteq ToSet(chain)
    BY <1>1, DeleteEffect
  <2> QED BY <2>1 DEF NoSelfRule
<1>2. ASSUME UNCHANGED chain PROVE NoSelfRule'
  BY <1>2 DEF NoSelfRule
<1>3. ASSUME NEW r \in Requests, Block(r) PROVE NoSelfRule'
  <2> DEFINE e == DropRule(req[r].nic, req[r].at)
  <2>1. req[r].step = "rule" /\ req[r].nic \in Nics /\ req[r].at \in Nics /\ req[r].at # req[r].nic
    BY <1>3, RequestShape DEF Block, Idle, RuleStep
  <2>2. e \in Rule /\ e.target = "DROP" /\ e.in # e.out
    BY <2>1 DEF DropRule, Rule
  <2>3. ToSet(chain') = ToSet(chain) \cup {e}
    BY <1>3, <2>2, AppendEffect DEF Block
  <2> QED BY <2>2, <2>3 DEF NoSelfRule
<1>4. ASSUME NEW r \in Requests, Grant(r) PROVE NoSelfRule'
  <2> DEFINE e == AcceptRule(req[r].nic, req[r].at)
  <2>1. req[r].step = "rule" /\ req[r].nic \in Nics /\ req[r].at \in Nics /\ req[r].at # req[r].nic
    BY <1>4, RequestShape DEF Grant, Idle, RuleStep
  <2>2. e \in Rule /\ e.target = "ACCEPT" /\ e.in # e.out
    BY <2>1 DEF AcceptRule, Rule
  <2>3. ToSet(chain') = ToSet(chain) \cup {e}
    BY <1>4, <2>2, InsertEffect DEF Grant
  <2> QED BY <2>2, <2>3 DEF NoSelfRule
<1> QED BY <1>1, <1>2, <1>3, <1>4
        DEF Next, vars, Start, ClearDrop, ClearAccept, Reject, Finish, Crash, Replug

LEMMA NoSelfRuleAlways == Spec => []NoSelfRule
<1>1. Init => NoSelfRule
  BY DEF Init, NoSelfRule, ToSet
<1>2. IInv /\ NoSelfRule /\ [Next]_vars => NoSelfRule'
  BY NoSelfRuleStep
<1> QED BY <1>1, <1>2, Invariance, PTL DEF Spec

\* What GetInterfaceType reads back is what was applied, for a port whose last edit ran
\* alone to its end against all ports and whose name is part of no other's.
THEOREM TypeIsReported == Spec => []ReportedType
<1>1. IInv /\ NoSelfRule => ReportedType
  <2> SUFFICES ASSUME IInv, NoSelfRule, NEW i \in Nics, Settled(i), covers[i] = Nics, Nics # {i}, Alike[i] = {i}
               PROVE  TypeOf(i) = applied[i]
    BY DEF ReportedType
  <2>1. PICK n \in Nics : n # i
    OBVIOUS
  <2>2. \A m \in Nics \ {i} : /\ DropRule(i, m) \in ToSet(chain) <=> applied[i] = "Isolated"
                              /\ AcceptRule(i, m) \in ToSet(chain) <=> applied[i] = "Promiscuous"
    BY DEF IInv, RulesMatchType, Has
  <2>3. \A p \in DOMAIN chain : chain[p] \in Rule /\ chain[p] \in ToSet(chain) /\ chain[p].in # chain[p].out
    <3>1. \A p \in DOMAIN chain : chain[p] \in ToSet(chain)
      BY DEF ToSet
    <3>2. \A p \in DOMAIN chain : chain[p] \in Rule
      BY ElementOfSeq DEF IInv, TypeOK
    <3> QED BY <3>1, <3>2 DEF NoSelfRule
  <2>4. IsIsolated(i) <=> applied[i] = "Isolated"
    <3>1. ASSUME IsIsolated(i) PROVE applied[i] = "Isolated"
      <4>1. PICK p \in DOMAIN chain : chain[p].target = "DROP" /\ chain[p].in = i
        BY <3>1 DEF IsIsolated
      <4>2. chain[p] = DropRule(i, chain[p].out) /\ chain[p].out \in Nics \ {i}
        BY <2>3, <4>1 DEF Rule, DropRule
      <4> QED BY <2>2, <2>3, <4>1, <4>2
    <3>2. ASSUME applied[i] = "Isolated" PROVE IsIsolated(i)
      <4>1. DropRule(i, n) \in ToSet(chain)
        BY <2>1, <2>2, <3>2
      <4>2. PICK p \in DOMAIN chain : chain[p] = DropRule(i, n)
        BY <4>1 DEF ToSet
      <4> QED BY <4>2 DEF IsIsolated, DropRule
    <3> QED BY <3>1, <3>2
  <2>5. IsPromiscuous(i) <=> applied[i] = "Promiscuous"
    <3>1. ASSUME IsPromiscuous(i) PROVE applied[i] = "Promiscuous"
      <4>1. PICK p \in DOMAIN chain : chain[p].target = "ACCEPT" /\ chain[p].out = i
        BY <3>1 DEF IsPromiscuous
      <4>2. chain[p] = AcceptRule(i, chain[p].in) /\ chain[p].in \in Nics \ {i}
        BY <2>3, <4>1 DEF Rule, AcceptRule
      <4> QED BY <2>2, <2>3, <4>1, <4>2
    <3>2. ASSUME applied[i] = "Promiscuous" PROVE IsPromiscuous(i)
      <4>1. AcceptRule(i, n) \in ToSet(chain)
        BY <2>1, <2>2, <3>2
      <4>2. PICK p \in DOMAIN chain : chain[p] = AcceptRule(i, n)
        BY <4>1 DEF ToSet
      <4> QED BY <4>2 DEF IsPromiscuous, AcceptRule
    <3> QED BY <3>1, <3>2
  <2>6. applied[i] \in Types
    BY DEF Settled
  <2> QED BY <2>4, <2>5, <2>6 DEF TypeOf, Types
<1> QED BY <1>1, Invariance, NoSelfRuleAlways, PTL

-----------------------------------------------------------------------------
\* The ebtables commands implement PrivateVlan.

Pass(a, b) == [in |-> a, out |-> b, target |-> "ACCEPT"]
Stop(a, b) == [in |-> a, out |-> b, target |-> "DROP"]

\* With the grants ahead of the blocks, places do not matter: a frame passes if a rule
\* grants it or no rule blocks it.
Passes(a, b) == Has(Pass(a, b)) \/ ~Has(Stop(a, b))

LEMMA ForwardsIsPasses ==
  ASSUME chain \in Seq(Rule), AcceptsFirst, NEW a \in Nics, NEW b \in Nics
  PROVE  Forwards(a, b) <=> Passes(a, b)
<1> DEFINE matches == {p \in DOMAIN chain : chain[p].in = a /\ chain[p].out = b}
<1>1. DOMAIN chain \subseteq Nat /\ \A p \in DOMAIN chain : chain[p] \in Rule
  BY LenProperties, ElementOfSeq
<1>2. \A p \in matches : chain[p] = IF chain[p].target = "ACCEPT" THEN Pass(a, b) ELSE Stop(a, b)
  BY <1>1 DEF Rule, Pass, Stop
<1>3. \A rule : Has(rule) <=> \E p \in DOMAIN chain : chain[p] = rule
  BY DEF Has, ToSet
<1>4. CASE matches = {}
  <2>1. ~Has(Stop(a, b))
    BY <1>3, <1>4 DEF Stop
  <2> QED BY <1>4, <2>1 DEF Forwards, Passes
<1>5. CASE matches # {}
  <2>1. PICK p \in matches : \A q \in matches : p <= q
    BY <1>1, <1>5, FirstPosition
  <2>2. \A q \in matches : (\A z \in matches : q <= z) => q = p
    <3> SUFFICES ASSUME NEW q \in matches, \A z \in matches : q <= z PROVE q = p
      OBVIOUS
    <3>1. p <= q /\ q <= p /\ p \in Nat /\ q \in Nat
      BY <1>1, <2>1
    <3> QED BY <3>1
  <2>3. Forwards(a, b) <=> chain[p].target = "ACCEPT"
    <3> HIDE DEF matches
    <3>1. Forwards(a, b) <=> \E q \in matches : (\A z \in matches : q <= z) /\ chain[q].target = "ACCEPT"
      BY <1>5 DEF Forwards, matches
    <3> QED BY <2>1, <2>2, <3>1
  <2>4. chain[p].target = "ACCEPT" => Passes(a, b)
    BY <1>2, <1>3 DEF Passes
  <2>5. ASSUME chain[p].target # "ACCEPT" PROVE ~Passes(a, b)
    <3>1. Has(Stop(a, b)) /\ chain[p].target = "DROP"
      BY <1>1, <1>2, <1>3, <2>5 DEF Rule
    <3>2. ASSUME NEW q \in DOMAIN chain, chain[q] = Pass(a, b) PROVE FALSE
      <4>1. q \in matches /\ chain[q].target = "ACCEPT"
        BY <3>2 DEF Pass
      <4>2. p <= q /\ q < p /\ p \in Nat /\ q \in Nat
        BY <1>1, <2>1, <3>1, <4>1 DEF AcceptsFirst
      <4> QED BY <4>2
    <3> QED BY <1>3, <3>1, <3>2 DEF Passes
  <2> QED BY <2>3, <2>4, <2>5
<1> QED BY <1>4, <1>5

-----------------------------------------------------------------------------
\* The mapping.

Mode == [i \in Nics |-> IF Settled(i) THEN applied[i] ELSE "Changing"]
Against == [i \in Nics |-> IF Settled(i) THEN covers[i] ELSE {}]
Wires == [a \in Nics |-> [b \in Nics |-> Forwards(a, b)]]

WiresGood ==
  /\ Wires \in [Nics -> [Nics -> BOOLEAN]]
  /\ \A a, b \in Nics : Wires[a][b] <=> Passes(a, b)

LEMMA WiresAre == IInv => WiresGood
<1> SUFFICES ASSUME IInv PROVE WiresGood
  OBVIOUS
<1>1. \A a, b \in Nics : Forwards(a, b) <=> Passes(a, b)
  BY ForwardsIsPasses DEF IInv, TypeOK
<1>2. \A a, b \in Nics : Forwards(a, b) \in BOOLEAN
  BY DEF Forwards
<1> QED BY <1>1, <1>2 DEF Wires, WiresGood

\* Two settled ports that know of each other pass frames as their types say.
HonestPairs ==
  \A a, b \in Nics :
    a # b /\ Settled(a) /\ Settled(b) /\ b \in covers[a] /\ a \in covers[b]
      => (Wires[a][b] <=> PV!Allowed(applied[a], applied[b]))

LEMMA SettledHonest == IInv => HonestPairs
<1> SUFFICES ASSUME IInv, NEW a \in Nics, NEW b \in Nics, a # b, Settled(a), Settled(b),
                    b \in covers[a], a \in covers[b]
             PROVE  Wires[a][b] <=> PV!Allowed(applied[a], applied[b])
  BY DEF HonestPairs
<1>1. Stop(a, b) = DropRule(a, b) /\ Pass(a, b) = AcceptRule(b, a)
  BY DEF Stop, Pass, DropRule, AcceptRule
<1>2. /\ Has(DropRule(a, b)) <=> applied[a] = "Isolated"
      /\ Has(AcceptRule(b, a)) <=> applied[b] = "Promiscuous"
  BY DEF IInv, RulesMatchType
<1>3. Wires[a][b] <=> Passes(a, b)
  BY WiresAre DEF WiresGood
<1> QED BY <1>1, <1>2, <1>3 DEF Passes, PV!Allowed

LEMMA InvariantHolds == IInv' => WiresGood' /\ HonestPairs'
BY WiresAre, SettledHonest, PTL

\* What leaves the chain and the settled ports alone is a stutter of PrivateVlan.
LEMMA Stutters ==
  ASSUME UNCHANGED chain,
         \A i \in Nics : /\ Settled(i)' <=> Settled(i)
                         /\ Settled(i) => applied'[i] = applied[i] /\ covers'[i] = covers[i]
  PROVE  UNCHANGED PV!vars
<1>1. Mode' = Mode
  BY DEF Mode
<1>2. Against' = Against
  BY DEF Against
<1>3. Wires' = Wires
  BY DEF Wires, Forwards
<1> QED BY <1>1, <1>2, <1>3 DEF PV!vars, Mode, Against, Wires

\* A command of a request for port i, whose rule has i at one of its ends.
LEMMA CommandRewires ==
  ASSUME IInv, IInv', NEW r \in Requests, req[r] # Idle, req'[r] # Idle, req'[r].nic = req[r].nic,
         \A o \in Requests \ {r} : req'[o] = req[o], UNCHANGED <<applied, covers, disturbed>>,
         NEW n \in Nics, NEW e \in {DropRule(req[r].nic, n), AcceptRule(req[r].nic, n)},
         ToSet(chain) \ {e} \subseteq ToSet(chain'), ToSet(chain') \subseteq ToSet(chain) \cup {e}
  PROVE  PV!Next
<1> DEFINE i == req[r].nic
<1>1. i \in Nics /\ Busy(i)
  BY RequestShape DEF IInv, Busy
<1>2. \A j : Busy(j)' <=> Busy(j)
  BY DEF Busy
<1>3. Mode' = Mode /\ Against' = Against
  BY <1>2 DEF Settled, Mode, Against, Types
<1>4. WiresGood /\ WiresGood'
  BY WiresAre, InvariantHolds
<1>5. ASSUME NEW a \in Nics \ {i}, NEW b \in Nics \ {i} PROVE Wires'[a][b] = Wires[a][b]
  <2>1. Pass(a, b) # e /\ Stop(a, b) # e
    BY <1>1 DEF Pass, Stop, DropRule, AcceptRule
  <2>2. (Has(Pass(a, b))' <=> Has(Pass(a, b))) /\ (Has(Stop(a, b))' <=> Has(Stop(a, b)))
    BY <2>1 DEF Has, Pass, Stop
  <2>3. Passes(a, b)' <=> Passes(a, b)
    BY <2>2 DEF Passes
  <2>4. Wires[a][b] <=> Passes(a, b)
    BY <1>4 DEF WiresGood
  <2>5. Wires'[a][b] <=> Passes(a, b)'
    BY <1>4 DEF WiresGood
  <2>6. Wires[a][b] \in BOOLEAN /\ Wires'[a][b] \in BOOLEAN
    BY <1>4 DEF WiresGood
  <2> QED BY <2>3, <2>4, <2>5, <2>6
<1>6. Mode[i] = "Changing"
  BY <1>1 DEF Mode, Settled
<1>7. Wires' \in [Nics -> [Nics -> BOOLEAN]]
  BY <1>4 DEF WiresGood
<1>8. PV!Rewire(i)
  BY <1>3, <1>5, <1>6, <1>7 DEF PV!Rewire, Mode, Against, Wires
<1> QED BY <1>1, <1>8 DEF PV!Next

-----------------------------------------------------------------------------
\* The steps.

LEMMA CommandsRewire ==
  ASSUME IInv, IInv', NEW r \in Requests, NEW n \in Nics,
         ClearDrop(r, n) \/ ClearAccept(r) \/ Block(r) \/ Grant(r)
  PROVE  PV!Next
<1> USE DEF IInv
<1>1. req[r] # Idle
  BY DEF ClearDrop, ClearAccept, Block, Grant, Idle
<1>2. /\ req'[r] # Idle /\ req'[r].nic = req[r].nic
      /\ \A o \in Requests \ {r} : req'[o] = req[o]
  BY <1>1, RequestShape
     DEF ClearDrop, ClearAccept, Block, Grant, Reach, PassAccept, PassRule, AfterAccept,
         Moved, Idle, TypeOK
<1>3. UNCHANGED <<applied, covers, disturbed>>
  BY DEF ClearDrop, ClearAccept, Block, Grant
<1>4. req[r].nic \in Nics /\ req[r].at \in Nics
  BY <1>1, RequestShape
<1>5. chain \in Seq(Rule)
  BY DEF TypeOK
<1>6. CASE ClearDrop(r, n)
  <2>1. chain' = Delete(DropRule(req[r].nic, n))
    BY <1>6 DEF ClearDrop
  <2>2. ToSet(chain) \ {DropRule(req[r].nic, n)} \subseteq ToSet(chain') /\ ToSet(chain') \subseteq ToSet(chain)
    BY <1>5, <2>1, DeleteEffect
  <2> QED BY <1>1, <1>2, <1>3, <2>2, CommandRewires
<1>7. CASE ClearAccept(r)
  <2>1. chain' = Delete(AcceptRule(req[r].nic, req[r].at))
    BY <1>7 DEF ClearAccept
  <2>2. ToSet(chain) \ {AcceptRule(req[r].nic, req[r].at)} \subseteq ToSet(chain') /\ ToSet(chain') \subseteq ToSet(chain)
    BY <1>5, <2>1, DeleteEffect
  <2> QED BY <1>1, <1>2, <1>3, <1>4, <2>2, CommandRewires
<1>8. CASE Block(r)
  <2>1. DropRule(req[r].nic, req[r].at) \in Rule /\ DropRule(req[r].nic, req[r].at).target = "DROP"
    BY <1>4, RuleFacts
  <2>2. ToSet(chain') = ToSet(chain) \cup {DropRule(req[r].nic, req[r].at)}
    BY <1>5, <1>8, <2>1, AppendEffect DEF Block
  <2> QED BY <1>1, <1>2, <1>3, <1>4, <2>2, CommandRewires
<1>9. CASE Grant(r)
  <2>1. AcceptRule(req[r].nic, req[r].at) \in Rule /\ AcceptRule(req[r].nic, req[r].at).target = "ACCEPT"
    BY <1>4, RuleFacts
  <2>2. ToSet(chain') = ToSet(chain) \cup {AcceptRule(req[r].nic, req[r].at)}
    BY <1>5, <1>9, <2>1, InsertEffect DEF Grant
  <2> QED BY <1>1, <1>2, <1>3, <1>4, <2>2, CommandRewires
<1> QED BY <1>6, <1>7, <1>8, <1>9

\* A request begins: nothing is promised about its port any more.
LEMMA StartBegins ==
  ASSUME IInv, NEW r \in Requests, NEW i \in Nics, NEW t \in Types, Start(r, i, t)
  PROVE  PV!Next
<1> USE DEF IInv, TypeOK
<1>1. /\ req[r] = Idle /\ req'[r] # Idle /\ req'[r].nic = i
      /\ \A o \in Requests \ {r} : req'[o] = req[o]
  BY DEF Start, Idle
<1>2. /\ \A j \in Nics \ {i} : /\ applied'[j] = applied[j] /\ covers'[j] = covers[j]
                               /\ j \in disturbed' <=> j \in disturbed
      /\ UNCHANGED chain
  BY DEF Start
<1>3. \A j \in Nics \ {i} : Busy(j)' <=> Busy(j)
  BY <1>1 DEF Busy
<1>4. ~Settled(i)'
  BY <1>1 DEF Settled, Busy
<1>5. \A j \in Nics \ {i} : Settled(j)' <=> Settled(j)
  BY <1>2, <1>3 DEF Settled
<1>6. Mode' = [Mode EXCEPT ![i] = "Changing"]
  BY <1>2, <1>4, <1>5 DEF Mode
<1>7. Against' = [Against EXCEPT ![i] = {}]
  BY <1>2, <1>4, <1>5 DEF Against
<1>8. Wires' = Wires
  BY <1>2 DEF Wires, Forwards
<1>9. PV!Begin(i)
  BY <1>6, <1>7, <1>8 DEF PV!Begin, Mode, Against, Wires
<1> QED BY <1>9 DEF PV!Next

\* A request ends: its port keeps the promise, or nothing is promised yet.
LEMMA FinishSettles ==
  ASSUME IInv, IInv', NEW r \in Requests, Finish(r)
  PROVE  PV!Next \/ UNCHANGED PV!vars
<1> USE DEF IInv, TypeOK
<1>1. req[r] # Idle /\ UNCHANGED <<chain, covers, disturbed>>
  BY DEF Finish, Idle
<1>0. PICK i \in Nics : i = req[r].nic
  BY <1>1, RequestShape
<1>2. req'[r] = Idle /\ \A o \in Requests \ {r} : req'[o] = req[o]
  BY DEF Finish
<1>3. i \in Nics /\ Busy(i)
  BY <1>1, <1>0 DEF Busy
<1>4. \A j \in Nics \ {i} : applied'[j] = applied[j]
  BY <1>0 DEF Finish
<1>5. \A j \in Nics \ {i} : Busy(j)' <=> Busy(j)
  BY <1>1, <1>2, <1>0 DEF Busy
<1>6. ~Settled(i)
  BY <1>3 DEF Settled
<1>7. \A j \in Nics \ {i} : Settled(j)' <=> Settled(j)
  BY <1>1, <1>4, <1>5 DEF Settled
<1>8. CASE ~Settled(i)'
  BY <1>1, <1>4, <1>6, <1>7, <1>8, Stutters
<1>9. CASE Settled(i)'
  <2>1. applied'[i] \in Types
    BY <1>9 DEF Settled
  <2>2. Mode' = [Mode EXCEPT ![i] = applied'[i]]
    BY <1>3, <1>4, <1>7, <1>9 DEF Mode
  <2>3. Against' = [Against EXCEPT ![i] = covers'[i]]
    BY <1>1, <1>3, <1>7, <1>9 DEF Against
  <2>4. Wires' = Wires
    BY <1>1 DEF Wires, Forwards
  <2>5. Mode[i] = "Changing"
    BY <1>3, <1>6 DEF Mode
  <2>6. PV!Honest'
    <3>1. HonestPairs'
      BY InvariantHolds
    <3>2. \A a \in Nics : Mode'[a] # "Changing" => Settled(a)' /\ Mode'[a] = applied'[a] /\ Against'[a] = covers'[a]
      BY DEF Mode, Against
    <3> QED BY <3>1, <3>2 DEF PV!Honest, PV!Settled, HonestPairs, Mode, Against, Wires
  <2>7. covers'[i] \in SUBSET Nics /\ applied'[i] \in PV!Modes
    BY <1>3, <2>1 DEF PV!Modes, Types
  <2>8. PV!Settle(i)
    BY <2>2, <2>3, <2>4, <2>5, <2>6, <2>7 DEF PV!Settle, Mode, Against, Wires
  <2> QED BY <1>3, <2>8 DEF PV!Next
<1> QED BY <1>8, <1>9

\* Failures, crashes and hot-plugging touch no port that is settled.
LEMMA RestStutters ==
  ASSUME IInv
  PROVE  /\ \A r \in Requests : Reject(r) => UNCHANGED PV!vars
         /\ Crash => UNCHANGED PV!vars
         /\ \A n \in Hotplug : Replug(n) => UNCHANGED PV!vars
         /\ UNCHANGED vars => UNCHANGED PV!vars
<1> USE DEF IInv, TypeOK
<1>1. ASSUME NEW r \in Requests, Reject(r) PROVE UNCHANGED PV!vars
  <2>1. req[r] # Idle /\ UNCHANGED <<chain, applied, covers>> /\ disturbed' = disturbed \cup {req[r].nic}
    BY <1>1 DEF Reject
  <2>2. /\ req'[r] # Idle /\ req'[r].nic = req[r].nic
        /\ \A o \in Requests \ {r} : req'[o] = req[o]
    BY <1>1, <2>1, RequestShape DEF Reject, Reach, PassAccept, PassRule, Moved, Idle
  <2>3. \A j : Busy(j)' <=> Busy(j)
    BY <2>1, <2>2 DEF Busy
  <2>4. \A j \in Nics : Settled(j)' <=> Settled(j)
    BY <2>1, <2>3 DEF Settled, Busy
  <2> QED BY <2>1, <2>4, Stutters
<1>2. ASSUME Crash PROVE UNCHANGED PV!vars
  <2>1. /\ \A r \in Requests : req'[r] = Idle
        /\ \A j \in Nics : applied'[j] = IF Busy(j) THEN "Unknown" ELSE applied[j]
        /\ UNCHANGED <<chain, covers, disturbed>>
    BY <1>2 DEF Crash
  <2>2. \A j : ~Busy(j)'
    BY <2>1 DEF Busy
  <2>3. \A j \in Nics : /\ Settled(j)' <=> Settled(j)
                        /\ Settled(j) => applied'[j] = applied[j]
    BY <2>1, <2>2 DEF Settled, Types
  <2> QED BY <2>1, <2>3, Stutters
<1>3. ASSUME UNCHANGED <<chain, req, applied, covers, disturbed>> PROVE UNCHANGED PV!vars
  <2>1. \A j \in Nics : Settled(j)' <=> Settled(j)
    BY <1>3 DEF Settled, Busy, Types
  <2> QED BY <1>3, <2>1, Stutters
<1> QED BY <1>1, <1>2, <1>3 DEF Replug, vars

LEMMA StepRefines == IInv /\ IInv' /\ [Next]_vars => [PV!Next]_(PV!vars)
<1> SUFFICES ASSUME IInv, IInv', [Next]_vars
             PROVE  PV!Next \/ UNCHANGED PV!vars
  OBVIOUS
<1>1. ASSUME NEW r \in Requests, NEW i \in Nics, NEW t \in Types, Start(r, i, t) PROVE PV!Next
  BY <1>1, StartBegins
<1>2. ASSUME NEW r \in Requests, NEW n \in Nics, ClearDrop(r, n) PROVE PV!Next
  BY <1>2, CommandsRewire
<1>3. ASSUME NEW r \in Requests, ClearAccept(r) \/ Block(r) \/ Grant(r) PROVE PV!Next
  <2>1. req[r].nic \in Nics
    BY <1>3, RequestShape DEF ClearAccept, Block, Grant, Idle, IInv
  <2> QED BY <1>3, <2>1, CommandsRewire
<1>4. ASSUME NEW r \in Requests, Finish(r) PROVE PV!Next \/ UNCHANGED PV!vars
  BY <1>4, FinishSettles
<1> HIDE DEF PV!Next, PV!vars
<1>5. ASSUME Next PROVE PV!Next \/ UNCHANGED PV!vars
  BY <1>1, <1>2, <1>3, <1>4, <1>5, RestStutters DEF Next
<1>6. ASSUME UNCHANGED vars PROVE UNCHANGED PV!vars
  BY <1>6, RestStutters
<1> QED BY <1>5, <1>6

\* No request has run: every port is unsettled and every frame passes.
LEMMA InitRefines == Init => PV!Init
<1> SUFFICES ASSUME Init PROVE PV!Init
  OBVIOUS
<1>1. \A i \in Nics : ~Settled(i)
  BY DEF Init, Settled, Types
<1>2. \A a, b \in Nics : Forwards(a, b) = TRUE
  BY DEF Init, Forwards
<1> QED BY <1>1, <1>2 DEF PV!Init

\* Whatever requests run at once, fail, die or are repeated: the commands only ever do
\* what the private-VLAN types allow, and editing one port leaves other pairs alone.
THEOREM RulesImplementTypes == Spec => ImplementsPrivateVlan
<1>1. Init => PV!Init
  BY InitRefines
<1>2. IInv /\ IInv' /\ [Next]_vars => [PV!Next]_(PV!vars)
  BY StepRefines
<1> QED BY <1>1, <1>2, Invariance, PTL DEF Spec, ImplementsPrivateVlan, PV!Spec
=============================================================================
