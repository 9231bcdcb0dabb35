---------------------------- MODULE PrivateVlan ----------------------------
(***************************************************************************)
(* What the private-VLAN types of the switch promise, with nothing of how  *)
(* they are brought about: a settled port has a mode, a port that is being *)
(* edited has none, and between two settled ports a frame passes exactly   *)
(* when the modes allow it.  Editing one port never disturbs a pair of     *)
(* other ports.                                                            *)
(***************************************************************************)
CONSTANTS Nics       \* the Ethernet ports

VARIABLES mode,      \* the mode a port was last settled in, or "Changing"
          peers,     \* the ports a settled port was settled against
          passes     \* a |-> b |-> does a frame from a to b pass

vars == <<mode, peers, passes>>

Modes == {"Off", "Isolated", "Promiscuous"}

\* An isolated port talks to promiscuous ports only.
Allowed(from, to) == from # "Isolated" \/ to = "Promiscuous"

Settled(i) == mode[i] # "Changing"

Honest ==
  \A a, b \in Nics :
    /\ a # b
    /\ Settled(a) /\ Settled(b)
    /\ b \in peers[a] /\ a \in peers[b]
    => (passes[a][b] <=> Allowed(mode[a], mode[b]))

Init == /\ mode = [i \in Nics |-> "Changing"]
        /\ peers = [i \in Nics |-> {}]
        /\ passes = [a \in Nics |-> [b \in Nics |-> TRUE]]

\* An edit of port i begins: nothing is promised about i until it settles.
Begin(i) == /\ mode' = [mode EXCEPT ![i] = "Changing"]
            /\ peers' = [peers EXCEPT ![i] = {}]
            /\ UNCHANGED passes

\* While i is edited only what involves i may change.
Rewire(i) == /\ mode[i] = "Changing"
             /\ passes' \in [Nics -> [Nics -> BOOLEAN]]
             /\ \A a, b \in Nics \ {i} : passes'[a][b] = passes[a][b]
             /\ UNCHANGED <<mode, peers>>

\* The edit is complete: the promise holds for i again.
Settle(i) == /\ mode[i] = "Changing"
             /\ \E m \in Modes : mode' = [mode EXCEPT ![i] = m]
             /\ \E P \in SUBSET Nics : peers' = [peers EXCEPT ![i] = P]
             /\ UNCHANGED passes
             /\ Honest'

Next == \E i \in Nics : Begin(i) \/ Rewire(i) \/ Settle(i)

Spec == Init /\ [][Next]_vars
=============================================================================
