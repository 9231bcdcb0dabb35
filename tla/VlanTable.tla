----------------------------- MODULE VlanTable -----------------------------
(***************************************************************************)
(* What the VLAN pages promise: a table with a row for each port, the      *)
(* VLANs it carries tagged and untagged.  An update of a port names its    *)
(* new row.  Until it is over, and after it failed, the row may be         *)
(* anything; then it is the row that was asked for, and it stays that way  *)
(* until somebody updates that same port.                                  *)
(***************************************************************************)
CONSTANTS Nics, Vlans

VARIABLES table,   \* port |-> its row, or Changing
          goal     \* port |-> the row its running update asked for, or None

Row == [tagged : SUBSET Vlans, untagged : SUBSET Vlans]
Changing == [row |-> "changing"]
None == [row |-> "none"]
Anything == [row |-> "any"]   \* the goal of an update that promises no row

Init == /\ table = [n \in Nics |-> [tagged |-> {}, untagged |-> {}]]
        /\ goal = [n \in Nics |-> None]

Stays(n) == table'[n] = table[n] /\ goal'[n] = goal[n]

Begins(n) == /\ goal[n] = None
             /\ table'[n] = Changing
             /\ goal'[n] \in Row \cup {Anything}

Settles(n) == /\ goal[n] \in Row
              /\ table'[n] = goal[n]
              /\ goal'[n] = None

GivesUp(n) == /\ goal[n] # None
              /\ table'[n] = Changing
              /\ goal'[n] = None

\* Another update of the port gets in its way, and neither promises a row any more.
Clashes(n) == /\ goal[n] # None
              /\ table'[n] = Changing
              /\ goal'[n] = Anything

\* One update may take several ports along (a GVRP frame does).
Next == \A n \in Nics : Stays(n) \/ Begins(n) \/ Settles(n) \/ GivesUp(n) \/ Clashes(n)

Spec == Init /\ [][Next]_<<table, goal>>
=============================================================================
