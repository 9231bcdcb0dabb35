--------------------------- MODULE MCVlanBridges ---------------------------
\* Instances of VlanBridges for TLC.
EXTENDS VlanBridges

CONSTANTS eth0, eth1, v1, v2, web, web2

Untag(n, vs) == [op |-> "edit", nic |-> n, active |-> TRUE, tagged |-> FALSE,
                 gvrp |-> FALSE, vlans |-> vs]
Tag(n, vs, g) == [op |-> "edit", nic |-> n, active |-> FALSE, tagged |-> TRUE,
                  gvrp |-> g, vlans |-> vs]
SetAddr(v) == [op |-> "address", vlan |-> v]
Frame(adds, removes) == [op |-> "frame", adds |-> adds, removes |-> removes]

\* Edits of two ports that meet in one VLAN, tagged, untagged and moving, the address of
\* that VLAN, and a GVRP frame that exchanges VLANs.
Meeting ==
  (web :> {Untag(eth0, << >>), Untag(eth0, <<v1, v2>>), Tag(eth0, <<v1>>, TRUE),
           SetAddr(v1), Frame(<<v2>>, <<v1>>)})
  @@ (web2 :> {Untag(eth1, <<v1>>), Tag(eth1, <<v2>>, TRUE),
               Tag(eth1, <<v2, v1>>, FALSE)})

\* Two threads on ports of their own but the same VLAN.
Shared ==
  (web :> {Untag(eth0, << >>), Untag(eth0, <<v1>>)})
  @@ (web2 :> {Untag(eth1, << >>), Untag(eth1, <<v1>>)})
=============================================================================
