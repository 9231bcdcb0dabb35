---------------------------- MODULE MCPortPages ----------------------------
\* Small instances of PortPages: two ports, two VLANs, a few forms and frames.
EXTENDS PortPages, TLC

CONSTANTS eth0, eth1, v1, v2, t1, t2

Form(n, active, isTagged, isGvrp, t, vs) ==
  [nic |-> n, active |-> active, tagged |-> isTagged, gvrp |-> isGvrp, type |-> t, vlans |-> vs]

MCForms == {Form(eth0, TRUE, FALSE, FALSE, "Isolated", <<v1>>),
            Form(eth0, FALSE, TRUE, TRUE, "Off", <<v1, v2>>),
            Form(eth1, FALSE, FALSE, FALSE, "Off", <<v2, v1>>),
            Form(eth1, TRUE, TRUE, TRUE, "Isolated", <<v1>>),
            Form(eth1, TRUE, TRUE, FALSE, "Promiscuous", <<v2, v1>>)}

Says(event, v) == [event |-> event, vlan |-> v]

\* A join; a join and a leave of one VLAN in two frames; a leave behind a LeaveAll.
MCBatches == {<< <<Says(2, v2)>> >>,
              << <<Says(3, v1), Says(3, v2)>>, <<Says(2, v2)>> >>,
              << <<Says(2, v2), Says(0, v1), Says(3, v1)>> >>}

MCSymmetry == Permutations({t1, t2})
=============================================================================
