------------------------------ MODULE MCRouter ------------------------------
(* Model-checking instances of Router: two routes as in the repository's     *)
(* rtable, host a behind the default route and host b behind the second.     *)
(* x is an address outside the subnet.  The two gateways hash alike.         *)
EXTENDS Router

MCIp == {"a", "b", "r1", "r2", "x"}
MCPacket == [src : MCIp, dst : MCIp]
MCAddress == {1, 3}
MCRouteOf == [i \in MCIp |-> IF i \in {"b", "r2"} THEN 2 ELSE 1]
MCGateway == <<1, 3>>
MCInterface == <<"eth0", "eth1">>
MCIface == {"eth0", "eth1"}
MCOwnIp == [i \in MCIface |-> IF i = "eth0" THEN "r1" ELSE "r2"]
MCOurSubnet == {"b", "r1", "r2"}
MCFlow == {<<"a", "b">>, <<"b", "a">>, <<"a", "r1">>, <<"a", "x">>}
\* The two directions of a conversation, for the liveness runs.
MCTwoWay == {<<"a", "b">>, <<"b", "a">>}
MCReply == {<<1, "m1", "eth0">>, <<3, "m2", "eth1">>}
\* The first gateway is also heard on the interface of the second.
MCReplyAcross == MCReply \cup {<<1, "m1", "eth1">>}
\* Two more hosts answer than the table has room for, with either failure of the
\* search.
MCAddressMore == {1, 3, 4, 5}
MCReplyMore == MCReply \cup {<<4, "m1", "eth0">>, <<5, "m2", "eth1">>}
=============================================================================
