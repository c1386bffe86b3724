---------------------------- MODULE MCLifecycle -----------------------------
(* Model-checking instance of Lifecycle: two slots for interfaces, a third   *)
(* name whose number is too large, two addresses with the same last byte.    *)
EXTENDS Lifecycle

MCName == {"eth0", "eth1", "eth9"}
MCNumberOf == [n \in MCName |-> CASE n = "eth0" -> 0 [] n = "eth1" -> 1 [] n = "eth9" -> 9]
MCIp == {"a", "b"}
MCLowByte == [a \in MCIp |-> 0]
MCTable == {<<"eth0", "eth1">>, <<"eth1">>, <<"eth0", BadLine>>}
MCFile == {"rtable", "rtable.vrhost"}
Interface(n) == [key |-> "HWINTERFACE", name |-> n]
Address(a) == [key |-> "HWETHIP", ip |-> a]
Mac == [key |-> "HWETHER"]
MCHwInfo == {<<Interface("eth1"), Mac, Address("a"), Interface("eth0"), Mac, Address("b")>>,
             <<Interface("eth1"), Address("b")>>,
             <<Address("a"), Interface("eth0")>>}
Simple(t) == [type |-> t]
FrameFor(n, arp, long, tip) ==
    [type |-> "VNSPACKET", name |-> n, arp |-> arp, long |-> long, tip |-> tip]
Frame(n, arp, long) == FrameFor(n, arp, long, "a")
MCSent ==
    {Simple("VNSCLOSE"), Simple("VNS_AUTH_REQUEST"), Simple("VNSBANNER"),
     Simple("oversize"), Simple("partial"),
     [type |-> "VNS_AUTH_STATUS", auth_ok |-> TRUE],
     [type |-> "VNS_AUTH_STATUS", auth_ok |-> FALSE],
     [type |-> "VNS_RTABLE", file |-> "rtable.vrhost", rtable |-> <<"eth0", "eth1">>],
     [type |-> "VNS_RTABLE", file |-> "rtable", rtable |-> <<"eth1">>],
     Frame("eth0", TRUE, TRUE), Frame("eth1", FALSE, TRUE), Frame("eth0", TRUE, FALSE),
     Frame("eth1", FALSE, FALSE), Frame("eth9", FALSE, TRUE),
     FrameFor("eth0", TRUE, TRUE, NoIp)}
    \cup [type : {"VNSHWINFO"}, mHWInfo : MCHwInfo]
=============================================================================
