----------------------------- MODULE Interfaces -----------------------------
(***************************************************************************)
(* The interfaces of the router (sr_if.c).  Records are allocated one by   *)
(* one and reached three ways: along if_list, which is in the order of     *)
(* allocation, through interfaces, by the number in the name, and through  *)
(* ip2iface, by the last byte of the address.  A pointer to a record is    *)
(* its position in ifaces.                                                 *)
(***************************************************************************)
EXTENDS Process, Integers, Sequences

CONSTANTS Name,         \* interface names
          NumberOf,     \* the number in each name, atoi(name + 3)
          LAN_SIZE,     \* size of the two tables
          Ip,           \* addresses of interfaces
          LowByte,      \* the last byte of each address
          NoIp          \* what malloc left in a record: no address in use

ASSUME InterfacesAssumption ==
    /\ LAN_SIZE \in Nat \ {0}
    /\ NumberOf \in [Name -> Nat]
    /\ LowByte \in [Ip -> 0..(LAN_SIZE - 1)]
    /\ NoIp \notin Ip

VARIABLES ifaces,       \* every record allocated
          if_list,      \* head of the list: the first record or NULL
          interfaces,   \* record of each number
          ip2iface,     \* record of each last byte
          freed         \* the records given back to the allocator

ifVars == <<ifaces, if_list, interfaces, ip2iface, freed>>

NULL == 0
Slot == 0..(LAN_SIZE - 1)
Record == 1..Len(ifaces)
Pointer == 0..Len(ifaces)

-----------------------------------------------------------------------------
InterfacesInit ==
    /\ ifaces = <<>>
    /\ if_list = NULL
    /\ interfaces = [i \in Slot |-> NULL]
    /\ ip2iface = [i \in Slot |-> NULL]
    /\ freed = {}

\* Mutant: the slot may be in use already.
TakenNever(n) == FALSE

\* The assertion that guards a slot is passed over for the first interface.
Taken(n) == if_list # NULL /\ interfaces[NumberOf[n]] # NULL

\* Append an interface to the list and enter it under its number.
sr_add_interface(n) ==
    \/ /\ NumberOf[n] >= LAN_SIZE
       /\ StopIn("sr_if_name2idx") /\ UNCHANGED ifVars
    \/ /\ NumberOf[n] < LAN_SIZE /\ Taken(n)
       /\ StopIn("sr_add_interface") /\ UNCHANGED ifVars
    \/ /\ NumberOf[n] < LAN_SIZE /\ ~ Taken(n)
       /\ Proceed
       /\ ifaces' = Append(ifaces, [name |-> n, ip |-> NoIp])
       /\ if_list' = 1
       /\ interfaces' = [interfaces EXCEPT ![NumberOf[n]] = Len(ifaces) + 1]
       /\ UNCHANGED <<ip2iface, freed>>

\* Mutant: the slot of a last byte, once taken, is kept.
SharerKept(ip) == IF ip2iface[LowByte[ip]] = NULL THEN Len(ifaces)
                  ELSE ip2iface[LowByte[ip]]

\* Mutant: a record past the end of the list.
SharerPast(ip) == Len(ifaces) + 1

\* Who gets the slot of an address's last byte: the interface added last.
Sharer(ip) == Len(ifaces)

\* An IP address for the interface added last; it takes its byte's slot from
\* any interface that has it.
sr_set_ether_ip(ip) ==
    \/ if_list = NULL /\ StopIn("sr_set_ether_ip") /\ UNCHANGED ifVars
    \/ /\ if_list # NULL
       /\ Proceed
       /\ ifaces' = [ifaces EXCEPT ![Len(ifaces)].ip = ip]
       /\ ip2iface' = [ip2iface EXCEPT ![LowByte[ip]] = Sharer(ip)]
       /\ UNCHANGED <<if_list, interfaces, freed>>

\* A MAC address for the interface added last.
sr_set_ether_addr ==
    /\ IF if_list = NULL THEN StopIn("sr_set_ether_addr") ELSE Proceed
    /\ UNCHANGED ifVars

sr_if_name2iface(n) == interfaces[NumberOf[n]]

sr_if_ip2iface(ip) ==
    LET k == ip2iface[LowByte[ip]]
    IN  IF k # NULL /\ ifaces[k].ip = ip THEN k ELSE NULL

\* One turn of sr_if_clear: the two records of slot i are freed, whatever else
\* points to them.  What freeing a record again does is up to the allocator.
FreedAgain(i) ==
    \/ {interfaces[i], ip2iface[i]} \cap freed # {}
    \/ interfaces[i] = ip2iface[i] /\ interfaces[i] # NULL

ClearSlot(i) ==
    /\ Proceed \/ (FreedAgain(i) /\ StopIn("sr_if_clear"))
    /\ freed' = freed \cup ({interfaces[i], ip2iface[i]} \ {NULL})
    /\ interfaces' = [interfaces EXCEPT ![i] = NULL]
    /\ ip2iface' = [ip2iface EXCEPT ![i] = NULL]
    /\ UNCHANGED <<ifaces, if_list>>

\* The last turn, at LAN_SIZE, is past both tables: the slots it reads are
\* ip2iface[0] and the routing table's head.  Then the list is empty.
ClearLast ==
    /\ Proceed
    /\ if_list' = NULL
    /\ UNCHANGED <<ifaces, interfaces, ip2iface, freed>>

-----------------------------------------------------------------------------
IfTypeOK ==
    /\ ifaces \in Seq([name : Name, ip : Ip \cup {NoIp}])
    /\ if_list \in Pointer /\ if_list \in {NULL, 1}
    /\ interfaces \in [Slot -> Pointer]
    /\ ip2iface \in [Slot -> Pointer]
    /\ freed \subseteq Record

\* Until the tables are cleared: the list, which the routing table is verified
\* against, and the table by number, which frames and routes go through,
\* describe the same interfaces, no two of which share a number
\* (sr_if.c:119-155, where the assertion is skipped for the first interface).
NumbersAgree ==
    if_list # NULL /\ freed = {} =>
        /\ \A k \in Record :
             /\ NumberOf[ifaces[k].name] < LAN_SIZE
             /\ interfaces[NumberOf[ifaces[k].name]] = k
        /\ \A n \in Slot :
             interfaces[n] # NULL => NumberOf[ifaces[interfaces[n]].name] = n

\* Until then an interface's address is found through its last byte, unless an
\* interface added later was given an address with the same last byte
\* (sr_if.c:204): no address is shadowed by an earlier one or lost.
AddressesFound ==
    if_list # NULL /\ freed = {} =>
        \A k \in Record :
            ifaces[k].ip # NoIp =>
                \/ sr_if_ip2iface(ifaces[k].ip) = k
                \/ ip2iface[LowByte[ifaces[k].ip]] > k
=============================================================================
