-------------------------- MODULE LifecycleProofs ---------------------------
(***************************************************************************)
(* Proofs about Lifecycle, for every set of interfaces, files and          *)
(* messages, every size of the tables and however the server's messages    *)
(* are cut into pieces: what the two tables of interfaces promise until    *)
(* the clean-up, the order of the handshake, what the forwarding path is   *)
(* entered with, and that the loop that runs past its tables reads null.   *)
(***************************************************************************)
EXTENDS Lifecycle, TLAPS

-----------------------------------------------------------------------------
(* What the operations of Interfaces preserve.                              *)

\* Until the clean-up ends the head of the list tells whether it is empty.
HeadAgrees == if_list = NULL <=> ifaces = <<>>

IfInv == IfTypeOK /\ NumbersAgree /\ AddressesFound

\* An item of a sequence is in the set the sequence is over.
LEMMA ItemOfSeq ==
    ASSUME NEW S, NEW q \in Seq(S), NEW k \in 1..Len(q)
    PROVE  q[k] \in S
  OBVIOUS

\* Registering an interface under a number that is free.
LEMMA AddPreserves ==
    ASSUME IfInv, HeadAgrees, freed = {}, NEW n \in Name, sr_add_interface(n)
    PROVE  IfInv' /\ HeadAgrees' /\ freed' = freed
  <1> DEFINE r == [name |-> n, ip |-> NoIp]
             new == Len(ifaces) + 1
  <1>1. CASE UNCHANGED ifVars
    BY <1>1 DEF ifVars, IfInv, IfTypeOK, NumbersAgree, AddressesFound, HeadAgrees,
                Record, Pointer, sr_if_ip2iface
  <1>2. CASE ~ UNCHANGED ifVars
    <2>1. /\ NumberOf[n] < LAN_SIZE /\ ~ Taken(n)
          /\ ifaces' = Append(ifaces, r) /\ if_list' = 1
          /\ interfaces' = [interfaces EXCEPT ![NumberOf[n]] = new]
          /\ UNCHANGED <<ip2iface, freed>>
      BY <1>2 DEF sr_add_interface
    <2>2. /\ ifaces \in Seq([name : Name, ip : Ip \cup {NoIp}])
          /\ interfaces \in [Slot -> Pointer] /\ ip2iface \in [Slot -> Pointer]
          /\ NumberOf[n] \in Slot /\ Len(ifaces) \in Nat
      BY <2>1, InterfacesAssumption DEF IfInv, IfTypeOK, Slot
    <2>3. /\ ifaces' \in Seq([name : Name, ip : Ip \cup {NoIp}])
          /\ Len(ifaces') = new /\ ifaces'[new] = r
          /\ \A k \in Record : ifaces'[k] = ifaces[k]
          /\ Record' = Record \cup {new} /\ Pointer' = Pointer \cup {new}
      BY <2>1, <2>2 DEF Record, Pointer
    <2>4. IfTypeOK'
      <3>1. 1 \in Pointer'
        BY <2>2, <2>3 DEF Pointer
      <3>2. interfaces' \in [Slot -> Pointer'] /\ ip2iface' \in [Slot -> Pointer']
        BY <2>1, <2>2, <2>3
      <3>3. freed' \subseteq Record'
        BY <2>1, <2>3 DEF IfInv, IfTypeOK
      <3> QED
        BY <2>1, <2>3, <3>1, <3>2, <3>3 DEF IfTypeOK
    <2>5. interfaces[NumberOf[n]] = NULL
      <3>1. CASE if_list = NULL
        BY <3>1, <2>2 DEF HeadAgrees, Pointer, NULL
      <3>2. CASE if_list # NULL
        BY <3>2, <2>1 DEF Taken
      <3> QED
        BY <3>1, <3>2
    <2>6. NumbersAgree'
      <3>1. /\ \A k \in Record : /\ NumberOf[ifaces[k].name] < LAN_SIZE
                                 /\ interfaces[NumberOf[ifaces[k].name]] = k
            /\ \A m \in Slot :
                 interfaces[m] # NULL => NumberOf[ifaces[interfaces[m]].name] = m
        <4>1. CASE if_list = NULL
          BY <4>1, <2>2 DEF HeadAgrees, Record, Pointer, NULL
        <4>2. CASE if_list # NULL
          BY <4>2 DEF IfInv, NumbersAgree
        <4> QED
          BY <4>1, <4>2
      <3>2. \A k \in Record' : /\ NumberOf[ifaces'[k].name] < LAN_SIZE
                               /\ interfaces'[NumberOf[ifaces'[k].name]] = k
        <4> SUFFICES ASSUME NEW k \in Record'
                     PROVE  /\ NumberOf[ifaces'[k].name] < LAN_SIZE
                            /\ interfaces'[NumberOf[ifaces'[k].name]] = k
          OBVIOUS
        <4>1. CASE k = new
          BY <4>1, <2>1, <2>2, <2>3
        <4>2. CASE k \in Record
          <5>1. k # NULL /\ ifaces'[k] = ifaces[k]
            BY <4>2, <2>3 DEF Record, NULL
          <5>2. NumberOf[ifaces[k].name] # NumberOf[n]
            BY <4>2, <5>1, <3>1, <2>5
          <5>3. ifaces[k].name \in Name
            <6>1. ifaces[k] \in [name : Name, ip : Ip \cup {NoIp}]
              BY <4>2, <2>2, ItemOfSeq DEF Record
            <6> QED
              BY <6>1
          <5>4. NumberOf[ifaces[k].name] \in Slot
            BY <4>2, <5>3, <3>1, InterfacesAssumption DEF Slot
          <5> QED
            BY <4>2, <5>1, <5>2, <5>4, <3>1, <2>1, <2>2
        <4> QED
          BY <4>1, <4>2, <2>3
      <3>3. \A m \in Slot :
              interfaces'[m] # NULL => NumberOf[ifaces'[interfaces'[m]].name] = m
        <4> SUFFICES ASSUME NEW m \in Slot, interfaces'[m] # NULL
                     PROVE  NumberOf[ifaces'[interfaces'[m]].name] = m
          OBVIOUS
        <4>1. CASE m = NumberOf[n]
          BY <4>1, <2>1, <2>2, <2>3
        <4>2. CASE m # NumberOf[n]
          <5>1. interfaces'[m] = interfaces[m]
            BY <4>2, <2>1, <2>2
          <5>2. interfaces[m] \in Record
            BY <5>1, <2>2 DEF Pointer, Record, NULL
          <5> QED
            BY <5>1, <5>2, <3>1, <2>3
        <4> QED
          BY <4>1, <4>2
      <3> QED
        BY <3>2, <3>3 DEF NumbersAgree
    <2>7. AddressesFound'
      <3> SUFFICES ASSUME NEW k \in Record', ifaces'[k].ip # NoIp
                   PROVE  \/ sr_if_ip2iface(ifaces[k].ip)' = k
                          \/ ip2iface'[LowByte[ifaces'[k].ip]] > k
        BY DEF AddressesFound
      <3>1. k \in Record /\ ifaces'[k] = ifaces[k] /\ k # new
        BY <2>2, <2>3 DEF Record
      <3>2. if_list # NULL
        BY <3>1, <2>2 DEF HeadAgrees, Record
      <3>3. sr_if_ip2iface(ifaces[k].ip) = k \/ ip2iface[LowByte[ifaces[k].ip]] > k
        BY <3>1, <3>2 DEF IfInv, AddressesFound
      <3>4. k # NULL
        BY <3>1 DEF Record, NULL
      <3> QED
        BY <2>1, <3>1, <3>3, <3>4 DEF sr_if_ip2iface
    <2>8. HeadAgrees'
      BY <2>1, <2>2 DEF HeadAgrees, NULL
    <2> QED
      BY <2>1, <2>4, <2>6, <2>7, <2>8 DEF IfInv
  <1> QED
    BY <1>1, <1>2

\* An address for the last interface takes the slot of its last byte, from an
\* interface added earlier if from any.
LEMMA SetIpPreserves ==
    ASSUME IfInv, HeadAgrees, freed = {}, NEW ip \in Ip, sr_set_ether_ip(ip)
    PROVE  IfInv' /\ HeadAgrees' /\ freed' = freed
  <1> DEFINE last == Len(ifaces)
  <1>1. CASE UNCHANGED ifVars
    BY <1>1 DEF ifVars, IfInv, IfTypeOK, NumbersAgree, AddressesFound, HeadAgrees,
                Record, Pointer, sr_if_ip2iface
  <1>2. CASE ~ UNCHANGED ifVars
    <2>1. /\ if_list # NULL
          /\ ifaces' = [ifaces EXCEPT ![last].ip = ip]
          /\ ip2iface' = [ip2iface EXCEPT ![LowByte[ip]] = last]
          /\ UNCHANGED <<if_list, interfaces, freed>>
      BY <1>2 DEF sr_set_ether_ip, Sharer
    <2>2. /\ ifaces \in Seq([name : Name, ip : Ip \cup {NoIp}])
          /\ interfaces \in [Slot -> Pointer] /\ ip2iface \in [Slot -> Pointer]
          /\ LowByte[ip] \in Slot /\ last \in Record /\ last \in Nat
      BY <2>1, InterfacesAssumption DEF IfInv, IfTypeOK, Slot, HeadAgrees, Record
    <2>3. /\ ifaces' \in Seq([name : Name, ip : Ip \cup {NoIp}])
          /\ Len(ifaces') = last /\ Record' = Record /\ Pointer' = Pointer
          /\ \A k \in Record : ifaces'[k].name = ifaces[k].name
          /\ \A k \in Record \ {last} : ifaces'[k] = ifaces[k]
          /\ ifaces'[last].ip = ip
      <3>1. ifaces[last] \in [name : Name, ip : Ip \cup {NoIp}]
        BY <2>2, ItemOfSeq DEF Record
      <3>2. [ifaces[last] EXCEPT !.ip = ip] \in [name : Name, ip : Ip \cup {NoIp}]
        BY <3>1
      <3>3. ifaces' = [ifaces EXCEPT ![last] = [ifaces[last] EXCEPT !.ip = ip]]
        BY <2>1
      <3>4. ifaces' \in Seq([name : Name, ip : Ip \cup {NoIp}]) /\ Len(ifaces') = last
        BY <2>2, <3>2, <3>3 DEF Record
      <3>5. Record' = Record /\ Pointer' = Pointer
        BY <3>4 DEF Record, Pointer
      <3>6. ifaces'[last] = [ifaces[last] EXCEPT !.ip = ip]
            /\ \A k \in Record \ {last} : ifaces'[k] = ifaces[k]
        BY <2>2, <3>3 DEF Record
      <3>7. ifaces'[last].ip = ip /\ ifaces'[last].name = ifaces[last].name
        BY <3>1, <3>6
      <3> QED
        BY <3>4, <3>5, <3>6, <3>7
    <2>4. IfTypeOK'
      <3>1. last \in Pointer
        BY <2>2 DEF Pointer, Record
      <3> QED
        BY <2>1, <2>2, <2>3, <3>1 DEF IfInv, IfTypeOK
    <2>5. NumbersAgree'
      <3>1. \A m \in Slot : interfaces[m] # NULL => interfaces[m] \in Record
        BY <2>2 DEF Pointer, Record, NULL
      <3> QED
        BY <2>1, <2>3, <3>1 DEF IfInv, NumbersAgree
    <2>6. AddressesFound'
      <3> SUFFICES ASSUME NEW k \in Record, ifaces'[k].ip # NoIp
                   PROVE  \/ sr_if_ip2iface(ifaces[k].ip)' = k
                          \/ ip2iface'[LowByte[ifaces'[k].ip]] > k
        BY <2>3 DEF AddressesFound
      <3>1. CASE k = last
        BY <3>1, <2>1, <2>2, <2>3 DEF sr_if_ip2iface, Record, NULL
      <3>2. CASE k # last
        <4>1. ifaces'[k] = ifaces[k] /\ k < last /\ k # NULL
          BY <3>2, <2>2, <2>3 DEF Record, NULL
        <4>2. ifaces[k].ip \in Ip
          <5>1. ifaces[k] \in [name : Name, ip : Ip \cup {NoIp}]
            BY <2>2, ItemOfSeq DEF Record
          <5> QED
            BY <4>1, <5>1
        <4>3. LowByte[ifaces[k].ip] \in Slot
          BY <4>2, InterfacesAssumption DEF Slot
        <4>4. sr_if_ip2iface(ifaces[k].ip) = k \/ ip2iface[LowByte[ifaces[k].ip]] > k
          BY <2>1, <4>1 DEF IfInv, AddressesFound
        <4>5. CASE LowByte[ifaces[k].ip] = LowByte[ip]
          BY <4>5, <2>1, <2>2, <4>1
        <4>6. CASE LowByte[ifaces[k].ip] # LowByte[ip]
          <5>1. ip2iface'[LowByte[ifaces[k].ip]] = ip2iface[LowByte[ifaces[k].ip]]
            BY <4>6, <2>1, <2>2, <4>3
          <5> QED
            BY <5>1, <4>1, <4>4 DEF sr_if_ip2iface
        <4> QED
          BY <4>5, <4>6
      <3> QED
        BY <3>1, <3>2
    <2>7. HeadAgrees'
      BY <2>1, <2>2, <2>3 DEF HeadAgrees, Record
    <2> QED
      BY <2>1, <2>4, <2>5, <2>6, <2>7 DEF IfInv
  <1> QED
    BY <1>1, <1>2

\* A turn of the clean-up empties its slot in both tables, and frees a record
\* unless both were empty.
LEMMA ClearSlotPreserves ==
    ASSUME IfInv, NEW s \in Slot, ClearSlot(s)
    PROVE  /\ IfInv'
           /\ interfaces' = [interfaces EXCEPT ![s] = NULL]
           /\ ip2iface' = [ip2iface EXCEPT ![s] = NULL]
  <1>1. /\ freed' = freed \cup ({interfaces[s], ip2iface[s]} \ {NULL})
        /\ interfaces' = [interfaces EXCEPT ![s] = NULL]
        /\ ip2iface' = [ip2iface EXCEPT ![s] = NULL]
        /\ UNCHANGED <<ifaces, if_list>>
    BY DEF ClearSlot
  <1>2. interfaces \in [Slot -> Pointer] /\ ip2iface \in [Slot -> Pointer]
    BY DEF IfInv, IfTypeOK
  <1>3. IfTypeOK'
    <2>1. Pointer' = Pointer /\ Record' = Record /\ Pointer \ {NULL} \subseteq Record
          /\ NULL \in Pointer
      BY <1>1 DEF IfInv, IfTypeOK, Pointer, Record, NULL
    <2>2. interfaces' \in [Slot -> Pointer] /\ ip2iface' \in [Slot -> Pointer]
      BY <1>1, <1>2, <2>1
    <2>3. freed' \subseteq Record
      BY <1>1, <1>2, <2>1 DEF IfInv, IfTypeOK
    <2> QED
      BY <1>1, <2>1, <2>2, <2>3 DEF IfInv, IfTypeOK
  <1>4. freed' = {} => freed = {} /\ interfaces' = interfaces /\ ip2iface' = ip2iface
    BY <1>1, <1>2
  <1>5. NumbersAgree' /\ AddressesFound'
    BY <1>1, <1>4 DEF IfInv, NumbersAgree, AddressesFound, sr_if_ip2iface, Record
  <1> QED
    BY <1>1, <1>3, <1>5 DEF IfInv

-----------------------------------------------------------------------------
(* What the process keeps from start to exit.                               *)

Clearing == {"rt_clear", "if_clear", "buf_clear", "exit"}

\* No hardware information before the session.
Fresh == {"load", "connect", "open", "reload"} \cup Handshake

\* The interfaces, and what the clean-up has done to them so far.
Records ==
    /\ NumbersAgree /\ AddressesFound
    /\ pc \notin Clearing => HeadAgrees
    /\ pc \notin Clearing => freed = {}
    /\ pc \in Fresh => ifaces = <<>>
    /\ pc = "if_clear" =>
         /\ i \in 0..LAN_SIZE
         /\ routing_table = <<>>
         /\ \A s \in Slot : s < i => interfaces[s] = NULL /\ ip2iface[s] = NULL

\* What was verified when the hardware information ended, and the frame in hand.
Checked ==
    /\ pc \in {"loop", "router"} /\ ifaces # <<>> => Verified /\ ~ ScanFaults
    /\ pc = "router" /\ frame.long =>
         /\ frame.name \in Name
         /\ NumberOf[frame.name] < LAN_SIZE
         /\ sr_if_name2iface(frame.name) # NULL

\* The first n messages of the handshake.
HeardFirst(n) ==
    /\ Len(heard) = n
    /\ n >= 1 => heard[1].type = "VNS_AUTH_REQUEST"
    /\ n >= 2 => heard[2].type = "VNS_AUTH_STATUS" /\ heard[2].auth_ok
    /\ n >= 3 => heard[3].type = "VNS_RTABLE"

\* How far the handshake is.
HeardSoFar ==
    /\ pc \in {"load", "connect", "auth"} => HeardFirst(0)
    /\ pc = "status" => HeardFirst(1)
    /\ pc \in {"open", "rtable"} => HeardFirst(2)
    /\ pc = "reload" => HeardFirst(3)
    /\ pc \in {"loop", "hwinfo", "router"} => HeardFirst(IF template THEN 3 ELSE 2)
    /\ pc \in {"rtable", "reload"} => template
    /\ pc = "load" => ~ template

\* The table the server gave for the file that will be loaded.
Given == heard[3].file = TemplateFile

\* How much of it is loaded.
LoadedSoFar ==
    /\ template /\ pc \in Fresh \ {"reload"} => routing_table = <<>>
    /\ pc = "reload" /\ Given =>
         /\ heard[3].rtable = files[TemplateFile]
         /\ Len(routing_table) <= Len(heard[3].rtable)
         /\ \A k \in DOMAIN routing_table : routing_table[k] = heard[3].rtable[k]
    /\ template /\ pc \in {"loop", "hwinfo", "router"} /\ Given =>
         routing_table = heard[3].rtable

LifeInv == LifeTypeOK /\ Records /\ Checked /\ HeardSoFar /\ LoadedSoFar

-----------------------------------------------------------------------------
\* The fields of the messages that have any.
LEMMA Fields ==
    ASSUME NEW m \in Message
    PROVE  /\ m.type = "VNS_AUTH_STATUS" => m.auth_ok \in BOOLEAN
           /\ m.type = "VNS_RTABLE" => m.file \in File /\ m.rtable \in Table
           /\ m.type = "VNSHWINFO" => m.mHWInfo \in HwInfo
           /\ m.type = "VNSPACKET" => m.name \in Name /\ m.long \in BOOLEAN
  BY DEF Message, c_close, c_banner, c_packet_ethernet_header, c_hwinfo, c_rtable,
         c_auth_request, c_auth_status

\* The fields of an entry of the hardware information.
LEMMA EntryFields ==
    ASSUME NEW e \in HwEntry
    PROVE  /\ e.key = "HWINTERFACE" => e.name \in Name
           /\ e.key = "HWETHIP" => e.ip \in Ip
  BY DEF HwEntry

\* Sequences keep their type when their ends change.
LEMMA SeqEnds ==
    ASSUME NEW S, NEW q \in Seq(S), NEW x \in S
    PROVE  /\ Append(q, x) \in Seq(S) /\ Append(q, x)[Len(q) + 1] = x
           /\ q # <<>> => Tail(q) \in Seq(S)
           /\ <<>> \in Seq(S)
  OBVIOUS

\* What handling a message can do, m being the message.
LEMMA Outcome ==
    ASSUME HandleMessage, NEW m, m = Head(stream)
    PROVE  /\ UNCHANGED <<ifVars, interrupted, template, routing_table, cleared>>
           /\ heard' = IF pc \in Handshake THEN Append(heard, m) ELSE heard
           /\ \/ pc = "loop" /\ fault' \in FaultSite /\ UNCHANGED <<pc, i, files, todo, frame>>
              \/ /\ fault' = NoFault /\ Return(Outward)
                 /\ UNCHANGED <<files, todo, frame>>
              \/ /\ fault' = NoFault /\ pc \in Handshake /\ Return(Onward)
                 /\ m.type = Expected[pc]
                 /\ pc = "status" => m.auth_ok
                 /\ IF pc = "rtable" THEN files' = [files EXCEPT ![m.file] = m.rtable]
                    ELSE UNCHANGED files
                 /\ UNCHANGED <<todo, frame>>
              \/ /\ fault' = NoFault /\ pc = "loop" /\ Return("loop")
                 /\ \/ UNCHANGED files
                    \/ m.type = "VNS_RTABLE" /\ files' = [files EXCEPT ![m.file] = m.rtable]
                 /\ UNCHANGED <<todo, frame>>
              \/ /\ fault' = NoFault /\ pc = "loop" /\ Return("hwinfo")
                 /\ m.type = "VNSHWINFO" /\ todo' = m.mHWInfo
                 /\ UNCHANGED <<files, frame>>
              \/ /\ fault' = NoFault /\ pc = "loop" /\ Return("router")
                 /\ m.type = "VNSPACKET" /\ FrameIsSafe(m)
                 /\ frame' = [name |-> m.name, long |-> m.long]
                 /\ UNCHANGED <<files, todo>>
  <1>1. Dispatch(m) /\ pc \in Reading
        /\ heard' = IF pc \in Handshake THEN Append(heard, m) ELSE heard
    BY DEF HandleMessage
  <1>2. pc = "loop" => pc \notin Handshake /\ Onward = "loop" /\ Outward = "rt_clear"
    BY DEF Handshake, Onward, Outward
  <1>3. pc = "loop" \/ pc \in Handshake
    BY <1>1 DEF Reading
  <1>4. CASE ~ Welcome(m) \/ m.type = "VNSCLOSE"
    BY <1>1, <1>4 DEF Dispatch, HandleQuietly, Proceed, startVars, handlerVars
  <1>5. CASE Welcome(m) /\ m.type # "VNSCLOSE"
    <2>1. pc \in Handshake => m.type = Expected[pc]
      BY <1>2, <1>5 DEF Welcome
    <2>2. /\ pc \in Handshake => (m.type = "VNS_AUTH_STATUS" <=> pc = "status")
          /\ pc \in Handshake => (m.type = "VNS_RTABLE" <=> pc = "rtable")
          /\ pc \in Handshake => m.type \in {"VNS_AUTH_REQUEST", "VNS_AUTH_STATUS", "VNS_RTABLE"}
      BY <2>1 DEF Handshake, Expected
    <2>3. CASE m.type = "VNS_AUTH_REQUEST"
      BY <1>1, <1>2, <1>3, <1>5, <2>1, <2>2, <2>3
         DEF Dispatch, sr_handle_auth_request, HandleQuietly, Proceed, startVars, handlerVars
    <2>4. CASE m.type = "VNS_AUTH_STATUS"
      BY <1>1, <1>2, <1>3, <1>5, <2>1, <2>2, <2>4
         DEF Dispatch, HandleQuietly, Proceed, startVars, handlerVars
    <2>5. CASE m.type = "VNS_RTABLE"
      BY <1>1, <1>2, <1>3, <1>5, <2>1, <2>2, <2>5
         DEF Dispatch, sr_handle_rtable, HandleQuietly, Proceed, startVars, handlerVars
    <2>6. CASE m.type = "VNSHWINFO"
      BY <1>1, <1>2, <1>3, <1>5, <2>2, <2>6
         DEF Dispatch, BeginHwInfo, Proceed, startVars
    <2>7. CASE m.type = "VNSPACKET"
      BY <1>1, <1>2, <1>3, <1>5, <2>2, <2>7
         DEF Dispatch, HandleFrame, FrameFaults, HandleQuietly, Proceed, StopIn, FaultSite,
             startVars, tablesVars, handlerVars
    <2>8. CASE m.type \notin {"VNS_AUTH_REQUEST", "VNS_AUTH_STATUS", "VNS_RTABLE",
                             "VNSHWINFO", "VNSPACKET"}
      BY <1>1, <1>2, <1>3, <1>5, <2>2, <2>8
         DEF Dispatch, HandleQuietly, Proceed, startVars, handlerVars
    <2> QED
      BY <2>3, <2>4, <2>5, <2>6, <2>7, <2>8
  <1> QED
    BY <1>4, <1>5

-----------------------------------------------------------------------------
(* The interfaces.                                                          *)

\* The steps that leave the interfaces alone; none of them enters their clean-up.
Quiet == Load \/ Connect \/ Open \/ Reload \/ ReadStep \/ RefuseLength \/ ReadFails
         \/ HandleMessage \/ EndHwInfo \/ RouterStep \/ Interrupt \/ Server \/ ClearBuffer

\* What such a step may change.
LEMMA QuietSteps ==
    ASSUME Quiet
    PROVE  /\ UNCHANGED ifVars
           /\ pc' # "if_clear"
           /\ pc' \notin Clearing => pc \notin Clearing
           /\ pc' \in Fresh => pc \in Fresh
  <1>1. CASE Load \/ Reload
    BY <1>1 DEF Load, Reload, LoadStep, Clearing, Fresh, Handshake
  <1>2. CASE Connect \/ Open \/ RouterStep \/ ClearBuffer
    BY <1>2 DEF Connect, Open, RouterStep, ClearBuffer, GoTo, Clearing, Fresh, Handshake
  <1>3. CASE ReadStep \/ Server
    BY <1>3 DEF ReadStep, Server, Reading, Clearing, Fresh, Handshake
  <1>4. CASE RefuseLength \/ ReadFails
    BY <1>4 DEF RefuseLength, ReadFails, ReadGivesUp, Return, Outward, Reading,
                Clearing, Fresh, Handshake
  <1>5. CASE HandleMessage
    <2>1. pc \in Reading
      BY <1>5 DEF HandleMessage
    <2> QED
      BY <1>5, <2>1, Outcome DEF Return, Outward, Onward, Reading, Clearing, Fresh, Handshake
  <1>6. CASE EndHwInfo
    BY <1>6 DEF EndHwInfo, Return, Outward, Onward, Clearing, Fresh, Handshake
  <1>7. CASE Interrupt
    BY <1>7 DEF Interrupt, Return, Clearing, Fresh, Handshake
  <1> QED
    BY <1>1, <1>2, <1>3, <1>4, <1>5, <1>6, <1>7 DEF Quiet

\* The entries of the hardware information register interfaces.
LEMMA HwEntryRecords == LifeInv /\ HwEntryStep => IfTypeOK' /\ Records'
  <1> SUFFICES ASSUME LifeInv, HwEntryStep PROVE IfTypeOK' /\ Records'
    OBVIOUS
  <1> DEFINE e == Head(todo)
  <1>1. pc = "hwinfo" /\ pc' = pc /\ todo # <<>>
    BY DEF HwEntryStep
  <1>2. IfInv /\ HeadAgrees /\ freed = {}
    BY <1>1 DEF LifeInv, LifeTypeOK, Records, IfInv, Clearing
  <1>3. e \in HwEntry
    BY <1>1 DEF LifeInv, LifeTypeOK
  <1>4. IfInv' /\ HeadAgrees' /\ freed' = freed
    <2>1. CASE e.key = "HWINTERFACE" /\ sr_add_interface(e.name)
      BY <1>2, <1>3, <2>1, EntryFields, AddPreserves
    <2>2. CASE e.key = "HWETHIP" /\ sr_set_ether_ip(e.ip)
      BY <1>2, <1>3, <2>2, EntryFields, SetIpPreserves
    <2>3. CASE UNCHANGED ifVars
      BY <1>2, <2>3 DEF ifVars, IfInv, IfTypeOK, NumbersAgree, AddressesFound, HeadAgrees,
                        Record, Pointer, sr_if_ip2iface
    <2> QED
      BY <2>1, <2>2, <2>3 DEF HwEntryStep, sr_set_ether_addr
  <1> QED
    BY <1>1, <1>2, <1>4 DEF Records, IfInv, Clearing, Fresh, Handshake

\* The clean-up empties one slot after another; an interrupted one starts again.
LEMMA ClearRecords == LifeInv /\ (ClearRoute \/ ClearInterface) => IfTypeOK' /\ Records'
  <1> SUFFICES ASSUME LifeInv, ClearRoute \/ ClearInterface PROVE IfTypeOK' /\ Records'
    OBVIOUS
  <1>1. IfInv
    BY DEF LifeInv, LifeTypeOK, Records, IfInv
  <1>2. CASE ClearRoute
    <2>1. UNCHANGED ifVars /\ pc = "rt_clear" /\ pc' \in {"rt_clear", "if_clear"}
          /\ (pc' = "if_clear" => i' = 0 /\ routing_table' = <<>>)
      BY <1>2 DEF ClearRoute, HeadAfterClear
    <2>2. IfInv'
      BY <1>1, <2>1 DEF ifVars, IfInv, IfTypeOK, NumbersAgree, AddressesFound,
                        Record, Pointer, sr_if_ip2iface
    <2>3. \A s \in Slot : ~ (s < 0)
      BY InterfacesAssumption DEF Slot
    <2> QED
      BY <2>1, <2>2, <2>3, InterfacesAssumption
         DEF Records, IfInv, Clearing, Fresh, Handshake
  <1>3. CASE ClearInterface /\ i < LAN_SIZE
    <2>1. /\ ClearSlot(i) /\ i' = i + 1 /\ UNCHANGED <<routing_table, pc>>
          /\ pc = "if_clear"
      BY <1>3, InterfacesAssumption DEF ClearInterface
    <2>2. /\ i \in Slot /\ i' \in 0..LAN_SIZE /\ routing_table' = <<>>
          /\ \A s \in Slot : s < i => interfaces[s] = NULL /\ ip2iface[s] = NULL
      BY <1>3, <2>1, InterfacesAssumption DEF LifeInv, Records, Slot
    <2>3. /\ IfInv'
          /\ interfaces' = [interfaces EXCEPT ![i] = NULL]
          /\ ip2iface' = [ip2iface EXCEPT ![i] = NULL]
      BY <1>1, <2>1, <2>2, ClearSlotPreserves
    <2>4. interfaces \in [Slot -> Pointer] /\ ip2iface \in [Slot -> Pointer]
      BY <1>1 DEF IfInv, IfTypeOK
    <2>5. \A s \in Slot : s < i' => interfaces'[s] = NULL /\ ip2iface'[s] = NULL
      <3>1. \A s \in Slot : s < i' => s = i \/ s < i
        BY <2>1, <2>2, InterfacesAssumption DEF Slot
      <3> QED
        BY <2>2, <2>3, <2>4, <3>1
    <2> QED
      BY <2>1, <2>2, <2>3, <2>5 DEF Records, IfInv, Clearing, Fresh, Handshake
  <1>4. CASE ClearInterface /\ ~ (i < LAN_SIZE)
    <2>1. /\ if_list' = NULL /\ UNCHANGED <<ifaces, interfaces, ip2iface, freed>>
          /\ pc' = "buf_clear"
      BY <1>4, InterfacesAssumption DEF ClearInterface, ClearLast
    <2>2. IfTypeOK'
      BY <1>1, <2>1 DEF IfInv, IfTypeOK, Pointer, Record, NULL
    <2>3. NumbersAgree' /\ AddressesFound'
      BY <2>1 DEF NumbersAgree, AddressesFound
    <2> QED
      BY <2>1, <2>2, <2>3 DEF Records, Clearing, Fresh, Handshake
  <1> QED
    BY <1>2, <1>3, <1>4

\* Every step preserves what is known of the interfaces.
LEMMA RecordsStep == LifeInv /\ [LifeNext]_lifeVars => IfTypeOK' /\ Records'
  <1> SUFFICES ASSUME LifeInv, [LifeNext]_lifeVars PROVE IfTypeOK' /\ Records'
    OBVIOUS
  <1>1. CASE Quiet \/ UNCHANGED lifeVars
    <2>1. UNCHANGED ifVars
      BY <1>1, QuietSteps DEF lifeVars
    <2>2. IfTypeOK' /\ NumbersAgree' /\ AddressesFound' /\ (HeadAgrees => HeadAgrees')
      BY <2>1 DEF LifeInv, LifeTypeOK, Records, ifVars, IfTypeOK, NumbersAgree,
                  AddressesFound, HeadAgrees, Record, Pointer, sr_if_ip2iface
    <2>3. CASE Quiet
      BY <2>1, <2>2, <2>3, QuietSteps DEF LifeInv, Records, ifVars
    <2>4. CASE UNCHANGED lifeVars
      BY <2>1, <2>2, <2>4 DEF LifeInv, Records, ifVars, lifeVars, tablesVars
    <2> QED
      BY <1>1, <2>3, <2>4
  <1>2. CASE HwEntryStep
    BY <1>2, HwEntryRecords
  <1>3. CASE ClearRoute \/ ClearInterface
    BY <1>3, ClearRecords
  <1> QED
    BY <1>1, <1>2, <1>3 DEF LifeNext, Thread, Quiet

-----------------------------------------------------------------------------
(* What the forwarding path is entered with.                                *)

\* Unless the hardware information ends or a frame is handed over, the loop
\* and the router are entered only from one another, or with no interfaces.
LEMMA CheckedStep == LifeInv /\ [LifeNext]_lifeVars => Checked'
  <1> SUFFICES ASSUME LifeInv, [LifeNext]_lifeVars PROVE Checked'
    OBVIOUS
  <1>1. CASE EndHwInfo
    <2>1. pc' \in {"hwinfo", "exit", "rt_clear"} \/ (pc' = "loop" /\ Verified /\ ~ ScanFaults)
      BY <1>1 DEF EndHwInfo, Return, Onward, Outward
    <2>2. UNCHANGED <<ifVars, routing_table>>
      BY <1>1 DEF EndHwInfo
    <2> QED
      BY <2>1, <2>2 DEF Checked, Verified, ScanFaults, Record, ifVars
  <1>2. CASE HandleMessage
    <2> DEFINE m == Head(stream)
    <2>1. UNCHANGED <<ifVars, routing_table>> /\ pc \in Reading
      BY <1>2, Outcome DEF HandleMessage
    <2>2. m \in Message
      BY <1>2 DEF HandleMessage, Complete, LifeInv, LifeTypeOK, SessionTypeOK
    <2>3. pc' \in {"loop", "router"} => pc = "loop"
      BY <1>2, <2>1, Outcome DEF Return, Onward, Outward, Reading, Handshake
    <2>4. pc' \in {"loop", "router"} /\ ifaces' # <<>> => Verified' /\ (~ ScanFaults)'
      BY <2>1, <2>3 DEF LifeInv, Checked, Verified, ScanFaults, Record, ifVars
    <2>5. pc' = "router" => /\ m.type = "VNSPACKET" /\ FrameIsSafe(m)
                            /\ frame' = [name |-> m.name, long |-> m.long]
      BY <1>2, <2>1, Outcome DEF Return, Onward, Outward, Reading, Handshake
    <2>6. pc' = "router" /\ frame'.long =>
             /\ frame'.name \in Name
             /\ NumberOf[frame'.name] < LAN_SIZE
             /\ sr_if_name2iface(frame.name)' # NULL
      BY <2>1, <2>2, <2>5, Fields DEF FrameIsSafe, sr_if_name2iface, ifVars
    <2> QED
      BY <2>4, <2>6 DEF Checked
  <1>3. CASE Load \/ Reload
    <2>1. UNCHANGED ifVars /\ pc \in Fresh /\ pc' # "router"
      BY <1>3 DEF Load, Reload, LoadStep, Fresh, Handshake
    <2>2. ifaces' = <<>>
      BY <2>1 DEF LifeInv, Records, ifVars
    <2> QED
      BY <2>1, <2>2 DEF Checked
  <1>4. CASE Connect \/ Open
    <2>1. UNCHANGED ifVars /\ pc \in Fresh /\ pc' # "router"
      BY <1>4 DEF Connect, Open, GoTo, Fresh, Handshake
    <2>2. ifaces' = <<>>
      BY <2>1 DEF LifeInv, Records, ifVars
    <2> QED
      BY <2>1, <2>2 DEF Checked
  <1>5. CASE HwEntryStep \/ RefuseLength \/ ReadFails \/ Interrupt \/ ClearRoute \/ ClearInterface
             \/ ClearBuffer
    <2>1. pc' \notin {"loop", "router"}
      BY <1>5 DEF HwEntryStep, RefuseLength, ReadFails, ReadGivesUp, Interrupt, ClearRoute,
                  ClearInterface, ClearBuffer, GoTo, Return, Outward
    <2> QED
      BY <2>1 DEF Checked
  <1>6. CASE RouterStep \/ ReadStep \/ Server \/ UNCHANGED lifeVars
    <2>1. /\ UNCHANGED <<ifVars, routing_table, frame>>
          /\ pc' = pc \/ pc' = "probe" \/ (pc = "router" /\ pc' = "loop")
      BY <1>6 DEF RouterStep, GoTo, ReadStep, Server, lifeVars, tablesVars, handlerVars
    <2> QED
      BY <2>1 DEF LifeInv, Checked, Verified, ScanFaults, Record, sr_if_name2iface, ifVars
  <1> QED
    BY <1>1, <1>2, <1>3, <1>4, <1>5, <1>6 DEF LifeNext, Thread

-----------------------------------------------------------------------------
(* The handshake.                                                           *)

\* A message is accepted only where the handshake expects it.
LEMMA HeardStep == LifeInv /\ [LifeNext]_lifeVars => HeardSoFar'
  <1> SUFFICES ASSUME LifeInv, [LifeNext]_lifeVars PROVE HeardSoFar'
    OBVIOUS
  <1>1. CASE HandleMessage
    <2> DEFINE m == Head(stream)
    <2>1. pc \in Reading /\ template' = template
      BY <1>1, Outcome DEF HandleMessage
    <2>2. CASE pc = "loop"
      <3>1. heard' = heard /\ pc' \in {"loop", "hwinfo", "router", "rt_clear"}
        BY <1>1, <2>2, Outcome DEF Return, Outward, Handshake
      <3> QED
        BY <2>1, <2>2, <3>1 DEF LifeInv, HeardSoFar, HeardFirst
    <2>3. CASE pc \in Handshake
      <3>1. /\ heard' = Append(heard, m)
            /\ \/ pc' = "exit"
               \/ /\ pc' = Onward /\ m.type = Expected[pc]
                  /\ pc = "status" => m.auth_ok
        BY <1>1, <2>3, Outcome DEF Return, Outward, Handshake
      <3>2. heard \in Seq(Message) /\ m \in Message
        BY <1>1 DEF HandleMessage, Complete, LifeInv, LifeTypeOK, SessionTypeOK
      <3>3. /\ Len(heard') = Len(heard) + 1 /\ heard'[Len(heard) + 1] = m
            /\ \A k \in 1..Len(heard) : heard'[k] = heard[k]
        BY <3>1, <3>2
      <3>4. CASE pc' = "exit"
        BY <3>4 DEF HeardSoFar
      <3>5. CASE pc' = Onward /\ pc = "auth"
        <4>1. HeardFirst(0) /\ m.type = "VNS_AUTH_REQUEST" /\ pc' = "status"
          BY <3>1, <3>5 DEF LifeInv, HeardSoFar, Expected, Handshake, Onward
        <4> QED
          BY <3>3, <4>1 DEF HeardSoFar, HeardFirst
      <3>6. CASE pc' = Onward /\ pc = "status" /\ pc' # "exit"
        <4>1. HeardFirst(1) /\ m.type = "VNS_AUTH_STATUS" /\ m.auth_ok /\ pc' = "open"
          BY <3>1, <3>6 DEF LifeInv, HeardSoFar, Expected, Handshake, Onward
        <4> QED
          BY <3>3, <4>1 DEF HeardSoFar, HeardFirst
      <3>7. CASE pc' = Onward /\ pc = "rtable" /\ pc' # "exit"
        <4>1. HeardFirst(2) /\ m.type = "VNS_RTABLE" /\ pc' = "reload" /\ template'
          BY <2>1, <3>1, <3>7 DEF LifeInv, HeardSoFar, Expected, Handshake, Onward
        <4> QED
          BY <3>3, <4>1 DEF HeardSoFar, HeardFirst
      <3> QED
        BY <2>3, <3>1, <3>4, <3>5, <3>6, <3>7 DEF Handshake
    <2> QED
      BY <2>1, <2>2, <2>3 DEF Reading
  <1>2. CASE Load \/ Reload
    <2>1. /\ UNCHANGED <<heard, template>>
          /\ \/ pc' = pc \/ pc' = "exit"
             \/ pc = "load" /\ pc' = "connect"
             \/ pc = "reload" /\ pc' = "loop"
      BY <1>2 DEF Load, Reload, LoadStep, startVars
    <2> QED
      BY <2>1 DEF LifeInv, HeardSoFar, HeardFirst
  <1>3. CASE Connect \/ Open \/ RouterStep
    <2>1. /\ UNCHANGED <<heard, template>>
          /\ \/ pc' \in {"exit", "probe"} \/ pc' = pc
             \/ pc = "connect" /\ pc' = "auth"
             \/ pc = "open" /\ pc' = (IF template THEN "rtable" ELSE "loop")
             \/ pc = "router" /\ pc' = "loop"
      BY <1>3 DEF Connect, Open, RouterStep, GoTo, startVars
    <2> QED
      BY <2>1 DEF LifeInv, HeardSoFar, HeardFirst
  <1>4. CASE RefuseLength \/ ReadFails \/ Interrupt \/ ClearRoute \/ ClearInterface
             \/ ClearBuffer
    <2>1. pc' \in Clearing
      BY <1>4 DEF RefuseLength, ReadFails, ReadGivesUp, Interrupt, ClearRoute,
                  ClearInterface, ClearBuffer, GoTo, Return, Outward, Clearing
    <2> QED
      BY <2>1 DEF HeardSoFar, Clearing
  <1>5. CASE EndHwInfo
    <2>1. UNCHANGED <<heard, template>> /\ pc = "hwinfo"
          /\ pc' \in {"hwinfo", "loop", "rt_clear"}
      BY <1>5 DEF EndHwInfo, Return, Onward, Outward, Handshake, startVars
    <2> QED
      BY <2>1 DEF LifeInv, HeardSoFar, HeardFirst
  <1>6. CASE ReadStep \/ Server \/ HwEntryStep \/ UNCHANGED lifeVars
    <2>1. UNCHANGED <<heard, template, pc>>
      BY <1>6 DEF ReadStep, Server, HwEntryStep, startVars, lifeVars
    <2> QED
      BY <2>1 DEF LifeInv, HeardSoFar, HeardFirst
  <1> QED
    BY <1>1, <1>2, <1>3, <1>4, <1>5, <1>6 DEF LifeNext, Thread

-----------------------------------------------------------------------------
(* The table that the server gave.                                          *)

\* One step of loading the given table appends its next item, or ends with all of it.
LEMMA ReloadStep ==
    ASSUME LifeInv, Reload, Given, pc' # "exit"
    PROVE  /\ Len(routing_table') <= Len(heard[3].rtable)
           /\ \A k \in DOMAIN routing_table' : routing_table'[k] = heard[3].rtable[k]
           /\ pc' = "loop" => routing_table' = heard[3].rtable
  <1> DEFINE f == files[LoadedFile]
             k == Len(routing_table) + 1
  <1>1. /\ template /\ pc = "reload" /\ f = heard[3].rtable
        /\ Len(routing_table) <= Len(f)
        /\ \A j \in DOMAIN routing_table : routing_table[j] = f[j]
    BY DEF LifeInv, HeardSoFar, LoadedSoFar, Reload, LoadedFile
  <1>2. f \in Table /\ f \in Seq(Name \cup {BadLine})
    <2>1. heard \in Seq(Message) /\ Len(heard) = 3 /\ heard[3].type = "VNS_RTABLE"
      BY <1>1 DEF LifeInv, LifeTypeOK, HeardSoFar, HeardFirst
    <2>2. heard[3] \in Message
      BY <2>1, ItemOfSeq
    <2> QED
      BY <1>1, <2>1, <2>2, Fields, FilesAssumption
  <1>3. f # NoFile /\ routing_table \in Seq(Name) /\ Len(f) \in Nat /\ k \in Nat \ {0}
    BY <1>2, FilesAssumption DEF LifeInv, LifeTypeOK
  <1>4. CASE k > Len(f)
    <2>1. UNCHANGED routing_table /\ Len(routing_table) = Len(f)
      BY <1>1, <1>3, <1>4 DEF Reload, LoadStep
    <2>2. routing_table = f
      BY <1>1, <1>2, <1>3, <2>1
    <2> QED
      BY <1>1, <2>1, <2>2
  <1>5. CASE ~ (k > Len(f))
    <2>1. f[k] # BadLine /\ pc' = "reload"
      BY <1>1, <1>3, <1>5 DEF Reload, LoadStep
    <2>2. routing_table' = routing_table \/ routing_table' = Append(routing_table, f[k])
      BY <1>3, <1>5, <2>1 DEF Reload, LoadStep
    <2>3. CASE routing_table' = Append(routing_table, f[k])
      <3>1. f[k] \in Name
        BY <1>2, <1>3, <1>5, <2>1
      <3>2. Len(routing_table') = k /\ DOMAIN routing_table' = 1..k
            /\ routing_table'[k] = f[k]
            /\ \A j \in DOMAIN routing_table : routing_table'[j] = routing_table[j]
        BY <1>3, <2>3, <3>1
      <3>3. \A j \in 1..k : j = k \/ j \in DOMAIN routing_table
        BY <1>3
      <3> QED
        BY <1>1, <1>3, <1>5, <2>1, <3>2, <3>3
    <2> QED
      BY <1>1, <2>1, <2>2, <2>3
  <1> QED
    BY <1>4, <1>5

\* Every step preserves how much of the given table is loaded.
LEMMA LoadedStep == LifeInv /\ [LifeNext]_lifeVars => LoadedSoFar'
  <1> SUFFICES ASSUME LifeInv, [LifeNext]_lifeVars PROVE LoadedSoFar'
    OBVIOUS
  <1> DEFINE InSessionPc == {"loop", "hwinfo", "router"}
  <1>1. CASE HandleMessage
    <2> DEFINE m == Head(stream)
    <2>1. /\ pc \in Reading /\ template' = template /\ routing_table' = routing_table
      BY <1>1, Outcome DEF HandleMessage
    <2>2. CASE pc = "loop"
      <3>1. heard' = heard /\ pc' \in InSessionPc \cup {"rt_clear"}
        BY <1>1, <2>2, Outcome DEF Return, Outward, Handshake
      <3> QED
        BY <2>1, <2>2, <3>1 DEF LifeInv, LoadedSoFar, Given, Fresh, Handshake
    <2>3. CASE pc \in Handshake
      <3>1. pc' = "exit" \/ pc' = Onward
        BY <1>1, <2>3, Outcome DEF Return, Outward, Handshake
      <3>2. pc' \in Fresh \cup {"exit"} /\ (pc' = "reload" => pc = "rtable")
        BY <2>3, <3>1 DEF Onward, Handshake, Fresh
      <3>3. template' => routing_table' = <<>>
        BY <2>1, <2>3 DEF LifeInv, LoadedSoFar, Handshake, Fresh
      <3>4. pc' = "reload" =>
              /\ heard' = Append(heard, m) /\ m.type = "VNS_RTABLE"
              /\ files' = [files EXCEPT ![m.file] = m.rtable]
        BY <1>1, <2>3, <3>2, Outcome DEF Return, Outward, Expected, Handshake
      <3>5. heard \in Seq(Message) /\ m \in Message /\ files \in [File -> Table \cup {NoFile}]
        BY <1>1 DEF HandleMessage, Complete, LifeInv, LifeTypeOK, SessionTypeOK
      <3>6. pc = "rtable" => Len(heard) = 2 /\ template
        BY DEF LifeInv, HeardSoFar, HeardFirst
      <3>7. pc' = "reload" => heard'[3] = m /\ m.rtable \in Table /\ m.file \in File
        <4>1. pc' = "reload" => heard'[3] = m
          <5> SUFFICES ASSUME pc' = "reload" PROVE heard'[3] = m
            OBVIOUS
          <5>1. heard' = Append(heard, m) /\ Len(heard) = 2
            BY <3>2, <3>4, <3>6
          <5>2. heard'[Len(heard) + 1] = m
            BY <3>5, <5>1, SeqEnds
          <5> QED
            BY <5>1, <5>2
        <4>2. m.type = "VNS_RTABLE" => m.rtable \in Table /\ m.file \in File
          BY <3>5, Fields
        <4> QED
          BY <3>4, <4>1, <4>2
      <3>8. pc' = "reload" /\ Given' => heard'[3].rtable = files'[TemplateFile]
        BY <3>4, <3>5, <3>7 DEF Given
      <3>9. pc' = "reload" => /\ Len(routing_table') <= Len(heard'[3].rtable)
                              /\ DOMAIN routing_table' = {}
        <4>1. pc' = "reload" => Len(heard'[3].rtable) \in Nat
          BY <3>7, FilesAssumption
        <4> QED
          BY <2>1, <3>2, <3>3, <3>6, <4>1
      <3> QED
        BY <3>2, <3>3, <3>8, <3>9 DEF LoadedSoFar, Fresh, Handshake
    <2> QED
      BY <2>1, <2>2, <2>3 DEF Reading
  <1>2. CASE Reload
    <2>1. /\ UNCHANGED <<heard, template, files>> /\ pc = "reload"
          /\ pc' \in {"reload", "loop", "exit"}
      BY <1>2 DEF Reload, LoadStep, startVars
    <2>2. Given' <=> Given
      BY <2>1 DEF Given
    <2>3. pc' = "reload" /\ Given => heard[3].rtable = files[TemplateFile]
      BY <2>1 DEF LifeInv, LoadedSoFar
    <2> QED
      BY <1>2, <2>1, <2>2, <2>3, ReloadStep DEF LoadedSoFar, Fresh, Handshake
  <1>3. CASE Load
    <2>1. ~ template' /\ pc' # "reload"
      BY <1>3 DEF Load, LoadStep, startVars, LifeInv, HeardSoFar
    <2> QED
      BY <2>1 DEF LoadedSoFar
  <1>4. CASE Connect \/ Open \/ RouterStep
    <2>1. /\ UNCHANGED <<heard, template, routing_table>>
          /\ \/ pc' \in {"exit", "probe"}
             \/ pc = "router" /\ pc' = pc
             \/ pc \in Fresh \ {"reload"} /\ pc' \in Fresh \ {"reload"}
             \/ pc = "open" /\ pc' = "loop" /\ ~ template
             \/ pc = "router" /\ pc' = "loop"
      BY <1>4 DEF Connect, Open, RouterStep, GoTo, startVars, tablesVars, Fresh, Handshake
    <2> QED
      BY <2>1 DEF LifeInv, LoadedSoFar, Given, Fresh, Handshake
  <1>5. CASE RefuseLength \/ ReadFails \/ Interrupt \/ ClearRoute \/ ClearInterface
             \/ ClearBuffer
    <2>1. pc' \in Clearing
      BY <1>5 DEF RefuseLength, ReadFails, ReadGivesUp, Interrupt, ClearRoute,
                  ClearInterface, ClearBuffer, GoTo, Return, Outward, Clearing
    <2> QED
      BY <2>1 DEF LoadedSoFar, Clearing, Fresh, Handshake
  <1>6. CASE EndHwInfo
    <2>1. UNCHANGED <<heard, template, routing_table>> /\ pc = "hwinfo"
          /\ pc' \in {"hwinfo", "loop", "rt_clear"}
      BY <1>6 DEF EndHwInfo, Return, Onward, Outward, Handshake, startVars
    <2> QED
      BY <2>1 DEF LifeInv, LoadedSoFar, Given, Fresh, Handshake
  <1>7. CASE ReadStep \/ Server \/ HwEntryStep \/ UNCHANGED lifeVars
    <2>1. UNCHANGED <<heard, template, pc, files, routing_table>>
      BY <1>7 DEF ReadStep, Server, HwEntryStep, startVars, tablesVars, lifeVars
    <2> QED
      BY <2>1 DEF LifeInv, LoadedSoFar, Given
  <1> QED
    BY <1>1, <1>2, <1>3, <1>4, <1>5, <1>6, <1>7 DEF LifeNext, Thread

-----------------------------------------------------------------------------
(* Types.                                                                   *)

\* Loading a line keeps the table a sequence of names.
LEMMA LoadTypes == LifeInv /\ IfTypeOK' /\ (Load \/ Reload) => LifeTypeOK'
  <1> SUFFICES ASSUME LifeInv, IfTypeOK', Load \/ Reload PROVE LifeTypeOK'
    OBVIOUS
  <1> DEFINE f == files[LoadedFile]
             k == Len(routing_table) + 1
  <1>1. LifeTypeOK /\ routing_table \in Seq(Name)
    BY DEF LifeInv, LifeTypeOK
  <1>2. f \in Table \cup {NoFile}
    BY <1>1, FilesAssumption DEF LifeTypeOK, LoadedFile
  <1>3. /\ UNCHANGED <<sessionVars, startVars, cleared, i, handlerVars, heard>>
        /\ fault' \in FaultSite \cup {NoFault}
        /\ pc' \in {"load", "reload", "connect", "loop", "exit"}
    BY DEF Load, Reload, LoadStep, StopIn, Proceed, FaultSite
  <1>4. \/ UNCHANGED routing_table
        \/ /\ f # NoFile /\ ~ (k > Len(f)) /\ f[k] # BadLine
           /\ routing_table' = Append(routing_table, f[k])
    BY DEF Load, Reload, LoadStep
  <1>5. routing_table' \in Seq(Name) /\ Len(routing_table') \in {Len(routing_table), k}
    <2>1. CASE UNCHANGED routing_table
      BY <1>1, <2>1
    <2>2. CASE ~ UNCHANGED routing_table
      <3>1. f \in Seq(Name \cup {BadLine}) /\ k \in 1..Len(f)
        BY <1>1, <1>2, <1>4, <2>2, FilesAssumption
      <3>2. f[k] \in Name
        BY <1>4, <2>2, <3>1
      <3> QED
        BY <1>1, <1>4, <2>2, <3>2
    <2> QED
      BY <2>1, <2>2
  <1>6. cleared \in 0..Len(routing_table')
    BY <1>1, <1>5 DEF LifeTypeOK
  <1> QED
    BY <1>1, <1>3, <1>5, <1>6
       DEF LifeTypeOK, SessionTypeOK, sessionVars, startVars, handlerVars, Reading, Handshake

\* Reading never takes more than the length field, then the body.
LEMMA ReadTypes == LifeInv /\ IfTypeOK' /\ (ReadStep \/ Server) => LifeTypeOK'
  <1> SUFFICES ASSUME LifeInv, IfTypeOK', ReadStep \/ Server PROVE LifeTypeOK'
    OBVIOUS
  <1>1. LifeTypeOK /\ SessionTypeOK
    BY DEF LifeInv, LifeTypeOK
  <1>2. fault' = NoFault /\ UNCHANGED <<startVars, tablesVars, handlerVars, heard, pc>>
    BY DEF ReadStep, Server, Proceed
  <1>3. SessionTypeOK'
    <2>1. CASE ReadStep
      <3>1. UNCHANGED <<stream, hungup>> /\ got < WHOLE
            /\ \E n \in 1..WHOLE : n <= Wanted /\ got' = got + n
        BY <2>1 DEF ReadStep, ReadMore
      <3> QED
        BY <1>1, <3>1, SessionAssumption DEF SessionTypeOK, Wanted
    <2>2. CASE Server
      <3>1. \/ UNCHANGED stream
            \/ \E m \in Sent : stream' = Append(stream, m)
        BY <2>2 DEF Server, ServerSends, ServerHangsUp
      <3>2. hungup' \in BOOLEAN /\ UNCHANGED got
        BY <2>2 DEF Server, ServerSends, ServerHangsUp
      <3> QED
        BY <1>1, <3>1, <3>2, SessionAssumption DEF SessionTypeOK
    <2> QED
      BY <2>1, <2>2
  <1> QED
    BY <1>1, <1>2, <1>3
       DEF LifeTypeOK, startVars, tablesVars, handlerVars, Reading, Handshake

\* Handling a message keeps the types.
LEMMA MessageTypes == LifeInv /\ IfTypeOK' /\ HandleMessage => LifeTypeOK'
  <1> SUFFICES ASSUME LifeInv, IfTypeOK', HandleMessage PROVE LifeTypeOK'
    OBVIOUS
  <1> DEFINE m == Head(stream)
  <1>1. /\ LifeTypeOK /\ SessionTypeOK /\ pc \in Reading
        /\ stream \in Seq(Message) /\ stream # <<>>
        /\ stream' = Tail(stream) /\ got' = 0 /\ UNCHANGED hungup
    BY DEF LifeInv, LifeTypeOK, SessionTypeOK, HandleMessage, Complete, TakeMessage
  <1>2. SessionTypeOK' /\ m \in Message
    BY <1>1, SessionAssumption DEF SessionTypeOK
  <1>3. UNCHANGED <<interrupted, template, routing_table, cleared>> /\ heard' \in Seq(Message)
    <2>1. heard \in Seq(Message)
      BY <1>1 DEF LifeTypeOK
    <2>2. Append(heard, m) \in Seq(Message)
      BY <1>2, <2>1, SeqEnds
    <2>3. heard' \in {heard, Append(heard, m)}
      BY Outcome
    <2> QED
      BY <2>1, <2>2, <2>3, Outcome
  <1>4. fault' \in FaultSite \cup {NoFault}
    BY Outcome
  <1>5. pc' \in {"exit", "rt_clear", "status", "open", "reload", "loop", "hwinfo", "router"}
        \/ pc' = pc
    BY <1>1, Outcome DEF Return, Onward, Outward, Reading, Handshake
  <1>6. i' \in Nat
    BY <1>1, Outcome DEF Return, LifeTypeOK
  <1>7. files' \in [File -> Table \cup {NoFile}]
    <2>1. UNCHANGED files
          \/ (m.type = "VNS_RTABLE" /\ files' = [files EXCEPT ![m.file] = m.rtable])
      BY <1>1, Outcome DEF Expected, Handshake
    <2> QED
      BY <1>1, <1>2, <2>1, Fields DEF LifeTypeOK
  <1>8. todo' \in Seq(HwEntry)
    BY <1>1, <1>2, Outcome, Fields, SessionAssumption DEF LifeTypeOK
  <1>9. frame' \in [name : Name \cup {BadLine}, long : BOOLEAN]
    BY <1>1, <1>2, Outcome, Fields DEF LifeTypeOK
  <1> QED
    BY <1>1, <1>2, <1>3, <1>4, <1>5, <1>6, <1>7, <1>8, <1>9 DEF LifeTypeOK, Reading, Handshake

\* The steps that move on, register an interface or clean up.
LEMMA OtherTypes ==
    ASSUME LifeInv, IfTypeOK',
           Connect \/ Open \/ RouterStep \/ RefuseLength \/ ReadFails \/ Interrupt
           \/ HwEntryStep \/ EndHwInfo \/ ClearRoute \/ ClearInterface \/ ClearBuffer
    PROVE  LifeTypeOK'
  <1>1. LifeTypeOK
    BY DEF LifeInv
  <1>2. UNCHANGED <<sessionVars, template, files, frame, heard>>
        /\ interrupted' \in {interrupted, TRUE}
    BY DEF Connect, Open, RouterStep, GoTo, RefuseLength, ReadFails, ReadGivesUp, Interrupt,
           HwEntryStep, EndHwInfo, ClearRoute, ClearInterface, ClearBuffer,
           startVars, handlerVars
  <1>3. fault' \in FaultSite \cup {NoFault}
    BY DEF Connect, Open, RouterStep, GoTo, RefuseLength, ReadFails, ReadGivesUp, Interrupt,
           HwEntryStep, sr_add_interface, sr_set_ether_ip, sr_set_ether_addr, EndHwInfo,
           ClearRoute, ClearInterface, ClearBuffer, ClearSlot, ClearLast, Proceed, StopIn,
           RouterFault, FaultSite
  <1>4. pc' \in {"auth", "exit", "rtable", "loop", "probe", "rt_clear", "if_clear", "buf_clear"}
        \/ pc' = pc
    BY DEF Connect, Open, RouterStep, GoTo, RefuseLength, ReadFails, ReadGivesUp, Interrupt,
           HwEntryStep, EndHwInfo, ClearRoute, ClearInterface, ClearBuffer,
           Return, Onward, Outward, Handshake
  <1>5. todo' \in Seq(HwEntry)
    <2>1. UNCHANGED todo \/ (todo # <<>> /\ todo' = Tail(todo))
      BY DEF Connect, Open, RouterStep, GoTo, RefuseLength, ReadFails, ReadGivesUp, Interrupt,
             HwEntryStep, EndHwInfo, ClearRoute, ClearInterface, ClearBuffer, handlerVars
    <2> QED
      <3>1. todo \in Seq(HwEntry)
        BY <1>1 DEF LifeTypeOK
      <3>2. todo # <<>> => Tail(todo) \in Seq(HwEntry)
        BY <3>1
      <3> QED
        BY <2>1, <3>1, <3>2
  <1>6. routing_table' \in Seq(Name) /\ cleared' \in 0..Len(routing_table') /\ i' \in Nat
    <2>1. /\ routing_table \in Seq(Name) /\ i \in Nat /\ cleared \in 0..Len(routing_table)
      BY <1>1 DEF LifeTypeOK
    <2>2. CASE ClearRoute
      <3>1. CASE i <= Len(routing_table)
        <4>1. /\ UNCHANGED routing_table /\ i' = i + 1
              /\ cleared' = IF i > cleared THEN i ELSE cleared
          BY <2>1, <2>2, <3>1 DEF ClearRoute
        <4> QED
          BY <2>1, <3>1, <4>1
      <3>2. CASE ~ (i <= Len(routing_table))
        <4>1. routing_table' = <<>> /\ cleared' = 0 /\ i' = 0
          BY <2>1, <2>2, <3>2 DEF ClearRoute, HeadAfterClear
        <4> QED
          BY <4>1
      <3> QED
        BY <3>1, <3>2
    <2>3. CASE ClearInterface
      <3>1. pc = "if_clear" /\ routing_table = <<>>
        BY <2>3 DEF ClearInterface, LifeInv, Records
      <3> QED
        <4>1. routing_table' = <<>> /\ UNCHANGED cleared /\ i' \in {i, i + 1}
          BY <2>3, <3>1 DEF ClearInterface
        <4> QED
          BY <2>1, <3>1, <4>1
    <2>4. CASE ~ ClearRoute /\ ~ ClearInterface
      <3>1. UNCHANGED <<routing_table, cleared>> /\ i' \in {i, 1}
        BY <2>4 DEF Connect, Open, RouterStep, GoTo, RefuseLength, ReadFails, ReadGivesUp,
                    Interrupt, HwEntryStep, EndHwInfo, ClearBuffer, Return, tablesVars
      <3> QED
        BY <2>1, <3>1
    <2> QED
      BY <2>2, <2>3, <2>4
  <1> QED
    BY <1>1, <1>2, <1>3, <1>4, <1>5, <1>6
       DEF LifeTypeOK, SessionTypeOK, sessionVars, Reading, Handshake

-----------------------------------------------------------------------------
(* The invariant.                                                           *)

\* The initial states satisfy the invariant.
LEMMA LifeInvInit == LifeInit => LifeInv
  <1> SUFFICES ASSUME LifeInit PROVE LifeInv
    OBVIOUS
  <1>1. IfTypeOK /\ HeadAgrees /\ freed = {} /\ ifaces = <<>>
    BY DEF LifeInit, InterfacesInit, IfTypeOK, HeadAgrees, Pointer, Record, NULL
  <1>2. SessionTypeOK
    <2>1. stream = <<>> /\ got = 0 /\ hungup = FALSE
      BY DEF LifeInit, SessionInit
    <2>2. stream \in Seq(Message)
      BY <2>1
    <2> QED
      <3>1. got \in 0..WHOLE
        BY <2>1, SessionAssumption
      <3> QED
        BY <2>1, <2>2, <3>1 DEF SessionTypeOK
  <1>3. LifeTypeOK
    <2>1. routing_table = <<>> /\ todo = <<>> /\ heard = <<>> /\ cleared = 0 /\ i = 0
      BY DEF LifeInit
    <2>2. routing_table \in Seq(Name) /\ cleared \in 0..Len(routing_table) /\ i \in Nat
      BY <2>1
    <2>3. todo \in Seq(HwEntry) /\ heard \in Seq(Message)
      BY <2>1
    <2>4. frame \in [name : Name \cup {BadLine}, long : BOOLEAN]
      BY DEF LifeInit, NoFrame
    <2>5. /\ interrupted \in BOOLEAN /\ template \in BOOLEAN /\ fault = NoFault
          /\ files \in [File -> Table \cup {NoFile}] /\ pc \in {"connect", "load"}
      BY DEF LifeInit
    <2> QED
      BY <1>1, <1>2, <2>2, <2>3, <2>4, <2>5 DEF LifeTypeOK
  <1>4. pc \in {"connect", "load"} /\ (pc = "load" => ~ template)
    BY DEF LifeInit
  <1>5. Records
    BY <1>1, <1>4 DEF Records, NumbersAgree, AddressesFound, LifeInit, InterfacesInit
  <1>6. Checked /\ HeardSoFar /\ LoadedSoFar
    BY <1>4 DEF Checked, HeardSoFar, HeardFirst, LoadedSoFar, LifeInit
  <1> QED
    BY <1>3, <1>5, <1>6 DEF LifeInv

\* Every step preserves the invariant.
LEMMA LifeInvStep == LifeInv /\ [LifeNext]_lifeVars => LifeInv'
  <1> SUFFICES ASSUME LifeInv, [LifeNext]_lifeVars PROVE LifeInv'
    OBVIOUS
  <1>1. IfTypeOK' /\ Records'
    BY RecordsStep
  <1>2. LifeTypeOK'
    <2>1. CASE LifeNext
      BY <1>1, <2>1, LoadTypes, ReadTypes, MessageTypes, OtherTypes DEF LifeNext, Thread
    <2>2. CASE UNCHANGED lifeVars
      BY <1>1, <2>2 DEF LifeInv, LifeTypeOK, SessionTypeOK, lifeVars, sessionVars
    <2> QED
      BY <2>1, <2>2
  <1> QED
    BY <1>1, <1>2, CheckedStep, HeardStep, LoadedStep DEF LifeInv

\* The name of a route leads to its interface, if it was verified.
LEMMA RoutesLead ==
    ASSUME LifeInv, pc = "router", frame.long, NEW k \in DOMAIN routing_table
    PROVE  /\ NumberOf[routing_table[k]] < LAN_SIZE
           /\ sr_if_name2iface(routing_table[k]) # NULL
           /\ ifaces[sr_if_name2iface(routing_table[k])].name = routing_table[k]
  <1>1. /\ sr_if_name2iface(frame.name) # NULL
        /\ frame.name \in Name /\ NumberOf[frame.name] < LAN_SIZE
    BY DEF LifeInv, Checked
  <1>2. NumberOf[frame.name] \in Slot
    BY <1>1, InterfacesAssumption DEF Slot
  <1>3. ifaces # <<>> /\ if_list # NULL /\ freed = {}
    <2>1. interfaces[NumberOf[frame.name]] \in Record
      BY <1>1, <1>2 DEF LifeInv, LifeTypeOK, IfTypeOK, sr_if_name2iface, Pointer, Record, NULL
    <2>2. ifaces # <<>>
      BY <2>1 DEF Record
    <2> QED
      BY <2>2 DEF LifeInv, Records, HeadAgrees, Clearing
  <1>4. Verified /\ ~ ScanFaults
    BY <1>3 DEF LifeInv, Checked
  <1>5. PICK j \in Record : ifaces[j].name = routing_table[k]
    BY <1>4 DEF Verified
  <1>6. interfaces[NumberOf[ifaces[j].name]] = j /\ NumberOf[ifaces[j].name] < LAN_SIZE
    BY <1>3, <1>5 DEF LifeInv, Records, NumbersAgree
  <1> QED
    BY <1>5, <1>6 DEF sr_if_name2iface, Record, NULL

-----------------------------------------------------------------------------
\* Every variable of the process, the connection and the interfaces keeps its
\* type (sr_main.c, sr_vns_comm.c, sr_if.c).
THEOREM LifeTypeCorrect == LifeSpec => []LifeTypeOK
  <1>1. LifeInv => LifeTypeOK
    BY DEF LifeInv
  <1> QED
    BY <1>1, LifeInvInit, LifeInvStep, PTL DEF LifeSpec

\* The list of interfaces and the table by number describe the same records,
\* though the assertion about a free slot is skipped for the first (sr_if.c:119-155).
THEOREM NumbersCorrect == LifeSpec => []NumbersAgree
  <1>1. LifeInv => NumbersAgree
    BY DEF LifeInv, Records
  <1> QED
    BY <1>1, LifeInvInit, LifeInvStep, PTL DEF LifeSpec

\* An address of an interface is found by its last byte, unless a later
\* interface took the byte (sr_if.c:204).
THEOREM AddressesCorrect == LifeSpec => []AddressesFound
  <1>1. LifeInv => AddressesFound
    BY DEF LifeInv, Records
  <1> QED
    BY <1>1, LifeInvInit, LifeInvStep, PTL DEF LifeSpec

\* No session without the whole handshake (sr_vns_comm.c:404-409), whatever the
\* server sends and however it is cut.
THEOREM HandshakeCorrect == LifeSpec => []HandshakeInOrder
  <1>1. LifeInv => HandshakeInOrder
    BY DEF LifeInv, HeardSoFar, HeardFirst, HandshakeInOrder, InSession
  <1> QED
    BY <1>1, LifeInvInit, LifeInvStep, PTL DEF LifeSpec

\* A session with a template routes by the table it was given (sr_main.c:195,
\* sr_vns_comm.c:225-226), if that was for the default host.
THEOREM RoutesCorrect == LifeSpec => []RoutesAreReceived
  <1>1. LifeInv => RoutesAreReceived
    BY DEF LifeInv, LoadedSoFar, RoutesAreReceived, InSession, Given
  <1> QED
    BY <1>1, LifeInvInit, LifeInvStep, PTL DEF LifeSpec

\* The forwarding path is entered only with routes whose interfaces exist
\* (sr_vns_comm.c:461-469), under name and number.
THEOREM VerifiedCorrect == LifeSpec => []PacketsVerified
  <1>1. LifeInv => PacketsVerified
    BY RoutesLead DEF LifeInv, Checked, PacketsVerified
  <1> QED
    BY <1>1, LifeInvInit, LifeInvStep, PTL DEF LifeSpec

\* The turn of sr_if_clear past its tables (sr_if.c:71) reads null, for every
\* size of the tables and wherever SIGINT arrives.
THEOREM OverrunCorrect == LifeSpec => []OverrunReadsNull
  <1>1. LifeInv => OverrunReadsNull
    <2> SUFFICES ASSUME LifeInv, pc = "if_clear", i = LAN_SIZE
                 PROVE  ip2iface[0] = NULL /\ routing_table = <<>>
      BY DEF OverrunReadsNull
    <2>1. 0 \in Slot /\ 0 < LAN_SIZE
      BY InterfacesAssumption DEF Slot
    <2> QED
      BY <2>1 DEF LifeInv, Records
  <1> QED
    BY <1>1, LifeInvInit, LifeInvStep, PTL DEF LifeSpec
=============================================================================
