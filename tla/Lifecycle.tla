----------------------------- MODULE Lifecycle ------------------------------
(***************************************************************************)
(* The life of the process (sr_main.c with the handlers of sr_vns_comm.c): *)
(* it loads a routing table, connects, authenticates, opens a session,     *)
(* reads messages until the server closes or something fails, and frees    *)
(* what it has.  SIGINT may interrupt it between any two steps: the        *)
(* handler frees everything too and exits.  The interfaces and the         *)
(* connection are the modules below; what a frame makes the router do is   *)
(* module Router.                                                          *)
(***************************************************************************)
EXTENDS Session

CONSTANTS BadLine,      \* a line of a file that does not parse
          NoFile,       \* the contents of a file that is not there
          DefaultFile,  \* -r, "rtable" by default
          TemplateFile  \* "rtable.vrhost"

ASSUME FilesAssumption ==
    /\ Table \subseteq Seq(Name \cup {BadLine}) /\ BadLine \notin Name
    /\ {DefaultFile, TemplateFile} \subseteq File
    /\ NoFile \notin Table

VARIABLES pc,           \* where the thread is
          interrupted,  \* the SIGINT handler runs, or has run
          template,     \* the option -T was given
          files,        \* the routing table files in the working directory
          routing_table,\* the interface of each entry
          cleared,      \* entries of it that were freed
          i,            \* the counter of the loop that frees
          todo,         \* entries of the hardware information still to handle
          frame,        \* the interface and length of the frame being handled
          heard         \* the messages the handshake has accepted

lifeVars == <<fault, ifVars, sessionVars, pc, interrupted, template, files,
              routing_table, cleared, i, todo, frame, heard>>

NoFrame == [name |-> BadLine, long |-> FALSE]
tablesVars == <<routing_table, cleared, i>>
handlerVars == <<todo, frame>>
startVars == <<interrupted, template, files>>

\* The calls of sr_read_from_server_expect, and what each expects.
Handshake == {"auth", "status", "rtable"}
Expected ==
    [p \in Handshake |-> CASE p = "auth" -> "VNS_AUTH_REQUEST"
                           [] p = "status" -> "VNS_AUTH_STATUS"
                           [] p = "rtable" -> "VNS_RTABLE"]
Reading == Handshake \cup {"loop"}
Ended == pc = "exit" \/ ~ Running

-----------------------------------------------------------------------------
(* Start: main up to the handshake.                                         *)

\* Mutant: the template's table is read from the default file.
LoadedFileSame == DefaultFile

\* The file that is loaded: whatever host was asked for, a template's table is
\* read from the file of the default host.
LoadedFile == IF template THEN TemplateFile ELSE DefaultFile

\* sr_load_rt_wrap, one line per step; sr_add_rt_entry needs the number of the
\* first name.
LoadStep(next) ==
    LET f == files[LoadedFile]
        k == Len(routing_table) + 1
    IN  /\ IF f = NoFile \/ k > Len(f) THEN Proceed /\ UNCHANGED routing_table
           ELSE IF f[k] = BadLine THEN Proceed /\ UNCHANGED routing_table
           ELSE IF k = 1 /\ NumberOf[f[k]] >= LAN_SIZE
           THEN StopIn("sr_if_name2idx") /\ UNCHANGED routing_table
           ELSE Proceed /\ routing_table' = Append(routing_table, f[k])
        /\ pc' = IF f = NoFile THEN "exit"
                 ELSE IF k > Len(f) THEN next
                 ELSE IF f[k] = BadLine THEN "exit" ELSE pc
        /\ UNCHANGED <<ifVars, sessionVars, startVars, cleared, i, handlerVars, heard>>

Load == Running /\ pc = "load" /\ LoadStep("connect")
Reload == Running /\ pc = "reload" /\ LoadStep("loop")

\* A step of main that only moves on, or gives up with return 1.
GoTo(p) ==
    /\ Proceed
    /\ pc' = p
    /\ UNCHANGED <<ifVars, sessionVars, startVars, tablesVars, handlerVars, heard>>

Connect == Running /\ pc = "connect" /\ \E p \in {"auth", "exit"} : GoTo(p)

\* Send VNSOPEN or VNS_OPEN_TEMPLATE.
Open ==
    /\ Running /\ pc = "open"
    /\ \E p \in {IF template THEN "rtable" ELSE "loop", "exit"} : GoTo(p)

-----------------------------------------------------------------------------
(* sr_read_from_server_expect.                                              *)

ReadStep ==
    /\ Running /\ pc \in Reading
    /\ Proceed
    /\ ReadMore
    /\ UNCHANGED <<ifVars, startVars, tablesVars, handlerVars, heard, pc>>

\* Where the caller goes when the read returns 1: on with the handshake, or
\* round the main loop.
Onward ==
    CASE pc = "auth" -> "status"
      [] pc = "status" -> "open"
      [] pc = "rtable" -> "reload"
      [] OTHER -> "loop"

\* Mutant: the main loop goes on whatever the read returned.
OutwardNever == IF pc \in Handshake THEN "exit" ELSE "loop"

\* Anything else ends the handshake with return 1, and the loop with a clean-up.
Outward == IF pc \in Handshake THEN "exit" ELSE "rt_clear"

\* The counter of the clean-up starts when it is entered.
Return(p) == pc' = p /\ i' = IF p = "rt_clear" THEN 1 ELSE i

\* The call returns -1 without a message.
ReadGivesUp ==
    /\ Running /\ pc \in Reading
    /\ Proceed
    /\ Return(Outward)
    /\ UNCHANGED <<ifVars, sessionVars, startVars, routing_table, cleared,
                   handlerVars, heard>>

\* A length no message has.
RefuseLength == TooLarge /\ ReadGivesUp

\* A connection error, at any read.
ReadFails == ~ Complete /\ ReadGivesUp

\* Mutant: what is expected does not matter.
WelcomeAlways(m) == TRUE

\* A close is always welcome, and ends the handshake all the same.
Welcome(m) ==
    pc = "loop" \/ m.type = Expected[pc] \/ m.type = "VNSCLOSE"

\* A message that needs nothing of the other parts; ok is whether it returns 1.
HandleQuietly(ok) ==
    /\ Proceed
    /\ Return(IF ok THEN Onward ELSE Outward)
    /\ UNCHANGED <<ifVars, startVars, routing_table, cleared, handlerVars>>

\* sr_handle_auth_request: the key may be missing and the answer may not be sent.
sr_handle_auth_request == \E ok \in BOOLEAN : HandleQuietly(ok)

\* sr_handle_rtable: the table goes to the file of the host the server names.
sr_handle_rtable(m) ==
    \/ HandleQuietly(FALSE)
    \/ /\ Proceed
       /\ Return(Onward)
       /\ files' = [files EXCEPT ![m.file] = m.rtable]
       /\ UNCHANGED <<ifVars, interrupted, template, routing_table, cleared, handlerVars>>

\* sr_handle_hwinfo begins; its entries are handled one by one.
BeginHwInfo(m) ==
    /\ Proceed
    /\ Return("hwinfo")
    /\ todo' = m.mHWInfo
    /\ UNCHANGED <<ifVars, startVars, routing_table, cleared, frame>>

\* sr_arp_req_not_for_us, of a frame long enough for ARP.
NotForUs(m) == m.long /\ m.arp /\ m.tip # ifaces[sr_if_name2iface(m.name)].ip

\* A frame stops the process if its interface has no legal number, if it does
\* not exist and the frame is long enough for ARP or says it is, or if it has no
\* address and the request gets as far as the assertion of the answer; the
\* address is then what malloc left, so that the assertion may also hold.
FrameFaults(m) ==
    /\ \/ NumberOf[m.name] >= LAN_SIZE /\ StopIn("sr_if_name2idx")
       \/ /\ NumberOf[m.name] < LAN_SIZE /\ sr_if_name2iface(m.name) = NULL
          /\ \/ m.long /\ StopIn("sr_arp_req_not_for_us")
             \/ ~ m.long /\ m.arp /\ StopIn("sr_arp_request_response")
       \/ /\ NumberOf[m.name] < LAN_SIZE /\ sr_if_name2iface(m.name) # NULL
          /\ m.arp /\ ~ NotForUs(m) /\ ifaces[sr_if_name2iface(m.name)].ip = NoIp
          /\ StopIn("sr_arp_request_response")
    /\ UNCHANGED <<ifVars, startVars, tablesVars, handlerVars, pc>>

FrameIsSafe(m) ==
    /\ NumberOf[m.name] < LAN_SIZE
    /\ sr_if_name2iface(m.name) = NULL => ~ m.long /\ ~ m.arp

\* A frame goes to sr_handlepacket unless it is an ARP request for another.
HandleFrame(m) ==
    \/ FrameFaults(m)
    \/ FrameIsSafe(m) /\ NotForUs(m) /\ HandleQuietly(TRUE)
    \/ /\ FrameIsSafe(m) /\ ~ NotForUs(m)
       /\ Proceed
       /\ Return("router")
       /\ frame' = [name |-> m.name, long |-> m.long]
       /\ UNCHANGED <<ifVars, startVars, routing_table, cleared, todo>>

\* The switch on the type of a complete message.
Dispatch(m) ==
    IF ~ Welcome(m) \/ m.type = "VNSCLOSE" THEN HandleQuietly(FALSE)
    ELSE CASE m.type = "VNS_AUTH_REQUEST" -> sr_handle_auth_request
           [] m.type = "VNS_AUTH_STATUS" -> HandleQuietly(m.auth_ok)
           [] m.type = "VNS_RTABLE" -> sr_handle_rtable(m)
           [] m.type = "VNSHWINFO" -> BeginHwInfo(m)
           [] m.type = "VNSPACKET" -> HandleFrame(m)
           [] OTHER -> HandleQuietly(TRUE)

HandleMessage ==
    /\ Running /\ pc \in Reading
    /\ Complete
    /\ TakeMessage
    /\ Dispatch(Head(stream))
    /\ heard' = IF pc \in Handshake THEN Append(heard, Head(stream)) ELSE heard

\* One entry of the hardware information.
HwEntryStep ==
    LET e == Head(todo)
    IN  /\ Running /\ pc = "hwinfo" /\ todo # <<>>
        /\ \/ e.key = "HWINTERFACE" /\ sr_add_interface(e.name)
           \/ e.key = "HWETHIP" /\ sr_set_ether_ip(e.ip)
           \/ e.key = "HWETHER" /\ sr_set_ether_addr
           \/ e.key = "HWSPEED" /\ Proceed /\ UNCHANGED ifVars
        /\ todo' = Tail(todo)
        /\ UNCHANGED <<sessionVars, startVars, tablesVars, frame, heard, pc>>

\* Mutant: one interface that exists is enough.
VerifiedOne ==
    \E k \in DOMAIN routing_table, j \in Record : ifaces[j].name = routing_table[k]

\* sr_verify_routing_table.
Verified ==
    /\ if_list # NULL /\ routing_table # <<>>
    /\ \A k \in DOMAIN routing_table :
         \E j \in Record : ifaces[j].name = routing_table[k]

\* The scan asks for every gateway first, and needs the number of each name.
ScanFaults == \E k \in DOMAIN routing_table : NumberOf[routing_table[k]] >= LAN_SIZE

EndHwInfo ==
    /\ Running /\ pc = "hwinfo" /\ todo = <<>>
    /\ IF ScanFaults THEN StopIn("sr_if_name2idx") /\ UNCHANGED <<pc, i>>
       ELSE Proceed /\ Return(IF Verified THEN Onward ELSE Outward)
    /\ UNCHANGED <<ifVars, sessionVars, startVars, routing_table, cleared,
                   handlerVars, heard>>

\* Where what module Router models may stop the process.
RouterFault == {"sr_buffer_add", "sr_arp_set", "sr_arp_refresh", "sr_arp_check_refresh",
                "sr_router_send", "sr_icmp_unreachable", "sr_icmp_handler", "sr_rt_find"}

\* sr_handlepacket and the sweep after it: they return, stop the process, or
\* probe a full table for ever (sr_arp_get), which only SIGINT ends.
RouterStep ==
    /\ Running /\ pc = "router"
    /\ \/ \E p \in {"loop", "probe"} : GoTo(p)
       \/ /\ \E f \in RouterFault : StopIn(f)
          /\ UNCHANGED <<ifVars, sessionVars, startVars, tablesVars, handlerVars, heard, pc>>

-----------------------------------------------------------------------------
(* sr_destroy_instance, called by main after the loop and by the handler of  *)
(* SIGINT, which then exits.                                                *)

Interrupt ==
    /\ Running /\ pc # "exit" /\ ~ interrupted
    /\ Proceed
    /\ interrupted' = TRUE
    /\ Return("rt_clear")
    /\ UNCHANGED <<ifVars, sessionVars, template, files, routing_table, cleared,
                   handlerVars, heard>>

\* Mutant: the table's head is not reset.
HeadAfterClearKept == routing_table

HeadAfterClear == <<>>

\* sr_rt_clear: free an entry, perhaps one that the interrupted clean-up freed
\* already, or reset the head after the last.
ClearRoute ==
    /\ Running /\ pc = "rt_clear"
    /\ \/ /\ i <= Len(routing_table)
          /\ Proceed \/ (i <= cleared /\ StopIn("sr_rt_clear"))
          /\ cleared' = IF i > cleared THEN i ELSE cleared
          /\ i' = i + 1
          /\ UNCHANGED <<routing_table, pc>>
       \/ /\ i > Len(routing_table)
          /\ Proceed
          /\ routing_table' = HeadAfterClear /\ cleared' = 0
          /\ pc' = "if_clear" /\ i' = 0
    /\ UNCHANGED <<ifVars, sessionVars, startVars, handlerVars, heard>>

ClearInterface ==
    /\ Running /\ pc = "if_clear"
    /\ \/ i < LAN_SIZE /\ ClearSlot(i) /\ i' = i + 1 /\ UNCHANGED <<routing_table, pc>>
       \/ /\ i = LAN_SIZE
          /\ ClearLast
          /\ routing_table' = <<>> /\ pc' = "buf_clear" /\ UNCHANGED i
    /\ UNCHANGED <<sessionVars, startVars, cleared, handlerVars, heard>>

\* sr_buffer_clear, which resets the buffer of module Router, is the last call.
ClearBuffer == Running /\ pc = "buf_clear" /\ GoTo("exit")

-----------------------------------------------------------------------------
LifeInit ==
    /\ InterfacesInit /\ SessionInit
    /\ fault = NoFault
    /\ interrupted = FALSE
    /\ template \in BOOLEAN
    /\ pc = IF template THEN "connect" ELSE "load"
    /\ files \in [File -> Table \cup {NoFile}]
    /\ routing_table = <<>> /\ cleared = 0 /\ i = 0
    /\ todo = <<>> /\ frame = NoFrame
    /\ heard = <<>>

\* What is sent while the thread is elsewhere is there when it reads again: no
\* step but those of reading can tell, so the server waits for them, unless the
\* thread will not read again.
Server ==
    /\ Running /\ Proceed /\ pc \in Reading \cup {"probe"}
    /\ ServerHangsUp \/ \E m \in Sent : ServerSends(m)
    /\ UNCHANGED <<ifVars, startVars, tablesVars, handlerVars, heard, pc>>

Thread ==
    \/ Load \/ Connect \/ Open \/ Reload
    \/ ReadStep \/ RefuseLength \/ HandleMessage \/ HwEntryStep \/ EndHwInfo \/ RouterStep
    \/ ClearRoute \/ ClearInterface \/ ClearBuffer

LifeNext == Thread \/ ReadFails \/ Interrupt \/ Server

LifeSpec == LifeInit /\ [][LifeNext]_lifeVars

\* The thread runs.  The network owes it nothing, and no call has to fail.
LifeFairSpec == LifeSpec /\ WF_lifeVars(Thread)

-----------------------------------------------------------------------------
\* Every variable keeps its type.
LifeTypeOK ==
    /\ fault \in FaultSite \cup {NoFault}
    /\ IfTypeOK /\ SessionTypeOK
    /\ pc \in {"load", "connect", "open", "reload", "hwinfo", "router", "probe",
               "rt_clear", "if_clear", "buf_clear", "exit"} \cup Reading
    /\ interrupted \in BOOLEAN /\ template \in BOOLEAN
    /\ files \in [File -> Table \cup {NoFile}]
    /\ routing_table \in Seq(Name)
    /\ cleared \in 0..Len(routing_table) /\ i \in Nat
    /\ todo \in Seq(HwEntry)
    /\ frame \in [name : Name \cup {BadLine}, long : BOOLEAN]
    /\ heard \in Seq(Message)

InSession == Running /\ pc \in {"loop", "hwinfo", "router"}

\* What the session rests on: it is entered only after a request for
\* authentication, a positive status and, for a template, a table, with nothing
\* between them (sr_vns_comm.c:404-409, 115-117, 148-150).
HandshakeInOrder ==
    InSession =>
        /\ Len(heard) = IF template THEN 3 ELSE 2
        /\ heard[1].type = "VNS_AUTH_REQUEST"
        /\ heard[2].type = "VNS_AUTH_STATUS" /\ heard[2].auth_ok
        /\ template => heard[3].type = "VNS_RTABLE"

\* A session with a template routes by the table it was given, not by an older
\* file, provided that the server names the host "vrhost": the file loaded is
\* that host's whatever -v says (sr_main.c:195, sr_vns_comm.c:225-226).
RoutesAreReceived ==
    InSession /\ template /\ heard[3].file = TemplateFile =>
        routing_table = heard[3].rtable

\* The router is given a frame that can be ARP or carry data only when every
\* route's interface exists, under its name and under its number, and so does
\* the frame's (sr_vns_comm.c:461-469): what the forwarding path assumes.
PacketsVerified ==
    Running /\ pc = "router" /\ frame.long =>
        /\ sr_if_name2iface(frame.name) # NULL
        /\ \A k \in DOMAIN routing_table :
             /\ NumberOf[routing_table[k]] < LAN_SIZE
             /\ sr_if_name2iface(routing_table[k]) # NULL
             /\ ifaces[sr_if_name2iface(routing_table[k])].name = routing_table[k]

\* The turn of sr_if_clear that runs past its tables (i <= LAN_SIZE,
\* sr_if.c:71) reads ip2iface[0] and the head of the routing table, and both are null
\* by then, also when SIGINT arrives in the middle of the clean-up.
OverrunReadsNull ==
    Running /\ pc = "if_clear" /\ i = LAN_SIZE => ip2iface[0] = NULL /\ routing_table = <<>>

\* SIGINT ends the process wherever it is, and a close that was sent does, in
\* however many pieces it is read, unless the thread probes a full table for
\* ever (sr_arp.c:123) and so never reads it.
EndsWhenTold ==
    /\ interrupted ~> Ended
    /\ (\E k \in DOMAIN stream : stream[k].type = "VNSCLOSE") ~> Ended \/ pc = "probe"

-----------------------------------------------------------------------------
(* What the code says of itself, and does not do.                           *)

\* sr_main.c:266, "MAIN: sr_destroy_instance finished - exiting": the clean-up
\* after SIGINT is not stopped by freeing an interface twice.
ShutdownFinishes == fault # "sr_if_clear"
=============================================================================
