------------------------------ MODULE Session -------------------------------
(***************************************************************************)
(* The connection to the VNS server as sr_vns_comm.c reads it: messages    *)
(* with a length, a type and a body arrive in order over TCP, in pieces of *)
(* any size.  The server itself is external: it may send any message at    *)
(* any time, and hang up, in the middle of a message too.                  *)
(***************************************************************************)
EXTENDS Interfaces

CONSTANTS Table,        \* contents of routing table files, one item per line
          File,         \* names of routing table files
          HwInfo,       \* hardware information, a sequence of entries
          Sent,         \* the messages the server may send
          HEADER, WHOLE,\* units of a message's length field and of all of it
          MaxPending    \* bound: messages sent and not yet read

\* vnscommand.h: the messages from the server.
HwEntry == [key : {"HWINTERFACE"}, name : Name] \cup [key : {"HWETHIP"}, ip : Ip]
           \cup [key : {"HWETHER", "HWSPEED"}]

c_close == [type : {"VNSCLOSE"}]
c_banner == [type : {"VNSBANNER"}]
c_packet_ethernet_header ==
    [type : {"VNSPACKET"}, name : Name, arp : BOOLEAN, long : BOOLEAN, tip : Ip \cup {NoIp}]
c_hwinfo == [type : {"VNSHWINFO"}, mHWInfo : HwInfo]
c_rtable == [type : {"VNS_RTABLE"}, file : File, rtable : Table]
c_auth_request == [type : {"VNS_AUTH_REQUEST"}]
c_auth_status == [type : {"VNS_AUTH_STATUS"}, auth_ok : BOOLEAN]

\* "oversize" stands for a message with an illegal length, "partial" for one the
\* server hung up in the middle of.
Message ==
    c_close \cup c_banner \cup c_packet_ethernet_header \cup c_hwinfo \cup c_rtable
    \cup c_auth_request \cup c_auth_status \cup [type : {"oversize", "partial"}]

ASSUME SessionAssumption ==
    /\ HwInfo \subseteq Seq(HwEntry)
    /\ Sent \subseteq Message
    /\ HEADER \in Nat \ {0} /\ WHOLE \in Nat /\ HEADER < WHOLE
    /\ MaxPending \in Nat \ {0}

VARIABLES stream,       \* messages sent and not yet read, the one being read first
          got,          \* units of it that were read
          hungup        \* the server has closed its end

sessionVars == <<stream, got, hungup>>

SessionInit == stream = <<>> /\ got = 0 /\ hungup = FALSE

ServerSends(m) ==
    /\ ~ hungup /\ Len(stream) < MaxPending
    /\ stream' = Append(stream, m)
    /\ hungup' = (m.type = "partial")
    /\ UNCHANGED got

ServerHangsUp ==
    /\ ~ hungup
    /\ hungup' = TRUE
    /\ UNCHANGED <<stream, got>>

-----------------------------------------------------------------------------

\* What the loop asks recv for: the rest of the length field, then of the body.
Wanted == IF got < HEADER THEN HEADER - got ELSE WHOLE - got

\* What the socket has: all messages sent, the last perhaps cut short.
Available ==
    WHOLE * Len(stream) - got
        - (IF stream[Len(stream)].type = "partial" THEN 1 ELSE 0)

TooLarge == stream # <<>> /\ got = HEADER /\ Head(stream).type = "oversize"

\* One call of recv or read.  A call that a signal interrupts is repeated; at
\* the end of a connection that the server closed a call returns 0, and the
\* loop repeats it for ever: no step is possible then.
ReadMore ==
    /\ stream # <<>> /\ got < WHOLE /\ ~ TooLarge
    /\ \E n \in 1..WHOLE : n <= Wanted /\ n <= Available /\ got' = got + n
    /\ UNCHANGED <<stream, hungup>>

Complete == stream # <<>> /\ got = WHOLE

\* The message is taken from the stream to be handled.
TakeMessage == stream' = Tail(stream) /\ got' = 0 /\ UNCHANGED hungup

SessionTypeOK ==
    /\ stream \in Seq(Message)
    /\ got \in 0..WHOLE
    /\ hungup \in BOOLEAN
=============================================================================
