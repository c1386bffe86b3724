------------------------------ MODULE Process ------------------------------
(***************************************************************************)
(* The router is one process with one thread and no handler for SIGSEGV or *)
(* SIGABRT: a fault in any function stops every component at once.  The    *)
(* components share the variable "fault"; every action of theirs requires  *)
(* Running, so a fault is the last thing that happens.                     *)
(***************************************************************************)
VARIABLE fault      \* NoFault, or the function in which the process stopped

NoFault == "none"

\* The functions in which the process can stop.  All but sr_arp_get stop it
\* with a signal; sr_arp_get stops it by looping for ever.
FaultSite == {"sr_buffer_add", "sr_arp_get", "sr_arp_set", "sr_arp_refresh",
              "sr_arp_check_refresh", "sr_router_send", "sr_icmp_unreachable",
              "sr_icmp_handler", "sr_rt_find", "sr_if_name2idx",
              "sr_add_interface", "sr_set_ether_ip", "sr_set_ether_addr",
              "sr_if_clear", "sr_rt_clear", "sr_arp_req_not_for_us",
              "sr_arp_request_response"}

Running == fault = NoFault

Proceed == fault' = NoFault

StopIn(function) == fault' = function
=============================================================================
