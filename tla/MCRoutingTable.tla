--------------------------- MODULE MCRoutingTable ---------------------------
(* Model-checking instance of RoutingTable: addresses of two bytes of two    *)
(* bits on a little-endian machine, where the first byte on the wire is the  *)
(* least significant.                                                        *)
EXTENDS RoutingTable

MCBit == 1..4
MCRank == <<2, 1, 4, 3>>
MCDest == {{}, {1}, {1, 3}, {2, 3}}
MCMask == {{}, {1}, {1, 2}, {1, 2, 3, 4}}
MCIp == {{}, {1}, {1, 3}, {1, 2}}
=============================================================================
