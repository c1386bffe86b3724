----------------------------- MODULE MCArpCache -----------------------------
(* Model-checking instances of ArpCache. *)
EXTENDS ArpCache

\* Three slots and four addresses, three of which hash alike: every entry can
\* be displaced past the end of the table, and the table fills up both for an
\* address of hash 0 and for one of another hash.
Colliding == {2, 3, 5, 8}
=============================================================================
