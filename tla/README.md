# A TLA+ model of the router

This directory specifies and verifies the software router in `src/router`: a
single-threaded C program that connects to a VNS server over TCP, receives
Ethernet frames from it, and forwards IP packets between the interfaces the
server describes.  Its own logic is an ARP cache, a packet buffer and the
forwarding engine that ties them together; the rest is the server's client
library, SHA-1 and packet logging.

## 1. Inventory

| Component | Code | State it keeps | Operations |
|---|---|---|---|
| Main loop, process | `sr_main.c` | the `sr_instance`; whether it still runs | init, read / handle / sweep, destroy on SIGINT |
| Server session | `sr_vns_comm.c` | the socket | connect and authenticate, read one message and dispatch it, send a frame |
| Interfaces | `sr_if.c` | `if_list`, `interfaces[256]`, `ip2iface[256]` | add, set MAC, set IP, look up by name or by IP, clear |
| Routing table | `sr_rt.c` | a singly linked list | load, add, find, clear |
| ARP cache | `sr_arp.c` | `arp_table[256]`, `arp_lastrefresh` | get, set, refresh, check_refresh (sweep), scan, answer a request |
| Packet buffer | `sr_buffer.c` | 256 items and packets, `start`, `end` | malloc, free, clear, add, remove |
| Forwarding engine | `sr_router.c` | none of its own (a handle on the stack) | handlepacket, send, resend |
| IP and ICMP | `sr_ip.c` | none | reverse, unreachable, icmp handler, ip handler, passthru, checksum |
| Checksum | `sr_ip.c` | none | compute, and check by computing again |
| SHA-1, packet log, wire formats, scripts | `sha1.c`, `sr_dumper.c`, headers | - | not modelled |

**How they interact.**  There is one thread.  `main` reads a message
(`sr_read_from_server`), and after each message sweeps the ARP cache
(`sr_arp_check_refresh`).  The hardware-information message registers the
interfaces and scans: it asks for the gateway of every route (`sr_arp_scan`).  A
frame goes to `sr_handlepacket`.  An IP packet is filtered, rewritten by
`sr_ip.c`, then the buffer is walked (`sr_router_resend`), then the packet
itself is sent (`sr_router_send`).  An ARP reply is stored and the buffer is
walked.  `sr_router_send` consults the routing table and the ARP cache, and
either sends, or stores the packet in the buffer, or turns it into an ICMP error.
All communication is by direct calls on the shared `sr_instance`.

**What is hard here.**  Nothing runs in parallel, but the three components are
driven by an environment that chooses the order of packets, replies, silence
and the passing of seconds.  The hard parts are:

- a list that is walked while the walk removes items from it and sends through
  a table that other items' turns change;
- ages and counters read at one step and outdated at the next (`time()` moves
  between any two calls);
- an open-addressed table with collisions and wrap-around;
- a connection that may fail or be closed in the middle of a message, and SIGINT,
  whose handler frees what the interrupted code was using or freeing;
- integers compared, added and folded where the argument is about prefixes and
  one's-complement sums;
- limits: the full pool, the full table, the 8-bit counter of tries;
- null results that no caller tests, each of which ends the process.

**What makes each component correct.**

- *Packet buffer*: the used slots and the list are the same set; the list is the
  arrival order from both ends; it behaves as a bounded FIFO queue with ages.
- *ARP cache*: no entry is lost or doubled by probing; it behaves as a map; an
  entry that was not answered is never used as if it had been; a silent link is
  found dead.
- *Forwarding engine*: the walk never stands on a freed item and always ends;
  packets of one gateway leave in order; none is stranded or lost silently;
  slots come back.
- *Routing table*: the entry found has the longest matching prefix; a default
  route is the last resort and is never missed.
- *Interfaces*: the two tables and the list describe the same records; an address
  is found by its last byte; the clean-up touches nothing but its tables.
- *Session*: the handshake is followed in order; the forwarding path is entered
  only with a verified routing table; a close or SIGINT ends the process.
- *Checksum*: it is the sum of RFC 1071; what arrives unchanged is accepted and one
  changed word is refused.

`PROJECT.json` lists the hazards with their lines and the properties for each.

## 2. Modules

```
Process            fault: the process runs, or has stopped in a function
  PacketBuffer     sr_buffer.c          --implements-->  PacketQueue
  ArpCache         sr_arp.c             --implements-->  ArpMap
    Router         sr_router.c + sr_ip.c + main loop, EXTENDS both
                                        --implements-->  PacketQueue and ArpMap
  RoutingTable     sr_rt.c: loading and searching
  Interfaces       sr_if.c
    Session        the connection of sr_vns_comm.c
      Lifecycle    sr_main.c + the handlers of sr_vns_comm.c: start to exit
Checksum           sr_ip_checksum and its use
MCPacketBuffer, MCArpCache, MCRouter, MCRoutingTable, MCLifecycle   instances for TLC
LeastNatural, PacketBufferProofs, ArpCacheProofs, RouterProofs, RefinementProofs,
RoutingTableProofs, LifecycleProofs, ChecksumProofs                   theorems
```

Router and Lifecycle are two views of the same thread.  Router is the inside of
`sr_handlepacket` and of the sweep in a session that never ends; Lifecycle is
everything around them, where a handled frame is the one step `RouterStep`, which
returns, stops the process or probes for ever (`probe`).  What
Lifecycle proves on the way into that step (`PacketsVerified`) is what Router
assumes: a route for every packet has an interface.

**Process.**  A null dereference or a failed assertion anywhere stops
everything, so all components share one variable `fault`; every action requires
`Running`.  `fault` holds the function in which the process stopped; a search
that never returns (`sr_arp_get`) is recorded the same way.

**PacketBuffer.**  `items` is `sr->buffer.items`, slots `1..BUFFSIZE`, null
pointer 0; `start` and `end` are the list's ends.  `created` is represented by
its age, saturated one above `PACKET_TOO_OLD`, because the code only compares
the two.  The packet bytes are one value of `Packet`; `pos` is the slot number
and has no field.  `order` is an auxiliary variable: the used slots, oldest
first, updated by the same actions and read by no guard.  Actions: `Arrive` and
`AddAgain` (`sr_buffer_add` of a fresh and of a buffered handle), `Remove`,
`BufTick`.

**ArpCache.**  `arp_table` is the table, `sinceCheck` the age of
`arp_lastrefresh`, `asked` the addresses requests were broadcast for in the last
step.  An entry's `created` is an age saturated above `ARP_TTL`; a dummy's is
saturated from the start, its `created` being 0.  `sr_arp_get` is the
probing loop as the code runs it, including what the loop does on a full table:
NULL for most hashes, and no end for hash 0, because `i` is reset to 0 inside the
body and incremented before the test (`sr_arp.c:123-124`).  Actions: `Answer`
(`sr_arp_set`), `Request` (`sr_arp_refresh`), `Sweep` (`sr_arp_check_refresh`),
`ArpTick`.

**Router.**  `pc` says where the thread is: `scan`, then for ever `idle` (reading a
message), `resend` (walking the buffer, one item per step), `send` (the packet in
hand), `sweep`.  `cur` is the walk's item, `hand` the packet on the stack, `wire`
the frame of the last step and its fate (written, refused, or not written), `ifidx` the routing entries' interface
index.  `Tick` may happen between any two steps.  The steps are whole turns: one
turn of `sr_router_resend` contains the age test, `sr_router_send` with
everything it calls, and `sr_buffer_remove`.  `Lookup` names the cases in which
`sr_router_send` branches (`absent`, `dead`, `pending`, `good`, and the two failed
searches); `Keep`, `Release` and `SendFaults` are its results 0, 1 and neither.

Abstractions of Router, and why they are sound for what is checked:

- `sr_rt_find` is the constant `RouteOf`, any total function; a table with no match
  and no default route (the function then returns an unset pointer) is outside.
- A packet is its source and destination; the other header fields decide a
  branch through the inputs `proto`, `ttlLeft` and `checksumOk`, chosen freely.
- The addresses of interfaces are assumed to have distinct last bytes, as
  `sr_if_ip2iface` keeps one interface per last byte; and no packet carries the
  address 0.0.0.0, for which the code asserts.
- `ifidx` of every route but the first is not assigned by `sr_add_rt_entry`
  (`sr_rt.c:182-190`): it starts with any interface or none.
- A forwarded frame may be refused for its source MAC, or its `write` may fail or be short
  (`sr_vns_comm.c:592-608`): `sr_send_packet` chooses, and `sr_router_send` takes each
  for a success, as the code does.  What becomes of a request for an address
  (`asked`) is not followed: the network may lose, delay or repeat anything, since
  requests and replies are unrelated actions.

**RoutingTable.**  `routing_table` is the list.  An address is the set of its one
bits, so that `&` is intersection, and `Rank` gives each bit its significance in
a `uint32_t` that holds the address in network order: `Exceeds` is the code's `>` on
a machine of any byte order.  `LoadLine` reads one line; `Scanned` is what `sscanf`
leaves when a line has fewer than four fields (a blank line repeats the
entry before it), `sr_add_rt_entry` sets `ifidx` for the first entry only.  Every
field after an address that was read must convert too; a line that does not is
`LoadFails`.  `blank` is auxiliary: the entries that blank lines added.  `Find` enters the search, `Visit` is one turn of its loop.  The code
treats the first entry before the loop; the turn does the same to it, because
`bestprefix` is still zero.  The gateway field is left out: the search does not
look at it.

**Interfaces.**  `ifaces` holds the records in the order of their allocation, which
is the order of the list; a pointer is a position, NULL is 0.  `interfaces` and
`ip2iface` are the two tables; `freed` is what was given back.  MAC, speed and mask of
a record are left out: nothing but frames depends on them.  `ClearSlot` is one turn
of `sr_if_clear`, in which the second `free` of a record that both tables hold may
stop the process or not, as the allocator decides; `ClearLast` is the turn past the
tables.

**Session.**  `stream` holds the messages sent and not yet read.  A message is `WHOLE`
units long, its length field `HEADER` of them, and `ReadMore` takes any number of
units that the socket has and the loop asks for.  A server that hangs up leaves what
was sent before, perhaps cut short ("partial"); `recv` then returns 0 and the loop
asks again for ever (`sr_vns_comm.c:341-358`), which is no step at all.
The kinds of messages are the structures of `vnscommand.h` that the server sends, with
the fields a branch depends on; an illegal length is "oversize".

**Lifecycle.**  `pc` is where `main` is: `load`, `connect`, the three waits of the
handshake, `open`, `reload`, then `loop`, `hwinfo` (one entry of the message per step)
and `router`, and at last `rt_clear`, `if_clear`, `buf_clear`, `exit`; `probe` is the
endless search of `sr_arp_get` on a full table, which only SIGINT leaves.  `heard` is auxiliary: the
messages the handshake accepted.  `files` are the two routing table files, which
`sr_handle_rtable` overwrites.  `Interrupt` is SIGINT between any two steps; its
handler is the same clean-up, begun again on what the interrupted one left.
`RouterStep` stops the process in any function that can fault in Router (a reset
connection, whose SIGPIPE has no handler, counts as such a stop): it is an
abstraction of Router that loses the condition and keeps the outcomes.  An
interface whose address was not set holds what `malloc` left: a request to it may pass
or fail the assertion of `sr_arp.c:206` (`FrameFaults`).
Abstractions:

- The server sends only while the thread reads, or after it will not read again
  (`probe`).  A message sent earlier would lie in the socket until then, and no other
  step looks at the socket.
- One turn of a clean-up loop is a step, so that SIGINT between a `free` and the
  reset of its slot is not a behaviour of its own; a turn repeated by the handler may
  free again, which is there.
- A frame is its interface and what decides its way: whether it is ARP, long enough
  for ARP, and for whom.  User name, log file, MAC addresses and options
  other than `-T` and `-r` are left out.  A length below eight is not sent.
- Messages left in the stream when the process ends are not looked at.

**Checksum.**  `data` are the bytes of a message and one past its end, which the code
reads when the length is odd.  The loops of `sr_ip_checksum` are actions; a byte is
below `B`, so that a word is below `B^2` as 256 is to 65536, and the sum is a natural
number: `ChecksumTypeOK` bounds it by `B^4`, the 32-bit width, so it never wraps.
That rests on `MaxLen < B^2`, which is the code's `uint16_t len_in_bytes`.  An odd
length adds one word more, `OddWord`: the last byte and the byte past the end, shifted
up.  `SendAndReceive` stores the result in the zeroed field and computes again over
what arrives.

**PacketQueue, ArpMap** are the promises: a bounded queue of packets with ages, and
a bounded map that never forgets, each with the exact conditions under which the
program stops.  The refinement mappings are at the end of the two detailed
modules; the cache is mapped through its own search, so a lost entry shows as a
forgotten address.  Router is mapped to both a second time (`Backlog`, `Neighbours`),
because there the operations are parts of larger steps: a turn of the walk may age,
ask, send and remove at once, and must still be one operation of the queue and one of
the map.

## 3. Runs

| Run | Instance | What it shows |
|---|---|---|
| `buffer` | 4 slots, 2 packets, age limit 2 | `BufTypeOK`, `ListIntegrity`, `ImplementsQueue` |
| `arp_table` | 3 slots, addresses {2,3,5,8}, `TRIES_MOD` 3 | `ArpTypeOK`, `LookupIntegrity`, `EntryKinds`, `ImplementsMap`, `StandingChanges` |
| `router` | 2 routes, 3 buffer slots, 2 table slots, `TRIES_MOD` 4; one gateway's replies also on the other interface | safety of the whole |
| `router_life` | as `router` with 2 buffer slots, `TRIES_MOD` 3, packets in two directions, and two more hosts that answer than the table has room for | liveness; `KeepsQueue`, `KeepsMap` |
| `sweep_dummy` | as `router` with 2 buffer slots | `SweepSurvives` is violated |
| `full_pool` | as `router` with 2 buffer slots | `FullPoolSurvives` is violated |
| `tries_wrap` | 1 slot, the real `ARP_TTL`, `ARP_CHECK_EVERY`, `ARP_MAX_TRIES` and 2^8 | `DeadUntilAnswered` is violated |
| `late_drop` | as `router_life` without the two hosts | `DroppedWhenOld` is violated |
| `routes` | addresses of two bytes of two bits, little-endian; 3 lines; 4 destinations, 4 masks | `RtTypeOK`, `LongestPrefix`, `DefaultIsLastResort`, `BlankLinesHarmless` |
| `lifecycle` | 2 slots, 3 names, 2 addresses with one last byte, 2 files, 18 messages | safety from start to exit, `EndsWhenTold` |
| `shutdown` | as `lifecycle` | `ShutdownFinishes` is violated |
| `checksum` | bytes below 4, up to 6 of them, one changed word | RFC 1071 over even lengths, what odd ones give, accepting, refusing, `FoldShrinks` |

*Bounds.*  Four slots give a removal with neighbours on both sides and reuse of a
freed slot out of order; two packets give two that differ.  Three table slots
with four addresses, three of them with hash 2 and one with hash 0, give
collisions, displacement past the end of the table, a full table, and both
failures of the search.  Limits of one second give every relation of an age to a
limit (below, at, above).  `TRIES_MOD` is small so that the wrap of the counter
happens, and larger than `ARP_MAX_TRIES` so that a link can be dead first.  The
router's two gateways hash alike, so that one is displaced.  Packets cross in
both directions, go to an interface of the router, and go to a
destination outside; three buffer slots let packets for two gateways interleave.
`router_life` and `late_drop` keep the two directions only: packets for
both gateways still reach the buffer, and errors are still sent for dead links and expired TTLs.
Two hosts more than there are slots fill the table, with either failure of the search.
Three lines of a file give a default, a short line, a tie and an order of two
matches in both directions; two bytes of two bits are the least in which the byte
order and the bit order disagree, so that the order of integers is not the order of
addresses.  In `lifecycle` one message is pending at a time (`MaxPending`), since the
thread takes them one by one; `HEADER` 2 of `WHOLE` 4 lets both fields arrive in two
pieces or in one.  Three hardware informations cover registration in the wrong order,
an address before any interface, a route without interface, and a repetition of
each.  Bytes below 4 give sums above one carry, a carry out of a carry, and both
zeros.  Deadlock is not checked, because the process really stops after a fault, and
waits for ever for a server that hung up.

*The safety properties of `router`.*  `IteratorValid`: the walk stands on a packet
of the list.  `NoOvertaking`: a forwarded packet leaves no older packet for its
gateway behind (errors for a dead link are excepted: they are sent past the
test of their own entry).  `NoStranded`: when the router waits, no packet waits
for a good gateway, except one whose entry passed its TTL after the walk.
`NoSilentLoss`: an accepted packet is in the buffer, written, too old or for a
dead link, or lost in one of the two ways in which `sr_router_send` reports a success that
was none (`sr_router.c:233-238`): its write failed, or the frame was refused, which
happens only if a reply for the gateway is heard on another interface than
the route's (`HeardElsewhere`).  `MCReplyAcross` has one such gateway and one without.  `GatewaysKnown`: after the scan every gateway has an entry
for good, so the branch that asks on demand (`sr_router.c:186-191`) is never needed
when the table has room.  `NoUnansweredSend`: no frame is built from an unanswered
entry.  This last one holds for a reason worth knowing: a dummy's tries stay at 1
because the sweep stops the process before they grow, so repairing the sweep
alone would expose the null interface in `sr_router_send`.

`HandlerAdvances`: every step of a handler makes `Distance`, the turns still to
be made before the next message, smaller, also the turns that unlink or buffer an item
of the list being walked, and time changes nothing of it.  The probe of `sr_arp_get`
is one step of the model: where it would never end the thread stops in it, and does so
only over a full table without the address (`Overfull`).  `HandlerReturns`, the liveness
property, has the same exception, for there the code does not return
(`sr_arp.c:123-124`); a handler that stops the process elsewhere does not return
either, and is told by its fault.  `KeepsQueue` and
`KeepsMap`, in `router_life`, are the two refinements seen through Router.

*`BlankLinesHarmless`* of `routes`: a blank line adds the entry before it once more, and the
search returns what it would without: an original, which comes first, or a copy of the
last default that is one.  A file that begins with a blank line is excepted, since the
buffers then hold nothing yet.

*`StandingChanges`* of `arp_table`: a link becomes dead only when the last allowed request for
it goes out, past its TTL, and stops being dead only by an answer or by the request that
makes its counter wrap (which `tries_wrap` shows to happen).

*The properties of `checksum`.*  `IsRfc1071` and `OddSwapsBytes` say what the function
returns over even and odd lengths, `UnchangedAccepted` and `ChangeRefused` what its
caller makes of it.  `FoldShrinks` is why `while (sum >> 16)` cannot turn for ever.

*Fairness.*  `RouterFairSpec` assumes only that the thread runs
(`WF(Handler)`): a message is never owed by the network, and no second has to
pass.  A property that needs either has it as its premise: `SlotsComeBack`
assumes that packets or replies go on being handled and that time goes on;
`SilenceIsNoticed` that sweeps and time go on.  `HandlerReturns` needs neither.
`ArpFairSpec` assumes that time passes.
`LifeFairSpec` assumes that the thread runs (`WF(Thread)`), and neither that the server
sends, nor that a read fails, nor that SIGINT arrives.

*The properties of `lifecycle`.*  `NumbersAgree` and `AddressesFound` relate the list to
the two tables.  `HandshakeInOrder` is about what was heard before a session.
`RoutesAreReceived` is that a template's table is the one loaded, which needs the
server to say `vrhost`: the file name is built from the host the server names, and
read under the default name.  `PacketsVerified` is what the forwarding path takes for
granted.  `OverrunReadsNull` shows why `i <= LAN_SIZE` in `sr_if_clear` does no harm: what
lies past the tables is the other table, empty by then, and the head of the
routing table, which `sr_rt_clear` reset.  `EndsWhenTold` is that SIGINT ends the process
wherever it is, the endless probe included, and a close does unless the thread is in that
probe and never reads it.

## 4. What the documentation says and the program does not do

1. `sweep_dummy`: if a gateway has not answered by the first sweep, the sweep
   follows the null interface of its dummy entry (`sr_arp.c:58`); `readme.txt:53-55`
   reports that the router stays up indefinitely.
2. `full_pool`: with the pool full, `sr_buffer_add` reads through NULL
   (`sr_buffer.c:90`) before the test that would give the packet up
   (`sr_buffer.c:91-94`).
3. `tries_wrap`: after 256 unanswered sweeps the 8-bit counter is 0 and the dead
   link is taken for a good one (`sr_arp.c:54`, `sr_arp.h:31`).
4. `late_drop`: a packet is dropped after six seconds (`readme.txt:29`) only if a
   later message makes the router walk the buffer (`sr_router.c:263`).
5. `shutdown`: `sr_if_clear` frees an interface through `interfaces` and again
   through `ip2iface` (`sr_if.c:71-79`); an allocator that notices stops the process
   before `sr_main.c:266` says that it finished.

Others need no run.  The value that `sr_ip_checksum` gives over a correct header is
0, as `sr_handlepacket` tests (`sr_router.c:106`), not the 0xFFFF of the comment
(`sr_ip.c:219-220`); `UnchangedAccepted` states the former.  An odd length is to be padded with a
zero byte (`sr_ip.c:215-217`), which the echo handler does not do
(`sr_ip.c:140`): `IsRfc1071` is stated for even lengths, and `OddSwapsBytes` says what
odd ones give: the checksum of the message whose last byte and the byte past it have
changed places.  `sr_rt_find` compares
prefixes, not lengths: of two entries with the same prefix the first wins even if
the mask of the second is longer.  `ifidx` is set for the first entry only
(`sr_rt.c:154-192`): an error about a later route has the source of any interface, or
stops the process.  The walk is to delete what was "successfully sent"
(`sr_router.c:242-243`), and deletes as well a packet whose write failed or whose frame was
refused; `NoSilentLoss` names both.  With more hosts answering than the table has slots
`sr_arp_get` may never return (`sr_arp.c:123-124`), which long runs
(`readme.txt:53-55`) would meet; `HandlerReturns` names it.  With `-v` another host and
`-T`, the file that is loaded is not the one received (`sr_main.c:195`).  A peer that closes the connection makes the reading loop spin
(`sr_vns_comm.c:341`): a close is noticed when the server says so.

Two more concern the texts alone: `readme.txt:7` speaks of a refresh every 60
seconds where `ARP_TTL` is 600 (`sr_arp.h:28`), and of a check every 10 seconds
where the check is made only after a message arrives (`sr_main.c:202-204`).

## 5. Theorems

All hold for every value of the constants that satisfies the named assumptions
(`BuffsizeAssumption`, ..., `NullAssumption`), which say no more than that sizes
and limits are numbers, addresses are non-zero and finitely many, null values
are not real ones, the map's `Absent` is no entry and the limit of tries fits its
counter.  TLC evaluates the
assumptions in every run.

- `PacketBufferProofs`: `BufTypeCorrect`, `ListCorrect`.  The inductive invariant is
  `BufTypeOK /\ ListIntegrity`.  `ListIntegrity` is inductive as it stands because it
  has three parts that need each other: that the slots on the list are the used
  ones (so a fresh slot is not on it), that the links follow the arrival
  order (so unlinking one item joins its neighbours in that order), and that ages do
  not increase along it.  One lemma per operation (`AppendPreserves`,
  `RemovePreserves`, `AgePreserves`), so that Router's proofs can cite them.
- `ArpCacheProofs`: `ArpTypeCorrect`, `LookupCorrect`, `EntriesCorrect`, `RoomSuffices`.
  `GetResult` says what the search returns; `Holder`, that an address in the table is
  where its search stops; `WritePreserves`, that writing an address where its search
  stops keeps every other entry reachable; `RoomFound`, by the pigeonhole principle,
  that a table with room always gives a slot.  Entries are never
  removed, which is why no tombstones are needed.  `StandingCorrect` is the action
  property `StandingChanges`: `TryStanding` says what one more try does to an entry,
  for every width of the counter.
- `RefinementProofs`: `QueueCorrect` and `MapCorrect`, that the two components
  implement their abstract specifications.  `LengthOfList` (the list is as long as the
  pool exactly when no slot is free) and `MapRoom` (fewer addresses than slots are
  known exactly when a slot is empty) relate the two notions of full by counting.
  `MapReads` says what the search reads of the table, so that the steps
  can be shown slot by slot: `MapWrite` for a step that writes one, `MapSame` for the
  steps that leave every address where it is.  `BacklogCorrect` and `NeighboursCorrect`
  are the same for Router (`KeepsQueue`, `KeepsMap`).  `QueueIsBacklog` and
  `MapIsNeighbours` turn the component's view into Router's, which adds that a fault of
  another function is no stop of the queue or of the map; then each step of Router is
  one operation or a stutter (`BacklogStep`, `NeighboursStep`), with `CoreInv` as the
  invariant.  Neither needs a slot for every address: a full table is the map's
  own refusal (`SpinIsNoRoom`).
- `RouterProofs`: every safety property of `router`, in four inductive invariants.
  `CoreInv` is the invariants of the two components and `Control` (where the thread is, what it holds, and
  that the loop's item is in use); it rests on the lemmas of the components and on
  `NextOnList` and `RemoveKeepsOthers`, that the item after the one being freed
  stays in use.  `AnswerInv` (only where there is a slot for every address) adds that the scan has
  entered the gateways it passed, that a dummy is never fresh, and that no dummy
  stands beside an entry with two tries: the sweep that makes the second try
  would have stopped at the dummy.  `FifoInv` adds that the loop leaves no packet for a
  good gateway behind it; after it, only a reply makes a gateway good and fresh,
  and a reply starts the loop again.  `FaceInv` is
  for `LossCorrect`: an answered entry carries an interface on which a reply for its address
  can be heard, so that a frame is refused only if that is not the route's
  (`HeardElsewhere`); nothing is assumed of the replies.
  `AdvancesCorrect` is the action property `HandlerAdvances`, the safety core of
  `HandlerReturns`: after a turn that unlinks its item or leaves it, the
  next one is nearer to the end of what is then the list (`WalkAdvances`).
  `LookupSpins` and `EndlessOverfull` are its last part: a search that does not end
  has found neither the address nor an empty slot in the whole table.  `GatewaysCorrect` and
  `AnsweredCorrect` need a slot for every address; the other theorems do not.
- `RoutingTableProofs`: `RtTypeCorrect`, `LongestPrefixCorrect`, `DefaultCorrect`,
  `BlankLinesCorrect`.  The
  inductive invariant says what the search knows after n entries (`Knows`): the
  best match is the first with a prefix that contains those of all matches so far, and
  `elsewhere` the last default.  `NestedPrefixes` and `ExceedsNested` are why it is
  kept: the prefixes of two matches are nested, and between nested sets the
  comparison of integers is inclusion, in any byte order.  `Copies` is the invariant of blank
  lines: behind each there is an entry of another line with the same route, with
  nothing but blank lines between.  Assumed: masks are
  nested (`RoutingAssumption`), as those of real prefixes are; `inet_aton` would accept
  others, for which the search promises nothing.
- `LifecycleProofs`: `LifeTypeCorrect`, `NumbersCorrect`, `AddressesCorrect`,
  `HandshakeCorrect`, `RoutesCorrect`, `VerifiedCorrect`, `OverrunCorrect`: every safety
  property of `lifecycle`, for every set of names, files and messages, every table size
  and every cutting of the stream.  One lemma per operation of Interfaces (`AddPreserves`,
  `SetIpPreserves`, `ClearSlotPreserves`) says what it does to the list and the
  tables.  The inductive invariant is `LifeInv`: `Records`
  (the tables until they are cleared, and how far the clean-up is), `Checked` (what the
  end of the hardware information verified still holds in the loop),
  `HeardSoFar` (the messages accepted by each point of the handshake) and `LoadedSoFar`
  (the part of the received table already in the list).  `Outcome` sums up what
  handling a message can do; each part of the invariant then has one lemma, with
  one step per action.
- `ChecksumProofs`: `ChecksumTypeCorrect`, `Rfc1071Correct`, `OddCorrect`,
  `AcceptedCorrect`, `RefusedCorrect`, `FoldCorrect`: every property of `checksum`, for
  every length, every message and every size of byte.  The reference sum is a
  recursive function of the data; `SumOf` gets its recurrence first, and what is
  needed of all its values (that they are numbers below a bound, and what one changed
  word does to them) follows by `InductionUpTo`, whose induction is over a
  set and so within the provers' reach.  The inductive invariant is `SumInv`:
  `ChecksumTypeOK`, `Added` (the running sum is that of the words read, and while it is
  folded stands for the total modulo `W - 1`, being zero only with it) and
  `Journey` (a message on its way sums to a multiple of `W - 1` and differs from what was sent
  in one word at most).
- `LeastNatural`: a non-empty set of naturals has a least element; the first free
  slot and the first stopping probe exist by it, and so does induction up to a bound.

**Only model-checked** is liveness, for TLAPS proves neither liveness under fairness nor
ENABLED: `HandlerReturns`, `SlotsComeBack`, `SilenceIsNoticed` and `EndsWhenTold`.  For the first,
`HandlerAdvances` is the part that can be proved, and is.

## 6. Plan

Done: all components of the inventory that keep state, their refinements, and
theorems for every property of the passing runs that is not a liveness property.
Left:

1. The safety core of `EndsWhenTold`: once told to end, each step of the thread brings
   the process nearer to its exit, and SIGINT begins the clean-up again at most once.
2. An abstract session (handshake, messages, end) that Lifecycle implements.

**Not modelled.**  SHA-1 (`sha1.c`) is the reference code of RFC 3174: word arithmetic over
64-byte blocks, far beyond what TLC can enumerate, and a small instance of it
would be another function; its result only decides what the server answers, which the model
leaves open.  The packet log (`sr_dumper.c`) is output only.  `sr_protocol.h` and the
message layouts are formats without behaviour; the fields that decide a branch are in
the models.  The Makefile and the scripts start the program.
