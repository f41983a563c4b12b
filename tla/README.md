# Verification of icmp-socket2

TLA+ models of the `icmp-socket2` crate, checked with TLC on small instances and
proved with TLAPS for all values of the constants.
`PROJECT.json` lists components, runs, the mutants that show each property can
fail, the source lines of every definition, findings, hazards and theorems.

## The system

The crate wraps operating-system ICMP sockets. Nothing in it runs by itself: the
concurrency comes from its users, who hold several handles on one OS socket
(`try_clone`) on different threads or tasks.

| Component | State | Operations | Hard behaviour |
|---|---|---|---|
| Socket wrappers (`socket.rs`): `IcmpSocket4` (raw), `DgramIcmpSocket4` (ping), `IcmpSocket6` (raw) | per handle `bound_to`, `opts.hops`, `opts.timeout`, `identifier`, read buffer; per OS socket address, port, TTL, `SO_RCVTIMEO`, `O_NONBLOCK` | `new`, `try_from`, `try_clone`, `bind`, `set_max_hops`, `send`/`send_to`, conversion, drop | wrapper fields are copies of shared kernel state; a send is two system calls; bind and conversion fail half way |
| Async wrappers (`async_common.rs`, `tokio.rs`, `async_io.rs`) | the same fields, moved over by `into_tokio` / `into_async_io` | the same, as futures | state is touched before an `.await`; futures are dropped; timers race packets |
| Receive (`socket.rs`, `async_common.rs`, `receive.rs`) | buffer length and capacity, kernel queue | `rcv_from`, `rcv_from_with_meta`, `set_timeout`, `set_read_buffer_size` | clones race for packets, truncation, stale buffers, timeouts, cancellation |
| Type filter (`filter.rs`) | the kernel's mask | `set_allowed_types`, `clear_type_filter` | concurrent calls on a `&self` method, refusal in mid-list, word edges |
| Packets and checksums (`packet.rs`) | none | constructors, `get_bytes`, `parse*`, checksums | carries, odd lengths, header lengths, bytes the parser drops, the limit of the `u32` sum |
| Receive metadata (`receive.rs`) | the socket option for timestamps | `enable_receive_metadata`, `rcv_from_with_meta` | stamps requested before or after a packet is queued, a realtime clock that is set, the moment of `Instant::now` |
| Ping clients (`examples/`) | sequence number, `send_time` of the round | send, receive until a reply or an error, sleep | late, lost, duplicated, damaged and foreign packets; several pings on one machine |

The ping clients use all of the others. These meet in three places: a send serializes a packet and gives it its
checksum, a receive ends in a parse, and all handles of a socket, filters
included, act on one kernel object.

## Modules

| Module | Models | Composes |
|---|---|---|
| `SocketHandles`, `SocketHandles_proofs` | handles, OS sockets, bind, TTL, identifiers, conversion; theorems about them | all socket types in one |
| `ReceiveContract` | what the receive calls promise (abstract) | |
| `Receive`, `Receive_proofs` | both receive calls, blocking and async, on clones of one socket; theorems about them | implements `ReceiveContract` |
| `ReceiveMeta`, `ReceiveMeta_proofs` | timestamps and peer addresses of `rcv_from_with_meta`; theorems about them | takes over where `Receive` returns a packet |
| `TypeFilter`, `TypeFilter_proofs` | the filter calls; theorems about them | |
| `IcmpPacket`, `IcmpPacket_proofs` | packets on bytes, from constructor to verification; theorems about them | sender, network, receiver |
| `Checksum`, `Checksum_proofs` | the checksum loops turn by turn, in any base; theorems about them | |
| `PingClient`, `PingClient_proofs` | the four example programs and a network; theorems about them | programs, sockets, packets, hosts |
| `MC*` | constants for TLC | |

**SocketHandles.** `handle[h]` is a wrapper value, `os[s]` the kernel's side,
`call[h]` a send between its two system calls, `wire` the packet the last step
sent. One action per operation; failing operations are actions of their own
where they leave something behind: `BindLosesIdentifier` (bound, but
`getsockname` failed), `AsyncBindRefused` (address recorded, then refused),
`ConvertFails` (handle consumed, clones perhaps nonblocking). A refused hop
count, a `send_to` without source address, or a `try_clone` before bind change
nothing and are the guards of `SendStart` and `TryClone`. `everBound`,
`established` and `quiet` are history variables, read by properties only. What
the kernel does (which hop counts and binds it accepts, ports of ping sockets,
closing with the last descriptor) is external and modelled from how the crate
uses it.

**Receive.** A blocking call is `BlockingStart` (set `SO_RCVTIMEO`, prepare the
buffer) and then the system call: take, refuse, sleep, time out, fail. An async
call is a future: `AsyncPending` and `AsyncTake` are polls, `AsyncElapse` the
timer, `Cancel` the drop. Time is only "the timer has run out". Buffers are
(capacity, length), packets are (number, size, known type), timeouts `None`, less
than a microsecond (which `SO_RCVTIMEO` cannot express) or longer; `linux` is
fixed at the start, so one run covers both forms of `receive.rs`. The metadata call
on Linux and elsewhere and the plain call differ in how they prepare the buffer,
how they test for truncation and when they call `set_len`; `Prepare`,
`Truncated` and `LengthAfter` keep the differences. That Tokio waits for a
readiness report that may lag behind the queue, and async-io always tries
first, is in `AsyncPending`. The error for a datagram without a sender's address
(metadata call on Linux) is in `ReceiveMeta`.

**TypeFilter.** A mask is the set of its one bits. Each iteration of the loop is
a step, so concurrent callers interleave inside it. `v6`, fixed at the start,
selects one word or eight.

**IcmpPacket.** A message is its shape, numeric fields and remaining bytes; a
`u32` is two halves, because TLC's integers are 32 bits wide. `ForeignSend`
stands for other hosts: any type, length and either zero of the checksum.
`WordSum` is an independent definition of the RFC 1071 sum: it adds the bytes one
by one, each at its place in a word, where the code adds words and treats an odd
last byte apart. Sums are natural numbers here; that a `u32` is wide enough for
every message that fits an IP packet is `NoOverflow` of `Checksum`.

**ReceiveMeta.** `now` is the monotonic clock, `now + offset` the realtime one,
which `SetClock` sets at any time. A call is `Start`, `Take` (the system call
returns), `Sample` (`Instant::now()`), `Return`; clocks, arrivals and clones run
between any two. The kernel stamps packets on arrival if this socket asked for
it, and perhaps if only another one did; `recvmsg` passes a stamp on if this
socket asked for it by then. That Linux may start stamping shortly after
`setsockopt` returned is not in the model.

**Checksum.** One step per turn of `sum_big_endian_words` and of the carry
loop. Bytes are digits of base `Base` (256 in the code), because a `u32` of the
code is out of reach of TLC's integers: with `Base = 4` a `u32` is below 256, and
small messages reach its limit. `total` (the sum without limit) and `folds` are
history.

**PingClient.** A round is one turn of a program's outer loop. `Send` starts it,
`PrintReply`, `PacketError`, `SocketError` and `Timeout` end it, `Discard` receives
again. `rcv_from` is what `ReceiveContract` promises. The differences between
the programs are kept: raw or ping socket, who looks at the checksum
(`Ping4Prints`, `Ping6Prints`, `AsyncPrints`), identifier 42 or the kernel's,
whether an error is followed by a sleep (`Break`), when the timeout is set. A
lost packet is one that stays in `net` for ever. `asker`, `round` and `copy` of
a packet and `history` are for the properties only; time is counted in rounds.
`orderly` of `history` is about the network alone: it turns false when a reply
comes a second time or after its round (`InTime`), or a receive ends in an error,
and no other step of a program touches it.

## Runs

| Run | Instance | Shows |
|---|---|---|
| `handles_two` | 2 handles, 2 sockets, 2 addresses, 2 ports, hops 1 and 256 | all properties of `SocketHandles` |
| `receive_all` | 2 clones, both platforms, sizes 4, 60, 2047, 2048, 2049, known and unknown type, buffers 2048 and 0 | types, error causes, `NoneBlocks`, contract |
| `receive_live` | 2 clones, fair, timeouts of all three kinds | timed calls return |
| `filter` | 2 callers, both protocols, types 31, 32 and 255, lists up to 3 | filter properties |
| `packet` | both protocols, every constructor, codes on both sides of each limit, foreign packets, every single bit flip, headers of 0, 5, 6, 15 words | packet properties |
| `ping` | 2 programs of the same or of different kinds, on one host or two; 3 rounds and 1; sequence numbers modulo 2; one fault | ping properties |
| `meta` | 2 clones, both platforms, 2 packets, 3 ticks, 3 settings of the realtime clock, one before 1970 | metadata properties |
| `checksum` | base 4, all messages up to 6 digits, headers up to the limit | checksum properties |

Properties, in short:

- `BoundToTruthful`: a blocking handle's `bound_to` is an address the OS socket
  was bound to. `IdentifiersTellSocketsApart`, `WireCarriesIdentifier`: the
  identifier a ping socket reads at bind is unique to its OS socket and is the
  one on the wire; a handle that has none, because bind was not called or failed,
  reports 0 and never a wrong one. `UndisturbedTtl`: an undisturbed send uses its own hop count.
  `ChecksumSourceBound`: the source address in an IPv6 checksum was bound, and is
  the socket's own if no other was. `AsyncNeverBlocks`: an async handle's
  descriptor is nonblocking.
- `KeepsContract`: no packet is lost, duplicated, reordered or returned in part.
  `ErrorsHaveCause`: truncation and parse errors depend on the packet and the
  buffer size alone, never on earlier calls. `NoneBlocks`: a call without
  timeout does not give up on a blocking socket. `TimedCallReturns`.
- `FilterMatchesRequest`, `MaskTracksLoop`, `InvalidExactlyWhenUnfilterable`.
- `RoundTrip`, `FlipDetected`, `VerifyMatchesRfc`, `ParseKeepsMessage`.
- `KernelTimeIsArrival`: a kernel timestamp is the realtime at which that very
  packet arrived. `KernelTimeGiven`: a packet that arrived after
  `enable_receive_metadata` has one. `ReceivedAtAfterArrival`: the sample follows
  arrival and call, in the order of the packets a handle received.
- `NoOverflow`, `FoldsTwice`, `ChecksumCompletes` (the receiver's test
  succeeds), `OneZero` (the code always picks the same zero).
- `PrintsOwnReplies`: what is printed is an undamaged reply of the pinged host to
  a request from here, and of an async program to its own. `TimeIsOwn`: while
  each reply comes once and before its round ends, the time is measured from the
  request the reply answers, whatever else is queued, lost or damaged: a program
  that waits goes through its queue up to its reply, and no round leaves one for
  the next. It holds for programs whose replies cannot be taken for others'
  (`Alone`). A reply that comes late is printed with the time of a later request,
  and so are those after it, as every round then ends with the reply to an
  earlier one; a packet of an unknown type has the same effect, since it ends the
  round as a receive error. The programs compare no sequence numbers, so the
  property cannot say more. `Paced`: a second passes between
  requests, except after a receive error in `ping4` and `ping6`. `RoundEnds`.

Four runs expect a violation, where a doc comment or the README says more than
the code does:

- `handles_asyncbind`: a refused async bind changes `bound_to`.
- `handles_ttlrace`: a clone's TTL on this handle's packet.
- `receive_v6partial`: `IcmpSocket6::rcv_from` returns part of a packet.
- `receive_noneblocks`: a clone's timeout on a call with `None`.

Where the parser dropped bytes (types 13 to 16 followed by more than their fixed
size) `verify_checksum` cannot cover them; `FlipDetected` and `VerifyMatchesRfc`
therefore speak of messages kept whole, and `ParseKeepsMessage` says that no
others lose any.

**Bounds.** Handles, sockets, addresses and callers are symmetric. Two handles are enough for one to disturb the other and for clones
of two sockets to exist at once; the theorems cover any number. Two packets let
clones compete for one and be left with another. `IcmpSocket6` differs from the
IPv4 sockets only in `rcv_from` (`receive_v6partial`): its metadata call is the
one `receive_all` checks. `Hops` has a valid and an
invalid value besides the default 50; sizes stand on both sides of the minimum
message and of the capacity. `MaxPackets`, `MaxList`, `MaxTime`, `MaxRounds` and
`MaxFaults` are the only bounds in guards. Three rounds and `SeqMod = 2` let
replies of two earlier rounds, one with the same sequence number, meet the
present one; one fault per behaviour (a stray, a duplicate, a damaged packet, a
socket error) comes on top of any loss, delay and reordering. Deadlock is
checked everywhere except for packets and checksums, which end, and for ping
programs, whose rounds the model bounds and whose failed sends end them.

**Fairness** (`Receive!Fairness`, only in `receive_live`): a thread in a system
call goes on, a sleeping one wakes when a packet comes or its `SO_RCVTIMEO`
runs out, an executor polls woken futures, timers fire. Callers and the network
owe nothing. The code relies on exactly this: it has no loop of its own.
`PingClient!Fairness`: a program waiting in `rcv_from` gets a queued packet or
its timeout, which is what `TimedCallReturns` shows, and a sleep ends. The
network owes nothing; stray traffic is finite, because each discarded packet
gives the round a new timeout and endless traffic would prolong it for ever.

## Proofs

Each proof module has an inductive invariant, checked with TLC before it was
proved, one lemma per action that keeps it, and a theorem per property. The
theorems hold for every value of the constants that satisfies the named
assumption of the module they are about.

**SocketHandles_proofs**, from `HandlesAssumption` only (any handles, sockets,
addresses, ports and hop counts): `HandlesInvariant` is `Spec => []HandlesInv`,
and all invariants the runs check follow: `TypeOK`, `BoundToTruthful`,
`WireCarriesIdentifier`, `IdentifiersTellSocketsApart`, `UndisturbedTtl`,
`ChecksumSourceBound`, `AsyncNeverBlocks`. The properties of identifiers and of
the TTL are not inductive: a packet is put on the wire from what an earlier step
left behind. `HandlesInv` therefore adds that handles sharing an OS socket are of
one kind (else a bind through a raw handle could reset the port of a ping
socket), that no two OS sockets have the same port, that the identifier of a
handle whose bind succeeded is the port of its OS socket and, where the kernel
assigns ports, not 0, and that of any other handle 0, and that a send in progress holds its handle's identifier
and, as long as no clone interrupted it, the OS socket still has the TTL it set.
For `ChecksumSourceBound` it adds that the local address of an OS socket, if it
has one, is among those it was ever bound to.

**Receive_proofs**, from `ReceiveAssumption` (any clones, packets, buffer sizes,
both platforms, any set of operations): `ReceiveInvariant`, and from it `TypeOK`,
`NoneBlocks`, `ErrorsHaveCause` and the refinement `KeepsContract`
(`ImplementsContract`). The invariant adds to the types that a blocking call in
its system call reads into a buffer as `Prepare` leaves it, whatever earlier
calls, cancelled ones included, did to its length, and that an undisturbed one
finds its own timeout in `SO_RCVTIMEO`, asleep or not. The refinement maps each
step to a step of the contract: a taken datagram to `HandOver` or `Reject`, every
way to fail to `GiveUp`, options, sleeps and polls to `Internal`. It and
`ErrorsCorrect` assume `ChecksTruncation`: IPv4, or no `rcv_from` among the
operations. `IcmpSocket6::rcv_from` does not look for truncation, and
`receive_v6partial` shows that the contract fails there.

**ReceiveMeta_proofs**, from `MetaAssumption` (any clones, packets and clock
settings): `MetaInvariant`, and from it `TypeOK`, `KernelTimeIsArrival`,
`KernelTimeGiven` and `ReceivedAtAfterArrival`. The invariant follows a packet
from arrival to result: its stamp is the realtime of its arrival, there is one if
the socket had asked, it arrived in the past, packets wait in the order of
arrival, and what a call has in hand is older than what waits and newer than what
its handle returned before. `TimespecRoundTrip` is the fact about
`system_time_from_timespec` behind it.

**PingClient_proofs**, from `PingAssumption` and `StrayAssumption` (any programs,
hosts, rounds and faults): `PingInvariant`, and from it `TypeOK`,
`PrintsOwnReplies`, `TimeIsOwn` and the action property `Paced`.
`StrayAssumption` says that a pinged host sends no echo reply that answers no
request; without it a program would print one, as nothing in the programs can
tell. The invariant says what is under way and in queues (`NetInv`, `QueueInv`):
requests as they were sent, in a round that has begun, and replies of the host
they went to. `OrderlyInv` is for `TimeIsOwn`: while the network is orderly
towards a client that is `Alone`, at most one reply to it is in its queue, to the
current round and with no other under way, and there is none unless the client
waits. Each way to leave the wait must be shown to leave no reply behind: a
printed reply was the only one, a timeout finds the queue empty.

**TypeFilter_proofs**, for any callers, types and list lengths and both protocols:
`FilterInvariant`, and from it `TypeOK`, `MaskTracksLoop`,
`FilterMatchesRequest` and `InvalidExactlyWhenUnfilterable`. The invariant is
`MaskTracksLoop` with the types and the loop's progress through its list, and
rests on the fact that different types have different bits (`BitsDiffer`).

**Checksum_proofs**, for any base, message length and pseudo header within
`ChecksumAssumption` (`CodeFits` shows that the code's values are):
`ChecksumInvariant`, and from it `TypeOK`, `NoOverflow`, `FoldsTwice`,
`ChecksumCompletes` and `OneZero`. The invariant bounds the sum by 0xFFFF times
the words read, says that the carry loop has taken `0xFFFF * k` from it for some
`k` and never all of it, and how large it can be after each turn. The steps are
kept linear by lemmas about products (`TimesMonotone`, `TimesPlus`,
`MultipleMod`, `FoldFacts`).

**IcmpPacket_proofs**, from `PacketAssumption` (any field values, codes, payloads,
timestamps, addresses, header lengths and packets of other hosts, each of its
width): `PathInvariant`, and from it `TypeOK`, `RoundTrip`, `VerifyMatchesRfc`,
`FlipDetected` and `ParseKeepsMessage`. It has three parts.

- *Sums.* The loops are recursive functions, and the prover takes no induction
  rule with a predicate as parameter. `LeastNatural` (every nonempty set of
  naturals has a least element, from the library's theorem that `<` is
  well-founded) and `InductiveSet` state induction about sets instead; with them
  the functions are shown to satisfy their equations (`RunningSumExists`,
  `RunningSumSolution`), the code's sum over words to equal the sum over bytes
  (`SumsAgree`), a change of one byte to change the sum by that byte at its place
  (`ByteSumChange`), and the carry loop to have a closed form
  (`HandleCarryValue`). Hence `VerifyIsRfc` and `FlipUnbalances`: one bit moves
  the sum by less than 0xFFFF, and so off every multiple of it.
- *Layout.* `GetBytesLayout` says which byte is where; `ParseIsPrefix` and
  `ParseOfGetBytes` say that parser and `get_bytes` are inverse to each other, in
  both directions, for all shapes.
- *Path.* None of the properties is inductive: all speak of the last stage. The
  invariant `PathInv` adds that a packet under way has the fields its type asks
  for (`PacketInv`), that the sum of the message is minus zero exactly when no
  bit was changed, and an undamaged message of ours is what `get_bytes` wrote
  (`WireInv`), and that the receiver has that message behind a header or none
  (`ReceiveInv`). `ParseBehindHeader` and `BuiltLooksLikeNoHeader` show that
  `parse_auto` then finds it; `ParseCut` is the case of a foreign or damaged
  message whose first byte looks like an IPv4 header.

**Only model-checked:** `TimedCallReturns` and `RoundEnds`; liveness is outside
the prover.

## Not modelled

`bind_device`, `set_mark`, `set_fib` (one system call each, nothing kept); error
texts and what the programs print besides their choice of reply; declarations
and re-exports. ICMPv6 checksums the kernel fills in itself. ICMP errors in
reply to a ping are packets like others, of a kind the programs discard.

## State of the development

Every module that models code has its run and its proofs, and every safety and
action property a passing run checks is a theorem. What could be added: the
composition of `Receive` with `IcmpPacket`, so that packets in the queue are
bytes; and the moment at which Linux starts to stamp packets in `ReceiveMeta`.
