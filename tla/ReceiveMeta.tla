---------------------------- MODULE ReceiveMeta ----------------------------
(***************************************************************************)
(* The metadata of rcv_from_with_meta (receive.rs): the Instant sampled    *)
(* after the receive system call and, on Linux, the kernel's own receive   *)
(* time.  The handles are clones of one OS socket, blocking or async: what *)
(* happens before the system call succeeds is in Receive, and here only    *)
(* takes time or fails.                                                    *)
(*                                                                         *)
(* Two clocks: Instant is monotonic; the kernel stamps packets with the    *)
(* realtime clock, which may be set at any time, and to before 1970.       *)
(***************************************************************************)
EXTENDS Integers, Sequences

CONSTANTS
  Handle,       \* the clones
  Platforms,    \* the values of linux to consider
  Offsets,      \* what the realtime clock may be ahead of the monotonic one
  Second,       \* ticks per second
  MaxTime,      \* bound on the monotonic clock
  MaxPackets    \* bound on the number of arrivals

ASSUME MetaAssumption ==
  /\ Platforms \subseteq BOOLEAN /\ Offsets \subseteq Int /\ 0 \in Offsets
  /\ Second \in Nat \ {0} /\ MaxTime \in Nat /\ MaxPackets \in Nat

VARIABLES
  linux,     \* TRUE: receive.rs uses recvmsg, otherwise recv_from; never changes
  now,       \* the monotonic clock, in ticks
  offset,    \* the realtime clock is now + offset
  stamping,  \* SO_TIMESTAMPING is set on the OS socket
  queue,     \* its receive queue
  arrived,   \* packets that arrived so far
  call,      \* per handle: the receive call in progress
  out,       \* {r} when the last step returned r, else {}
  latest     \* history, per handle: packet and time of its last result

vars == <<linux, now, offset, stamping, queue, arrived, call, out, latest>>

Timespec(t) == [tv_sec |-> t \div Second, tv_nsec |-> t % Second]

\* stamp is the kernel's, or none; at, real and asked are history: both clocks
\* and the socket option at arrival.  good: it fits the buffer and parses.
Packet ==
  [n: 1 .. MaxPackets, peer: BOOLEAN, good: BOOLEAN,
   stamp: {{}} \cup {{Timespec(t + o)} : t \in 0 .. MaxTime, o \in Offsets},
   at: 0 .. MaxTime, real: {t + o : t \in 0 .. MaxTime, o \in Offsets}, asked: BOOLEAN]

NoPacket ==
  [n |-> 0, peer |-> FALSE, good |-> FALSE, stamp |-> {}, at |-> 0, real |-> 0, asked |-> FALSE]

\* began is history: when the call was made.
NoCall == [phase |-> "idle", began |-> 0, packet |-> NoPacket, received_at |-> 0]

CallState ==
  [phase: {"idle", "syscall", "taken", "sampled"}, began: 0 .. MaxTime,
   packet: Packet \cup {NoPacket}, received_at: 0 .. MaxTime]

Init ==
  /\ linux \in Platforms
  /\ now = 0 /\ offset \in Offsets
  /\ stamping = FALSE /\ queue = <<>> /\ arrived = 0
  /\ call = [h \in Handle |-> NoCall]
  /\ out = {} /\ latest = [h \in Handle |-> [n |-> 0, received_at |-> 0]]

-----------------------------------------------------------------------------
(* Clocks, network and kernel (external).                                  *)

Tick ==
  /\ now < MaxTime /\ now' = now + 1
  /\ out' = {} /\ UNCHANGED <<linux, offset, stamping, queue, arrived, call, latest>>

\* settimeofday, NTP.
SetClock(o) ==
  /\ offset' = o
  /\ out' = {} /\ UNCHANGED <<linux, now, stamping, queue, arrived, call, latest>>

\* The kernel stamps a packet when it arrives, if this socket asked for it or,
\* the switch being global, perhaps because another one did.
Arrive(peer, good, stamped) ==
  /\ arrived < MaxPackets /\ arrived' = arrived + 1
  /\ stamping => stamped
  /\ queue' = Append(queue,
       [n |-> arrived + 1, peer |-> peer, good |-> good,
        stamp |-> IF stamped THEN {Timespec(now + offset)} ELSE {},
        at |-> now, real |-> now + offset, asked |-> stamping])
  /\ out' = {} /\ UNCHANGED <<linux, now, offset, stamping, call, latest>>

\* recvmsg passes a stamp on only if this socket asked for it.
ControlMessages(p) == IF stamping THEN p.stamp ELSE {}

-----------------------------------------------------------------------------
(* receive.rs                                                              *)

\* Mutant: the portable configure sets an option, too.
ConfigureAlways(h) ==
  /\ call[h].phase = "idle"
  /\ stamping' = TRUE
  /\ out' = {} /\ UNCHANGED <<linux, now, offset, queue, arrived, call, latest>>

\* enable_receive_metadata, on any clone; it does nothing outside Linux.
Configure(h) ==
  /\ call[h].phase = "idle"
  /\ stamping' = (stamping \/ linux)
  /\ out' = {} /\ UNCHANGED <<linux, now, offset, queue, arrived, call, latest>>

\* Mutant: the check of tv_sec is off by one.
SecondsPositive(ts) ==
  IF ts.tv_sec <= 0 THEN {} ELSE {ts.tv_sec * Second + ts.tv_nsec}

\* A time before 1970 or an invalid one becomes None.
SystemTimeFromTimespec(ts) ==
  IF ts.tv_sec < 0 \/ ts.tv_nsec < 0 \/ ts.tv_nsec >= Second THEN {}
  ELSE {ts.tv_sec * Second + ts.tv_nsec}

\* The first, and only, SCM_TIMESTAMPING message.
ReceiveTimestamp(cmsgs) == UNION {SystemTimeFromTimespec(ts) : ts \in cmsgs}

\* rcv_from_with_meta is called.
Start(h) ==
  /\ call[h].phase = "idle"
  /\ call' = [call EXCEPT ![h] = [NoCall EXCEPT !.phase = "syscall", !.began = now]]
  /\ out' = {} /\ UNCHANGED <<linux, now, offset, stamping, queue, arrived, latest>>

\* No packet: timeout, error, dropped future.
Fail(h) ==
  /\ call[h].phase = "syscall"
  /\ call' = [call EXCEPT ![h] = NoCall]
  /\ out' = {} /\ UNCHANGED <<linux, now, offset, stamping, queue, arrived, latest>>

\* recvmsg / recv_from returns the oldest packet, with its control messages.
Take(h) ==
  /\ call[h].phase = "syscall" /\ queue # <<>>
  /\ queue' = Tail(queue)
  /\ call' = [call EXCEPT ![h].phase = "taken",
                          ![h].packet = [Head(queue) EXCEPT !.stamp = ControlMessages(Head(queue))]]
  /\ out' = {} /\ UNCHANGED <<linux, now, offset, stamping, arrived, latest>>

\* Mutant: the sample is taken when the call begins.
SampleBefore(h) ==
  /\ call[h].phase = "taken"
  /\ call' = [call EXCEPT ![h].phase = "sampled", ![h].received_at = call[h].began]
  /\ out' = {} /\ UNCHANGED <<linux, now, offset, stamping, queue, arrived, latest>>

\* received_at = Instant::now()
Sample(h) ==
  /\ call[h].phase = "taken"
  /\ call' = [call EXCEPT ![h].phase = "sampled", ![h].received_at = now]
  /\ out' = {} /\ UNCHANGED <<linux, now, offset, stamping, queue, arrived, latest>>

\* Mutant: a missing kernel time is replaced by the current one.
MetaOrNow(h) ==
  LET t == ReceiveTimestamp(call[h].packet.stamp)
  IN  IF linux /\ t = {} THEN {now + offset} ELSE t

\* kernel_rx_timestamp of the result; None in the portable receive.
Meta(h) == IF linux THEN ReceiveTimestamp(call[h].packet.stamp) ELSE {}

\* A packet without peer address is an error on Linux, found before a
\* truncation or a parse error; recv_from has an address always.
Outcome(p) ==
  CASE linux /\ ~p.peer -> "invalid"
    [] ~(linux /\ ~p.peer) /\ ~p.good -> "error"
    [] OTHER -> "ok"

\* ReceivedBytes and IcmpReceiveResult; errors carry nothing.
Return(h) ==
  LET p == call[h].packet
      ok == Outcome(p) = "ok"
  IN  /\ call[h].phase = "sampled"
      /\ out' = {[kind |-> Outcome(p), packet |-> p,
                  received_at |-> IF ok THEN call[h].received_at ELSE 0,
                  kernel_rx_timestamp |-> IF ok THEN Meta(h) ELSE {}]}
      /\ latest' = IF ok THEN [latest EXCEPT ![h] = [n |-> p.n, received_at |-> call[h].received_at]]
                   ELSE latest
      /\ call' = [call EXCEPT ![h] = NoCall]
      /\ UNCHANGED <<linux, now, offset, stamping, queue, arrived>>

-----------------------------------------------------------------------------

Environment ==
  \/ Tick
  \/ \E o \in Offsets : SetClock(o)
  \/ \E peer, good, stamped \in BOOLEAN : Arrive(peer, good, stamped)

Next ==
  \/ Environment
  \/ \E h \in Handle : Configure(h) \/ Start(h) \/ Fail(h) \/ Take(h) \/ Sample(h) \/ Return(h)

Spec == Init /\ [][Next]_vars

-----------------------------------------------------------------------------
(* Properties.                                                             *)

Ok == {r \in out : r.kind = "ok"}

\* Every variable has its type.
TypeOK ==
  /\ linux \in BOOLEAN /\ stamping \in BOOLEAN
  /\ now \in 0 .. MaxTime /\ offset \in Offsets /\ arrived \in 0 .. MaxPackets
  /\ queue \in Seq(Packet) /\ call \in [Handle -> CallState]
  /\ ~linux => ~stamping

\* "Linux kernel receive time, when provided ... uses the kernel realtime clock"
\* (socket.rs:38): a kernel_rx_timestamp is what that clock showed when this very
\* packet arrived, however long it waited, whichever clone took it and whatever
\* the clock was set to since.
KernelTimeIsArrival ==
  \A r \in Ok : r.kernel_rx_timestamp \subseteq {r.packet.real}

\* "Call this before traffic can arrive when a Linux kernel receive timestamp is
\* required" (socket.rs:295): a packet that arrived after any clone's
\* enable_receive_metadata comes with its time to every clone, unless the clock
\* stood before 1970.
KernelTimeGiven ==
  \A r \in Ok : r.packet.asked /\ r.packet.real >= 0 => r.kernel_rx_timestamp # {}

\* "Monotonic userspace sample taken immediately after the receive syscall"
\* (socket.rs:36): received_at is never before the arrival of its packet nor
\* before the call, and the results of one handle have their packets and their
\* samples in the same order.
ReceivedAtAfterArrival ==
  /\ \A r \in Ok : r.packet.at <= r.received_at /\ r.received_at <= now
  /\ \A h \in Handle : call[h].phase = "sampled" =>
       /\ call[h].began <= call[h].received_at
       /\ latest[h].received_at <= call[h].received_at
       /\ latest[h].n < call[h].packet.n

=============================================================================
