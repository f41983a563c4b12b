------------------------------ MODULE Receive ------------------------------
(***************************************************************************)
(* The receive paths of icmp-socket2: rcv_from and rcv_from_with_meta of   *)
(* the blocking sockets (socket.rs), of the async-io and Tokio sockets     *)
(* (async_common.rs, async_io.rs, tokio.rs) and receive.rs under both.     *)
(*                                                                         *)
(* The handles are clones of ONE operating-system socket: its receive      *)
(* queue, SO_RCVTIMEO and O_NONBLOCK are shared, timeout and read buffer   *)
(* belong to each handle.  A blocking call is two system calls (set the    *)
(* timeout, receive) and may sleep between them and its return; an async   *)
(* call is a future, polled by an executor until it is ready or dropped.   *)
(***************************************************************************)
EXTENDS Naturals, Sequences

CONSTANTS
  Handle,       \* the clones
  V6,           \* TRUE: the handles are IcmpSocket6, which has no async form
  Platforms,    \* the values of linux to consider
  Timeouts,     \* what callers may pass to set_timeout
  DefaultCap,   \* DEFAULT_RECV_BUFFER_SIZE
  Ops,          \* the receive calls the program uses
  Caps,         \* sizes a caller may pass to set_read_buffer_size
  MinLen,       \* the parser rejects anything shorter
  Packets,      \* what may arrive: [size, known], known: a type the parser knows
  MaxPackets    \* bound on the number of arrivals

ASSUME ReceiveAssumption ==
  /\ V6 \in BOOLEAN /\ Platforms \subseteq BOOLEAN /\ Ops \subseteq {"recv", "meta"}
  /\ Timeouts \subseteq {"none", "tiny", "long"}
  /\ DefaultCap \in Nat /\ Caps \subseteq Nat
  /\ MinLen \in Nat \ {0} /\ MaxPackets \in Nat
  /\ Packets \subseteq [size: Nat, known: BOOLEAN]

Cap == Caps \cup {DefaultCap}
Mode == {"blocking", "async_io", "tokio"}
Op == {"recv", "meta"}              \* rcv_from, rcv_from_with_meta
Timeout == {"none", "tiny", "long"} \* None; Some of less, of more than 1 microsecond
Phase == {"idle", "syscall", "asleep", "async"}
Kind == {"ok", "truncated", "malformed", "wouldblock", "timedout", "os"}

VARIABLES
  mode,      \* per handle: which of the three socket types it is
  timeout,   \* per handle: opts.timeout
  linux,     \* TRUE: receive.rs uses recvmsg, otherwise recv_from; never changes
  buf,       \* per handle: capacity and length of the read buffer
  call,      \* per handle: the receive call in progress
  kernel,    \* the OS socket
  arrived,   \* packets that arrived so far
  out        \* {r} when the last step returned result r to a caller, else {}

handleVars == <<mode, timeout, linux>>
vars == <<mode, timeout, linux, buf, call, kernel, arrived, out>>

Datagram == [n: 1 .. MaxPackets, size: {p.size : p \in Packets}, known: BOOLEAN]

NoPacket == [n |-> 0, size |-> 0, known |-> FALSE]

\* wait: the SO_RCVTIMEO the sleeping call read is finite; polled, elapsed: the
\* future ran once, its timer ran out.  quiet is history: no other handle set
\* SO_RCVTIMEO since this call did.
CallState ==
  [phase: Phase, op: Op, wait: BOOLEAN, polled: BOOLEAN, elapsed: BOOLEAN, quiet: BOOLEAN]

Result ==
  [to: Handle, kind: Kind, packet: Datagram \cup {NoPacket}, bytes: Nat, cap: Cap,
   timed: BOOLEAN, quiet: BOOLEAN]

NoCall ==
  [phase |-> "idle", op |-> "recv", wait |-> FALSE, polled |-> FALSE,
   elapsed |-> FALSE, quiet |-> TRUE]

\* The handles after new, bind and try_clone.
Init ==
  /\ mode = [h \in Handle |-> "blocking"]
  /\ timeout = [h \in Handle |-> "none"]
  /\ linux \in Platforms
  /\ buf = [h \in Handle |-> [cap |-> DefaultCap, len |-> DefaultCap]]
  /\ call = [h \in Handle |-> NoCall]
  /\ kernel = [queue |-> <<>>, finite |-> FALSE, nonblocking |-> FALSE]
  /\ arrived = 0
  /\ out = {}

Idle(h) == call[h].phase = "idle"

-----------------------------------------------------------------------------
(* The buffer.                                                             *)

\* Mutant: neither clear() nor resize() before the system call.
PrepareNothing(op, b) == b

\* recv and the portable receive.rs read into the spare capacity of a cleared
\* buffer; the Linux receive.rs reads into the buffer, grown to its capacity.
ReadsSpare(op) == op = "recv" \/ ~linux

Prepare(op, b) == [b EXCEPT !.len = IF ReadsSpare(op) THEN 0 ELSE b.cap]
Space(op, b) == IF ReadsSpare(op) THEN b.cap - b.len ELSE b.len

\* Bytes the kernel copies; it discards the rest of the datagram.
Copied(op, b, p) == IF p.size <= Space(op, b) THEN p.size ELSE Space(op, b)

\* Mutant: the tests are off by one and a full buffer passes.
TruncatedOffByOne(op, b, p) == Copied(op, b, p) > b.cap

\* The truncation tests: none in IcmpSocket6::rcv_from, read_count == capacity
\* in the IPv4 ones, MSG_TRUNC or len >= capacity with metadata.
Truncated(op, b, p) ==
  IF op = "recv" THEN ~V6 /\ Copied(op, b, p) = b.cap
  ELSE (linux /\ p.size > Space(op, b)) \/ Copied(op, b, p) >= b.cap

Parses(p, bytes) == p.known /\ bytes >= MinLen

ReceiveKind(op, b, p) ==
  CASE Truncated(op, b, p) -> "truncated"
    [] ~Truncated(op, b, p) /\ ~Parses(p, Copied(op, b, p)) -> "malformed"
    [] OTHER -> "ok"

\* Mutant: set_len(datagram size) instead of the bytes copied.
LengthOfDatagram(op, b, p) == p.size

\* set_len(read_count) comes after the truncation test in recv, before it in
\* the portable receive.rs, never in the Linux one.
LengthAfter(op, b, p) ==
  IF ReadsSpare(op) /\ ~(op = "recv" /\ Truncated(op, b, p)) THEN Copied(op, b, p) ELSE b.len

-----------------------------------------------------------------------------
(* How a call ends.                                                        *)

Answer(h, kind, p, bytes) ==
  /\ out' = {[to |-> h, kind |-> kind, packet |-> p, bytes |-> bytes,
              cap |-> buf[h].cap, timed |-> timeout[h] # "none", quiet |-> call[h].quiet]}
  /\ call' = [call EXCEPT ![h] = NoCall]

\* The receive system call returns the oldest datagram into buffer b.
Take(h, b) ==
  LET op == call[h].op
      p == Head(kernel.queue)
      kind == ReceiveKind(op, b, p)
  IN  /\ kernel.queue # <<>>
      /\ kernel' = [kernel EXCEPT !.queue = Tail(@)]
      /\ buf' = [buf EXCEPT ![h].len = LengthAfter(op, b, p)]
      /\ Answer(h, kind, p, IF kind = "ok" THEN Copied(op, b, p) ELSE 0)
      /\ UNCHANGED <<handleVars, arrived>>

\* The call ends without a datagram.
Fail(h, kind) == Answer(h, kind, NoPacket, 0) /\ UNCHANGED <<handleVars, kernel, arrived, buf>>

-----------------------------------------------------------------------------
(* Options, conversion, the network.                                       *)

SetTimeout(h, t) ==
  /\ Idle(h) /\ timeout' = [timeout EXCEPT ![h] = t]
  /\ out' = {} /\ UNCHANGED <<mode, linux, buf, call, kernel, arrived>>

\* resize, then shrink_to_fit.
SetReadBufferSize(h, size) ==
  /\ Idle(h) /\ buf' = [buf EXCEPT ![h] = [cap |-> size, len |-> size]]
  /\ out' = {} /\ UNCHANGED <<handleVars, call, kernel, arrived>>

\* into_async_io, into_tokio: O_NONBLOCK is set for every clone.
Convert(h, m) ==
  /\ Idle(h) /\ mode[h] = "blocking" /\ ~V6 /\ m # "blocking"
  /\ mode' = [mode EXCEPT ![h] = m]
  /\ kernel' = [kernel EXCEPT !.nonblocking = TRUE]
  /\ out' = {} /\ UNCHANGED <<timeout, linux, buf, call, arrived>>

Arrive(p) ==
  /\ arrived < MaxPackets /\ arrived' = arrived + 1
  /\ kernel' = [kernel EXCEPT !.queue =
       Append(@, [n |-> arrived + 1, size |-> p.size, known |-> p.known])]
  /\ out' = {} /\ UNCHANGED <<handleVars, buf, call>>

-----------------------------------------------------------------------------
(* Blocking rcv_from and rcv_from_with_meta.                               *)

\* SO_RCVTIMEO counts whole microseconds; zero stands for no timeout (external).
Timeval(t) == t = "long"

\* Mutant: SO_RCVTIMEO is set only if opts.timeout is Some.
StartSetsOnlySome(h, op) ==
  /\ Idle(h) /\ mode[h] = "blocking"
  /\ kernel' = [kernel EXCEPT !.finite = @ \/ Timeval(timeout[h])]
  /\ buf' = [buf EXCEPT ![h] = Prepare(op, @)]
  /\ call' = [g \in Handle |->
       IF g = h THEN [NoCall EXCEPT !.phase = "syscall", !.op = op]
       ELSE [call[g] EXCEPT !.quiet = @ /\ call[g].phase # "syscall"]]
  /\ out' = {} /\ UNCHANGED <<handleVars, arrived>>

\* set_read_timeout(self.opts.timeout), then the buffer is made ready.
BlockingStart(h, op) ==
  /\ Idle(h) /\ mode[h] = "blocking"
  /\ kernel' = [kernel EXCEPT !.finite = Timeval(timeout[h])]
  /\ buf' = [buf EXCEPT ![h] = Prepare(op, @)]
  /\ call' = [g \in Handle |->
       IF g = h THEN [NoCall EXCEPT !.phase = "syscall", !.op = op]
       ELSE [call[g] EXCEPT !.quiet = @ /\ call[g].phase # "syscall"]]
  /\ out' = {} /\ UNCHANGED <<handleVars, arrived>>

\* recv_from / recvmsg: a queued datagram is returned at once, also to a call
\* that already sleeps; ...
BlockingTake(h) == call[h].phase \in {"syscall", "asleep"} /\ Take(h, buf[h])

\* ... a nonblocking socket answers EAGAIN, ...
BlockingRefused(h) ==
  /\ call[h].phase = "syscall" /\ kernel.queue = <<>> /\ kernel.nonblocking
  /\ Fail(h, "wouldblock")

\* ... a blocking one puts the thread to sleep for SO_RCVTIMEO, read here.
BlockingSleep(h) ==
  /\ call[h].phase = "syscall" /\ kernel.queue = <<>> /\ ~kernel.nonblocking
  /\ call' = [call EXCEPT ![h].phase = "asleep", ![h].wait = kernel.finite]
  /\ out' = {} /\ UNCHANGED <<handleVars, buf, kernel, arrived>>

BlockingTimeout(h) ==
  /\ call[h].phase = "asleep" /\ call[h].wait /\ kernel.queue = <<>>
  /\ Fail(h, "wouldblock")

\* A signal, a pending socket error.
BlockingError(h) == call[h].phase \in {"syscall", "asleep"} /\ Fail(h, "os")

-----------------------------------------------------------------------------
(* Async rcv_from and rcv_from_with_meta.                                  *)

\* The caller creates the future; nothing of the call runs before a poll.
AsyncStart(h, op) ==
  /\ Idle(h) /\ mode[h] # "blocking"
  /\ call' = [call EXCEPT ![h] = [NoCall EXCEPT !.phase = "async", !.op = op]]
  /\ out' = {} /\ UNCHANGED <<handleVars, buf, kernel, arrived>>

\* Mutant: every poll of the receive future starts the timer again.
PendingRestartsTimer(h) ==
  /\ call[h].phase = "async"
  /\ kernel.queue # <<>> => mode[h] = "tokio"
  /\ call' = [call EXCEPT ![h].polled = TRUE, ![h].elapsed = FALSE]
  /\ out' = {} /\ UNCHANGED <<handleVars, buf, kernel, arrived>>

\* A poll that finds no datagram and no elapsed timer.  async-io always tries
\* the system call; Tokio waits for its reactor to report readiness first, and
\* the report may lag behind the queue.
AsyncPending(h) ==
  /\ call[h].phase = "async" /\ ~call[h].elapsed
  /\ kernel.queue # <<>> => mode[h] = "tokio"
  /\ \E b \in {Prepare(call[h].op, buf[h])} \cup (IF mode[h] = "tokio" THEN {buf[h]} ELSE {}) :
       buf' = [buf EXCEPT ![h] = b]
  /\ call' = [call EXCEPT ![h].polled = TRUE]
  /\ out' = {} /\ UNCHANGED <<handleVars, kernel, arrived>>

\* A poll whose system call returns a datagram: the receive future is polled
\* before the timer, so a datagram wins over an elapsed timer.
AsyncTake(h) ==
  /\ call[h].phase = "async"
  /\ Take(h, Prepare(call[h].op, buf[h]))

\* The timer starts with the first poll.
AsyncElapse(h) ==
  /\ call[h].phase = "async" /\ timeout[h] # "none" /\ call[h].polled /\ ~call[h].elapsed
  /\ call' = [call EXCEPT ![h].elapsed = TRUE]
  /\ out' = {} /\ UNCHANGED <<handleVars, buf, kernel, arrived>>

\* A poll whose receive future is pending after the timer ran out; a datagram
\* whose readiness was not reported yet stays in the queue.
AsyncTimeout(h) == call[h].phase = "async" /\ call[h].elapsed /\ Fail(h, "timedout")

AsyncError(h) == call[h].phase = "async" /\ Fail(h, "os")

\* The caller drops the future.
Cancel(h) ==
  /\ call[h].phase = "async" /\ call' = [call EXCEPT ![h] = NoCall]
  /\ out' = {} /\ UNCHANGED <<handleVars, buf, kernel, arrived>>

-----------------------------------------------------------------------------

Options(h) ==
  \/ \E t \in Timeouts : SetTimeout(h, t)
  \/ \E size \in Caps : SetReadBufferSize(h, size)
  \/ \E m \in Mode : Convert(h, m)

Start(h) == \E op \in Ops : BlockingStart(h, op) \/ AsyncStart(h, op)

Blocking(h) ==
  BlockingTake(h) \/ BlockingRefused(h) \/ BlockingSleep(h) \/ BlockingTimeout(h) \/ BlockingError(h)

Async(h) ==
  AsyncPending(h) \/ AsyncTake(h) \/ AsyncElapse(h) \/ AsyncTimeout(h) \/ AsyncError(h) \/ Cancel(h)

Next ==
  \/ \E h \in Handle : Options(h) \/ Start(h) \/ Blocking(h) \/ Async(h)
  \/ \E p \in Packets : Arrive(p)

Spec == Init /\ [][Next]_vars

\* A thread inside a system call runs on, a sleeping one is woken by a datagram
\* or by the kernel's timer; an executor polls a future that was woken, and its
\* timers fire.  Callers and the network owe nothing.
Fairness ==
  \A h \in Handle :
    /\ WF_vars(BlockingTake(h) \/ BlockingRefused(h) \/ BlockingSleep(h))
    /\ WF_vars(BlockingTimeout(h))
    /\ WF_vars(AsyncPending(h))
    /\ WF_vars(AsyncTake(h))
    /\ WF_vars(AsyncElapse(h))
    /\ WF_vars(AsyncTimeout(h))

FairSpec == Spec /\ Fairness

-----------------------------------------------------------------------------
(* Properties.                                                             *)

\* Every variable has its type; the length of a read buffer (set_len, resize)
\* never exceeds its capacity; only an async handle has a future.
TypeOK ==
  /\ mode \in [Handle -> Mode]
  /\ timeout \in [Handle -> Timeout] /\ linux \in BOOLEAN
  /\ buf \in [Handle -> [cap: Cap, len: Nat]]
  /\ \A h \in Handle : buf[h].len <= buf[h].cap
  /\ call \in [Handle -> CallState]
  /\ \A h \in Handle : ~Idle(h) => (call[h].phase = "async" <=> mode[h] # "blocking")
  /\ kernel \in [queue: Seq(Datagram), finite: BOOLEAN, nonblocking: BOOLEAN]
  /\ arrived \in 0 .. MaxPackets
  /\ out \in SUBSET Result

\* The verdict a result stands for in the contract.
Verdict(r) ==
  [to |-> r.to, n |-> r.packet.n, bytes |-> r.bytes,
   verdict |-> CASE r.kind = "ok" -> "packet"
                 [] r.kind \in {"truncated", "malformed"} -> "error"
                 [] OTHER -> "nothing"]

Contract ==
  INSTANCE ReceiveContract WITH
    pending <- kernel.queue,
    waiting <- {h \in Handle : ~Idle(h)},
    told <- {Verdict(r) : r \in out}

\* The receive calls keep the contract: whatever clones race for the queue,
\* however timeouts, WouldBlock, errors and dropped futures fall, no packet is
\* lost, duplicated, reordered or returned in part (socket.rs:163, 174,
\* async_common.rs:88, 108).
KeepsContract == Contract!ContractSpec

\* A call reports a truncation only of a datagram that does not fit below the
\* capacity of its buffer, and a parse error only of a datagram that is
\* malformed as sent: the buffer a call reads into never depends on the calls,
\* timeouts or cancellations before it (async_common.rs:83, receive.rs:58).
ErrorsHaveCause ==
  \A r \in out :
    /\ r.kind = "truncated" => r.packet.size >= r.cap
    /\ r.kind = "malformed" => ~(r.packet.known /\ r.packet.size >= MinLen)

\* "A value of None will cause rcv_from to block" (socket.rs:54): an untimed
\* blocking call ends with WouldBlock only on a nonblocking OS socket, if no
\* clone set SO_RCVTIMEO between its two system calls.
NoneBlocks ==
  \A r \in out : r.kind = "wouldblock" /\ r.quiet => r.timed \/ kernel.nonblocking

\* The same without that proviso; it fails, because set_read_timeout and
\* recv_from are two steps on a shared OS socket (socket.rs:164-166).
NoneAlwaysBlocks ==
  \A r \in out : r.kind = "wouldblock" => r.timed \/ kernel.nonblocking

\* "rcv_from reports a possible truncation rather than returning a partial
\* packet" (socket.rs:610); IcmpSocket6::rcv_from returns the part.
NoPartialPacket == \A r \in out : r.kind = "ok" => r.bytes = r.packet.size

\* Every timed call returns: an async one always, even when clones take each
\* packet it is woken for; a blocking one once it sleeps, if no clone changed
\* SO_RCVTIMEO under it and the timeout does not round to zero, which means
\* forever (async_io.rs:74, tokio.rs:78, socket.rs:163).
TimedCallReturns ==
  \A h \in Handle :
    (\/ call[h].phase = "async" /\ timeout[h] # "none"
     \/ call[h].phase = "asleep" /\ call[h].quiet /\ timeout[h] = "long") ~> Idle(h)

=============================================================================
