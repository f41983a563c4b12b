--------------------------- MODULE Receive_proofs ---------------------------
(***************************************************************************)
(* Receive, for every number of clones, packets, buffer sizes and parser   *)
(* limits: types, causes of errors, the meaning of timeout None, and that  *)
(* the receive calls implement ReceiveContract.                            *)
(***************************************************************************)
EXTENDS Receive, SequenceTheorems, TLAPS

-----------------------------------------------------------------------------
(* The inductive invariant.                                                *)

\* The buffer is as Prepare leaves it: the system call may fill all of it.
Ready(op, b) == b.len = IF ReadsSpare(op) THEN 0 ELSE b.cap

\* A blocking call reads into a prepared buffer; undisturbed, it finds its own
\* timeout in SO_RCVTIMEO, and sleeps for a finite time only if it has one.
CallInv(h) ==
  /\ ~Idle(h) => call[h].op \in Ops
  /\ call[h].phase \in {"syscall", "asleep"} => Ready(call[h].op, buf[h])
  /\ call[h].phase = "syscall" /\ call[h].quiet => (kernel.finite => timeout[h] # "none")
  /\ call[h].phase = "asleep" /\ call[h].quiet => (call[h].wait => timeout[h] # "none")

\* The receive calls in use look for a truncation: all but IcmpSocket6::rcv_from.
ChecksTruncation == ~V6 \/ "recv" \notin Ops

ReceiveInv == TypeOK /\ (\A h \in Handle : CallInv(h)) /\ NoneBlocks

-----------------------------------------------------------------------------
(* Buffers.                                                                *)

Buffer == [cap: Cap, len: Nat]

\* Capacities and packet sizes are numbers.
LEMMA Sizes ==
  /\ \A c \in Cap : c \in Nat
  /\ \A p \in Datagram : p.size \in Nat
  /\ MinLen \in Nat /\ MaxPackets \in Nat
<1>1. \A c \in Cap : c \in Nat
  BY Zenon, ReceiveAssumption DEF Cap
<1>2. \A p \in Datagram : p.size \in {q.size : q \in Packets}
  BY Zenon DEF Datagram
<1>3. \A n \in {q.size : q \in Packets} : n \in Nat
  BY SMT, ReceiveAssumption
<1> QED
  BY Zenon, <1>1, <1>2, <1>3, ReceiveAssumption

\* Preparing a buffer keeps its capacity and makes it ready.
LEMMA PrepareFacts ==
  ASSUME NEW b \in Buffer, b.len <= b.cap, NEW op \in Op
  PROVE  /\ Prepare(op, b) \in Buffer /\ Prepare(op, b).cap = b.cap
         /\ Prepare(op, b).len <= b.cap /\ Ready(op, Prepare(op, b))
<1>1. b.cap \in Nat /\ b.len \in Nat /\ b.cap \in Cap
  BY Zenon, Sizes DEF Buffer
<1>2. PICK l : l = IF ReadsSpare(op) THEN 0 ELSE b.cap
  OBVIOUS
<1>3. l \in Nat /\ l <= b.cap
  BY SMT, <1>1, <1>2
<1>4. Prepare(op, b) = [b EXCEPT !.len = l]
  BY Zenon, <1>2 DEF Prepare
<1>5. [b EXCEPT !.len = l] \in Buffer /\ [b EXCEPT !.len = l].cap = b.cap
      /\ [b EXCEPT !.len = l].len = l
  BY Zenon, <1>1, <1>3 DEF Buffer
<1> QED
  BY Zenon, <1>2, <1>3, <1>4, <1>5 DEF Ready

\* However a buffer was left, the kernel copies no more than the datagram and
\* no more than the capacity, and the length that is set afterwards fits.
LEMMA CopyFacts ==
  ASSUME NEW b \in Buffer, b.len <= b.cap, NEW op \in Op, NEW p \in Datagram
  PROVE  /\ Copied(op, b, p) \in Nat
         /\ Copied(op, b, p) <= p.size /\ Copied(op, b, p) <= b.cap
         /\ LengthAfter(op, b, p) \in Nat /\ LengthAfter(op, b, p) <= b.cap
         /\ ReceiveKind(op, b, p) \in Kind
<1>1. b.cap \in Nat /\ b.len \in Nat /\ p.size \in Nat
  BY Zenon, Sizes DEF Buffer
<1>2. Space(op, b) \in Nat /\ Space(op, b) <= b.cap
  BY SMT, <1>1 DEF Space
<1>3. /\ Copied(op, b, p) \in Nat
      /\ Copied(op, b, p) <= p.size /\ Copied(op, b, p) <= b.cap
  BY SMT, <1>1, <1>2 DEF Copied
<1>4. LengthAfter(op, b, p) \in {Copied(op, b, p), b.len}
  BY Zenon DEF LengthAfter
<1>5. LengthAfter(op, b, p) \in Nat /\ LengthAfter(op, b, p) <= b.cap
  BY SMT, <1>1, <1>3, <1>4
<1>6. ReceiveKind(op, b, p) \in Kind
  BY Zenon DEF ReceiveKind, Kind
<1> QED
  BY <1>3, <1>5, <1>6

\* Into a ready buffer, a datagram is declared truncated only if it does not fit
\* below the capacity; if the call looks for truncations and finds none, every
\* byte was copied.
LEMMA ReadyFacts ==
  ASSUME linux \in BOOLEAN, NEW b \in Buffer, NEW op \in Op, Ready(op, b), NEW p \in Datagram
  PROVE  /\ Truncated(op, b, p) => p.size >= b.cap
         /\ (~V6 \/ op = "meta") /\ ~Truncated(op, b, p) => Copied(op, b, p) = p.size
<1>1. b.cap \in Nat /\ p.size \in Nat
  BY Zenon, Sizes DEF Buffer
<1>2. Space(op, b) = b.cap
  <2>1. CASE ReadsSpare(op)
    <3>1. b.len = 0
      BY Zenon, <2>1 DEF Ready
    <3> QED
      BY SMT, <1>1, <2>1, <3>1 DEF Space
  <2>2. CASE ~ReadsSpare(op)
    BY Zenon, <2>2 DEF Ready, Space
  <2> QED
    BY <2>1, <2>2
<1>3. /\ p.size <= b.cap => Copied(op, b, p) = p.size
      /\ ~(p.size <= b.cap) => Copied(op, b, p) = b.cap
  BY Zenon, <1>2 DEF Copied
<1>4. op = "recv" \/ op = "meta"
  BY DEF Op
<1>5. Truncated(op, b, p) => p.size > b.cap \/ Copied(op, b, p) = b.cap \/ Copied(op, b, p) >= b.cap
  BY Zenon, <1>2 DEF Truncated
<1>6. (~V6 \/ op = "meta") /\ ~Truncated(op, b, p)
        => Copied(op, b, p) # b.cap \/ ~(Copied(op, b, p) >= b.cap)
  BY Zenon, <1>4 DEF Truncated
<1>7. Copied(op, b, p) \in Nat
  BY SMT, <1>1, <1>3
<1>8. Truncated(op, b, p) => p.size >= b.cap
  BY SMT, <1>1, <1>3, <1>5, <1>7
<1>9. ASSUME Copied(op, b, p) # b.cap \/ ~(Copied(op, b, p) >= b.cap)
      PROVE  Copied(op, b, p) = p.size
  BY SMT, <1>1, <1>3, <1>7, <1>9
<1> QED
  BY <1>6, <1>8, <1>9

-----------------------------------------------------------------------------
(* Types.                                                                  *)

\* A function stays in its function space when one value is replaced.
LEMMA ExceptType ==
  \A S, T : \A f \in [S -> T] : \A x : \A v \in T : [f EXCEPT ![x] = v] \in [S -> T]
BY Zenon

\* The conjuncts of TypeOK, one by one.
LEMMA TypeFacts ==
  ASSUME TypeOK
  PROVE  /\ mode \in [Handle -> Mode] /\ timeout \in [Handle -> Timeout] /\ linux \in BOOLEAN
         /\ buf \in [Handle -> Buffer] /\ call \in [Handle -> CallState]
         /\ \A h \in Handle : buf[h].len <= buf[h].cap /\ call[h].op \in Op
         /\ kernel \in [queue: Seq(Datagram), finite: BOOLEAN, nonblocking: BOOLEAN]
         /\ arrived \in 0 .. MaxPackets /\ out \in SUBSET Result
<1>1. call \in [Handle -> CallState]
  BY DEF TypeOK
<1>2. \A h \in Handle : call[h].op \in Op
  BY Zenon, <1>1 DEF CallState
<1> QED
  BY <1>2 DEF TypeOK, Buffer

\* What the kernel holds, and the system calls that change one field of it.
LEMMA KernelFacts ==
  ASSUME TypeOK
  PROVE  LET K == [queue: Seq(Datagram), finite: BOOLEAN, nonblocking: BOOLEAN]
         IN  /\ kernel.queue \in Seq(Datagram)
             /\ \A q \in Seq(Datagram) : /\ [kernel EXCEPT !.queue = q] \in K
                                         /\ [kernel EXCEPT !.queue = q].queue = q
                                         /\ [kernel EXCEPT !.queue = q].finite = kernel.finite
                                         /\ [kernel EXCEPT !.queue = q].nonblocking = kernel.nonblocking
             /\ \A b \in BOOLEAN : /\ [kernel EXCEPT !.finite = b] \in K
                                   /\ [kernel EXCEPT !.finite = b].queue = kernel.queue
                                   /\ [kernel EXCEPT !.finite = b].finite = b
                                   /\ [kernel EXCEPT !.nonblocking = b] \in K
                                   /\ [kernel EXCEPT !.nonblocking = b].queue = kernel.queue
                                   /\ [kernel EXCEPT !.nonblocking = b].finite = kernel.finite
<1>1. kernel \in [queue: Seq(Datagram), finite: BOOLEAN, nonblocking: BOOLEAN]
  BY DEF TypeOK
<1> QED
  BY Zenon, <1>1

\* The oldest datagram, and the rest.
LEMMA QueueFacts ==
  ASSUME TypeOK, kernel.queue # <<>>
  PROVE  Head(kernel.queue) \in Datagram /\ Tail(kernel.queue) \in Seq(Datagram)
BY KernelFacts, HeadTailProperties

\* A call that begins, or none.
LEMMA CallTypes ==
  /\ NoCall \in CallState /\ NoCall.phase = "idle"
  /\ \A op \in Op, ph \in Phase :
       LET c == [NoCall EXCEPT !.phase = ph, !.op = op]
       IN  c \in CallState /\ c.phase = ph /\ c.op = op /\ c.quiet = TRUE
<1>1. "idle" \in Phase /\ "recv" \in Op
  BY Zenon DEF Phase, Op
<1> QED
  BY Zenon, <1>1 DEF NoCall, CallState

\* A call that ends leaves its handle idle and all others as they are; its
\* result has its type.
LEMMA AnswerFacts ==
  ASSUME TypeOK, NEW h \in Handle, NEW kind \in Kind, NEW p \in Datagram \cup {NoPacket},
         NEW bytes \in Nat, Answer(h, kind, p, bytes)
  PROVE  /\ out' \in SUBSET Result
         /\ call' \in [Handle -> CallState]
         /\ call'[h] = NoCall /\ call'[h].phase = "idle"
         /\ \A g \in Handle : g # h => call'[g] = call[g]
<1> DEFINE timed == timeout[h] # "none"
           r == [to |-> h, kind |-> kind, packet |-> p, bytes |-> bytes,
                 cap |-> buf[h].cap, timed |-> timed, quiet |-> call[h].quiet]
<1>1. buf[h].cap \in Cap /\ call[h].quiet \in BOOLEAN
  BY Zenon, TypeFacts DEF Buffer, CallState
<1>2. timed \in BOOLEAN
  BY Zenon
<1>3. out' = {r}
  BY Zenon DEF Answer
<1> HIDE DEF timed
<1>4. r \in Result
  BY Zenon, <1>1, <1>2 DEF Result
<1> HIDE DEF r
<1>5. out' \in SUBSET Result
  BY Zenon, <1>3, <1>4
<1>6. NoCall \in CallState /\ NoCall.phase = "idle"
  BY CallTypes
<1>7. call' = [call EXCEPT ![h] = NoCall] /\ call \in [Handle -> CallState]
  BY Zenon, TypeFacts DEF Answer
<1> QED
  BY Zenon, <1>5, <1>6, <1>7, ExceptType

\* A step that leaves platform and modes alone keeps the types if each
\* variable it changes does, and a call that goes on stays in its kind of phase.
LEMMA TypeFrame ==
  ASSUME TypeOK, linux' = linux,
         mode' \in [Handle -> Mode], timeout' \in [Handle -> Timeout],
         buf' \in [Handle -> Buffer], \A h \in Handle : buf'[h].len <= buf'[h].cap,
         call' \in [Handle -> CallState],
         \A h \in Handle : \/ call'[h].phase = "idle"
                           \/ call'[h].phase = "async" <=> mode'[h] # "blocking",
         kernel' \in [queue: Seq(Datagram), finite: BOOLEAN, nonblocking: BOOLEAN],
         arrived' \in 0 .. MaxPackets, out' \in SUBSET Result
  PROVE  TypeOK'
<1>1. linux' \in BOOLEAN
  BY DEF TypeOK
<1>2. (\A h \in Handle : ~Idle(h) => (call[h].phase = "async" <=> mode[h] # "blocking"))'
  BY Zenon DEF Idle
<1> QED
  BY Zenon, <1>1, <1>2 DEF TypeOK, Buffer

\* A receive system call that returns a datagram into buffer b keeps the types.
LEMMA TakeType ==
  ASSUME TypeOK, NEW h \in Handle, NEW b \in Buffer, b.len <= b.cap, b.cap = buf[h].cap,
         Take(h, b)
  PROVE  TypeOK'
<1> DEFINE p == Head(kernel.queue)
           op == call[h].op
           kind == ReceiveKind(op, b, p)
           bytes == IF kind = "ok" THEN Copied(op, b, p) ELSE 0
<1>0. /\ mode \in [Handle -> Mode] /\ timeout \in [Handle -> Timeout]
      /\ buf \in [Handle -> Buffer] /\ call \in [Handle -> CallState] /\ op \in Op
      /\ \A g \in Handle : buf[g].len <= buf[g].cap
      /\ arrived \in 0 .. MaxPackets
  BY TypeFacts
<1>1. p \in Datagram /\ Tail(kernel.queue) \in Seq(Datagram)
  BY QueueFacts DEF Take
<1>2. /\ Copied(op, b, p) \in Nat /\ kind \in Kind
      /\ LengthAfter(op, b, p) \in Nat /\ LengthAfter(op, b, p) <= b.cap
  BY <1>0, <1>1, CopyFacts
<1>3. bytes \in Nat /\ p \in Datagram \cup {NoPacket} /\ Answer(h, kind, p, bytes)
  BY <1>1, <1>2 DEF Take
<1>4. /\ out' \in SUBSET Result /\ call' \in [Handle -> CallState] /\ call'[h].phase = "idle"
      /\ \A g \in Handle : g # h => call'[g] = call[g]
  BY <1>2, <1>3, AnswerFacts
<1>5. kernel' \in [queue: Seq(Datagram), finite: BOOLEAN, nonblocking: BOOLEAN]
  BY Zenon, <1>1, KernelFacts DEF Take
<1>6. /\ buf' = [buf EXCEPT ![h] = [buf[h] EXCEPT !.len = LengthAfter(op, b, p)]]
      /\ linux' = linux /\ mode' = mode /\ timeout' = timeout /\ arrived' = arrived
  BY Zenon DEF Take, handleVars
<1>7. PICK l : l = LengthAfter(op, b, p)
  OBVIOUS
<1> HIDE DEF p, op, kind, bytes
<1>8. [buf[h] EXCEPT !.len = l] \in Buffer /\ [buf[h] EXCEPT !.len = l].cap = b.cap
      /\ [buf[h] EXCEPT !.len = l].len = l
  BY Zenon, <1>0, <1>2, <1>7 DEF Buffer
<1>9. buf' \in [Handle -> Buffer]
  BY Zenon, <1>0, <1>6, <1>7, <1>8, ExceptType
<1>10. \A g \in Handle : buf'[g].len <= buf'[g].cap
  BY Zenon, <1>0, <1>2, <1>6, <1>7, <1>8
<1>11. \A g \in Handle : \/ call'[g].phase = "idle"
                         \/ call'[g].phase = "async" <=> mode'[g] # "blocking"
  BY Zenon, <1>4, <1>6 DEF TypeOK, Idle
<1> QED
  BY <1>0, <1>4, <1>5, <1>6, <1>9, <1>10, <1>11, TypeFrame

\* Every step keeps the types.
LEMMA TypeOKStep == TypeOK /\ [Next]_vars => TypeOK'
<1> SUFFICES ASSUME TypeOK, [Next]_vars PROVE TypeOK'
  OBVIOUS
<1>0. /\ mode \in [Handle -> Mode] /\ timeout \in [Handle -> Timeout] /\ linux \in BOOLEAN
      /\ buf \in [Handle -> Buffer] /\ call \in [Handle -> CallState]
      /\ \A h \in Handle : buf[h].len <= buf[h].cap /\ call[h].op \in Op
      /\ kernel \in [queue: Seq(Datagram), finite: BOOLEAN, nonblocking: BOOLEAN]
      /\ arrived \in 0 .. MaxPackets /\ {} \in SUBSET Result
      /\ \A h \in Handle : \/ call[h].phase = "idle"
                           \/ call[h].phase = "async" <=> mode[h] # "blocking"
  BY TypeFacts DEF TypeOK, Idle
<1>1. ASSUME NEW h \in Handle, NEW t \in Timeouts, SetTimeout(h, t) PROVE TypeOK'
  <2>1. t \in Timeout
    BY Zenon, ReceiveAssumption DEF Timeout
  <2>2. timeout' \in [Handle -> Timeout]
    BY Zenon, <1>0, <1>1, <2>1, ExceptType DEF SetTimeout
  <2> QED
    BY Zenon, <1>0, <1>1, <2>2, TypeFrame DEF SetTimeout
<1>2. ASSUME NEW h \in Handle, NEW size \in Caps, SetReadBufferSize(h, size) PROVE TypeOK'
  <2> DEFINE b == [cap |-> size, len |-> size]
  <2>1. size \in Nat /\ size \in Cap
    BY Zenon, ReceiveAssumption DEF Cap
  <2>2. b \in Buffer /\ b.len = size /\ b.cap = size /\ size <= size
    BY SMT, <2>1 DEF Buffer
  <2>3. buf' = [buf EXCEPT ![h] = b]
    BY <1>2 DEF SetReadBufferSize
  <2> HIDE DEF b
  <2>4. buf' \in [Handle -> Buffer] /\ \A g \in Handle : buf'[g].len <= buf'[g].cap
    BY Zenon, <1>0, <2>2, <2>3, ExceptType
  <2> QED
    BY Zenon, <1>0, <1>2, <2>4, TypeFrame DEF SetReadBufferSize, handleVars
<1>3. ASSUME NEW h \in Handle, NEW m \in Mode, Convert(h, m) PROVE TypeOK'
  <2>1. mode' \in [Handle -> Mode] /\ \A g \in Handle : g # h => mode'[g] = mode[g]
    BY Zenon, <1>0, <1>3, ExceptType DEF Convert
  <2>2. call[h].phase = "idle"
    BY <1>3 DEF Convert, Idle
  <2>3. kernel' \in [queue: Seq(Datagram), finite: BOOLEAN, nonblocking: BOOLEAN]
    BY Zenon, <1>3, KernelFacts DEF Convert
  <2> QED
    BY Zenon, <1>0, <1>3, <2>1, <2>2, <2>3, TypeFrame DEF Convert
<1>4. ASSUME NEW p \in Packets, Arrive(p) PROVE TypeOK'
  <2> DEFINE d == [n |-> arrived + 1, size |-> p.size, known |-> p.known]
  <2>1. arrived' \in 0 .. MaxPackets /\ arrived + 1 \in 1 .. MaxPackets
    BY SMT, <1>0, <1>4, Sizes DEF Arrive
  <2>2. p.known \in BOOLEAN
    BY Zenon, ReceiveAssumption
  <2>3. d \in Datagram
    BY Zenon, <2>1, <2>2 DEF Datagram
  <2>4. kernel' = [kernel EXCEPT !.queue = Append(kernel.queue, d)]
    BY Zenon, <1>4 DEF Arrive
  <2> HIDE DEF d
  <2>5. Append(kernel.queue, d) \in Seq(Datagram)
    BY <2>3, KernelFacts, AppendProperties
  <2>6. kernel' \in [queue: Seq(Datagram), finite: BOOLEAN, nonblocking: BOOLEAN]
    BY Zenon, <2>4, <2>5, KernelFacts
  <2> QED
    BY Zenon, <1>0, <1>4, <2>1, <2>6, TypeFrame DEF Arrive, handleVars
<1>5. ASSUME NEW h \in Handle, NEW op \in Ops, BlockingStart(h, op) PROVE TypeOK'
  <2>1. op \in Op /\ "syscall" \in Phase
    BY Zenon, ReceiveAssumption DEF Op, Phase
  <2>2. /\ Prepare(op, buf[h]) \in Buffer
        /\ Prepare(op, buf[h]).len <= Prepare(op, buf[h]).cap
    BY <1>0, <2>1, PrepareFacts
  <2>3. buf' = [buf EXCEPT ![h] = Prepare(op, buf[h])]
    BY Zenon, <1>5 DEF BlockingStart
  <2>4. buf' \in [Handle -> Buffer] /\ \A g \in Handle : buf'[g].len <= buf'[g].cap
    BY Zenon, <1>0, <2>2, <2>3, ExceptType
  <2>5. Timeval(timeout[h]) \in BOOLEAN
    BY Zenon DEF Timeval
  <2>6. kernel' \in [queue: Seq(Datagram), finite: BOOLEAN, nonblocking: BOOLEAN]
    BY Zenon, <1>5, <2>5, KernelFacts DEF BlockingStart
  <2>7. call'[h] \in CallState /\ call'[h].phase = "syscall"
    <3> DEFINE c == [NoCall EXCEPT !.phase = "syscall", !.op = op]
    <3>1. call'[h] = c
      BY Zenon, <1>5 DEF BlockingStart
    <3>2. c \in CallState /\ c.phase = "syscall"
      BY Zenon, <2>1, CallTypes
    <3> HIDE DEF c
    <3> QED
      BY Zenon, <3>1, <3>2
  <2>8. ASSUME NEW g \in Handle, g # h
        PROVE  call'[g] \in CallState /\ call'[g].phase = call[g].phase
    <3> DEFINE q == call[g].quiet /\ call[g].phase # "syscall"
    <3>1. call'[g] = [call[g] EXCEPT !.quiet = q]
      BY Zenon, <1>5, <2>8 DEF BlockingStart
    <3>2. q \in BOOLEAN
      BY Zenon
    <3> HIDE DEF q
    <3>3. call[g] \in CallState
      BY <1>0
    <3> QED
      BY Zenon, <3>1, <3>2, <3>3 DEF CallState
  <2>9. call' \in [Handle -> CallState]
    BY Zenon, <1>5, <2>7, <2>8 DEF BlockingStart
  <2>10. \A g \in Handle : \/ call'[g].phase = "idle"
                           \/ call'[g].phase = "async" <=> mode[g] # "blocking"
    BY Zenon, <1>0, <1>5, <2>7, <2>8 DEF BlockingStart
  <2> QED
    BY Zenon, <1>0, <1>5, <2>4, <2>6, <2>9, <2>10, TypeFrame DEF BlockingStart, handleVars
<1>6. ASSUME NEW h \in Handle, NEW op \in Ops, AsyncStart(h, op) PROVE TypeOK'
  <2>1. op \in Op /\ "async" \in Phase
    BY Zenon, ReceiveAssumption DEF Op, Phase
  <2> DEFINE c == [NoCall EXCEPT !.phase = "async", !.op = op]
  <2>2. c \in CallState /\ c.phase = "async"
    BY Zenon, <2>1, CallTypes
  <2>3. call' = [call EXCEPT ![h] = c]
    BY <1>6 DEF AsyncStart
  <2> HIDE DEF c
  <2>4. /\ call' \in [Handle -> CallState] /\ call'[h].phase = "async"
        /\ \A g \in Handle : g # h => call'[g] = call[g]
    BY Zenon, <1>0, <2>2, <2>3, ExceptType
  <2> QED
    BY Zenon, <1>0, <1>6, <2>4, TypeFrame DEF AsyncStart, handleVars
<1>7. ASSUME NEW h \in Handle, BlockingTake(h) PROVE TypeOK'
  BY <1>0, <1>7, TakeType DEF BlockingTake
<1>8. ASSUME NEW h \in Handle, AsyncTake(h) PROVE TypeOK'
  <2>1. /\ Prepare(call[h].op, buf[h]) \in Buffer
        /\ Prepare(call[h].op, buf[h]).cap = buf[h].cap
        /\ Prepare(call[h].op, buf[h]).len <= Prepare(call[h].op, buf[h]).cap
    BY <1>0, PrepareFacts
  <2> QED
    BY <1>8, <2>1, TakeType DEF AsyncTake
<1>9. ASSUME NEW h \in Handle, NEW kind \in Kind, Fail(h, kind) PROVE TypeOK'
  <2>1. Answer(h, kind, NoPacket, 0) /\ NoPacket \in Datagram \cup {NoPacket} /\ 0 \in Nat
    BY <1>9 DEF Fail
  <2>2. /\ out' \in SUBSET Result /\ call' \in [Handle -> CallState] /\ call'[h].phase = "idle"
        /\ \A g \in Handle : g # h => call'[g] = call[g]
    BY <2>1, AnswerFacts
  <2>3. mode' = mode /\ timeout' = timeout /\ linux' = linux /\ buf' = buf /\ kernel' = kernel
        /\ arrived' = arrived
    BY <1>9 DEF Fail, handleVars
  <2> QED
    BY Zenon, <1>0, <2>2, <2>3, TypeFrame
<1>10. ASSUME NEW h \in Handle, BlockingSleep(h) PROVE TypeOK'
  <2>1. kernel.finite \in BOOLEAN /\ "asleep" \in Phase
    BY Zenon, <1>0 DEF Phase
  <2> DEFINE c == [call[h] EXCEPT !.phase = "asleep", !.wait = kernel.finite]
  <2>2. c \in CallState /\ c.phase = "asleep"
    BY Zenon, <1>0, <2>1 DEF CallState
  <2>3. call' = [call EXCEPT ![h] = c]
    BY Zenon, <1>0, <1>10 DEF BlockingSleep
  <2> HIDE DEF c
  <2>4. mode[h] = "blocking"
    BY Zenon, <1>0, <1>10 DEF BlockingSleep, Mode
  <2>5. call' \in [Handle -> CallState]
        /\ \A g \in Handle : \/ call'[g].phase = "idle"
                             \/ call'[g].phase = "async" <=> mode[g] # "blocking"
    BY Zenon, <1>0, <2>2, <2>3, <2>4, ExceptType
  <2> QED
    BY Zenon, <1>0, <1>10, <2>5, TypeFrame DEF BlockingSleep, handleVars
<1>11. ASSUME NEW h \in Handle, AsyncPending(h) PROVE TypeOK'
  <2>1. /\ Prepare(call[h].op, buf[h]) \in Buffer
        /\ Prepare(call[h].op, buf[h]).len <= Prepare(call[h].op, buf[h]).cap
    BY <1>0, PrepareFacts
  <2>2. PICK b \in {Prepare(call[h].op, buf[h]), buf[h]} : buf' = [buf EXCEPT ![h] = b]
    BY Zenon, <1>11 DEF AsyncPending
  <2>3. b \in Buffer /\ b.len <= b.cap
    BY Zenon, <1>0, <2>1, <2>2
  <2>4. buf' \in [Handle -> Buffer] /\ \A g \in Handle : buf'[g].len <= buf'[g].cap
    BY Zenon, <1>0, <2>2, <2>3, ExceptType
  <2> DEFINE c == [call[h] EXCEPT !.polled = TRUE]
  <2>5. c \in CallState /\ c.phase = call[h].phase
    BY Zenon, <1>0 DEF CallState
  <2>6. call' = [call EXCEPT ![h] = c]
    BY Zenon, <1>11 DEF AsyncPending
  <2> HIDE DEF c
  <2>7. call' \in [Handle -> CallState] /\ \A g \in Handle : call'[g].phase = call[g].phase
    BY Zenon, <1>0, <2>5, <2>6, ExceptType
  <2> QED
    BY Zenon, <1>0, <1>11, <2>4, <2>7, TypeFrame DEF AsyncPending, handleVars
<1>12. ASSUME NEW h \in Handle, AsyncElapse(h) PROVE TypeOK'
  <2> DEFINE c == [call[h] EXCEPT !.elapsed = TRUE]
  <2>1. c \in CallState /\ c.phase = call[h].phase
    BY Zenon, <1>0 DEF CallState
  <2>2. call' = [call EXCEPT ![h] = c]
    BY Zenon, <1>12 DEF AsyncElapse
  <2> HIDE DEF c
  <2>3. call' \in [Handle -> CallState] /\ \A g \in Handle : call'[g].phase = call[g].phase
    BY Zenon, <1>0, <2>1, <2>2, ExceptType
  <2> QED
    BY Zenon, <1>0, <1>12, <2>3, TypeFrame DEF AsyncElapse, handleVars
<1>13. ASSUME NEW h \in Handle, Cancel(h) PROVE TypeOK'
  <2>1. NoCall \in CallState /\ NoCall.phase = "idle"
    BY CallTypes
  <2>2. /\ call' \in [Handle -> CallState] /\ call'[h].phase = "idle"
        /\ \A g \in Handle : g # h => call'[g] = call[g]
    BY Zenon, <1>0, <1>13, <2>1, ExceptType DEF Cancel
  <2> QED
    BY Zenon, <1>0, <1>13, <2>2, TypeFrame DEF Cancel, handleVars
<1>14. CASE UNCHANGED vars
  BY Zenon, <1>14 DEF vars, TypeOK, Idle
<1>15. {"wouldblock", "timedout", "os"} \subseteq Kind
  BY Zenon DEF Kind
<1> QED
  BY <1>1, <1>2, <1>3, <1>4, <1>5, <1>6, <1>7, <1>8, <1>9, <1>10, <1>11, <1>12, <1>13, <1>14, <1>15
     DEF Next, Options, Start, Blocking, Async, BlockingRefused, BlockingTimeout, BlockingError,
         AsyncTimeout, AsyncError

-----------------------------------------------------------------------------
(* Calls in progress.                                                      *)

\* An idle handle has nothing to keep; a call in progress keeps CallInv as long
\* as nobody touches its buffer and its timeout and, while it counts on them,
\* the SO_RCVTIMEO it set.
LEMMA CallKept ==
  ASSUME linux' = linux, NEW g \in Handle, CallInv(g),
         \/ call'[g].phase = "idle"
         \/ /\ call'[g].phase = call[g].phase /\ call'[g].op = call[g].op
            /\ call'[g].wait = call[g].wait
            /\ call'[g].quiet => call[g].quiet
            /\ call[g].phase \in {"syscall", "asleep"} => buf'[g] = buf[g]
            /\ ~Idle(g) => timeout'[g] = timeout[g]
            /\ call[g].phase = "syscall" /\ call'[g].quiet => kernel'.finite = kernel.finite
  PROVE  CallInv(g)'
<1>1. CASE call'[g].phase = "idle"
  BY Zenon, <1>1 DEF CallInv, Idle
<1>2. CASE call'[g].phase # "idle"
  <2>1. (~Idle(g) => call[g].op \in Ops)'
    BY Zenon, <1>2 DEF CallInv, Idle
  <2>2. (call[g].phase \in {"syscall", "asleep"} => Ready(call[g].op, buf[g]))'
    BY Zenon, <1>2 DEF CallInv, Ready, ReadsSpare
  <2>3. (call[g].phase = "syscall" /\ call[g].quiet => (kernel.finite => timeout[g] # "none"))'
    BY Zenon, <1>2 DEF CallInv, Idle
  <2>4. (call[g].phase = "asleep" /\ call[g].quiet => (call[g].wait => timeout[g] # "none"))'
    BY Zenon, <1>2 DEF CallInv, Idle
  <2> QED
    BY <2>1, <2>2, <2>3, <2>4 DEF CallInv
<1> QED
  BY <1>1, <1>2

\* A finite SO_RCVTIMEO comes from a timeout that is not None.
LEMMA TimevalFinite == \A t : Timeval(t) => t # "none"
BY Zenon DEF Timeval

\* A datagram taken with buffer b leaves the other calls alone.
LEMMA TakeKeeps ==
  ASSUME TypeOK, NEW h \in Handle, NEW b \in Buffer, b.len <= b.cap, b.cap = buf[h].cap,
         Take(h, b)
  PROVE  /\ linux' = linux /\ timeout' = timeout /\ mode' = mode
         /\ kernel'.finite = kernel.finite /\ kernel'.queue = Tail(kernel.queue)
         /\ call'[h].phase = "idle"
         /\ \A g \in Handle : g # h => call'[g] = call[g] /\ buf'[g] = buf[g]
<1>1. linux' = linux /\ timeout' = timeout /\ mode' = mode
  BY DEF Take, handleVars
<1>2. kernel' = [kernel EXCEPT !.queue = Tail(kernel.queue)]
  BY Zenon DEF Take
<1>3. Tail(kernel.queue) \in Seq(Datagram)
  BY QueueFacts DEF Take
<1>4. kernel'.finite = kernel.finite /\ kernel'.queue = Tail(kernel.queue)
  BY Zenon, <1>2, <1>3, KernelFacts
<1>5. call' = [call EXCEPT ![h] = NoCall]
  BY Zenon DEF Take, Answer
<1>6. call'[h].phase = "idle" /\ \A g \in Handle : g # h => call'[g] = call[g]
  BY Zenon, <1>5, CallTypes, TypeFacts
<1>7. \A g \in Handle : g # h => buf'[g] = buf[g]
  BY Zenon, TypeFacts DEF Take
<1> QED
  BY <1>1, <1>4, <1>6, <1>7

\* Every step keeps what is known of the calls in progress.
LEMMA CallInvStep ==
  TypeOK /\ (\A g \in Handle : CallInv(g)) /\ [Next]_vars => (\A g \in Handle : CallInv(g))'
<1> SUFFICES ASSUME TypeOK, \A g \in Handle : CallInv(g), [Next]_vars, NEW g \in Handle
             PROVE  CallInv(g)'
  BY Zenon
<1>0. /\ mode \in [Handle -> Mode] /\ timeout \in [Handle -> Timeout]
      /\ buf \in [Handle -> Buffer] /\ call \in [Handle -> CallState]
      /\ \A h \in Handle : buf[h].len <= buf[h].cap /\ call[h].op \in Op
      /\ CallInv(g)
  BY TypeFacts
<1>1. ASSUME NEW h \in Handle, NEW t \in Timeouts, SetTimeout(h, t) PROVE CallInv(g)'
  <2>1. /\ linux' = linux /\ buf' = buf /\ call' = call /\ kernel' = kernel
        /\ ~Idle(g) => timeout'[g] = timeout[g]
    BY Zenon, <1>0, <1>1 DEF SetTimeout
  <2> QED
    BY Zenon, <1>0, <2>1, CallKept
<1>2. ASSUME NEW h \in Handle, NEW size \in Caps, SetReadBufferSize(h, size) PROVE CallInv(g)'
  <2>1. /\ linux' = linux /\ timeout' = timeout /\ call' = call /\ kernel' = kernel
        /\ ~Idle(g) => buf'[g] = buf[g]
    BY Zenon, <1>0, <1>2 DEF SetReadBufferSize, handleVars
  <2>2. call[g].phase \in {"syscall", "asleep"} => ~Idle(g)
    BY Zenon DEF Idle
  <2> QED
    BY Zenon, <1>0, <2>1, <2>2, CallKept
<1>3. ASSUME NEW h \in Handle, NEW m \in Mode, Convert(h, m) PROVE CallInv(g)'
  <2>1. linux' = linux /\ timeout' = timeout /\ buf' = buf /\ call' = call
    BY <1>3 DEF Convert
  <2>2. kernel'.finite = kernel.finite
    BY Zenon, <1>3, KernelFacts DEF Convert
  <2> QED
    BY Zenon, <1>0, <2>1, <2>2, CallKept
<1>4. ASSUME NEW p \in Packets, Arrive(p) PROVE CallInv(g)'
  <2>1. linux' = linux /\ timeout' = timeout /\ buf' = buf /\ call' = call
    BY <1>4 DEF Arrive, handleVars
  <2>2. kernel'.finite = kernel.finite
    <3>1. PICK q : kernel' = [kernel EXCEPT !.queue = q]
      BY Zenon, <1>4 DEF Arrive
    <3> QED
      BY Zenon, <3>1, TypeFacts
  <2> QED
    BY Zenon, <1>0, <2>1, <2>2, CallKept
<1>5. ASSUME NEW h \in Handle, NEW op \in Ops, BlockingStart(h, op) PROVE CallInv(g)'
  <2>1. op \in Op /\ "syscall" \in Phase
    BY Zenon, ReceiveAssumption DEF Op, Phase
  <2>2. linux' = linux /\ timeout' = timeout
    BY <1>5 DEF BlockingStart, handleVars
  <2>3. CASE g = h
    <3> DEFINE c == [NoCall EXCEPT !.phase = "syscall", !.op = op]
    <3>1. call'[h] = c
      BY Zenon, <1>5 DEF BlockingStart
    <3>2. c.phase = "syscall" /\ c.op = op
      BY Zenon, <2>1, CallTypes
    <3> HIDE DEF c
    <3>3. buf'[h] = Prepare(op, buf[h])
      BY Zenon, <1>0, <1>5 DEF BlockingStart
    <3>4. Ready(op, buf'[h])
      BY <1>0, <2>1, <3>3, PrepareFacts
    <3>5. Ready(op, buf[h])'
      BY Zenon, <2>2, <3>4 DEF Ready, ReadsSpare
    <3>6. kernel'.finite = Timeval(timeout[h])
      <4>1. Timeval(timeout[h]) \in BOOLEAN
        BY Zenon DEF Timeval
      <4> QED
        BY Zenon, <1>5, <4>1, KernelFacts DEF BlockingStart
    <3>7. kernel'.finite => timeout'[h] # "none"
      BY Zenon, <2>2, <3>6, TimevalFinite
    <3> QED
      BY Zenon, <2>3, <3>1, <3>2, <3>5, <3>7 DEF CallInv
  <2>4. CASE g # h
    <3> DEFINE q == call[g].quiet /\ call[g].phase # "syscall"
    <3>1. call'[g] = [call[g] EXCEPT !.quiet = q]
      BY Zenon, <1>5, <2>4 DEF BlockingStart
    <3>2. q \in BOOLEAN /\ (q => call[g].quiet /\ call[g].phase # "syscall")
      BY Zenon
    <3> HIDE DEF q
    <3>3. call[g] \in CallState
      BY <1>0
    <3>4. /\ call'[g].phase = call[g].phase /\ call'[g].op = call[g].op
          /\ call'[g].wait = call[g].wait /\ call'[g].quiet = q
      BY Zenon, <3>1, <3>2, <3>3 DEF CallState
    <3>5. buf'[g] = buf[g]
      BY Zenon, <1>0, <1>5, <2>4 DEF BlockingStart
    <3> QED
      BY Zenon, <1>0, <2>2, <3>2, <3>4, <3>5, CallKept
  <2> QED
    BY <2>3, <2>4
<1>6. ASSUME NEW h \in Handle, NEW op \in Ops, AsyncStart(h, op) PROVE CallInv(g)'
  <2>1. op \in Op /\ "async" \in Phase
    BY Zenon, ReceiveAssumption DEF Op, Phase
  <2>2. linux' = linux /\ timeout' = timeout /\ buf' = buf /\ kernel' = kernel
    BY <1>6 DEF AsyncStart, handleVars
  <2> DEFINE c == [NoCall EXCEPT !.phase = "async", !.op = op]
  <2>3. c.phase = "async" /\ c.op = op
    BY Zenon, <2>1, CallTypes
  <2>4. call' = [call EXCEPT ![h] = c]
    BY <1>6 DEF AsyncStart
  <2> HIDE DEF c
  <2>5. call'[h] = c /\ \A k \in Handle : k # h => call'[k] = call[k]
    BY Zenon, <1>0, <2>4
  <2>6. CASE g = h
    BY Zenon, <2>3, <2>5, <2>6 DEF CallInv
  <2>7. CASE g # h
    BY Zenon, <1>0, <2>2, <2>5, <2>7, CallKept
  <2> QED
    BY <2>6, <2>7
<1>7. ASSUME NEW h \in Handle, BlockingTake(h) \/ AsyncTake(h) PROVE CallInv(g)'
  <2>1. PICK b \in Buffer : b.len <= b.cap /\ b.cap = buf[h].cap /\ Take(h, b)
    <3>1. CASE BlockingTake(h)
      BY <1>0, <3>1 DEF BlockingTake
    <3>2. CASE AsyncTake(h)
      <4>1. /\ Prepare(call[h].op, buf[h]) \in Buffer
            /\ Prepare(call[h].op, buf[h]).cap = buf[h].cap
            /\ Prepare(call[h].op, buf[h]).len <= Prepare(call[h].op, buf[h]).cap
        BY <1>0, PrepareFacts
      <4> QED
        BY Zenon, <3>2, <4>1 DEF AsyncTake
    <3> QED
      BY <1>7, <3>1, <3>2
  <2>2. /\ linux' = linux /\ timeout' = timeout /\ kernel'.finite = kernel.finite
        /\ call'[h].phase = "idle"
        /\ \A k \in Handle : k # h => call'[k] = call[k] /\ buf'[k] = buf[k]
    BY <2>1, TakeKeeps
  <2> QED
    BY Zenon, <1>0, <2>2, CallKept
<1>8. ASSUME NEW h \in Handle, Cancel(h) \/ \E kind \in Kind : Fail(h, kind) PROVE CallInv(g)'
  <2>1. /\ linux' = linux /\ timeout' = timeout /\ buf' = buf /\ kernel' = kernel
        /\ call' = [call EXCEPT ![h] = NoCall]
    BY Zenon, <1>8 DEF Cancel, Fail, Answer, handleVars
  <2>2. call'[h].phase = "idle" /\ \A k \in Handle : k # h => call'[k] = call[k]
    BY Zenon, <1>0, <2>1, CallTypes
  <2> QED
    BY Zenon, <1>0, <2>1, <2>2, CallKept
<1>9. ASSUME NEW h \in Handle, BlockingSleep(h) PROVE CallInv(g)'
  <2>1. /\ linux' = linux /\ timeout' = timeout /\ buf' = buf /\ kernel' = kernel
        /\ call[h].phase = "syscall"
    BY <1>9 DEF BlockingSleep, handleVars
  <2> DEFINE c == [call[h] EXCEPT !.phase = "asleep", !.wait = kernel.finite]
  <2>2. c.phase = "asleep" /\ c.wait = kernel.finite /\ c.op = call[h].op /\ c.quiet = call[h].quiet
    BY Zenon, <1>0 DEF CallState
  <2>3. call' = [call EXCEPT ![h] = c]
    BY Zenon, <1>0, <1>9 DEF BlockingSleep
  <2> HIDE DEF c
  <2>4. call'[h] = c /\ \A k \in Handle : k # h => call'[k] = call[k]
    BY Zenon, <1>0, <2>3
  <2>5. CASE g = h
    <3>1. Ready(call[h].op, buf[h]) /\ call[h].op \in Ops
          /\ (call[h].quiet => (kernel.finite => timeout[h] # "none"))
      BY Zenon, <1>0, <2>1, <2>5 DEF CallInv, Idle
    <3>2. Ready(call[h].op, buf[h])'
      BY Zenon, <2>1, <2>2, <2>4, <3>1 DEF Ready, ReadsSpare
    <3> QED
      BY Zenon, <2>1, <2>2, <2>4, <2>5, <3>1, <3>2 DEF CallInv
  <2>6. CASE g # h
    BY Zenon, <1>0, <2>1, <2>4, <2>6, CallKept
  <2> QED
    BY <2>5, <2>6
<1>10. ASSUME NEW h \in Handle, AsyncPending(h) \/ AsyncElapse(h) PROVE CallInv(g)'
  <2>1. /\ linux' = linux /\ timeout' = timeout /\ kernel' = kernel /\ call[h].phase = "async"
    BY <1>10 DEF AsyncPending, AsyncElapse, handleVars
  <2>2. \A k \in Handle : k # h => buf'[k] = buf[k]
    BY Zenon, <1>0, <1>10 DEF AsyncPending, AsyncElapse
  <2>3. PICK c : /\ call' = [call EXCEPT ![h] = c]
                 /\ c \in {[call[h] EXCEPT !.polled = TRUE], [call[h] EXCEPT !.elapsed = TRUE]}
    BY Zenon, <1>10 DEF AsyncPending, AsyncElapse
  <2>4. c.phase = call[h].phase /\ c.op = call[h].op /\ c.wait = call[h].wait /\ c.quiet = call[h].quiet
    BY Zenon, <1>0, <2>3 DEF CallState
  <2>5. call'[h] = c /\ \A k \in Handle : k # h => call'[k] = call[k]
    BY Zenon, <1>0, <2>3
  <2>6. CASE g = h
    <3>1. call'[g].phase = call[g].phase /\ call'[g].op = call[g].op
          /\ call'[g].wait = call[g].wait /\ call'[g].quiet = call[g].quiet
      BY Zenon, <2>4, <2>5, <2>6
    <3>2. ~(call[g].phase \in {"syscall", "asleep"})
      BY Zenon, <2>1, <2>6
    <3> QED
      BY Zenon, <1>0, <2>1, <3>1, <3>2, CallKept
  <2>7. CASE g # h
    BY Zenon, <1>0, <2>1, <2>2, <2>5, <2>7, CallKept
  <2> QED
    BY <2>6, <2>7
<1>11. CASE UNCHANGED vars
  BY Zenon, <1>0, <1>11, CallKept DEF vars
<1>12. {"wouldblock", "timedout", "os"} \subseteq Kind
  BY Zenon DEF Kind
<1> QED
  BY <1>1, <1>2, <1>3, <1>4, <1>5, <1>6, <1>7, <1>8, <1>9, <1>10, <1>11, <1>12
     DEF Next, Options, Start, Blocking, Async, BlockingRefused, BlockingTimeout, BlockingError,
         AsyncTimeout, AsyncError

-----------------------------------------------------------------------------
(* Results.                                                                *)

\* The result of a call that took a datagram into a ready buffer: the oldest
\* datagram, whole if the call looks for truncations and says ok, and an error
\* only for a cause that lies in the datagram and the capacity.
TakenResult(h, r) ==
  LET p == Head(kernel.queue)
      checks == ~V6 \/ call[h].op = "meta"
  IN  /\ r.to = h /\ r.packet = p /\ r.cap = buf[h].cap
      /\ r.kind \in {"ok", "truncated", "malformed"}
      /\ r.kind = "truncated" => p.size >= buf[h].cap
      /\ checks /\ r.kind = "malformed" => ~(p.known /\ p.size >= MinLen)
      /\ checks /\ r.kind = "ok" => r.bytes = p.size
      /\ r.kind # "ok" => r.bytes = 0

\* A call that takes a datagram ends with one result, about that datagram.
LEMMA TakeResult ==
  ASSUME TypeOK, NEW h \in Handle, NEW b \in Buffer, b.cap = buf[h].cap,
         Ready(call[h].op, b), Take(h, b)
  PROVE  \E r : out' = {r} /\ TakenResult(h, r)
<1> DEFINE p == Head(kernel.queue)
           op == call[h].op
           kind == ReceiveKind(op, b, p)
           bytes == IF kind = "ok" THEN Copied(op, b, p) ELSE 0
           r == [to |-> h, kind |-> kind, packet |-> p, bytes |-> bytes,
                 cap |-> buf[h].cap, timed |-> timeout[h] # "none", quiet |-> call[h].quiet]
<1>1. out' = {r}
  BY Zenon DEF Take, Answer
<1>2. r.to = h /\ r.kind = kind /\ r.packet = p /\ r.bytes = bytes /\ r.cap = buf[h].cap
  BY Zenon
<1> HIDE DEF r
<1>3. p \in Datagram /\ op \in Op /\ linux \in BOOLEAN
  BY QueueFacts, TypeFacts DEF Take
<1>4. /\ Truncated(op, b, p) => p.size >= b.cap
      /\ (~V6 \/ op = "meta") /\ ~Truncated(op, b, p) => Copied(op, b, p) = p.size
  BY <1>3, ReadyFacts
<1>5. /\ kind \in {"ok", "truncated", "malformed"}
      /\ kind = "truncated" => Truncated(op, b, p)
      /\ kind = "malformed" => ~Truncated(op, b, p) /\ ~Parses(p, Copied(op, b, p))
      /\ kind = "ok" => ~Truncated(op, b, p)
  BY Zenon DEF ReceiveKind
<1> HIDE DEF kind
<1>6. /\ kind = "ok" => bytes = Copied(op, b, p)
      /\ kind # "ok" => bytes = 0
  BY Zenon
<1> HIDE DEF bytes
<1>7. TakenResult(h, r)
  BY Zenon, <1>2, <1>4, <1>5, <1>6 DEF TakenResult, Parses
<1> QED
  BY Zenon, <1>1, <1>7

\* Both ways to take a datagram read into a ready buffer.
LEMMA TakesReady ==
  ASSUME TypeOK, NEW h \in Handle, CallInv(h), BlockingTake(h) \/ AsyncTake(h)
  PROVE  /\ ~Idle(h)
         /\ \E b \in Buffer : /\ b.len <= b.cap /\ b.cap = buf[h].cap
                             /\ Ready(call[h].op, b) /\ Take(h, b)
<1>0. buf[h] \in Buffer /\ buf[h].len <= buf[h].cap /\ call[h].op \in Op
  BY TypeFacts
<1>1. CASE BlockingTake(h)
  BY Zenon, <1>0, <1>1 DEF BlockingTake, CallInv, Idle
<1>2. CASE AsyncTake(h)
  <2> DEFINE b == Prepare(call[h].op, buf[h])
  <2>1. /\ b \in Buffer /\ b.cap = buf[h].cap /\ b.len <= b.cap /\ Ready(call[h].op, b)
    BY <1>0, PrepareFacts
  <2>2. Take(h, b) /\ call[h].phase = "async"
    BY <1>2 DEF AsyncTake
  <2> HIDE DEF b
  <2> QED
    BY Zenon, <2>1, <2>2 DEF Idle
<1> QED
  BY <1>1, <1>2

\* The result of a call that ends without a datagram.
FailedResult(h, kind, r) ==
  /\ r.to = h /\ r.kind = kind /\ r.packet = NoPacket /\ r.bytes = 0
  /\ r.timed = (timeout[h] # "none") /\ r.quiet = call[h].quiet

\* A call that fails ends with one result, its error.
LEMMA FailResult ==
  ASSUME NEW h \in Handle, NEW kind \in Kind, Fail(h, kind)
  PROVE  \E r : out' = {r} /\ FailedResult(h, kind, r)
<1> DEFINE r == [to |-> h, kind |-> kind, packet |-> NoPacket, bytes |-> 0,
                 cap |-> buf[h].cap, timed |-> timeout[h] # "none", quiet |-> call[h].quiet]
<1>1. out' = {r}
  BY Zenon DEF Fail, Answer
<1>2. FailedResult(h, kind, r)
  BY Zenon DEF FailedResult
<1> HIDE DEF r
<1> QED
  BY Zenon, <1>1, <1>2

\* What a step may do to the result: none, that of a taken datagram, or that of
\* a call that failed, with WouldBlock only from BlockingRefused and
\* BlockingTimeout.
LEMMA ResultCases ==
  ASSUME TypeOK, \A h \in Handle : CallInv(h), Next
  PROVE  \/ out' = {}
         \/ \E h \in Handle : BlockingTake(h) \/ AsyncTake(h)
         \/ \E h \in Handle : BlockingRefused(h) \/ BlockingTimeout(h)
         \/ \E h \in Handle : Fail(h, "os") \/ Fail(h, "timedout")
BY Zenon DEF Next, Options, Start, Blocking, Async, SetTimeout, SetReadBufferSize, Convert, Arrive,
     BlockingStart, BlockingSleep, BlockingError, AsyncStart, AsyncPending, AsyncElapse,
     AsyncTimeout, AsyncError, Cancel

\* An undisturbed blocking call without a timeout gets WouldBlock only from a
\* nonblocking OS socket.
LEMMA NoneBlocksStep ==
  TypeOK /\ (\A h \in Handle : CallInv(h)) /\ NoneBlocks /\ [Next]_vars => NoneBlocks'
<1> SUFFICES ASSUME TypeOK, \A h \in Handle : CallInv(h), NoneBlocks, [Next]_vars PROVE NoneBlocks'
  OBVIOUS
<1>1. CASE out' = {}
  BY Zenon, <1>1 DEF NoneBlocks
<1>2. ASSUME NEW h \in Handle, BlockingTake(h) \/ AsyncTake(h) PROVE NoneBlocks'
  <2>1. PICK r : out' = {r} /\ TakenResult(h, r)
    BY <1>2, TakesReady, TakeResult
  <2>2. r.kind # "wouldblock"
    BY Zenon, <2>1 DEF TakenResult
  <2> QED
    BY Zenon, <2>1, <2>2 DEF NoneBlocks
<1>3. ASSUME NEW h \in Handle, BlockingRefused(h) \/ BlockingTimeout(h) PROVE NoneBlocks'
  <2>1. Fail(h, "wouldblock") /\ kernel' = kernel
    BY <1>3 DEF BlockingRefused, BlockingTimeout, Fail
  <2>2. PICK r : out' = {r} /\ FailedResult(h, "wouldblock", r)
    BY <2>1, FailResult DEF Kind
  <2>3. kernel.nonblocking \/ (call[h].quiet => timeout[h] # "none")
    BY Zenon, <1>3 DEF BlockingRefused, BlockingTimeout, CallInv
  <2> QED
    BY Zenon, <2>1, <2>2, <2>3 DEF NoneBlocks, FailedResult
<1>4. ASSUME NEW h \in Handle, NEW kind \in {"os", "timedout"}, Fail(h, kind) PROVE NoneBlocks'
  <2>1. PICK r : out' = {r} /\ FailedResult(h, kind, r)
    BY <1>4, FailResult DEF Kind
  <2> QED
    BY Zenon, <1>4, <2>1 DEF NoneBlocks, FailedResult
<1>5. CASE UNCHANGED vars
  BY Zenon, <1>5 DEF vars, NoneBlocks
<1> QED
  BY <1>1, <1>2, <1>3, <1>4, <1>5, ResultCases

\* A call that looks for truncations reports an error only for its cause.
LEMMA ErrorsStep ==
  ASSUME ChecksTruncation
  PROVE  TypeOK /\ (\A h \in Handle : CallInv(h)) /\ ErrorsHaveCause /\ [Next]_vars => ErrorsHaveCause'
<1> SUFFICES ASSUME TypeOK, \A h \in Handle : CallInv(h), ErrorsHaveCause, [Next]_vars
             PROVE  ErrorsHaveCause'
  OBVIOUS
<1>1. CASE out' = {}
  BY Zenon, <1>1 DEF ErrorsHaveCause
<1>2. ASSUME NEW h \in Handle, BlockingTake(h) \/ AsyncTake(h) PROVE ErrorsHaveCause'
  <2>1. PICK r : out' = {r} /\ TakenResult(h, r)
    BY <1>2, TakesReady, TakeResult
  <2>2. ~V6 \/ call[h].op = "meta"
    <3>1. call[h].op \in Ops /\ call[h].op \in Op
      BY <1>2, TakesReady, TypeFacts DEF CallInv
    <3> QED
      BY Zenon, <3>1 DEF ChecksTruncation, Op
  <2> QED
    BY Zenon, <2>1, <2>2 DEF ErrorsHaveCause, TakenResult
<1>3. ASSUME NEW h \in Handle, NEW kind \in {"wouldblock", "os", "timedout"}, Fail(h, kind)
      PROVE  ErrorsHaveCause'
  <2>1. PICK r : out' = {r} /\ FailedResult(h, kind, r)
    BY <1>3, FailResult DEF Kind
  <2> QED
    BY Zenon, <1>3, <2>1 DEF ErrorsHaveCause, FailedResult
<1>4. CASE UNCHANGED vars
  BY Zenon, <1>4 DEF vars, ErrorsHaveCause
<1> QED
  BY <1>1, <1>2, <1>3, <1>4, ResultCases DEF BlockingRefused, BlockingTimeout

-----------------------------------------------------------------------------
(* The contract.                                                           *)

\* The abstract variables: the mapping of the INSTANCE.
Waiting == {h \in Handle : ~Idle(h)}
Told == {Verdict(r) : r \in out}

\* A step that returns nothing tells nothing.
LEMMA ToldNothing == out' = {} => Told' = {}
BY Zenon DEF Told

\* A step that returns r tells its verdict.
LEMMA ToldOne == \A r : out' = {r} => Told' = {Verdict(r)}
BY Zenon DEF Told

\* Who waits after a step that leaves all other calls as they are.
LEMMA WaitingFacts ==
  ASSUME NEW h \in Handle, \A g \in Handle : g # h => call'[g].phase = call[g].phase
  PROVE  /\ call'[h].phase = call[h].phase => Waiting' = Waiting
         /\ call'[h].phase # "idle" => Waiting' = Waiting \cup {h}
         /\ call'[h].phase = "idle" => Waiting' = Waiting \ {h}
<1>1. Waiting' = {g \in Handle : call'[g].phase # "idle"}
  BY Zenon DEF Waiting, Idle
<1>2. Waiting = {g \in Handle : call[g].phase # "idle"}
  BY Zenon DEF Waiting, Idle
<1>3. call'[h].phase = call[h].phase => Waiting' = Waiting
  BY Zenon, <1>1, <1>2
<1>4. call'[h].phase # "idle" => Waiting' = Waiting \cup {h}
  BY SMT, <1>1, <1>2
<1>5. call'[h].phase = "idle" => Waiting' = Waiting \ {h}
  BY SMT, <1>1, <1>2
<1> QED
  BY <1>3, <1>4, <1>5

\* A verdict, field by field.
LEMMA VerdictFacts ==
  ASSUME NEW r, NEW v, NEW n,
         r.packet.n = n,
         v = IF r.kind = "ok" THEN "packet"
             ELSE IF r.kind \in {"truncated", "malformed"} THEN "error" ELSE "nothing"
  PROVE  Verdict(r) = [to |-> r.to, verdict |-> v, n |-> n, bytes |-> r.bytes]
<1>1. v = CASE r.kind = "ok" -> "packet"
            [] r.kind \in {"truncated", "malformed"} -> "error"
            [] OTHER -> "nothing"
  BY Zenon
<1> QED
  BY Zenon, <1>1 DEF Verdict

\* A taken datagram is handed over whole or rejected.
LEMMA TakeKeepsContract ==
  ASSUME TypeOK, ChecksTruncation, NEW h \in Handle, CallInv(h), BlockingTake(h) \/ AsyncTake(h)
  PROVE  Contract!HandOver(h) \/ Contract!Reject(h)
<1> DEFINE p == Head(kernel.queue)
<1>1. PICK b \in Buffer : /\ b.len <= b.cap /\ b.cap = buf[h].cap
                          /\ Ready(call[h].op, b) /\ Take(h, b)
  BY TakesReady
<1>2. /\ kernel'.queue = Tail(kernel.queue) /\ call'[h].phase = "idle"
      /\ \A g \in Handle : g # h => call'[g] = call[g]
  BY <1>1, TakeKeeps
<1>3. kernel.queue # <<>>
  BY <1>1 DEF Take
<1>4. h \in Waiting /\ Waiting' = Waiting \ {h}
  <2>1. h \in Waiting
    BY TakesReady DEF Waiting
  <2>2. \A g \in Handle : g # h => call'[g].phase = call[g].phase
    BY Zenon, <1>2
  <2> QED
    BY <1>2, <2>1, <2>2, WaitingFacts
<1>5. PICK r : out' = {r} /\ TakenResult(h, r)
  BY <1>1, TakeResult
<1>6. ~V6 \/ call[h].op = "meta"
  <2>1. call[h].op \in Ops /\ call[h].op \in Op
    BY TakesReady, TypeFacts DEF CallInv
  <2> QED
    BY Zenon, <2>1 DEF ChecksTruncation, Op
<1>7. Told' = {Verdict(r)}
  BY <1>5, ToldOne
<1>8. CASE r.kind = "ok"
  <2>1. Verdict(r) = [to |-> h, verdict |-> "packet", n |-> p.n, bytes |-> p.size]
    <3>1. r.to = h /\ r.packet.n = p.n /\ r.bytes = p.size
      BY Zenon, <1>5, <1>6, <1>8 DEF TakenResult
    <3>2. "packet" = IF r.kind = "ok" THEN "packet"
                     ELSE IF r.kind \in {"truncated", "malformed"} THEN "error" ELSE "nothing"
      BY Zenon, <1>8
    <3> QED
      BY Zenon, <3>1, <3>2, VerdictFacts
  <2>2. Contract!HandOver(h)
    BY Zenon, <1>2, <1>3, <1>4, <1>7, <2>1
       DEF Contract!HandOver, Contract!Return, Waiting, Told
  <2> QED
    BY <2>2
<1>9. CASE r.kind # "ok"
  <2>1. Verdict(r) = [to |-> h, verdict |-> "error", n |-> p.n, bytes |-> 0]
    <3>1. r.to = h /\ r.packet.n = p.n /\ r.bytes = 0 /\ r.kind \in {"truncated", "malformed"}
      BY Zenon, <1>5, <1>9 DEF TakenResult
    <3>2. "error" = IF r.kind = "ok" THEN "packet"
                    ELSE IF r.kind \in {"truncated", "malformed"} THEN "error" ELSE "nothing"
      BY Zenon, <1>9, <3>1
    <3> QED
      BY Zenon, <3>1, <3>2, VerdictFacts
  <2>2. Contract!Reject(h)
    BY Zenon, <1>2, <1>3, <1>4, <1>7, <2>1
       DEF Contract!Reject, Contract!Return, Waiting, Told
  <2> QED
    BY <2>2
<1> QED
  BY <1>8, <1>9

\* A call that fails gives up, and leaves the queue as it is.
LEMMA FailKeepsContract ==
  ASSUME TypeOK, NEW h \in Handle, ~Idle(h), NEW kind \in {"wouldblock", "os", "timedout"}, Fail(h, kind)
  PROVE  Contract!GiveUp(h)
<1>1. PICK r : out' = {r} /\ FailedResult(h, kind, r)
  BY FailResult DEF Kind
<1>2. kernel' = kernel /\ call' = [call EXCEPT ![h] = NoCall]
  BY DEF Fail, Answer
<1>3. call'[h].phase = "idle" /\ \A g \in Handle : g # h => call'[g].phase = call[g].phase
  BY Zenon, <1>2, CallTypes, TypeFacts
<1>4. h \in Waiting /\ Waiting' = Waiting \ {h}
  BY <1>3, WaitingFacts DEF Waiting
<1>5. Verdict(r) = [to |-> h, verdict |-> "nothing", n |-> 0, bytes |-> 0]
  <2>1. r.to = h /\ r.packet.n = 0 /\ r.bytes = 0
    <3>1. NoPacket.n = 0
      BY SMT DEF NoPacket
    <3>2. r.to = h /\ r.packet = NoPacket /\ r.bytes = 0
      BY Zenon, <1>1 DEF FailedResult
    <3> QED
      BY Zenon, <3>1, <3>2
  <2>2. "nothing" = IF r.kind = "ok" THEN "packet"
                    ELSE IF r.kind \in {"truncated", "malformed"} THEN "error" ELSE "nothing"
    <3>1. r.kind \in {"wouldblock", "os", "timedout"}
      BY Zenon, <1>1 DEF FailedResult
    <3> QED
      BY SMT, <3>1
  <2> QED
    BY Zenon, <2>1, <2>2, VerdictFacts
<1>6. Told' = {Verdict(r)}
  BY <1>1, ToldOne
<1> QED
  BY Zenon, <1>2, <1>4, <1>5, <1>6 DEF Contract!GiveUp, Contract!Return, Waiting, Told

\* Every step is a step of the contract, or changes nothing the contract speaks
\* of; options, sleeps and polls without a datagram are internal.
LEMMA ContractStep ==
  ASSUME ChecksTruncation
  PROVE  TypeOK /\ (\A h \in Handle : CallInv(h)) /\ [Next]_vars
           => [Contract!ContractNext]_(Contract!contractVars)
<1> SUFFICES ASSUME TypeOK, \A h \in Handle : CallInv(h), [Next]_vars
             PROVE  [Contract!ContractNext]_(Contract!contractVars)
  OBVIOUS
<1>0. /\ call \in [Handle -> CallState] /\ kernel.queue \in Seq(Datagram)
      /\ arrived \in 0 .. MaxPackets
  BY TypeFacts, KernelFacts
<1>1. ASSUME out' = {}, kernel'.queue = kernel.queue,
             \A g \in Handle : call'[g].phase = call[g].phase
      PROVE  Contract!Internal
  <2>1. Told' = {}
    BY <1>1, ToldNothing
  <2>2. Waiting' = Waiting
    BY Zenon, <1>1 DEF Waiting, Idle
  <2> QED
    BY Zenon, <1>1, <2>1, <2>2 DEF Contract!Internal, Waiting, Told
<1>2. ASSUME NEW h \in Handle, Options(h) PROVE Contract!Internal
  <2>1. out' = {} /\ call' = call
    BY Zenon, <1>2 DEF Options, SetTimeout, SetReadBufferSize, Convert
  <2>2. kernel' = kernel \/ kernel' = [kernel EXCEPT !.nonblocking = TRUE]
    BY Zenon, <1>2 DEF Options, SetTimeout, SetReadBufferSize, Convert
  <2>3. kernel'.queue = kernel.queue
    BY Zenon, <2>2, KernelFacts
  <2> QED
    BY Zenon, <1>1, <2>1, <2>3
<1>3. ASSUME NEW h \in Handle, NEW op \in Ops, BlockingStart(h, op) \/ AsyncStart(h, op)
      PROVE  Contract!Begin(h)
  <2>1. op \in Op /\ "syscall" \in Phase /\ "async" \in Phase
    BY Zenon, ReceiveAssumption DEF Op, Phase
  <2>2. out' = {}
    BY Zenon, <1>3 DEF BlockingStart, AsyncStart
  <2>3. kernel'.queue = kernel.queue
    <3>1. Timeval(timeout[h]) \in BOOLEAN
      BY Zenon DEF Timeval
    <3>2. kernel' = kernel \/ kernel' = [kernel EXCEPT !.finite = Timeval(timeout[h])]
      BY Zenon, <1>3 DEF BlockingStart, AsyncStart
    <3> QED
      BY Zenon, <3>1, <3>2, KernelFacts
  <2>4. call'[h].phase # "idle"
    <3>1. PICK ph \in {"syscall", "async"} : call'[h] = [NoCall EXCEPT !.phase = ph, !.op = op]
      BY Zenon, <1>0, <1>3 DEF BlockingStart, AsyncStart
    <3> DEFINE c == [NoCall EXCEPT !.phase = ph, !.op = op]
    <3>2. c.phase = ph
      <4>1. ph \in Phase
        BY Zenon, <2>1, <3>1
      <4> QED
        BY Zenon, <2>1, <4>1, CallTypes
    <3>3. call'[h] = c
      BY <3>1
    <3> HIDE DEF c
    <3> QED
      BY Zenon, <3>1, <3>2, <3>3
  <2>5. ASSUME NEW g \in Handle, g # h PROVE call'[g].phase = call[g].phase
    <3>1. call[g] \in CallState
      BY <1>0
    <3>2. \/ call'[g] = call[g]
          \/ call'[g] = [call[g] EXCEPT !.quiet = call[g].quiet /\ call[g].phase # "syscall"]
      BY Zenon, <1>0, <1>3, <2>5 DEF BlockingStart, AsyncStart
    <3> QED
      BY Zenon, <3>1, <3>2 DEF CallState
  <2>6. Waiting' = Waiting \cup {h} /\ Told' = {}
    BY <2>2, <2>4, <2>5, WaitingFacts, ToldNothing
  <2> QED
    BY Zenon, <2>3, <2>6 DEF Contract!Begin, Waiting, Told
<1>4. ASSUME NEW h \in Handle, BlockingSleep(h) \/ AsyncPending(h) \/ AsyncElapse(h)
      PROVE  Contract!Internal
  <2>1. out' = {} /\ kernel' = kernel /\ call[h].phase # "idle"
    BY Zenon, <1>4 DEF BlockingSleep, AsyncPending, AsyncElapse
  <2>2. PICK c : /\ call' = [call EXCEPT ![h] = c]
                 /\ \/ c = [call[h] EXCEPT !.phase = "asleep", !.wait = kernel.finite]
                    \/ c = [call[h] EXCEPT !.polled = TRUE]
                    \/ c = [call[h] EXCEPT !.elapsed = TRUE]
    <3>1. CASE BlockingSleep(h)
      BY Zenon, <1>0, <3>1 DEF BlockingSleep
    <3>2. CASE AsyncPending(h) \/ AsyncElapse(h)
      BY Zenon, <3>2 DEF AsyncPending, AsyncElapse
    <3> QED
      BY <1>4, <3>1, <3>2
  <2>3. c.phase # "idle"
    <3>1. call[h] \in CallState
      BY <1>0
    <3> QED
      BY Zenon, <2>1, <2>2, <3>1 DEF CallState
  <2>4. call'[h] = c /\ \A g \in Handle : g # h => call'[g].phase = call[g].phase
    BY Zenon, <1>0, <2>2
  <2>5. Waiting' = Waiting \cup {h} /\ Told' = {}
    BY <2>1, <2>3, <2>4, WaitingFacts, ToldNothing
  <2>6. Waiting' = Waiting
    BY Zenon, <2>1, <2>5 DEF Waiting, Idle
  <2> QED
    BY Zenon, <2>1, <2>5, <2>6 DEF Contract!Internal, Waiting, Told
<1>5. ASSUME NEW h \in Handle, Cancel(h) PROVE Contract!Abandon(h)
  <2>1. out' = {} /\ kernel' = kernel /\ call' = [call EXCEPT ![h] = NoCall]
    BY <1>5 DEF Cancel
  <2>2. call'[h].phase = "idle" /\ \A g \in Handle : g # h => call'[g].phase = call[g].phase
    BY Zenon, <1>0, <2>1, CallTypes
  <2>3. Waiting' = Waiting \ {h} /\ Told' = {}
    BY <2>1, <2>2, WaitingFacts, ToldNothing
  <2> QED
    BY Zenon, <2>1, <2>3 DEF Contract!Abandon, Waiting, Told
<1>6. ASSUME NEW h \in Handle,
             BlockingRefused(h) \/ BlockingTimeout(h) \/ BlockingError(h) \/ AsyncTimeout(h) \/ AsyncError(h)
      PROVE  Contract!GiveUp(h)
  <2>1. ~Idle(h)
    BY Zenon, <1>6 DEF BlockingRefused, BlockingTimeout, BlockingError, AsyncTimeout, AsyncError, Idle
  <2>2. \E kind \in {"wouldblock", "os", "timedout"} : Fail(h, kind)
    BY Zenon, <1>6 DEF BlockingRefused, BlockingTimeout, BlockingError, AsyncTimeout, AsyncError
  <2> QED
    BY <2>1, <2>2, FailKeepsContract
<1>7. ASSUME NEW h \in Handle, BlockingTake(h) \/ AsyncTake(h)
      PROVE  Contract!HandOver(h) \/ Contract!Reject(h)
  BY <1>7, TakeKeepsContract
<1>8. ASSUME NEW q \in Packets, Arrive(q) PROVE \E d \in Datagram : Contract!Deliver(d)
  <2> DEFINE d == [n |-> arrived + 1, size |-> q.size, known |-> q.known]
  <2>1. arrived + 1 \in 1 .. MaxPackets
    BY SMT, <1>0, <1>8, Sizes DEF Arrive
  <2>2. q.known \in BOOLEAN
    BY Zenon, ReceiveAssumption
  <2>3. d \in Datagram
    BY Zenon, <2>1, <2>2 DEF Datagram
  <2>4. out' = {} /\ call' = call /\ kernel' = [kernel EXCEPT !.queue = Append(kernel.queue, d)]
    BY Zenon, <1>8 DEF Arrive
  <2> HIDE DEF d
  <2>5. Append(kernel.queue, d) \in Seq(Datagram)
    BY <1>0, <2>3, AppendProperties
  <2>6. kernel'.queue = Append(kernel.queue, d)
    BY Zenon, <2>4, <2>5, KernelFacts
  <2>7. Waiting' = Waiting /\ Told' = {}
    BY Zenon, <2>4, ToldNothing DEF Waiting, Idle
  <2>8. Contract!Deliver(d)
    BY Zenon, <2>6, <2>7 DEF Contract!Deliver, Waiting, Told
  <2> QED
    BY <2>3, <2>8
<1>9. CASE UNCHANGED vars
  BY Zenon, <1>9 DEF vars, Contract!contractVars, Idle, Verdict
<1>10. CASE Next
  BY Zenon, <1>2, <1>3, <1>4, <1>5, <1>6, <1>7, <1>8, <1>10
     DEF Next, Start, Blocking, Async, Contract!ContractNext
<1> QED
  BY Zenon, <1>9, <1>10

-----------------------------------------------------------------------------
(* The theorems.                                                           *)

\* Initially everything has its type and no call is in progress.
LEMMA ReceiveInit == Init => ReceiveInv /\ ErrorsHaveCause /\ Contract!ContractInit
<1> SUFFICES ASSUME Init PROVE ReceiveInv /\ ErrorsHaveCause /\ Contract!ContractInit
  OBVIOUS
<1>1. \A h \in Handle : call[h] = NoCall /\ call[h].phase = "idle"
  BY Zenon, CallTypes DEF Init
<1>2. call \in [Handle -> CallState]
  BY Zenon, CallTypes DEF Init
<1>3. /\ mode \in [Handle -> Mode] /\ timeout \in [Handle -> Timeout] /\ linux \in BOOLEAN
      /\ arrived \in 0 .. MaxPackets
  <2>1. 0 \in 0 .. MaxPackets
    BY SMT, Sizes
  <2> QED
    BY Zenon, <2>1, ReceiveAssumption DEF Init, Mode, Timeout
<1>4. buf \in [Handle -> Buffer] /\ \A h \in Handle : buf[h].len <= buf[h].cap
  <2> DEFINE b == [cap |-> DefaultCap, len |-> DefaultCap]
  <2>1. DefaultCap \in Nat /\ DefaultCap \in Cap
    BY Zenon, ReceiveAssumption DEF Cap
  <2>2. b \in Buffer /\ b.len <= b.cap
    BY SMT, <2>1 DEF Buffer
  <2>3. buf = [h \in Handle |-> b]
    BY DEF Init
  <2> HIDE DEF b
  <2> QED
    BY Zenon, <2>2, <2>3
<1>5. /\ kernel \in [queue: Seq(Datagram), finite: BOOLEAN, nonblocking: BOOLEAN]
      /\ kernel.queue = <<>>
  <2>1. <<>> \in Seq(Datagram)
    BY SMT
  <2> QED
    BY Zenon, <2>1 DEF Init
<1>6. out = {}
  BY DEF Init
<1>7. TypeOK
  BY Zenon, <1>1, <1>2, <1>3, <1>4, <1>5, <1>6 DEF TypeOK, Buffer, Idle
<1>8. \A h \in Handle : CallInv(h)
  BY Zenon, <1>1 DEF CallInv, Idle
<1>9. NoneBlocks /\ ErrorsHaveCause
  BY Zenon, <1>6 DEF NoneBlocks, ErrorsHaveCause
<1>10. Waiting = {} /\ Told = {}
  BY Zenon, <1>1, <1>6 DEF Waiting, Told, Idle
<1>11. Contract!ContractInit
  BY Zenon, <1>5, <1>10 DEF Contract!ContractInit, Waiting, Told
<1> QED
  BY <1>7, <1>8, <1>9, <1>11 DEF ReceiveInv

\* The inductive invariant holds in every reachable state.
THEOREM ReceiveInvariant == Spec => []ReceiveInv
<1>1. ReceiveInv /\ [Next]_vars => ReceiveInv'
  BY TypeOKStep, CallInvStep, NoneBlocksStep DEF ReceiveInv
<1> QED
  BY <1>1, ReceiveInit, PTL DEF Spec

\* Every variable keeps its type, and no read buffer is ever longer than its
\* capacity.
THEOREM TypeCorrect == Spec => []TypeOK
<1>1. ReceiveInv => TypeOK
  BY DEF ReceiveInv
<1> QED
  BY <1>1, ReceiveInvariant, PTL

\* Timeout None means to block, for any number of clones, if none of them sets
\* SO_RCVTIMEO between the two system calls of the call.
THEOREM NoneBlocksCorrect == Spec => []NoneBlocks
<1>1. ReceiveInv => NoneBlocks
  BY DEF ReceiveInv
<1> QED
  BY <1>1, ReceiveInvariant, PTL

\* Errors have their cause in the datagram and the capacity, never in what other
\* calls, timeouts or cancellations left behind; for every call but
\* IcmpSocket6::rcv_from, which does not look for truncations.
THEOREM ErrorsCorrect ==
  ASSUME ChecksTruncation
  PROVE  Spec => []ErrorsHaveCause
<1>1. ReceiveInv /\ ErrorsHaveCause /\ [Next]_vars => ErrorsHaveCause'
  BY ErrorsStep DEF ReceiveInv
<1> QED
  BY <1>1, ReceiveInit, ReceiveInvariant, PTL DEF Spec

\* The receive calls implement ReceiveContract: in arrival order, each datagram
\* to one call, whole or as an error; for every call but IcmpSocket6::rcv_from.
THEOREM ImplementsContract ==
  ASSUME ChecksTruncation
  PROVE  Spec => KeepsContract
<1>1. ReceiveInv /\ [Next]_vars => [Contract!ContractNext]_(Contract!contractVars)
  BY ContractStep DEF ReceiveInv
<1> QED
  BY <1>1, ReceiveInit, ReceiveInvariant, PTL DEF Spec, KeepsContract, Contract!ContractSpec

=============================================================================
