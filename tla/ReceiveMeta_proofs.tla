------------------------- MODULE ReceiveMeta_proofs -------------------------
(***************************************************************************)
(* ReceiveMeta, for every number of clones and packets, every clock and    *)
(* every setting of it: kernel times are those of their packets, and the   *)
(* userspace samples come after arrival and in order.                      *)
(***************************************************************************)
EXTENDS ReceiveMeta, SequenceTheorems, TLAPS

-----------------------------------------------------------------------------
(* The inductive invariant.                                                *)

\* The stamp of a packet, if any, is the realtime clock at its arrival; there is
\* one if the socket had asked, and who asked once never takes it back.
Stamped(p) ==
  /\ p.stamp \subseteq {Timespec(p.real)}
  /\ p.asked => stamping /\ p.stamp # {}

\* It arrived in the past.
Timed(p) == p.at <= now /\ p.n <= arrived

\* The call of h has a packet in hand.
Holds(h) == call[h].phase \in {"taken", "sampled"}

\* Packets wait in the order of their arrival.
QueueInv ==
  /\ \A i \in 1 .. Len(queue) : Stamped(queue[i]) /\ Timed(queue[i])
  /\ \A i, j \in 1 .. Len(queue) : i < j => queue[i].n < queue[j].n

\* What a call has in hand is older than everything that waits and newer than
\* what its handle returned before; its times are in order.
CallInv(h) ==
  /\ call[h].phase # "idle" =>
       latest[h].received_at <= call[h].began /\ call[h].began <= now
  /\ Holds(h) =>
       /\ call[h].packet \in Packet /\ Stamped(call[h].packet) /\ Timed(call[h].packet)
       /\ latest[h].n < call[h].packet.n
       /\ \A i \in 1 .. Len(queue) : call[h].packet.n < queue[i].n
  /\ call[h].phase = "sampled" =>
       /\ call[h].packet.at <= call[h].received_at /\ call[h].began <= call[h].received_at
       /\ call[h].received_at <= now

LatestInv(h) ==
  /\ latest[h].n <= arrived /\ latest[h].received_at <= now
  /\ \A i \in 1 .. Len(queue) : latest[h].n < queue[i].n

Latest == [n: Nat, received_at: Nat]

\* Everything but the result of the last step.
PacketInv ==
  /\ latest \in [Handle -> Latest]
  /\ QueueInv
  /\ \A h \in Handle : CallInv(h) /\ LatestInv(h)

\* A result tells the truth about its packet.
ResultInv ==
  /\ KernelTimeIsArrival /\ KernelTimeGiven
  /\ \A r \in Ok : r.packet.at <= r.received_at /\ r.received_at <= now

MetaInv == TypeOK /\ PacketInv /\ ResultInv

-----------------------------------------------------------------------------
(* Types.                                                                  *)

\* The times a kernel stamp can show, hidden from the provers where only their
\* existence matters.
Stamp == {{}} \cup {{Timespec(t + o)} : t \in 0 .. MaxTime, o \in Offsets}
Real == {t + o : t \in 0 .. MaxTime, o \in Offsets}

\* A packet as the set of its fields.
LEMMA PacketDef ==
  Packet = [n: 1 .. MaxPackets, peer: BOOLEAN, good: BOOLEAN, stamp: Stamp,
            at: 0 .. MaxTime, real: Real, asked: BOOLEAN]
BY SMT DEF Packet, Stamp, Real

\* A packet that arrives now has its type, stamped or not.
LEMMA ArrivalType ==
  ASSUME TypeOK, NEW peer \in BOOLEAN, NEW good \in BOOLEAN, NEW stamped \in BOOLEAN,
         arrived < MaxPackets
  PROVE  [n |-> arrived + 1, peer |-> peer, good |-> good,
          stamp |-> IF stamped THEN {Timespec(now + offset)} ELSE {},
          at |-> now, real |-> now + offset, asked |-> stamping] \in Packet
<1> DEFINE st == IF stamped THEN {Timespec(now + offset)} ELSE {}
           re == now + offset
<1>1. now \in 0 .. MaxTime /\ offset \in Offsets /\ stamping \in BOOLEAN
  BY DEF TypeOK
<1>2. st \in Stamp
  BY SMT, <1>1 DEF Stamp
<1>3. re \in Real
  BY SMT, <1>1 DEF Real
<1>4. arrived + 1 \in 1 .. MaxPackets
  BY SMT, MetaAssumption DEF TypeOK
<1> HIDE DEF st, re
<1>5. [n |-> arrived + 1, peer |-> peer, good |-> good, stamp |-> st,
       at |-> now, real |-> re, asked |-> stamping] \in Packet
  BY Zenon, <1>1, <1>2, <1>3, <1>4, PacketDef
<1> QED
  BY Zenon, <1>5 DEF st, re

\* What recvmsg returns of a packet is the packet, with its stamp or without.
LEMMA TakenType ==
  ASSUME NEW p \in Packet, NEW S \in {p.stamp, {}}
  PROVE  /\ [p EXCEPT !.stamp = S] \in Packet
         /\ [p EXCEPT !.stamp = S].stamp = S
         /\ [p EXCEPT !.stamp = S].n = p.n
         /\ [p EXCEPT !.stamp = S].at = p.at
         /\ [p EXCEPT !.stamp = S].real = p.real
         /\ [p EXCEPT !.stamp = S].asked = p.asked
<1>1. {} \in Stamp
  BY SMT DEF Stamp
<1>2. p.stamp \in Stamp
  BY SMT, PacketDef
<1>3. S \in Stamp
  BY Zenon, <1>1, <1>2
<1> QED
  BY SMT, <1>3, PacketDef

\* A call without a packet, in either phase.
LEMMA CallTypes ==
  ASSUME TypeOK
  PROVE  /\ NoCall \in CallState
         /\ [NoCall EXCEPT !.phase = "syscall", !.began = now] \in CallState
<1> DEFINE PP == Packet \cup {NoPacket}
<1>1. NoPacket \in PP
  OBVIOUS
<1>2. 0 \in 0 .. MaxTime /\ now \in 0 .. MaxTime
  BY SMT, MetaAssumption DEF TypeOK
<1>3. CallState = [phase: {"idle", "syscall", "taken", "sampled"}, began: 0 .. MaxTime,
                   packet: PP, received_at: 0 .. MaxTime]
  BY DEF CallState
<1> HIDE DEF PP
<1> QED
  BY Zenon, <1>1, <1>2, <1>3 DEF NoCall

\* Initially everything has its type.
LEMMA TypeOKInit == Init => TypeOK
<1> SUFFICES ASSUME Init PROVE TypeOK
  OBVIOUS
<1>1. 0 \in 0 .. MaxTime /\ 0 \in 0 .. MaxPackets /\ 0 \in Int
  BY SMT, MetaAssumption
<1>2. NoCall \in CallState
  <2> DEFINE PP == Packet \cup {NoPacket}
  <2>1. NoPacket \in PP
    OBVIOUS
  <2>2. CallState = [phase: {"idle", "syscall", "taken", "sampled"}, began: 0 .. MaxTime,
                     packet: PP, received_at: 0 .. MaxTime]
    BY DEF CallState
  <2> HIDE DEF PP
  <2> QED
    BY SMT, <1>1, <2>1, <2>2 DEF NoCall
<1>3. linux \in BOOLEAN /\ stamping = FALSE
  BY Zenon, MetaAssumption DEF Init
<1>4. call \in [Handle -> CallState]
  BY Zenon, <1>2 DEF Init
<1>5. queue \in Seq(Packet)
  BY SMT DEF Init
<1> QED
  BY Zenon, <1>1, <1>3, <1>4, <1>5 DEF Init, TypeOK

\* A function stays in its function space when one value is replaced.
LEMMA ExceptType ==
  \A S, T : \A f \in [S -> T] : \A x : \A v \in T : [f EXCEPT ![x] = v] \in [S -> T]
BY Zenon

\* The oldest packet, and the rest.
LEMMA QueueFacts ==
  ASSUME TypeOK, queue # <<>>
  PROVE  /\ Head(queue) \in Packet /\ Head(queue) = queue[1]
         /\ Tail(queue) \in Seq(Packet) /\ Len(queue) \in Nat /\ Len(queue) >= 1
         /\ Len(Tail(queue)) = Len(queue) - 1
         /\ \A i \in 1 .. Len(Tail(queue)) : Tail(queue)[i] = queue[i + 1]
<1>1. queue \in Seq(Packet)
  BY DEF TypeOK
<1>2. Len(queue) \in Nat /\ Len(queue) >= 1 /\ Head(queue) = queue[1]
  BY SMT, <1>1
<1> QED
  BY <1>1, <1>2, HeadTailProperties

\* Every step keeps the types.
LEMMA TypeOKStep == TypeOK /\ [Next]_vars => TypeOK'
<1> SUFFICES ASSUME TypeOK, [Next]_vars PROVE TypeOK'
  OBVIOUS
<1>0. /\ call \in [Handle -> CallState] /\ queue \in Seq(Packet)
      /\ linux \in BOOLEAN /\ stamping \in BOOLEAN
      /\ now \in 0 .. MaxTime /\ offset \in Offsets /\ arrived \in 0 .. MaxPackets
      /\ ~linux => ~stamping
  BY DEF TypeOK
<1>1. CASE Tick
  <2>1. now' \in 0 .. MaxTime
    BY SMT, <1>0, <1>1, MetaAssumption DEF Tick
  <2> QED
    BY Zenon, <1>0, <1>1, <2>1 DEF Tick, TypeOK
<1>2. ASSUME NEW o \in Offsets, SetClock(o) PROVE TypeOK'
  BY Zenon, <1>0, <1>2 DEF SetClock, TypeOK
<1>3. ASSUME NEW peer \in BOOLEAN, NEW good \in BOOLEAN, NEW stamped \in BOOLEAN,
             Arrive(peer, good, stamped)
      PROVE  TypeOK'
  <2>1. queue' \in Seq(Packet)
    BY <1>0, <1>3, ArrivalType, AppendProperties DEF Arrive
  <2>2. arrived' \in 0 .. MaxPackets
    BY SMT, <1>0, <1>3, MetaAssumption DEF Arrive
  <2> QED
    BY Zenon, <1>0, <1>3, <2>1, <2>2 DEF Arrive, TypeOK
<1>4. ASSUME NEW h \in Handle, Configure(h) PROVE TypeOK'
  BY Zenon, <1>0, <1>4 DEF Configure, TypeOK
<1>5. ASSUME NEW h \in Handle, Start(h) PROVE TypeOK'
  <2>1. call' \in [Handle -> CallState]
    BY Zenon, <1>0, <1>5, CallTypes, ExceptType DEF Start
  <2> QED
    BY Zenon, <1>0, <1>5, <2>1 DEF Start, TypeOK
<1>6. ASSUME NEW h \in Handle, Fail(h) PROVE TypeOK'
  <2>1. call' \in [Handle -> CallState]
    BY Zenon, <1>0, <1>6, CallTypes, ExceptType DEF Fail
  <2> QED
    BY Zenon, <1>0, <1>6, <2>1 DEF Fail, TypeOK
<1>7. ASSUME NEW h \in Handle, Take(h) PROVE TypeOK'
  <2> DEFINE p == [Head(queue) EXCEPT !.stamp = ControlMessages(Head(queue))]
             c == [call[h] EXCEPT !.phase = "taken", !.packet = p]
  <2>1. Head(queue) \in Packet /\ Tail(queue) \in Seq(Packet)
    BY <1>7, QueueFacts DEF Take
  <2>2. ControlMessages(Head(queue)) \in {Head(queue).stamp, {}}
    BY Zenon DEF ControlMessages
  <2>3. p \in Packet
    BY <2>1, <2>2, TakenType
  <2>4. call' = [call EXCEPT ![h] = c]
    BY Zenon, <1>0, <1>7 DEF Take
  <2>5. c \in CallState
    BY Zenon, <1>0, <2>3 DEF CallState
  <2> HIDE DEF c
  <2>6. call' \in [Handle -> CallState]
    BY Zenon, <1>0, <2>4, <2>5, ExceptType
  <2> QED
    BY Zenon, <1>0, <1>7, <2>1, <2>6 DEF Take, TypeOK
<1>8. ASSUME NEW h \in Handle, Sample(h) PROVE TypeOK'
  <2> DEFINE c == [call[h] EXCEPT !.phase = "sampled", !.received_at = now]
  <2>1. call' = [call EXCEPT ![h] = c]
    BY Zenon, <1>0, <1>8 DEF Sample
  <2>2. c \in CallState
    BY Zenon, <1>0 DEF CallState
  <2> HIDE DEF c
  <2>3. call' \in [Handle -> CallState]
    BY Zenon, <1>0, <2>1, <2>2, ExceptType
  <2> QED
    BY Zenon, <1>0, <1>8, <2>3 DEF Sample, TypeOK
<1>9. ASSUME NEW h \in Handle, Return(h) PROVE TypeOK'
  <2>1. call' \in [Handle -> CallState]
    BY Zenon, <1>0, <1>9, CallTypes, ExceptType DEF Return
  <2> QED
    BY Zenon, <1>0, <1>9, <2>1 DEF Return, TypeOK
<1>10. CASE UNCHANGED vars
  BY Zenon, <1>10 DEF vars, TypeOK
<1> QED
  BY <1>1, <1>2, <1>3, <1>4, <1>5, <1>6, <1>7, <1>8, <1>9, <1>10 DEF Next, Environment

-----------------------------------------------------------------------------
(* Packets, queue and calls.                                               *)

\* Numbers, for the provers.
LEMMA Numbers ==
  ASSUME TypeOK
  PROVE  /\ now \in Nat /\ arrived \in Nat /\ Len(queue) \in Nat
         /\ \A i \in 1 .. Len(queue) : queue[i] \in Packet
         /\ \A p \in Packet : p.n \in Nat /\ p.n > 0 /\ p.at \in Nat
         /\ \A h \in Handle : call[h].began \in Nat /\ call[h].received_at \in Nat
<1>1. now \in Nat /\ arrived \in Nat
  BY SMT, MetaAssumption DEF TypeOK
<1>2. Len(queue) \in Nat /\ \A i \in 1 .. Len(queue) : queue[i] \in Packet
  BY SMT DEF TypeOK
<1>3. \A p \in Packet : p.n \in 1 .. MaxPackets /\ p.at \in 0 .. MaxTime
  BY Zenon, PacketDef
<1>4. \A p \in Packet : p.n \in Nat /\ p.n > 0 /\ p.at \in Nat
  BY SMT, <1>3, MetaAssumption
<1>5. \A h \in Handle : call[h].began \in 0 .. MaxTime /\ call[h].received_at \in 0 .. MaxTime
  BY Zenon DEF TypeOK, CallState
<1>6. \A h \in Handle : call[h].began \in Nat /\ call[h].received_at \in Nat
  <2>1. \A t \in 0 .. MaxTime : t \in Nat
    BY SMT, MetaAssumption
  <2> QED
    BY Zenon, <1>5, <2>1
<1> QED
  BY <1>1, <1>2, <1>4, <1>6

\* What was true of a packet stays true as the clock runs, packets arrive and
\* clones ask for stamps.
LEMMA PacketKept ==
  ASSUME TypeOK, TypeOK', now <= now', arrived <= arrived', stamping => stamping',
         NEW p \in Packet
  PROVE  /\ Stamped(p) => Stamped(p)'
         /\ Timed(p) => Timed(p)'
<1>1. Stamped(p) => Stamped(p)'
  BY Zenon DEF Stamped
<1>2. /\ now \in Nat /\ now' \in Nat /\ arrived \in Nat /\ arrived' \in Nat
      /\ p.n \in Nat /\ p.at \in Nat
  <2>1. now \in Nat /\ arrived \in Nat /\ p.n \in Nat /\ p.at \in Nat
    BY Numbers
  <2>2. now' \in Nat /\ arrived' \in Nat
    BY SMT, MetaAssumption DEF TypeOK
  <2> QED
    BY <2>1, <2>2
<1>3. Timed(p) => Timed(p)'
  BY SMT, <1>2 DEF Timed
<1> QED
  BY <1>1, <1>3

\* Initially there are no packets.
LEMMA PacketInvInit == Init => PacketInv
<1> SUFFICES ASSUME Init PROVE PacketInv
  OBVIOUS
<1>1. Len(queue) = 0 /\ now = 0 /\ arrived = 0
  BY SMT DEF Init
<1>2. \A h \in Handle : call[h].phase = "idle"
  BY Zenon DEF Init, NoCall
<1>3. latest \in [Handle -> Latest] /\ \A h \in Handle : latest[h].n = 0 /\ latest[h].received_at = 0
  BY SMT DEF Init, Latest
<1>4. 1 .. Len(queue) = {}
  BY SMT, <1>1
<1>5. QueueInv
  BY Zenon, <1>4 DEF QueueInv
<1>6. \A h \in Handle : CallInv(h)
  BY Zenon, <1>2 DEF CallInv, Holds
<1>7. \A h \in Handle : LatestInv(h)
  <2>1. 0 <= 0
    BY SMT
  <2> QED
    BY Zenon, <1>1, <1>3, <1>4, <2>1 DEF LatestInv
<1> QED
  BY <1>3, <1>5, <1>6, <1>7 DEF PacketInv

\* A step that takes nothing from the queue and adds nothing: the clocks, the
\* socket option, or calls that change as CallInv allows.
LEMMA QuietStep ==
  ASSUME TypeOK, TypeOK', PacketInv, now <= now', stamping => stamping',
         UNCHANGED <<queue, arrived, latest>>,
         \A h \in Handle : call'[h] = call[h] \/ CallInv(h)'
  PROVE  PacketInv'
<1>1. /\ now \in Nat /\ arrived \in Nat /\ Len(queue) \in Nat /\ now' \in Nat
      /\ \A i \in 1 .. Len(queue) : queue[i] \in Packet
      /\ latest \in [Handle -> Latest]
      /\ \A h \in Handle : call[h].began \in Nat /\ call[h].received_at \in Nat
  <2>1. now' \in Nat
    BY SMT, MetaAssumption DEF TypeOK
  <2> QED
    BY <2>1, Numbers DEF PacketInv
<1>2. queue' = queue /\ arrived' = arrived /\ latest' = latest /\ arrived <= arrived'
  BY SMT, <1>1
<1>3. \A p \in Packet : (Stamped(p) => Stamped(p)') /\ (Timed(p) => Timed(p)')
  BY <1>2, PacketKept
<1>4. QueueInv'
  BY Zenon, <1>1, <1>2, <1>3 DEF PacketInv, QueueInv
<1>5. ASSUME NEW h \in Handle PROVE CallInv(h)'
  <2>1. CASE CallInv(h)'
    BY <2>1
  <2>2. CASE call'[h] = call[h]
    <3>1. call'[h] = call[h] /\ CallInv(h)
      BY <2>2 DEF PacketInv
    <3>2. call[h].began <= now => call'[h].began <= now'
      BY SMT, <1>1, <3>1
    <3>3. call[h].received_at <= now => call'[h].received_at <= now'
      BY SMT, <1>1, <3>1
    <3> QED
      BY Zenon, <1>2, <1>3, <3>1, <3>2, <3>3 DEF CallInv, Holds
  <2> QED
    BY <2>1, <2>2
<1>6. ASSUME NEW h \in Handle PROVE LatestInv(h)'
  <2>1. LatestInv(h) /\ latest[h].n \in Nat /\ latest[h].received_at \in Nat
    BY SMT, <1>1 DEF PacketInv, Latest
  <2> QED
    BY SMT, <1>1, <1>2, <2>1 DEF LatestInv
<1> QED
  BY <1>1, <1>2, <1>4, <1>5, <1>6 DEF PacketInv

\* A packet arrives behind all others.
LEMMA ArriveStep ==
  ASSUME TypeOK, TypeOK', PacketInv,
         NEW peer \in BOOLEAN, NEW good \in BOOLEAN, NEW stamped \in BOOLEAN,
         Arrive(peer, good, stamped)
  PROVE  PacketInv'
<1>0. PICK p : p = [n |-> arrived + 1, peer |-> peer, good |-> good,
                    stamp |-> IF stamped THEN {Timespec(now + offset)} ELSE {},
                    at |-> now, real |-> now + offset, asked |-> stamping]
  OBVIOUS
<1>1. p \in Packet
  BY <1>0, ArrivalType DEF Arrive
<1>2. /\ queue' = Append(queue, p) /\ arrived' = arrived + 1
      /\ now' = now /\ stamping' = stamping /\ call' = call /\ latest' = latest
      /\ stamping => stamped
  BY Zenon, <1>0 DEF Arrive
<1>3. p.n = arrived + 1 /\ p.at = now /\ p.real = now + offset
  BY Zenon, <1>0
<1>4. Stamped(p)
  <2>1. p.stamp = (IF stamped THEN {Timespec(now + offset)} ELSE {}) /\ p.asked = stamping
    BY Zenon, <1>0
  <2> QED
    BY Zenon, <1>2, <1>3, <2>1 DEF Stamped
<1>5. /\ now \in Nat /\ arrived \in Nat /\ Len(queue) \in Nat
      /\ \A i \in 1 .. Len(queue) : queue[i] \in Packet
      /\ \A q \in Packet : q.n \in Nat
      /\ latest \in [Handle -> Latest]
  BY Numbers DEF PacketInv
<1>6. now <= now' /\ arrived <= arrived'
  BY SMT, <1>2, <1>5
<1>7. \A q \in Packet : (Stamped(q) => Stamped(q)') /\ (Timed(q) => Timed(q)')
  BY <1>2, <1>6, PacketKept
<1>8. /\ Len(queue') = Len(queue) + 1 /\ queue'[Len(queue) + 1] = p
      /\ \A i \in 1 .. Len(queue) : queue'[i] = queue[i]
  BY <1>1, <1>2, AppendProperties DEF TypeOK
<1>9. Timed(p)'
  BY SMT, <1>2, <1>3, <1>5 DEF Timed
<1>10. \A i \in 1 .. Len(queue') : i = Len(queue) + 1 \/ i \in 1 .. Len(queue)
  BY SMT, <1>5, <1>8
<1>11. (\A i \in 1 .. Len(queue) : Stamped(queue[i]) /\ Timed(queue[i]))'
  BY Zenon, <1>1, <1>4, <1>5, <1>7, <1>8, <1>9, <1>10 DEF PacketInv, QueueInv
<1>12. \A i \in 1 .. Len(queue) : queue[i].n < p.n
  <2>1. \A i \in 1 .. Len(queue) : queue[i].n <= arrived
    BY Zenon DEF PacketInv, QueueInv, Timed
  <2> QED
    BY SMT, <1>3, <1>5, <2>1
<1>13. \A i, j \in 1 .. Len(queue') : i < j => queue'[i].n < queue'[j].n
  BY SMT, <1>5, <1>8, <1>12 DEF PacketInv, QueueInv
<1>14. QueueInv'
  BY Zenon, <1>11, <1>13 DEF QueueInv
<1>15. ASSUME NEW h \in Handle PROVE CallInv(h)'
  <2>1. CallInv(h) /\ call'[h] = call[h]
    BY <1>2 DEF PacketInv
  <2>2. ASSUME Holds(h) PROVE \A i \in 1 .. Len(queue') : call[h].packet.n < queue'[i].n
    <3>1. call[h].packet \in Packet /\ call[h].packet.n <= arrived
          /\ \A i \in 1 .. Len(queue) : call[h].packet.n < queue[i].n
      BY Zenon, <2>1, <2>2 DEF CallInv, Timed
    <3> QED
      BY SMT, <1>3, <1>5, <1>8, <1>10, <3>1
  <2> QED
    BY Zenon, <1>2, <1>7, <2>1, <2>2 DEF CallInv, Holds
<1>16. ASSUME NEW h \in Handle PROVE LatestInv(h)'
  <2>1. /\ LatestInv(h) /\ latest'[h] = latest[h]
        /\ latest[h].n \in Nat /\ latest[h].received_at \in Nat
    BY SMT, <1>2, <1>5 DEF PacketInv, Latest
  <2> QED
    BY SMT, <1>2, <1>3, <1>5, <1>8, <1>10, <2>1 DEF LatestInv
<1> QED
  BY <1>2, <1>5, <1>14, <1>15, <1>16 DEF PacketInv

\* The oldest packet moves from the queue to the call: its stamp is passed on
\* if the socket asks for stamps now, hence if it asked at arrival.
LEMMA TakeStep ==
  ASSUME TypeOK, TypeOK', PacketInv, NEW h \in Handle, Take(h)
  PROVE  PacketInv'
<1>0. /\ call \in [Handle -> CallState] /\ latest \in [Handle -> Latest]
      /\ queue # <<>> /\ queue' = Tail(queue) /\ call[h].phase = "syscall"
      /\ now' = now /\ arrived' = arrived /\ stamping' = stamping /\ latest' = latest
  BY DEF TypeOK, PacketInv, Take
<1>1. PICK p : p = [Head(queue) EXCEPT !.stamp = ControlMessages(Head(queue))]
  OBVIOUS
<1>2. /\ Head(queue) \in Packet /\ Head(queue) = queue[1]
      /\ Len(queue) \in Nat /\ Len(queue) >= 1 /\ Len(queue') = Len(queue) - 1
      /\ \A i \in 1 .. Len(queue') : queue'[i] = queue[i + 1]
  BY <1>0, QueueFacts
<1>3. ControlMessages(Head(queue)) \in {Head(queue).stamp, {}}
  BY Zenon DEF ControlMessages
<1>4. /\ p \in Packet /\ p.stamp = ControlMessages(Head(queue))
      /\ p.n = Head(queue).n /\ p.at = Head(queue).at
      /\ p.real = Head(queue).real /\ p.asked = Head(queue).asked
  BY <1>1, <1>2, <1>3, TakenType
<1>5. /\ now \in Nat /\ arrived \in Nat
      /\ \A i \in 1 .. Len(queue) : queue[i] \in Packet
      /\ \A q \in Packet : q.n \in Nat
  BY Numbers
<1>6. 1 \in 1 .. Len(queue) /\ \A i \in 1 .. Len(queue') : i + 1 \in 1 .. Len(queue) /\ 1 < i + 1
  BY SMT, <1>2
<1>7. Stamped(Head(queue)) /\ Timed(Head(queue))
  BY Zenon, <1>2, <1>6 DEF PacketInv, QueueInv
<1>8. Stamped(p)' /\ Timed(p)'
  <2>1. Stamped(p)
    BY Zenon, <1>4, <1>7 DEF Stamped, ControlMessages
  <2>2. Timed(p)
    BY Zenon, <1>4, <1>7 DEF Timed
  <2> QED
    BY Zenon, <1>0, <2>1, <2>2 DEF Stamped, Timed
<1>9. \A q : (Stamped(q) => Stamped(q)') /\ (Timed(q) => Timed(q)')
  BY Zenon, <1>0 DEF Stamped, Timed
<1>10. QueueInv'
  <2>1. (\A i \in 1 .. Len(queue) : Stamped(queue[i]) /\ Timed(queue[i]))'
    BY Zenon, <1>2, <1>6, <1>9 DEF PacketInv, QueueInv
  <2>2. \A i, j \in 1 .. Len(queue') : i < j => i + 1 < j + 1
    BY SMT, <1>2
  <2>3. \A i, j \in 1 .. Len(queue') : i < j => queue'[i].n < queue'[j].n
    BY Zenon, <1>2, <1>6, <2>2 DEF PacketInv, QueueInv
  <2> QED
    BY Zenon, <2>1, <2>3 DEF QueueInv
<1>11. \A i \in 1 .. Len(queue') : p.n < queue'[i].n
  BY Zenon, <1>2, <1>4, <1>6 DEF PacketInv, QueueInv
<1>12. latest[h].n < p.n
  BY Zenon, <1>2, <1>4, <1>6 DEF PacketInv, LatestInv
<1>13. CallInv(h)'
  <2>1. /\ call'[h].phase = "taken" /\ call'[h].packet = p /\ call'[h].began = call[h].began
    <3> DEFINE c == [call[h] EXCEPT !.phase = "taken", !.packet = p]
    <3>0. call'[h] = [call[h] EXCEPT !.phase = "taken",
                          !.packet = [Head(queue) EXCEPT !.stamp = ControlMessages(Head(queue))]]
      BY Zenon, <1>0 DEF Take
    <3>1. call'[h] = c
      BY Zenon, <1>1, <3>0
    <3>3. c.phase = "taken" /\ c.packet = p /\ c.began = call[h].began
      BY Zenon, <1>0 DEF CallState
    <3> HIDE DEF c
    <3> QED
      BY Zenon, <3>1, <3>3
  <2>2. latest[h].received_at <= call[h].began /\ call[h].began <= now
    BY Zenon, <1>0 DEF PacketInv, CallInv
  <2> QED
    BY Zenon, <1>0, <1>4, <1>8, <1>11, <1>12, <2>1, <2>2 DEF CallInv, Holds
<1>14. ASSUME NEW g \in Handle, g # h PROVE CallInv(g)'
  <2>1. call'[g] = call[g] /\ CallInv(g)
    BY Zenon, <1>0, <1>14 DEF Take, PacketInv
  <2> QED
    BY Zenon, <1>0, <1>2, <1>6, <1>9, <2>1 DEF CallInv, Holds
<1>15. ASSUME NEW g \in Handle PROVE LatestInv(g)'
  BY Zenon, <1>0, <1>2, <1>6 DEF PacketInv, LatestInv
<1> QED
  BY Zenon, <1>0, <1>10, <1>13, <1>14, <1>15 DEF PacketInv

\* A call returns: what it had in hand is now the latest of its handle.
LEMMA ReturnStep ==
  ASSUME TypeOK, TypeOK', PacketInv, NEW h \in Handle, Return(h)
  PROVE  PacketInv'
<1>0. /\ call \in [Handle -> CallState] /\ latest \in [Handle -> Latest]
      /\ call[h].phase = "sampled" /\ queue' = queue
      /\ now' = now /\ arrived' = arrived /\ stamping' = stamping
      /\ call' = [call EXCEPT ![h] = NoCall]
  BY DEF TypeOK, PacketInv, Return
<1> DEFINE l == [n |-> call[h].packet.n, received_at |-> call[h].received_at]
<1>1. latest' = latest \/ latest' = [latest EXCEPT ![h] = l]
  BY Zenon DEF Return
<1>2. /\ call[h].packet \in Packet /\ call[h].packet.n <= arrived
      /\ \A i \in 1 .. Len(queue) : call[h].packet.n < queue[i].n
      /\ call[h].received_at <= now
  BY Zenon, <1>0 DEF PacketInv, CallInv, Holds, Timed
<1>3. l \in Latest /\ l.n = call[h].packet.n /\ l.received_at = call[h].received_at
  BY SMT, <1>2, Numbers DEF Latest
<1> HIDE DEF l
<1>4. latest' \in [Handle -> Latest] /\ \A g \in Handle : g # h => latest'[g] = latest[g]
  BY Zenon, <1>0, <1>1, <1>3, ExceptType
<1>5. LatestInv(h)'
  <2>1. latest'[h] = latest[h] \/ latest'[h] = l
    BY Zenon, <1>0, <1>1
  <2> QED
    BY Zenon, <1>0, <1>2, <1>3, <2>1 DEF PacketInv, LatestInv
<1>6. CallInv(h)'
  <2>1. call'[h].phase = "idle"
    BY Zenon, <1>0 DEF NoCall
  <2> QED
    BY Zenon, <2>1 DEF CallInv, Holds
<1>7. ASSUME NEW g \in Handle, g # h PROVE CallInv(g)' /\ LatestInv(g)'
  <2>1. call'[g] = call[g] /\ latest'[g] = latest[g]
    BY Zenon, <1>0, <1>4, <1>7
  <2> QED
    BY Zenon, <1>0, <2>1 DEF PacketInv, CallInv, LatestInv, Holds, Stamped, Timed
<1>8. QueueInv'
  BY Zenon, <1>0 DEF PacketInv, QueueInv, Stamped, Timed
<1> QED
  BY Zenon, <1>4, <1>5, <1>6, <1>7, <1>8 DEF PacketInv

\* Every step preserves what is known of packets and calls.
LEMMA PacketInvStep == TypeOK /\ PacketInv /\ [Next]_vars => PacketInv'
<1> SUFFICES ASSUME TypeOK, PacketInv, [Next]_vars PROVE PacketInv'
  OBVIOUS
<1>0. /\ TypeOK' /\ now \in Nat /\ now <= now /\ call \in [Handle -> CallState]
      /\ \A h \in Handle : call[h].began \in Nat
      /\ \A p \in Packet : p.at \in Nat
  <2>1. now \in Nat
    BY Numbers
  <2>2. now <= now
    BY SMT, <2>1
  <2> QED
    BY <2>1, <2>2, TypeOKStep, Numbers DEF TypeOK
<1>1. CASE Tick \/ (\E o \in Offsets : SetClock(o)) \/ \E h \in Handle : Configure(h)
  <2>1. call' = call /\ UNCHANGED <<queue, arrived, latest>>
    BY Zenon, <1>1 DEF Tick, SetClock, Configure
  <2>4. stamping => stamping'
    <3>1. stamping' = stamping \/ stamping' = (stamping \/ linux)
      BY Zenon, <1>1 DEF Tick, SetClock, Configure
    <3> QED
      BY Zenon, <3>1
  <2>2. now' \in {now, now + 1}
    BY Zenon, <1>1 DEF Tick, SetClock, Configure
  <2>3. now <= now'
    BY SMT, <1>0, <2>2
  <2> QED
    BY <1>0, <2>1, <2>3, <2>4, QuietStep
<1>2. ASSUME NEW peer \in BOOLEAN, NEW good \in BOOLEAN, NEW stamped \in BOOLEAN,
             Arrive(peer, good, stamped)
      PROVE  PacketInv'
  BY <1>0, <1>2, ArriveStep
<1>3. ASSUME NEW h \in Handle, Start(h) PROVE PacketInv'
  <2>1. /\ UNCHANGED <<queue, arrived, latest>> /\ now' = now /\ stamping' = stamping
        /\ \A g \in Handle : g # h => call'[g] = call[g]
    BY Zenon, <1>0, <1>3 DEF Start
  <2>2. call'[h].phase = "syscall" /\ call'[h].began = now
    BY Zenon, <1>0, <1>3 DEF Start, NoCall
  <2>3. CallInv(h)'
    BY Zenon, <1>0, <2>1, <2>2 DEF CallInv, Holds, PacketInv, LatestInv
  <2> QED
    BY Zenon, <1>0, <2>1, <2>3, QuietStep
<1>4. ASSUME NEW h \in Handle, Fail(h) PROVE PacketInv'
  <2>1. /\ UNCHANGED <<queue, arrived, latest>> /\ now' = now /\ stamping' = stamping
        /\ \A g \in Handle : g # h => call'[g] = call[g]
    BY Zenon, <1>0, <1>4 DEF Fail
  <2>2. call'[h].phase = "idle"
    BY Zenon, <1>0, <1>4 DEF Fail, NoCall
  <2>3. CallInv(h)'
    BY Zenon, <2>2 DEF CallInv, Holds
  <2> QED
    BY Zenon, <1>0, <2>1, <2>3, QuietStep
<1>5. ASSUME NEW h \in Handle, Take(h) PROVE PacketInv'
  BY <1>0, <1>5, TakeStep
<1>6. ASSUME NEW h \in Handle, Sample(h) PROVE PacketInv'
  <2>1. /\ UNCHANGED <<queue, arrived, latest>> /\ now' = now /\ stamping' = stamping
        /\ \A g \in Handle : g # h => call'[g] = call[g]
    BY Zenon, <1>0, <1>6 DEF Sample
  <2>2. CallInv(h) /\ call[h].phase = "taken"
    BY Zenon, <1>6 DEF Sample, PacketInv
  <2>3. /\ call'[h].phase = "sampled" /\ call'[h].received_at = now
        /\ call'[h].packet = call[h].packet /\ call'[h].began = call[h].began
    <3> DEFINE c == [call[h] EXCEPT !.phase = "sampled", !.received_at = now]
    <3>1. call'[h] = c
      BY Zenon, <1>0, <1>6 DEF Sample
    <3>2. c.phase = "sampled" /\ c.received_at = now /\ c.packet = call[h].packet
          /\ c.began = call[h].began
      BY Zenon, <1>0 DEF CallState
    <3> HIDE DEF c
    <3> QED
      BY Zenon, <3>1, <3>2
  <2>4. CallInv(h)'
    BY Zenon, <1>0, <2>1, <2>2, <2>3 DEF CallInv, Holds, Stamped, Timed
  <2> QED
    BY Zenon, <1>0, <2>1, <2>4, QuietStep
<1>7. ASSUME NEW h \in Handle, Return(h) PROVE PacketInv'
  BY <1>0, <1>7, ReturnStep
<1>8. CASE UNCHANGED vars
  BY Zenon, <1>8 DEF vars, PacketInv, QueueInv, CallInv, LatestInv, Holds, Stamped, Timed
<1> QED
  BY <1>1, <1>2, <1>3, <1>4, <1>5, <1>6, <1>7, <1>8 DEF Next, Environment

-----------------------------------------------------------------------------
(* Results.                                                                *)

\* Splitting a time into seconds and ticks and putting it together again gives
\* the time back, and None for a time before 1970.
LEMMA TimespecRoundTrip ==
  ASSUME NEW t \in Int
  PROVE  SystemTimeFromTimespec(Timespec(t)) = IF t >= 0 THEN {t} ELSE {}
<1> DEFINE q == t \div Second
           r == t % Second
<1>1. Second \in Nat /\ Second > 0
  BY SMT, MetaAssumption
<1>2. q \in Int /\ r \in 0 .. Second - 1 /\ t = q * Second + r
  BY SMT, <1>1
<1>3. Timespec(t).tv_sec = q /\ Timespec(t).tv_nsec = r
  BY Zenon DEF Timespec
<1> HIDE DEF q, r
<1>4. t >= 0 <=> ~(q < 0)
  <2>1. \A a \in Int : a < 0 => a * Second <= 0 - Second
    BY SMT, <1>1
  <2>2. \A a \in Int : a >= 0 => a * Second >= 0
    BY SMT, <1>1
  <2> DEFINE m == q * Second
  <2>3. m \in Int /\ (q < 0 => m <= 0 - Second) /\ (q >= 0 => m >= 0) /\ t = m + r
    BY SMT, <1>1, <1>2, <2>1, <2>2
  <2> HIDE DEF m
  <2> QED
    BY SMT, <1>1, <1>2, <2>3
<1>5. ~(r < 0) /\ ~(r >= Second)
  BY SMT, <1>1, <1>2
<1> QED
  BY Zenon, <1>2, <1>3, <1>4, <1>5 DEF SystemTimeFromTimespec

\* Only a return has a result, and it tells the truth: its packet is the one in
\* hand, whose stamp and times PacketInv describes.
LEMMA ResultStep == TypeOK /\ PacketInv /\ ResultInv /\ [Next]_vars => ResultInv'
<1> SUFFICES ASSUME TypeOK, PacketInv, ResultInv, [Next]_vars PROVE ResultInv'
  OBVIOUS
<1>1. CASE out' = {}
  BY Zenon, <1>1 DEF ResultInv, KernelTimeIsArrival, KernelTimeGiven, Ok
<1>2. ASSUME NEW h \in Handle, Return(h) PROVE ResultInv'
  <2> DEFINE p == call[h].packet
  <2>1. /\ p \in Packet /\ Stamped(p)
        /\ p.at <= call[h].received_at /\ call[h].received_at <= now
    BY Zenon, <1>2 DEF Return, PacketInv, CallInv, Holds
  <2>2. PICK x : /\ out' = {x} /\ x.packet = p
                 /\ x.kind = "ok" => /\ x.received_at = call[h].received_at
                                     /\ x.kernel_rx_timestamp = Meta(h)
    <3> DEFINE y == [kind |-> Outcome(p), packet |-> p,
                     received_at |-> IF Outcome(p) = "ok" THEN call[h].received_at ELSE 0,
                     kernel_rx_timestamp |-> IF Outcome(p) = "ok" THEN Meta(h) ELSE {}]
    <3>1. out' = {y}
      BY Zenon, <1>2 DEF Return
    <3>2. /\ y.kind = Outcome(p) /\ y.packet = p
          /\ y.received_at = (IF Outcome(p) = "ok" THEN call[h].received_at ELSE 0)
          /\ y.kernel_rx_timestamp = (IF Outcome(p) = "ok" THEN Meta(h) ELSE {})
      BY Zenon
    <3> HIDE DEF y
    <3> QED
      BY Zenon, <3>1, <3>2
  <2> HIDE DEF p
  <2>3. p.real \in Int
    <3>1. p.real \in Real
      BY Zenon, <2>1, PacketDef
    <3> QED
      BY SMT, <3>1, MetaAssumption DEF Real
  <2>4. SystemTimeFromTimespec(Timespec(p.real)) = IF p.real >= 0 THEN {p.real} ELSE {}
    BY <2>3, TimespecRoundTrip
  <2>5. Meta(h) \subseteq {p.real}
    BY Zenon, <2>1, <2>4 DEF Meta, ReceiveTimestamp, Stamped, p
  <2>6. p.asked /\ p.real >= 0 => Meta(h) # {}
    <3> SUFFICES ASSUME p.asked, p.real >= 0 PROVE Meta(h) # {}
      OBVIOUS
    <3>1. linux /\ p.stamp = {Timespec(p.real)}
      BY Zenon, <2>1 DEF Stamped, TypeOK
    <3>2. Meta(h) = UNION {SystemTimeFromTimespec(ts) : ts \in p.stamp}
      BY Zenon, <3>1 DEF Meta, ReceiveTimestamp, p
    <3>3. p.real \in Meta(h)
      <4>1. Timespec(p.real) \in p.stamp /\ p.real \in SystemTimeFromTimespec(Timespec(p.real))
        BY Zenon, <2>4, <3>1
      <4> QED
        BY Zenon, <3>2, <4>1
    <3> QED
      BY Zenon, <3>3
  <2>7. now' = now
    BY <1>2 DEF Return
  <2> QED
    BY Zenon, <2>1, <2>2, <2>5, <2>6, <2>7
       DEF ResultInv, KernelTimeIsArrival, KernelTimeGiven, Ok
<1>3. CASE UNCHANGED vars
  BY Zenon, <1>3 DEF vars, ResultInv, KernelTimeIsArrival, KernelTimeGiven, Ok
<1> QED
  BY <1>1, <1>2, <1>3 DEF Next, Environment, Tick, SetClock, Arrive, Configure, Start, Fail, Take, Sample

-----------------------------------------------------------------------------
(* The theorems.                                                           *)

\* The inductive invariant holds in every reachable state.
THEOREM MetaInvariant == Spec => []MetaInv
<1>1. Init => MetaInv
  <2>1. Init => ResultInv
    BY Zenon DEF Init, ResultInv, KernelTimeIsArrival, KernelTimeGiven, Ok
  <2> QED
    BY <2>1, TypeOKInit, PacketInvInit DEF MetaInv
<1>2. MetaInv /\ [Next]_vars => MetaInv'
  BY TypeOKStep, PacketInvStep, ResultStep DEF MetaInv
<1> QED
  BY <1>1, <1>2, PTL DEF Spec

\* Clocks, queue, calls and the socket option keep their types, and only Linux
\* ever sets the option.
THEOREM TypeCorrect == Spec => []TypeOK
<1>1. MetaInv => TypeOK
  BY DEF MetaInv
<1> QED
  BY <1>1, MetaInvariant, PTL

\* kernel_rx_timestamp is the realtime clock at the arrival of the very packet
\* it comes with, or None, for any number of clones that take packets at once
\* and however the clock is set meanwhile.
THEOREM KernelTimeCorrect == Spec => []KernelTimeIsArrival
<1>1. MetaInv => KernelTimeIsArrival
  BY DEF MetaInv, ResultInv
<1> QED
  BY <1>1, MetaInvariant, PTL

\* A packet that arrives after enable_receive_metadata comes with its time, to
\* whichever clone takes it.
THEOREM KernelTimeComplete == Spec => []KernelTimeGiven
<1>1. MetaInv => KernelTimeGiven
  BY DEF MetaInv, ResultInv
<1> QED
  BY <1>1, MetaInvariant, PTL

\* received_at lies between arrival and return, after the call began, and one
\* handle's results have packets and samples in the same order.
THEOREM ReceivedAtCorrect == Spec => []ReceivedAtAfterArrival
<1>1. MetaInv => ReceivedAtAfterArrival
  <2> SUFFICES ASSUME MetaInv, NEW h \in Handle, call[h].phase = "sampled"
               PROVE  /\ call[h].began <= call[h].received_at
                      /\ latest[h].received_at <= call[h].received_at
                      /\ latest[h].n < call[h].packet.n
    BY DEF ReceivedAtAfterArrival, MetaInv, ResultInv
  <2>1. /\ latest[h].received_at <= call[h].began /\ call[h].began <= call[h].received_at
        /\ latest[h].n < call[h].packet.n
    BY Zenon DEF MetaInv, PacketInv, CallInv, Holds
  <2>2. latest[h].received_at \in Nat /\ call[h].began \in Nat /\ call[h].received_at \in Nat
    BY Numbers DEF MetaInv, PacketInv, Latest
  <2> QED
    BY SMT, <2>1, <2>2
<1> QED
  BY <1>1, MetaInvariant, PTL

=============================================================================
