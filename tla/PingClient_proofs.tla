------------------------- MODULE PingClient_proofs -------------------------
(***************************************************************************)
(* PingClient, for any number of programs, hosts, rounds and network       *)
(* faults: what a program prints answers a request that was sent from this *)
(* machine, the printed time is the reply's own, and the programs pace     *)
(* themselves.                                                             *)
(***************************************************************************)
EXTENDS PingClient, SequenceTheorems, TLAPS

-----------------------------------------------------------------------------
(* The inductive invariant.                                                *)

History == [orderly: BOOLEAN, rested: BOOLEAN, erred: BOOLEAN]

\* The parts of the state TypeOK says too little of to update them.
ClientTypes ==
  /\ job \in Jobs /\ round \in [Client -> Nat] /\ history \in [Client -> History]

\* p carries what its asker put into it, in a round that has begun.
Genuine(p) ==
  /\ p.asker \in Client /\ p.identifier = Identifier(p.asker)
  /\ p.round <= round[p.asker]

\* What is under way is a request as it was sent, to the host its asker pings.
NetInv ==
  \A p \in net :
    /\ Genuine(p) /\ p.kind = "request" /\ p.intact
    /\ p.to = Target(p.asker)

\* What waits in a queue has passed the kernel's delivery, and is stray, or comes
\* of a request; then, if it is a reply, the pinged host sent it.
Known(c, p) ==
  /\ Sees(c, p)
  /\ \/ p \in Stray
     \/ Genuine(p) /\ (p.kind = "reply" => p.from = Target(p.asker))

QueueInv == \A c \in Client : \A i \in 1 .. Len(queue[c]) : Known(c, queue[c][i])

\* A reply to c, and the request of its current round, not yet answered.
Mine(c, p) == p.kind = "reply" /\ p.asker = c
Asks(c, p) == p.asker = c /\ ~p.copy /\ p.round = round[c]

\* While the network is orderly towards c and nobody's replies pass for its own,
\* at most one reply to c is queued, the one to the current round, and then its
\* request is answered; none is while c does not wait.
OrderlyInv(c) ==
  history[c].orderly /\ Alone(c) =>
    /\ \A i \in 1 .. Len(queue[c]) :
         Mine(c, queue[c][i]) => queue[c][i].round = round[c] /\ pc[c] = "wait"
    /\ \A i, j \in 1 .. Len(queue[c]) :
         Mine(c, queue[c][i]) /\ Mine(c, queue[c][j]) => i = j
    /\ \A p \in net, i \in 1 .. Len(queue[c]) : ~(Asks(c, p) /\ Mine(c, queue[c][i]))
    /\ \A p, q \in net : Asks(c, p) /\ Asks(c, q) => p = q

\* Who is about to send has rested, or is a raw program after an error.
PaceInv == \A c \in Client : pc[c] = "send" => history[c].rested \/ (Raw(c) /\ history[c].erred)

ReportInv == PrintsOwnReplies /\ TimeIsOwn

\* Everything but the result of the last step.
RunInv ==
  /\ TypeOK /\ ClientTypes
  /\ NetInv /\ QueueInv /\ (\A c \in Client : OrderlyInv(c)) /\ PaceInv

PingInv == RunInv /\ ReportInv

-----------------------------------------------------------------------------
(* Packets and queues.                                                     *)

\* The types of what a job says of its program.
LEMMA JobFacts ==
  ASSUME job \in Jobs, NEW c \in Client
  PROVE  /\ Target(c) \in Host /\ Program(c) \in {"ping4", "ping6", "async"}
         /\ V6(c) \in BOOLEAN /\ Raw(c) \in BOOLEAN
         /\ Identifier(c) \in U16
<1>1. job[c] \in [program: {"ping4", "ping6", "async"}, target: Host]
  BY Zenon, PingAssumption
<1>2. Target(c) \in Host /\ Program(c) \in {"ping4", "ping6", "async"}
  BY Zenon, <1>1 DEF Target, Program
<1>3. V6(c) \in BOOLEAN /\ Raw(c) \in BOOLEAN
  BY Zenon DEF V6, Raw
<1>4. 42 \in U16
  BY SMT DEF U16
<1>5. Port[c] \in U16
  BY Zenon, PingAssumption
<1> QED
  BY Zenon, <1>2, <1>3, <1>4, <1>5 DEF Identifier

\* A request is well formed: the sequence number is reduced.
LEMMA RequestFacts ==
  ASSUME job \in Jobs, NEW c \in Client, round[c] \in Nat, NEW p, p = Request(c)
  PROVE  /\ p \in Packet /\ p.kind = "request" /\ p.to = Target(c) /\ p.intact = TRUE
         /\ p.asker = c /\ p.identifier = Identifier(c)
         /\ p.round = round[c] + 1 /\ p.copy = FALSE
<1>1. Sequence(round[c]) \in 0 .. SeqMod - 1
  BY PingAssumption DEF Sequence
<1>2. round[c] + 1 \in Nat
  OBVIOUS
<1>3. Local \in Host
  BY PingAssumption
<1> QED
  BY Zenon, <1>1, <1>2, <1>3, JobFacts DEF Request, Packet

\* A reply keeps everything of its request but the direction.
LEMMA ReplyFacts ==
  ASSUME NEW p \in Packet, NEW r, r = Reply(p)
  PROVE  /\ r \in Packet /\ r.kind = "reply" /\ r.from = p.to /\ r.intact = p.intact
         /\ r.asker = p.asker /\ r.identifier = p.identifier
         /\ r.round = p.round /\ r.copy = p.copy
<1>1. Local \in Host
  BY PingAssumption
<1> QED
  BY Zenon, <1>1 DEF Reply, Packet

\* So does a second copy, or a damaged packet.
LEMMA CopyFacts ==
  ASSUME NEW p \in Packet, NEW r, r = [p EXCEPT !.copy = TRUE]
  PROVE  /\ r \in Packet /\ r.kind = p.kind /\ r.to = p.to /\ r.intact = p.intact
         /\ r.asker = p.asker /\ r.identifier = p.identifier
         /\ r.round = p.round /\ r.copy = TRUE
BY Zenon DEF Packet

\* Damage leaves all of a packet but its intact flag.
LEMMA DamagedFacts ==
  ASSUME NEW p \in Packet, NEW r, r = [p EXCEPT !.intact = FALSE]
  PROVE  /\ r \in Packet /\ r.kind = p.kind /\ r.from = p.from
         /\ r.asker = p.asker /\ r.identifier = p.identifier
         /\ r.round = p.round /\ r.copy = p.copy
BY Zenon DEF Packet

\* An arriving packet goes to the end of the queue, or nowhere.
LEMMA QueuedFacts ==
  ASSUME NEW c, NEW q \in Seq(Packet), NEW p \in Packet, NEW r, r = Queued(c, q, p)
  PROVE  /\ r \in Seq(Packet) /\ Len(r) \in Nat
         /\ \A i \in 1 .. Len(r) :
              \/ i \in 1 .. Len(q) /\ r[i] = q[i]
              \/ i = Len(r) /\ r[i] = p /\ Sees(c, p)
<1>1. CASE Sees(c, p)
  <2>1. r = Append(q, p)
    BY <1>1 DEF Queued
  <2>2. /\ r \in Seq(Packet) /\ Len(r) = Len(q) + 1
        /\ \A i \in 1 .. Len(q) : r[i] = q[i]
        /\ r[Len(q) + 1] = p
    BY <2>1, AppendProperties
  <2>3. Len(q) \in Nat
    BY LenProperties
  <2> QED
    BY <1>1, <2>2, <2>3
<1>2. CASE ~Sees(c, p)
  <2>1. r = q
    BY <1>2 DEF Queued
  <2> QED
    BY <2>1, LenProperties
<1> QED
  BY <1>1, <1>2

\* The queue of c after a request and its reply: what was there, then perhaps
\* the request, then perhaps the reply, which is last.
Grown(c, p, r) ==
  \A i \in 1 .. Len(queue'[c]) :
    \/ i \in 1 .. Len(queue[c]) /\ queue'[c][i] = queue[c][i]
    \/ queue'[c][i] = p /\ Sees(c, p)
    \/ i = Len(queue'[c]) /\ queue'[c][i] = r /\ Sees(c, r)

\* An answer arrives in the queues that see it, and only there.
LEMMA AnswerFacts ==
  ASSUME queue \in [Client -> Seq(Packet)], NEW p \in Packet, NEW r \in Packet, Answer(p, r)
  PROVE  /\ queue' \in [Client -> Seq(Packet)]
         /\ \A c \in Client : Grown(c, p, r)
<1>1. queue' = [c \in Client |-> Queued(c, Queued(c, queue[c], p), r)]
  BY DEF Answer
<1>2. ASSUME NEW c \in Client PROVE queue'[c] \in Seq(Packet) /\ Grown(c, p, r)
  <2>1. PICK q : q = queue[c]
    OBVIOUS
  <2>2. q \in Seq(Packet)
    BY <2>1
  <2>3. PICK s : s = Queued(c, q, p)
    OBVIOUS
  <2>4. /\ s \in Seq(Packet) /\ Len(s) \in Nat
        /\ \A i \in 1 .. Len(s) :
             \/ i \in 1 .. Len(q) /\ s[i] = q[i]
             \/ i = Len(s) /\ s[i] = p /\ Sees(c, p)
    BY <2>2, <2>3, QueuedFacts
  <2>5. PICK t : t = Queued(c, s, r)
    OBVIOUS
  <2>6. /\ t \in Seq(Packet) /\ Len(t) \in Nat
        /\ \A i \in 1 .. Len(t) :
             \/ i \in 1 .. Len(s) /\ t[i] = s[i]
             \/ i = Len(t) /\ t[i] = r /\ Sees(c, r)
    BY <2>4, <2>5, QueuedFacts
  <2>7. queue'[c] = t
    BY Zenon, <1>1, <2>1, <2>3, <2>5
  <2>8. Grown(c, p, r)
    BY Zenon, <2>1, <2>4, <2>6, <2>7 DEF Grown
  <2> QED
    BY <2>6, <2>7, <2>8
<1>3. queue' = [c \in Client |-> queue'[c]]
  BY Zenon, <1>1
<1> QED
  BY Zenon, <1>2, <1>3

\* A stray packet, likewise.
LEMMA ArriveFacts ==
  ASSUME queue \in [Client -> Seq(Packet)], NEW p \in Packet, Arrive(p)
  PROVE  /\ queue' \in [Client -> Seq(Packet)]
         /\ \A c \in Client : Grown(c, p, p)
<1>1. queue' = [c \in Client |-> Queued(c, queue[c], p)]
  BY Zenon DEF Arrive
<1>2. ASSUME NEW c \in Client PROVE queue'[c] \in Seq(Packet) /\ Grown(c, p, p)
  <2>1. PICK q : q = queue[c]
    OBVIOUS
  <2>2. q \in Seq(Packet)
    BY <2>1
  <2>3. PICK s : s = Queued(c, q, p)
    OBVIOUS
  <2>4. /\ s \in Seq(Packet)
        /\ \A i \in 1 .. Len(s) :
             \/ i \in 1 .. Len(q) /\ s[i] = q[i]
             \/ i = Len(s) /\ s[i] = p /\ Sees(c, p)
    BY <2>2, <2>3, QueuedFacts
  <2>5. queue'[c] = s
    BY Zenon, <1>1, <2>1, <2>3
  <2> QED
    BY Zenon, <2>1, <2>4, <2>5 DEF Grown
<1>3. queue' = [c \in Client |-> queue'[c]]
  BY Zenon, <1>1
<1> QED
  BY Zenon, <1>2, <1>3

\* The queue of c without its head, those of others as they were.
Shrunk(c) ==
  /\ queue'[c] \in Seq(Packet)
  /\ \A i \in 1 .. Len(queue'[c]) :
       i + 1 \in 2 .. Len(queue[c]) /\ queue'[c][i] = queue[c][i + 1]
  /\ \A d \in Client : d # c => queue'[d] = queue[d]

\* rcv_from takes the head of a queue.
LEMMA TakenFacts ==
  ASSUME queue \in [Client -> Seq(Packet)], NEW c \in Client, Taken(c)
  PROVE  /\ queue' \in [Client -> Seq(Packet)] /\ Shrunk(c)
         /\ 1 \in 1 .. Len(queue[c]) /\ Head(queue[c]) = queue[c][1]
         /\ Head(queue[c]) \in Packet
<1>1. queue[c] \in Seq(Packet) /\ queue[c] # <<>>
  BY DEF Taken
<1>2. queue' = [queue EXCEPT ![c] = Tail(queue[c])]
  BY DEF Taken
<1>3. /\ Head(queue[c]) \in Packet
      /\ Tail(queue[c]) \in Seq(Packet) /\ Len(Tail(queue[c])) = Len(queue[c]) - 1
      /\ \A i \in 1 .. Len(Tail(queue[c])) : Tail(queue[c])[i] = queue[c][i + 1]
  BY <1>1, HeadTailProperties
<1>4. Len(queue[c]) \in Nat /\ Len(queue[c]) >= 1 /\ Head(queue[c]) = queue[c][1]
  BY <1>1
<1>5. queue'[c] = Tail(queue[c]) /\ \A d \in Client : d # c => queue'[d] = queue[d]
  BY Zenon, <1>2
<1>6. queue' \in [Client -> Seq(Packet)]
  BY Zenon, <1>2, <1>3
<1>7. \A i \in 1 .. Len(queue'[c]) :
        i + 1 \in 2 .. Len(queue[c]) /\ queue'[c][i] = queue[c][i + 1]
  BY <1>3, <1>4, <1>5
<1>8. Shrunk(c)
  BY Zenon, <1>3, <1>5, <1>7 DEF Shrunk
<1> QED
  BY <1>3, <1>4, <1>6, <1>8

-----------------------------------------------------------------------------
(* What each step of a client changes.                                     *)

Where == {"send", "wait", "sleep", "stopped"}

\* All that is about one client only stays as it is for the others.
OthersStay(c) ==
  \A d \in Client \ {c} :
    pc'[d] = pc[d] /\ round'[d] = round[d] /\ history'[d] = history[d] /\ queue'[d] = queue[d]

\* The invariant's types, for one part of the state each.
LEMMA TypeFacts ==
  ASSUME TypeOK, ClientTypes
  PROVE  /\ job \in Jobs /\ pc \in [Client -> Where] /\ round \in [Client -> Nat]
         /\ timed \in [Client -> BOOLEAN] /\ history \in [Client -> History]
         /\ net \subseteq Packet /\ queue \in [Client -> Seq(Packet)]
         /\ faults \in 0 .. MaxFaults
BY Zenon DEF TypeOK, ClientTypes, Where

\* The type invariant after a step, from the types of the variables.
LEMMA TypesFrom ==
  ASSUME job' \in Jobs, pc' \in [Client -> Where], round' \in [Client -> Nat],
         \A c \in Client : round'[c] \in 0 .. MaxRounds[c],
         timed' \in [Client -> BOOLEAN], history' \in [Client -> History],
         net' \subseteq Packet, queue' \in [Client -> Seq(Packet)],
         faults' \in 0 .. MaxFaults
  PROVE  (TypeOK /\ ClientTypes)'
BY Zenon DEF TypeOK, ClientTypes, Where

\* What a send changes and what it leaves alone.
LEMMA SendFacts ==
  ASSUME TypeOK, ClientTypes, NEW c \in Client, Send(c)
  PROVE  /\ (TypeOK /\ ClientTypes)' /\ OthersStay(c)
         /\ job' = job /\ queue' = queue /\ report' = {} /\ net' = net \cup {Request(c)}
         /\ pc[c] = "send" /\ pc'[c] = "wait" /\ round'[c] = round[c] + 1
         /\ history'[c].orderly = history[c].orderly
<1>1. /\ job' = job /\ queue' = queue /\ report' = {} /\ net' = net \cup {Request(c)}
      /\ faults' = faults /\ pc[c] = "send" /\ round[c] < MaxRounds[c]
      /\ round' = [round EXCEPT ![c] = round[c] + 1]
      /\ timed' = [timed EXCEPT ![c] = TRUE]
      /\ pc' = [pc EXCEPT ![c] = "wait"]
      /\ history' = [history EXCEPT ![c] = [history[c] EXCEPT !.rested = FALSE, !.erred = FALSE]]
  BY Zenon DEF Send
<1>2. /\ job \in Jobs /\ pc \in [Client -> Where] /\ round \in [Client -> Nat]
      /\ timed \in [Client -> BOOLEAN] /\ history \in [Client -> History]
      /\ net \subseteq Packet /\ queue \in [Client -> Seq(Packet)] /\ faults \in 0 .. MaxFaults
  BY TypeFacts
<1>3. PICK h : h = [history[c] EXCEPT !.rested = FALSE, !.erred = FALSE]
  OBVIOUS
<1>4. h \in History /\ h.orderly = history[c].orderly
  <2>1. history[c] \in History
    BY <1>2
  <2> QED
    BY Zenon, <1>3, <2>1 DEF History
<1>5. history' = [history EXCEPT ![c] = h]
  BY Zenon, <1>1, <1>3
<1>6. Request(c) \in Packet
  <2>1. round[c] \in Nat
    BY <1>2
  <2> QED
    BY Zenon, <1>2, <2>1, RequestFacts
<1>7. "wait" \in Where
  BY Zenon DEF Where
<1>8. round' \in [Client -> Nat] /\ \A d \in Client : round'[d] \in 0 .. MaxRounds[d]
  <2>1. \A d \in Client : round[d] \in 0 .. MaxRounds[d] /\ MaxRounds[d] \in Nat
    BY Zenon, PingAssumption DEF TypeOK
  <2>2. round[c] + 1 \in Nat /\ round[c] + 1 \in 0 .. MaxRounds[c]
    BY <1>1, <2>1
  <2>3. \A d \in Client : round'[d] = IF d = c THEN round[c] + 1 ELSE round[d]
    BY Zenon, <1>1, <1>2
  <2>4. round' \in [Client -> Nat]
    BY Zenon, <1>1, <1>2, <2>2
  <2> QED
    BY Zenon, <2>1, <2>2, <2>3, <2>4
<1>9. /\ pc' \in [Client -> Where] /\ timed' \in [Client -> BOOLEAN]
      /\ history' \in [Client -> History] /\ net' \subseteq Packet
  BY Zenon, <1>1, <1>2, <1>4, <1>5, <1>6, <1>7
<1>10. (TypeOK /\ ClientTypes)'
  BY Zenon, <1>1, <1>2, <1>8, <1>9, TypesFrom
<1>11. /\ OthersStay(c) /\ pc'[c] = "wait" /\ round'[c] = round[c] + 1 /\ history'[c] = h
  BY Zenon, <1>1, <1>2, <1>5 DEF OthersStay
<1> QED
  BY Zenon, <1>1, <1>4, <1>10, <1>11

\* A step of c that only moves its program counter and its history, and perhaps
\* takes a packet from its queue or counts an error.
Moves(c, where, h) ==
  /\ pc' = [pc EXCEPT ![c] = where] /\ history' = [history EXCEPT ![c] = h]
  /\ UNCHANGED <<job, round, timed, net>>

\* What a step of a program other than a send changes and leaves alone.
LEMMA MoveFacts ==
  ASSUME TypeOK, ClientTypes, NEW c \in Client, NEW where \in Where, NEW h \in History,
         Moves(c, where, h), queue' = queue \/ Taken(c), faults' \in 0 .. MaxFaults
  PROVE  /\ (TypeOK /\ ClientTypes)' /\ OthersStay(c)
         /\ job' = job /\ round' = round /\ net' = net
         /\ pc'[c] = where /\ history'[c] = h
<1>1. /\ job \in Jobs /\ pc \in [Client -> Where] /\ round \in [Client -> Nat]
      /\ timed \in [Client -> BOOLEAN] /\ history \in [Client -> History]
      /\ net \subseteq Packet /\ queue \in [Client -> Seq(Packet)]
  BY TypeFacts
<1>2. job' = job /\ round' = round /\ timed' = timed /\ net' = net
  BY DEF Moves
<1>3. pc' = [pc EXCEPT ![c] = where] /\ history' = [history EXCEPT ![c] = h]
  BY DEF Moves
<1>4. queue' \in [Client -> Seq(Packet)] /\ \A d \in Client \ {c} : queue'[d] = queue[d]
  <2>1. CASE Taken(c)
    BY Zenon, <1>1, <2>1, TakenFacts DEF Shrunk
  <2>2. CASE queue' = queue
    BY Zenon, <1>1, <2>2
  <2> QED
    BY <2>1, <2>2
<1>5. \A d \in Client : round'[d] \in 0 .. MaxRounds[d]
  BY Zenon, <1>2 DEF TypeOK
<1>6. pc' \in [Client -> Where] /\ history' \in [Client -> History]
  BY Zenon, <1>1, <1>3
<1>7. (TypeOK /\ ClientTypes)'
  BY Zenon, <1>1, <1>2, <1>4, <1>5, <1>6, TypesFrom
<1>8. OthersStay(c) /\ pc'[c] = where /\ history'[c] = h
  BY Zenon, <1>1, <1>2, <1>3, <1>4 DEF OthersStay
<1> QED
  BY <1>2, <1>7, <1>8

-----------------------------------------------------------------------------
(* What is known of a packet stays known.                                  *)

\* Nobody changes its program or takes back a request.
RoundsGrow == job' = job /\ \A c \in Client : round[c] \in Nat /\ round'[c] \in Nat /\ round[c] <= round'[c]

\* A genuine packet stays genuine while rounds go on.
LEMMA GenuineStays ==
  ASSUME RoundsGrow, NEW p \in Packet, Genuine(p)
  PROVE  Genuine(p)'
<1>1. p.asker \in Client /\ p.identifier = Identifier(p.asker) /\ p.round <= round[p.asker]
  BY Zenon DEF Genuine
<1>2. p.identifier = Identifier(p.asker)'
  BY Zenon, <1>1 DEF RoundsGrow, Identifier, Raw, Program
<1>3. p.round \in Nat
  BY Zenon DEF Packet
<1>4. p.round <= round'[p.asker]
  <2>1. /\ round[p.asker] \in Nat /\ round'[p.asker] \in Nat
        /\ round[p.asker] <= round'[p.asker]
    BY Zenon, <1>1 DEF RoundsGrow
  <2> QED
    BY SMT, <1>1, <1>3, <2>1
<1> QED
  BY Zenon, <1>1, <1>2, <1>4 DEF Genuine

\* Which packets a socket sees depends on the jobs alone.
LEMMA SeesStays ==
  ASSUME job' = job, NEW c \in Client, NEW p
  PROVE  Sees(c, p)' <=> Sees(c, p)
BY Zenon DEF Sees, V6, Raw, Identifier, Program

\* A packet a queue may hold may be there in later rounds, too.
LEMMA KnownStays ==
  ASSUME RoundsGrow, NEW c \in Client, NEW p \in Packet, Known(c, p)
  PROVE  Known(c, p)'
<1>1. Sees(c, p)'
  BY Zenon, SeesStays DEF Known, RoundsGrow
<1>2. CASE p \in Stray
  BY Zenon, <1>1, <1>2 DEF Known
<1>3. CASE Genuine(p) /\ (p.kind = "reply" => p.from = Target(p.asker))
  <2>1. Genuine(p)'
    BY <1>3, GenuineStays
  <2>2. p.kind = "reply" => p.from = Target(p.asker)'
    BY Zenon, <1>3 DEF Target, RoundsGrow
  <2> QED
    BY Zenon, <1>1, <2>1, <2>2 DEF Known
<1> QED
  BY Zenon, <1>2, <1>3 DEF Known

\* If what is known holds of every packet now queued, it holds of the queues.
LEMMA QueueInvFrom ==
  ASSUME \A d \in Client : \A i \in 1 .. Len(queue'[d]) :
           \E p : p = queue'[d][i] /\ Known(d, p)'
  PROVE  QueueInv'
<1> SUFFICES ASSUME NEW d \in Client, NEW i \in 1 .. Len(queue'[d])
             PROVE  Known(d, queue[d][i])'
  BY DEF QueueInv
<1>1. PICK p : p = queue'[d][i] /\ Known(d, p)'
  OBVIOUS
<1> QED
  BY Zenon, <1>1 DEF Known, Sees, Genuine, V6, Raw, Identifier, Program, Target

\* A queue that only lost packets.
LEMMA QueueShrinks ==
  ASSUME QueueInv, queue \in [Client -> Seq(Packet)], RoundsGrow,
         \A d \in Client : \A i \in 1 .. Len(queue'[d]) :
           \E j \in 1 .. Len(queue[d]) : queue'[d][i] = queue[d][j]
  PROVE  QueueInv'
<1> SUFFICES ASSUME NEW d \in Client, NEW i \in 1 .. Len(queue'[d])
             PROVE  \E p : p = queue'[d][i] /\ Known(d, p)'
  BY QueueInvFrom
<1>1. PICK j \in 1 .. Len(queue[d]) : queue'[d][i] = queue[d][j]
  OBVIOUS
<1>2. PICK p : p = queue[d][j]
  OBVIOUS
<1>3. p \in Packet
  <2>1. queue[d] \in Seq(Packet)
    OBVIOUS
  <2> QED
    BY SMT, <1>2, <2>1
<1>4. Known(d, p)
  BY Zenon, <1>2 DEF QueueInv
<1> QED
  BY Zenon, <1>1, <1>2, <1>3, <1>4, KnownStays

\* Packets under way that are known stay so.
LEMMA NetShrinks ==
  ASSUME NetInv, RoundsGrow, net \subseteq Packet, net' \subseteq net
  PROVE  NetInv'
<1> SUFFICES ASSUME NEW p \in net'
             PROVE  /\ Genuine(p)' /\ p.kind = "request" /\ p.intact
                    /\ p.to = Target(p.asker)'
  BY Zenon DEF NetInv
<1>1. p \in Packet /\ Genuine(p) /\ p.kind = "request" /\ p.intact /\ p.to = Target(p.asker)
  BY Zenon DEF NetInv
<1>2. Genuine(p)'
  BY Zenon, <1>1, GenuineStays
<1> QED
  BY Zenon, <1>1, <1>2 DEF Target, RoundsGrow

-----------------------------------------------------------------------------
(* Steps of a client.                                                      *)

\* Who is alone depends on the jobs alone.
LEMMA AloneStays ==
  ASSUME job' = job, NEW c \in Client
  PROVE  Alone(c)' <=> Alone(c)
BY Zenon DEF Alone, Raw, Program, Target

\* What another client does leaves d as it was: it sends requests of its own only.
LEMMA OrderlyStays ==
  ASSUME NEW d \in Client, OrderlyInv(d), job' = job,
         pc'[d] = pc[d], round'[d] = round[d], history'[d] = history[d], queue'[d] = queue[d],
         \A p \in net' : p \in net \/ p.asker # d
  PROVE  OrderlyInv(d)'
<1> SUFFICES ASSUME history[d].orderly, Alone(d)
             PROVE  OrderlyInv(d)'
  BY Zenon, AloneStays DEF OrderlyInv
<1>1. \A p \in net' : Asks(d, p) => p \in net
  BY Zenon DEF Asks
<1>2. /\ \A i \in 1 .. Len(queue[d]) :
           Mine(d, queue[d][i]) => queue[d][i].round = round[d] /\ pc[d] = "wait"
      /\ \A i, j \in 1 .. Len(queue[d]) :
           Mine(d, queue[d][i]) /\ Mine(d, queue[d][j]) => i = j
      /\ \A p \in net', i \in 1 .. Len(queue[d]) : ~(Asks(d, p) /\ Mine(d, queue[d][i]))
      /\ \A p, q \in net' : Asks(d, p) /\ Asks(d, q) => p = q
  BY Zenon, <1>1 DEF OrderlyInv
<1>3. /\ \A i \in 1 .. Len(queue'[d]) :
           Mine(d, queue'[d][i]) => queue'[d][i].round = round'[d] /\ pc'[d] = "wait"
      /\ \A i, j \in 1 .. Len(queue'[d]) :
           Mine(d, queue'[d][i]) /\ Mine(d, queue'[d][j]) => i = j
      /\ \A p \in net', i \in 1 .. Len(queue'[d]) : ~(Asks(d, p) /\ Mine(d, queue'[d][i]))
  BY Zenon, <1>2
<1>4. \A p \in net' : Asks(d, p)' <=> Asks(d, p)
  BY Zenon DEF Asks
<1> QED
  BY Zenon, <1>2, <1>3, <1>4 DEF OrderlyInv, Mine

\* No reply to c stays in its queue for the next round if c goes on waiting, was
\* not waiting, found its queue empty, or has just taken the one there is.
LEMMA OrderlyMove ==
  ASSUME NEW c \in Client, OrderlyInv(c), queue \in [Client -> Seq(Packet)], job' = job,
         history'[c].orderly => history[c].orderly, round'[c] = round[c], net' = net,
         \/ queue' = queue /\ (pc[c] # "wait" \/ queue[c] = <<>>)
         \/ Taken(c) /\ pc'[c] = "wait"
         \/ Taken(c) /\ (Alone(c) => Mine(c, Head(queue[c])))
         \/ ~history'[c].orderly
  PROVE  OrderlyInv(c)'
<1> SUFFICES ASSUME history'[c].orderly, history[c].orderly, Alone(c)
             PROVE  OrderlyInv(c)'
  BY Zenon, AloneStays DEF OrderlyInv
<1>1. /\ \A i \in 1 .. Len(queue[c]) :
           Mine(c, queue[c][i]) => queue[c][i].round = round[c] /\ pc[c] = "wait"
      /\ \A i, j \in 1 .. Len(queue[c]) :
           Mine(c, queue[c][i]) /\ Mine(c, queue[c][j]) => i = j
      /\ \A p \in net, i \in 1 .. Len(queue[c]) : ~(Asks(c, p) /\ Mine(c, queue[c][i]))
      /\ \A p, q \in net : Asks(c, p) /\ Asks(c, q) => p = q
  BY Zenon DEF OrderlyInv
<1>2. ASSUME \A i \in 1 .. Len(queue'[c]) : ~Mine(c, queue'[c][i])
      PROVE  OrderlyInv(c)'
  BY Zenon, <1>1, <1>2 DEF OrderlyInv, Asks, Mine
<1>3. CASE queue' = queue /\ (pc[c] # "wait" \/ queue[c] = <<>>)
  <2>1. \A i \in 1 .. Len(<<>>) : FALSE
    BY SMT
  <2>2. \A i \in 1 .. Len(queue'[c]) : ~Mine(c, queue'[c][i])
    BY Zenon, <1>1, <1>3, <2>1
  <2> QED
    BY <1>2, <2>2
<1>4. CASE Taken(c)
  <2>1. /\ pc[c] = "wait" /\ 1 \in 1 .. Len(queue[c]) /\ Head(queue[c]) = queue[c][1]
    BY Zenon, <1>4, TakenFacts DEF Taken
  <2>2. \A i \in 1 .. Len(queue'[c]) :
          \E j \in 1 .. Len(queue[c]) : j = i + 1 /\ queue'[c][i] = queue[c][j]
    BY <1>4, TakenFacts DEF Shrunk
  <2>3. CASE pc'[c] = "wait"
    <3>1. \A i, j \in 1 .. Len(queue'[c]) :
            Mine(c, queue'[c][i]) /\ Mine(c, queue'[c][j]) => i = j
      <4> SUFFICES ASSUME NEW i \in 1 .. Len(queue'[c]), NEW j \in 1 .. Len(queue'[c]),
                          Mine(c, queue'[c][i]), Mine(c, queue'[c][j])
                   PROVE  i = j
        OBVIOUS
      <4>1. i + 1 \in 1 .. Len(queue[c]) /\ queue'[c][i] = queue[c][i + 1]
        BY Zenon, <2>2
      <4>2. j + 1 \in 1 .. Len(queue[c]) /\ queue'[c][j] = queue[c][j + 1]
        BY Zenon, <2>2
      <4>3. i + 1 = j + 1
        BY Zenon, <1>1, <4>1, <4>2
      <4> QED
        BY SMT, <4>3
    <3>2. \A i \in 1 .. Len(queue'[c]) : Mine(c, queue'[c][i]) => queue'[c][i].round = round[c]
      BY Zenon, <1>1, <2>2
    <3>3. \A p \in net, i \in 1 .. Len(queue'[c]) : ~(Asks(c, p) /\ Mine(c, queue'[c][i]))
      BY Zenon, <1>1, <2>2
    <3> QED
      BY Zenon, <1>1, <2>3, <3>1, <3>2, <3>3 DEF OrderlyInv, Asks, Mine
  <2>4. CASE Mine(c, Head(queue[c]))
    <3>1. ASSUME NEW i \in 1 .. Len(queue'[c]), Mine(c, queue'[c][i]) PROVE FALSE
      <4>1. PICK j \in 1 .. Len(queue[c]) : j = i + 1 /\ queue'[c][i] = queue[c][j]
        BY Zenon, <2>2
      <4>2. j = 1
        BY Zenon, <1>1, <2>1, <2>4, <3>1, <4>1
      <4> QED
        BY SMT, <4>1, <4>2
    <3> QED
      BY Zenon, <1>2, <3>1
  <2> QED
    BY Zenon, <1>4, <2>1, <2>3, <2>4 DEF Taken
<1> QED
  BY Zenon, <1>3, <1>4

\* Who rests before it sends and leaves no reply behind keeps the invariant.
LEMMA MoveKeeps ==
  ASSUME RunInv, NEW c \in Client, NEW where \in Where, NEW h \in History,
         Moves(c, where, h), queue' = queue \/ Taken(c), faults' \in 0 .. MaxFaults,
         where = "send" => h.rested \/ (Raw(c) /\ h.erred),
         h.orderly => history[c].orderly,
         \/ queue' = queue /\ (pc[c] # "wait" \/ queue[c] = <<>>)
         \/ Taken(c) /\ where = "wait"
         \/ Taken(c) /\ (Alone(c) => Mine(c, Head(queue[c])))
         \/ ~h.orderly
  PROVE  RunInv'
<1>1. TypeOK /\ ClientTypes
  BY Zenon DEF RunInv
<1>2. /\ (TypeOK /\ ClientTypes)' /\ OthersStay(c)
      /\ job' = job /\ round' = round /\ net' = net /\ pc'[c] = where /\ history'[c] = h
  BY Zenon, <1>1, MoveFacts
<1>3. /\ round \in [Client -> Nat] /\ net \subseteq Packet /\ queue \in [Client -> Seq(Packet)]
  BY Zenon, <1>1, TypeFacts
<1>4. RoundsGrow
  BY <1>2, <1>3 DEF RoundsGrow
<1>5. NetInv'
  BY Zenon, <1>2, <1>3, <1>4, NetShrinks DEF RunInv
<1>6. QueueInv'
  <2>1. \A d \in Client : \A i \in 1 .. Len(queue'[d]) :
          \E j \in 1 .. Len(queue[d]) : queue'[d][i] = queue[d][j]
    <3>1. CASE queue' = queue
      BY Zenon, <3>1
    <3>2. CASE Taken(c)
      <4>1. Shrunk(c)
        BY Zenon, <1>3, <3>2, TakenFacts
      <4>2. \A i \in 1 .. Len(queue'[c]) : i + 1 \in 1 .. Len(queue[c]) /\ queue'[c][i] = queue[c][i + 1]
        BY SMT, <4>1 DEF Shrunk
      <4>3. \A d \in Client : d # c => queue'[d] = queue[d]
        BY Zenon, <4>1 DEF Shrunk
      <4> QED
        BY Zenon, <4>2, <4>3
    <3> QED
      BY <3>1, <3>2
  <2> QED
    BY Zenon, <1>3, <1>4, <2>1, QueueShrinks DEF RunInv
<1>7. ASSUME NEW d \in Client PROVE OrderlyInv(d)'
  <2>1. CASE d = c
    <3>1. OrderlyInv(c)
      BY Zenon DEF RunInv
    <3>2. OrderlyInv(c)'
      BY Zenon, <1>2, <1>3, <3>1, OrderlyMove
    <3> QED
      BY <2>1, <3>2
  <2>2. CASE d # c
    <3>1. OrderlyInv(d)
      BY Zenon DEF RunInv
    <3>2. /\ pc'[d] = pc[d] /\ round'[d] = round[d]
          /\ history'[d] = history[d] /\ queue'[d] = queue[d]
      BY Zenon, <1>2, <2>2 DEF OthersStay
    <3>3. \A p \in net' : p \in net \/ p.asker # d
      BY Zenon, <1>2
    <3> QED
      BY Zenon, <1>2, <3>1, <3>2, <3>3, OrderlyStays
  <2> QED
    BY <2>1, <2>2
<1>8. PaceInv'
  <2>1. \A d \in Client : Raw(d)' <=> Raw(d)
    BY Zenon, <1>2 DEF Raw, Program
  <2>2. \A d \in Client : pc[d] = "send" => history[d].rested \/ (Raw(d) /\ history[d].erred)
    BY Zenon DEF RunInv, PaceInv
  <2>3. \A d \in Client : pc'[d] = "send" => history'[d].rested \/ (Raw(d)' /\ history'[d].erred)
    BY Zenon, <1>2, <2>1, <2>2 DEF OthersStay
  <2> QED
    BY Zenon, <2>3 DEF PaceInv
<1> QED
  BY Zenon, <1>2, <1>5, <1>6, <1>7, <1>8 DEF RunInv

\* A step may leave history and place of a program as they are.
LEMMA HistoryOf ==
  ASSUME RunInv, NEW c \in Client
  PROVE  /\ history[c] \in History /\ pc[c] \in Where
         /\ [history EXCEPT ![c] = history[c]] = history /\ [pc EXCEPT ![c] = pc[c]] = pc
<1>1. pc \in [Client -> Where] /\ history \in [Client -> History]
  BY Zenon, TypeFacts DEF RunInv
<1> QED
  BY SMT, <1>1

\* The number of faults stays within its bound.
LEMMA FaultRange ==
  ASSUME RunInv, \/ faults' = faults
                 \/ faults < MaxFaults /\ faults' = faults + 1
  PROVE  faults' \in 0 .. MaxFaults
<1>1. faults \in 0 .. MaxFaults /\ MaxFaults \in Nat
  BY Zenon, PingAssumption DEF RunInv, TypeOK
<1> QED
  BY SMT, <1>1

\* Nothing is printed: nothing is wrong in what is printed.
LEMMA QuietReport ==
  ASSUME report' = {}
  PROVE  ReportInv'
BY Zenon DEF ReportInv, PrintsOwnReplies, TimeIsOwn

\* A failed send keeps the invariant.
LEMMA SendFailsKeeps ==
  ASSUME RunInv, NEW c \in Client, SendFails(c)
  PROVE  PingInv'
<1>1. /\ pc[c] = "send" /\ pc' = [pc EXCEPT ![c] = "stopped"] /\ history' = history
      /\ queue' = queue /\ faults' = faults /\ report' = {} /\ UNCHANGED <<job, round, timed, net>>
  BY Zenon DEF SendFails
<1>2. Moves(c, "stopped", history[c])
  BY Zenon, <1>1, HistoryOf DEF Moves
<1>3. "stopped" \in Where /\ faults' \in 0 .. MaxFaults /\ "stopped" # "send" /\ pc[c] # "wait"
  BY Zenon, <1>1, FaultRange DEF Where
<1>4. RunInv'
  BY Zenon, <1>1, <1>2, <1>3, HistoryOf, MoveKeeps
<1> QED
  BY Zenon, <1>1, <1>4, QuietReport DEF PingInv

\* The end of a sleep keeps the invariant.
LEMMA SleepKeeps ==
  ASSUME RunInv, NEW c \in Client, Sleep(c)
  PROVE  PingInv'
<1>1. PICK h : h = [history[c] EXCEPT !.rested = TRUE]
  OBVIOUS
<1>2. /\ pc[c] = "sleep" /\ pc' = [pc EXCEPT ![c] = "send"] /\ history' = [history EXCEPT ![c] = h]
      /\ queue' = queue /\ faults' = faults /\ report' = {} /\ UNCHANGED <<job, round, timed, net>>
  BY Zenon, <1>1 DEF Sleep
<1>3. h \in History /\ h.rested = TRUE /\ h.orderly = history[c].orderly
  BY Zenon, <1>1, HistoryOf DEF History
<1>4. Moves(c, "send", h)
  BY Zenon, <1>2 DEF Moves
<1>5. "send" \in Where /\ faults' \in 0 .. MaxFaults /\ pc[c] # "wait"
  BY Zenon, <1>2, FaultRange DEF Where
<1>6. RunInv'
  BY Zenon, <1>2, <1>3, <1>4, <1>5, MoveKeeps
<1> QED
  BY Zenon, <1>2, <1>6, QuietReport DEF PingInv

\* A receive that fails, for good or with nothing queued: only a raw program
\* starts over at once; it has slept in the receive, or was stopped by an error.
LEMMA BreakKeeps ==
  ASSUME RunInv, NEW c \in Client, NEW how \in History, how.rested \/ how.erred,
         how.orderly => history[c].orderly,
         Break(c, how), queue' = queue \/ Taken(c), faults' \in 0 .. MaxFaults,
         (queue' = queue /\ queue[c] = <<>>) \/ ~how.orderly
  PROVE  PingInv'
<1>1. PICK where : where = IF Raw(c) THEN "send" ELSE "sleep"
  OBVIOUS
<1>2. where \in Where /\ (where = "send" => Raw(c))
  BY Zenon, <1>1 DEF Where
<1>3. Moves(c, where, how) /\ report' = {}
  BY Zenon, <1>1 DEF Break, Moves
<1>4. RunInv'
  BY Zenon, <1>2, <1>3, MoveKeeps
<1> QED
  BY Zenon, <1>3, <1>4, QuietReport DEF PingInv

\* Receiving again after another packet keeps the invariant.
LEMMA DiscardKeeps ==
  ASSUME RunInv, NEW c \in Client, Discard(c)
  PROVE  PingInv'
<1>1. Taken(c) /\ report' = {} /\ faults' = faults /\ net' = net
      /\ job' = job /\ pc' = pc /\ round' = round /\ timed' = timed /\ history' = history
  BY Zenon DEF Discard, clientVars
<1>2. pc[c] = "wait" /\ "wait" \in Where /\ "wait" # "send"
  BY Zenon, <1>1 DEF Taken, Where
<1>3. Moves(c, "wait", history[c])
  BY Zenon, <1>1, <1>2, HistoryOf DEF Moves
<1>4. faults' \in 0 .. MaxFaults
  BY <1>1, FaultRange
<1>5. RunInv'
  BY Zenon, <1>1, <1>2, <1>3, <1>4, HistoryOf, MoveKeeps
<1> QED
  BY Zenon, <1>1, <1>5, QuietReport DEF PingInv

\* A packet that does not parse or verify keeps the invariant.
LEMMA PacketErrorKeeps ==
  ASSUME RunInv, NEW c \in Client, PacketError(c)
  PROVE  PingInv'
<1>1. PICK how : how = Erred(c)
  OBVIOUS
<1>2. Taken(c) /\ Break(c, how) /\ faults' = faults
  BY Zenon, <1>1 DEF PacketError
<1>3. how \in History /\ how.erred = TRUE /\ how.orderly = FALSE
  BY Zenon, <1>1, HistoryOf DEF History, Erred
<1>4. faults' \in 0 .. MaxFaults
  BY <1>2, FaultRange
<1> QED
  BY Zenon, <1>2, <1>3, <1>4, BreakKeeps

\* An error of the system call keeps the invariant.
LEMMA SocketErrorKeeps ==
  ASSUME RunInv, NEW c \in Client, SocketError(c)
  PROVE  PingInv'
<1>1. PICK how : how = Erred(c)
  OBVIOUS
<1>2. queue' = queue /\ Break(c, how) /\ faults < MaxFaults /\ faults' = faults + 1
  BY Zenon, <1>1 DEF SocketError
<1>3. how \in History /\ how.erred = TRUE /\ how.orderly = FALSE
  BY Zenon, <1>1, HistoryOf DEF History, Erred
<1>4. faults' \in 0 .. MaxFaults
  BY <1>2, FaultRange
<1> QED
  BY Zenon, <1>2, <1>3, <1>4, BreakKeeps

\* A round that times out keeps the invariant: its queue is empty.
LEMMA TimeoutKeeps ==
  ASSUME RunInv, NEW c \in Client, Timeout(c)
  PROVE  PingInv'
<1>1. PICK how : how = [history[c] EXCEPT !.rested = TRUE]
  OBVIOUS
<1>2. queue' = queue /\ queue[c] = <<>> /\ Break(c, how) /\ faults' = faults
  BY Zenon, <1>1 DEF Timeout
<1>3. how \in History /\ how.rested = TRUE /\ how.orderly = history[c].orderly
  BY Zenon, <1>1, HistoryOf DEF History
<1>4. faults' \in 0 .. MaxFaults
  BY <1>2, FaultRange
<1> QED
  BY Zenon, <1>2, <1>3, <1>4, BreakKeeps

\* A packet a program prints, off its queue, is the pinged host's reply to a
\* request of somebody here: ping4 and the async programs look at the checksum,
\* for ping6 the kernel has; a ping socket gets only what carries its port.
LEMMA PrintedIsReply ==
  ASSUME job \in Jobs, NEW c \in Client, NEW p \in Packet, Known(c, p), Prints(c, p)
  PROVE  /\ p.kind = "reply" /\ p.intact /\ Genuine(p) /\ Target(p.asker) = Target(c)
         /\ ~Raw(c) /\ Port[c] # 42 => p.asker = c
<1>1. Program(c) \in {"ping4", "ping6", "async"}
  BY JobFacts
<1>2. p.from = Target(c) /\ p.kind = "reply" /\ p.intact
  <2>1. CASE Program(c) = "ping4"
    BY Zenon, <2>1 DEF Prints, Ping4Prints, PacketHandler
  <2>2. CASE Program(c) = "ping6"
    <3>1. V6(c) /\ Sees(c, p)
      BY Zenon, <2>2 DEF V6, Known
    <3>2. p.intact
      BY Zenon, <3>1 DEF Sees
    <3>3. PacketHandler(c, p)
      <4>1. Program(c) # "ping4"
        BY <2>2
      <4> QED
        BY Zenon, <2>2, <4>1 DEF Prints, Ping6Prints
    <3> QED
      BY Zenon, <3>2, <3>3 DEF PacketHandler
  <2>3. CASE Program(c) = "async"
    <3>1. Program(c) # "ping4" /\ Program(c) # "ping6"
      BY <2>3
    <3> QED
      BY Zenon, <3>1 DEF Prints, AsyncPrints
  <2> QED
    BY <1>1, <2>1, <2>2, <2>3
<1>3. p \notin Stray
  BY Zenon, <1>2, StrayAssumption DEF Target
<1>4. Genuine(p) /\ Target(p.asker) = Target(c)
  BY Zenon, <1>2, <1>3 DEF Known
<1>5. ASSUME ~Raw(c), Port[c] # 42 PROVE p.asker = c
  <2>1. p.identifier = Port[c] /\ p.asker \in Client /\ p.identifier = Identifier(p.asker)
    BY Zenon, <1>4, <1>5 DEF Known, Sees, Identifier, Genuine
  <2>2. Port[p.asker] = Port[c]
    BY Zenon, <1>5, <2>1 DEF Identifier
  <2> QED
    BY Zenon, <2>1, <2>2, PingAssumption
<1> QED
  BY <1>2, <1>4, <1>5

\* A printed reply ends the round and keeps the invariant.
LEMMA PrintReplyKeeps ==
  ASSUME RunInv, NEW c \in Client, PrintReply(c)
  PROVE  PingInv'
<1>1. PICK p : p = Head(queue[c])
  OBVIOUS
<1>2. PICK r : r = [client |-> c, packet |-> p, round |-> round[c]]
  OBVIOUS
<1>3. /\ Taken(c) /\ Prints(c, p) /\ report' = {r} /\ history' = history
      /\ pc' = [pc EXCEPT ![c] = "sleep"] /\ faults' = faults
      /\ UNCHANGED <<job, round, timed, net>>
  BY Zenon, <1>1, <1>2 DEF PrintReply
<1>4. job \in Jobs /\ queue \in [Client -> Seq(Packet)]
  BY Zenon, TypeFacts DEF RunInv
<1>5. p \in Packet /\ 1 \in 1 .. Len(queue[c]) /\ p = queue[c][1]
  BY Zenon, <1>1, <1>3, <1>4, TakenFacts
<1>6. Known(c, p)
  BY Zenon, <1>5 DEF RunInv, QueueInv
<1>7. /\ p.kind = "reply" /\ p.intact /\ Genuine(p) /\ Target(p.asker) = Target(c)
      /\ ~Raw(c) /\ Port[c] # 42 => p.asker = c
  BY Zenon, <1>3, <1>4, <1>5, <1>6, PrintedIsReply
<1>8. Alone(c) => Mine(c, p)
  <2>1. p.asker \in Client
    BY Zenon, <1>7 DEF Genuine
  <2> QED
    BY Zenon, <1>7, <2>1 DEF Alone, Mine
<1>9. RunInv'
  <2>1. Moves(c, "sleep", history[c])
    BY Zenon, <1>3, HistoryOf DEF Moves
  <2>2. "sleep" \in Where /\ "sleep" # "send" /\ faults' \in 0 .. MaxFaults
    BY Zenon, <1>3, FaultRange DEF Where
  <2> QED
    BY Zenon, <1>1, <1>3, <1>8, <2>1, <2>2, HistoryOf, MoveKeeps
<1>10. r.client = c /\ r.packet = p /\ r.round = round[c]
  BY Zenon, <1>2
<1>11. PrintsOwnReplies'
  <2>1. p.asker \in Client /\ p.asker # Nobody /\ p.round <= round'[p.asker]
    BY Zenon, <1>3, <1>7, PingAssumption DEF Genuine
  <2>2. Target(p.asker)' = Target(c)'
    BY Zenon, <1>3, <1>7 DEF Target
  <2>3. ~Raw(c)' /\ Port[c] # 42 => p.asker = c
    BY Zenon, <1>3, <1>7 DEF Raw, Program
  <2>4. /\ r.packet.intact /\ r.packet.asker # Nobody
        /\ Target(r.packet.asker)' = Target(r.client)'
        /\ r.packet.round <= round'[r.packet.asker]
        /\ ~Raw(r.client)' /\ Port[r.client] # 42 => r.packet.asker = r.client
    BY Zenon, <1>7, <1>10, <2>1, <2>2, <2>3
  <2> QED
    BY Zenon, <1>3, <2>4 DEF PrintsOwnReplies
<1>12. TimeIsOwn'
  <2>1. Alone(c)' <=> Alone(c)
    BY Zenon, <1>3, AloneStays
  <2>2. ASSUME history[c].orderly, Alone(c) PROVE p.asker = c /\ p.round = round[c]
    BY Zenon, <1>5, <1>8, <2>2 DEF RunInv, OrderlyInv, Mine
  <2>3. history'[r.client].orderly /\ Alone(r.client)' =>
          r.packet.asker = r.client /\ r.packet.round = r.round
    BY Zenon, <1>3, <1>10, <2>1, <2>2
  <2> QED
    BY Zenon, <1>3, <2>3 DEF TimeIsOwn
<1> QED
  BY Zenon, <1>9, <1>11, <1>12 DEF PingInv, ReportInv

\* Who sends has no reply in its queue, or the network was not orderly.
LEMMA SendKeeps ==
  ASSUME RunInv, NEW c \in Client, Send(c)
  PROVE  PingInv'
<1>0. TypeOK /\ ClientTypes
  BY Zenon DEF RunInv
<1>1. /\ (TypeOK /\ ClientTypes)' /\ OthersStay(c)
      /\ job' = job /\ queue' = queue /\ report' = {} /\ net' = net \cup {Request(c)}
      /\ pc[c] = "send" /\ pc'[c] = "wait" /\ round'[c] = round[c] + 1
      /\ history'[c].orderly = history[c].orderly
  BY Zenon, <1>0, SendFacts
<1>2. /\ job \in Jobs /\ round \in [Client -> Nat] /\ net \subseteq Packet
      /\ queue \in [Client -> Seq(Packet)]
  BY Zenon, <1>0, TypeFacts
<1>3. PICK new : new = Request(c)
  OBVIOUS
<1>4. /\ new \in Packet /\ new.kind = "request" /\ new.to = Target(c) /\ new.intact = TRUE
      /\ new.asker = c /\ new.identifier = Identifier(c)
      /\ new.round = round'[c] /\ new.copy = FALSE
  <2>1. round[c] \in Nat
    BY <1>2
  <2> QED
    BY Zenon, <1>1, <1>2, <1>3, <2>1, RequestFacts
<1>5. RoundsGrow
  <2>1. \A d \in Client \ {c} : round'[d] = round[d]
    BY Zenon, <1>1 DEF OthersStay
  <2> QED
    BY <1>1, <1>2, <2>1 DEF RoundsGrow
<1>6. NetInv'
  <2> SUFFICES ASSUME NEW p \in net'
               PROVE  /\ Genuine(p)' /\ p.kind = "request" /\ p.intact
                      /\ p.to = Target(p.asker)'
    BY Zenon DEF NetInv
  <2>1. CASE p \in net
    <3>1. p \in Packet /\ Genuine(p) /\ p.kind = "request" /\ p.intact /\ p.to = Target(p.asker)
      BY Zenon, <1>2, <2>1 DEF RunInv, NetInv
    <3> QED
      BY Zenon, <1>5, <3>1, GenuineStays DEF Target, RoundsGrow
  <2>2. CASE p = new
    <3>1. p.identifier = Identifier(p.asker)' /\ p.to = Target(p.asker)'
      BY Zenon, <1>1, <1>4, <2>2 DEF Identifier, Raw, Program, Target
    <3>2. p.round <= round'[p.asker]
      <4>1. p.round = round'[p.asker] /\ p.round \in Nat
        BY Zenon, <1>4, <2>2 DEF Packet
      <4> QED
        BY SMT, <4>1
    <3> QED
      BY Zenon, <1>4, <2>2, <3>1, <3>2 DEF Genuine
  <2> QED
    BY Zenon, <1>1, <1>3, <2>1, <2>2
<1>7. QueueInv'
  <2>1. \A d \in Client : \A i \in 1 .. Len(queue'[d]) :
          \E j \in 1 .. Len(queue[d]) : queue'[d][i] = queue[d][j]
    BY Zenon, <1>1
  <2> QED
    BY Zenon, <1>2, <1>5, <2>1, QueueShrinks DEF RunInv
<1>8. ASSUME NEW d \in Client PROVE OrderlyInv(d)'
  <2>0. OrderlyInv(d)
    BY Zenon DEF RunInv
  <2>1. CASE d # c
    <3>1. /\ pc'[d] = pc[d] /\ round'[d] = round[d]
          /\ history'[d] = history[d] /\ queue'[d] = queue[d]
      BY Zenon, <1>1, <2>1 DEF OthersStay
    <3>2. \A p \in net' : p \in net \/ p.asker # d
      BY Zenon, <1>1, <1>3, <1>4, <2>1
    <3> QED
      BY Zenon, <1>1, <2>0, <3>1, <3>2, OrderlyStays
  <2>2. CASE d = c
    <3> SUFFICES ASSUME history[c].orderly, Alone(c)
                 PROVE  OrderlyInv(c)'
      BY Zenon, <1>1, <2>2, AloneStays DEF OrderlyInv
    <3>1. pc[c] # "wait"
      BY <1>1
    <3>2. \A i \in 1 .. Len(queue'[c]) : ~Mine(c, queue'[c][i])
      BY Zenon, <1>1, <2>0, <2>2, <3>1 DEF OrderlyInv
    <3>3. ASSUME NEW p \in net, p.asker = c PROVE p.round # round'[c]
      <4>1. p.round \in Nat /\ p.round <= round[c] /\ round[c] \in Nat
        BY Zenon, <1>2, <3>3 DEF RunInv, NetInv, Genuine, Packet
      <4> QED
        BY SMT, <1>1, <4>1
    <3>4. \A p \in net' : p.asker = c /\ p.round = round'[c] => p = new
      BY Zenon, <1>1, <1>3, <3>3
    <3> QED
      BY Zenon, <3>2, <3>4 DEF OrderlyInv, Asks, Mine
  <2> QED
    BY <2>1, <2>2
<1>9. PaceInv'
  <2>1. \A d \in Client : Raw(d)' <=> Raw(d)
    BY Zenon, <1>1 DEF Raw, Program
  <2>2. pc'[c] # "send"
    BY <1>1
  <2>3. \A d \in Client : pc'[d] = "send" => history'[d].rested \/ (Raw(d)' /\ history'[d].erred)
    BY Zenon, <1>1, <2>1, <2>2 DEF OthersStay, RunInv, PaceInv
  <2> QED
    BY Zenon, <2>3 DEF PaceInv
<1>10. RunInv'
  BY Zenon, <1>1, <1>6, <1>7, <1>8, <1>9 DEF RunInv
<1> QED
  BY Zenon, <1>1, <1>10, QuietReport DEF PingInv

-----------------------------------------------------------------------------
(* Steps of the network.                                                   *)

\* What the network does to the history: no client is better off for it.
HistoryKept ==
  /\ history' \in [Client -> History]
  /\ \A c \in Client : /\ history'[c].rested = history[c].rested
                       /\ history'[c].erred = history[c].erred

\* Every step of it leaves the clients alone.
LEMMA NetworkTypes ==
  ASSUME RunInv, UNCHANGED clientVars, faults' \in 0 .. MaxFaults, HistoryKept,
         net' \subseteq Packet, queue' \in [Client -> Seq(Packet)]
  PROVE  /\ (TypeOK /\ ClientTypes)' /\ RoundsGrow /\ PaceInv'
         /\ job' = job /\ pc' = pc /\ round' = round
<1>1. /\ job' = job /\ pc' = pc /\ round' = round /\ timed' = timed
  BY Zenon DEF clientVars
<1>2. /\ job \in Jobs /\ pc \in [Client -> Where] /\ round \in [Client -> Nat]
      /\ timed \in [Client -> BOOLEAN] /\ history' \in [Client -> History]
      /\ \A c \in Client : round[c] \in 0 .. MaxRounds[c]
  BY Zenon, TypeFacts DEF RunInv, TypeOK, HistoryKept
<1>3. (TypeOK /\ ClientTypes)'
  BY Zenon, <1>1, <1>2, TypesFrom
<1>4. RoundsGrow
  BY SMT, <1>1, <1>2 DEF RoundsGrow
<1>5. PaceInv'
  BY Zenon, <1>1 DEF RunInv, PaceInv, Raw, Program, HistoryKept
<1> QED
  BY <1>1, <1>3, <1>4, <1>5

\* An answer out of time or a second copy ends the orderliness of its asker only.
LEMMA AnswerHistory ==
  ASSUME history \in [Client -> History], NEW p, p.asker \in Client, NEW r, Answer(p, r)
  PROVE  /\ HistoryKept
         /\ history'[p.asker].orderly => history[p.asker].orderly /\ InTime(p)
         /\ \A c \in Client : c # p.asker => history'[c] = history[c]
<1>1. PICK d : d = p.asker
  OBVIOUS
<1>2. PICK ok : ok = (history[d].orderly /\ InTime(p))
  OBVIOUS
<1>3. ok \in BOOLEAN
  BY Zenon, <1>2
<1>4. PICK h : h = [history[d] EXCEPT !.orderly = ok]
  OBVIOUS
<1>5. d \in Client /\ history[d] \in History
  BY Zenon, <1>1
<1>6. history' = [history EXCEPT ![d] = h]
  BY Zenon, <1>1, <1>2, <1>4 DEF Answer
<1>7. h \in History /\ h.orderly = ok /\ h.rested = history[d].rested /\ h.erred = history[d].erred
  BY Zenon, <1>3, <1>4, <1>5 DEF History
<1>8. history' \in [Client -> History] /\ \A c \in Client : history'[c] = IF c = d THEN h ELSE history[c]
  BY Zenon, <1>6, <1>7
<1>9. HistoryKept
  BY Zenon, <1>7, <1>8 DEF HistoryKept
<1>10. history'[d] = h /\ \A c \in Client : c # d => history'[c] = history[c]
  BY Zenon, <1>5, <1>8
<1> QED
  BY Zenon, <1>1, <1>2, <1>7, <1>9, <1>10

\* If the queues only grow by p and r, each known to whoever sees it, they are
\* still full of known packets.
LEMMA QueueGrows ==
  ASSUME RunInv, RoundsGrow, NEW p \in Packet, NEW r \in Packet,
         \A c \in Client : Grown(c, p, r),
         \A c \in Client : (Sees(c, p) => Known(c, p)) /\ (Sees(c, r) => Known(c, r))
  PROVE  QueueInv'
<1> SUFFICES ASSUME NEW d \in Client, NEW i \in 1 .. Len(queue'[d])
             PROVE  \E q : q = queue'[d][i] /\ Known(d, q)'
  BY QueueInvFrom
<1>1. PICK q : q = queue'[d][i]
  OBVIOUS
<1>2. \/ i \in 1 .. Len(queue[d]) /\ q = queue[d][i]
      \/ q = p /\ Sees(d, p)
      \/ q = r /\ Sees(d, r)
  BY Zenon, <1>1 DEF Grown
<1>3. q \in Packet /\ Known(d, q)
  <2>1. CASE i \in 1 .. Len(queue[d]) /\ q = queue[d][i]
    <3>1. queue[d] \in Seq(Packet)
      BY Zenon DEF RunInv, TypeOK
    <3>2. q \in Packet
      BY SMT, <2>1, <3>1
    <3>3. Known(d, q)
      BY Zenon, <2>1 DEF RunInv, QueueInv
    <3> QED
      BY <3>2, <3>3
  <2>2. CASE q = p /\ Sees(d, p)
    BY Zenon, <2>2
  <2>3. CASE q = r /\ Sees(d, r)
    BY Zenon, <2>3
  <2> QED
    BY Zenon, <1>2, <2>1, <2>2, <2>3
<1>4. Known(d, q)'
  BY Zenon, <1>3, KnownStays
<1> QED
  BY Zenon, <1>1, <1>4

\* r answers p: the direction is turned round, the rest the same but for damage.
ReplyTo(r, p) ==
  /\ r \in Packet /\ r.kind = "reply" /\ r.from = p.to /\ r.asker = p.asker
  /\ r.identifier = p.identifier /\ r.round = p.round /\ r.copy = p.copy

\* q is the second copy of p.
Twin(q, p) ==
  /\ q \in Packet /\ q.kind = p.kind /\ q.to = p.to /\ q.intact = p.intact
  /\ q.asker = p.asker /\ q.identifier = p.identifier /\ q.round = p.round /\ q.copy = TRUE

\* A reply in time is the only one in the queue, and the last to its round.
LEMMA OrderlyAnswer ==
  ASSUME NEW c \in Client, OrderlyInv(c), NEW p \in net, p.kind = "request", NEW r, ReplyTo(r, p),
         job' = job, pc' = pc, round' = round, Grown(c, p, r),
         IF c = p.asker THEN history'[c].orderly => history[c].orderly /\ InTime(p)
                        ELSE history'[c] = history[c],
         \A q \in net' : (q \in net /\ q # p) \/ Twin(q, p)
  PROVE  OrderlyInv(c)'
<1> SUFFICES ASSUME history'[c].orderly, Alone(c)
             PROVE  OrderlyInv(c)'
  BY Zenon, AloneStays DEF OrderlyInv
<1>0. history[c].orderly
  BY Zenon
<1>1. /\ \A i \in 1 .. Len(queue[c]) :
           Mine(c, queue[c][i]) => queue[c][i].round = round[c] /\ pc[c] = "wait"
      /\ \A i, j \in 1 .. Len(queue[c]) :
           Mine(c, queue[c][i]) /\ Mine(c, queue[c][j]) => i = j
      /\ \A q \in net, i \in 1 .. Len(queue[c]) : ~(Asks(c, q) /\ Mine(c, queue[c][i]))
      /\ \A q, s \in net : Asks(c, q) /\ Asks(c, s) => q = s
  BY Zenon, <1>0 DEF OrderlyInv
<1>2. Mine(c, r) => Asks(c, p) /\ r.round = round[c] /\ pc[c] = "wait"
  BY Zenon DEF Mine, Asks, ReplyTo, InTime
<1>3. \A q \in net' : Asks(c, q) => q \in net /\ q # p
  BY Zenon DEF Asks, Twin
<1>4. \A i \in 1 .. Len(queue'[c]) :
        Mine(c, queue'[c][i]) =>
          \/ i \in 1 .. Len(queue[c]) /\ queue'[c][i] = queue[c][i] /\ Mine(c, queue[c][i])
          \/ i = Len(queue'[c]) /\ queue'[c][i] = r /\ Mine(c, r)
  <2>1. ~Mine(c, p)
    BY DEF Mine
  <2> QED
    BY Zenon, <2>1 DEF Grown
<1>5. \A i \in 1 .. Len(queue'[c]) :
        Mine(c, queue'[c][i]) => queue'[c][i].round = round[c] /\ pc[c] = "wait"
  BY Zenon, <1>1, <1>2, <1>4
<1>6. \A i, j \in 1 .. Len(queue'[c]) :
        Mine(c, queue'[c][i]) /\ Mine(c, queue'[c][j]) => i = j
  BY Zenon, <1>1, <1>2, <1>4
<1>7. \A q \in net', i \in 1 .. Len(queue'[c]) : ~(Asks(c, q) /\ Mine(c, queue'[c][i]))
  BY Zenon, <1>1, <1>2, <1>3, <1>4
<1>8. \A q, s \in net' : Asks(c, q) /\ Asks(c, s) => q = s
  BY Zenon, <1>1, <1>3
<1> QED
  BY Zenon, <1>5, <1>6, <1>7, <1>8 DEF OrderlyInv, Asks, Mine

\* A host answers p with r; at most a second copy of p stays under way.
LEMMA AnswerKeeps ==
  ASSUME RunInv, NEW p \in net, NEW r, ReplyTo(r, p), Answer(p, r),
         UNCHANGED clientVars, faults' \in 0 .. MaxFaults, report' = {},
         \A q \in net' : (q \in net /\ q # p) \/ Twin(q, p)
  PROVE  PingInv'
<1>1. /\ net \subseteq Packet /\ queue \in [Client -> Seq(Packet)]
      /\ history \in [Client -> History]
  BY Zenon, TypeFacts DEF RunInv
<1>2. /\ p \in Packet /\ r \in Packet /\ Genuine(p) /\ p.kind = "request" /\ p.intact
      /\ p.to = Target(p.asker)
  BY Zenon, <1>1 DEF RunInv, NetInv, ReplyTo
<1>3. queue' \in [Client -> Seq(Packet)] /\ \A c \in Client : Grown(c, p, r)
  BY Zenon, <1>1, <1>2, AnswerFacts
<1>4. net' \subseteq Packet
  BY Zenon, <1>1 DEF Twin
<1>5. /\ HistoryKept
      /\ history'[p.asker].orderly => history[p.asker].orderly /\ InTime(p)
      /\ \A c \in Client : c # p.asker => history'[c] = history[c]
  <2>1. p.asker \in Client
    BY Zenon, <1>2 DEF Genuine
  <2> QED
    BY Zenon, <1>1, <2>1, AnswerHistory
<1>6. /\ (TypeOK /\ ClientTypes)' /\ RoundsGrow /\ PaceInv'
       /\ job' = job /\ pc' = pc /\ round' = round
  BY Zenon, <1>3, <1>4, <1>5, NetworkTypes
<1>7. NetInv'
  <2> SUFFICES ASSUME NEW q \in net'
               PROVE  /\ Genuine(q)' /\ q.kind = "request" /\ q.intact
                      /\ q.to = Target(q.asker)'
    BY Zenon DEF NetInv
  <2>1. q \in Packet /\ Genuine(q) /\ q.kind = "request" /\ q.intact /\ q.to = Target(q.asker)
    <3>1. CASE q \in net
      BY Zenon, <1>1, <3>1 DEF RunInv, NetInv
    <3>2. CASE Twin(q, p)
      BY Zenon, <1>2, <3>2 DEF Twin, Genuine
    <3> QED
      BY Zenon, <3>1, <3>2
  <2> QED
    BY Zenon, <1>6, <2>1, GenuineStays DEF Target
<1>8. QueueInv'
  <2>1. ASSUME NEW c \in Client PROVE (Sees(c, p) => Known(c, p)) /\ (Sees(c, r) => Known(c, r))
    <3>1. p.kind # "reply"
      BY <1>2
    <3>2. Genuine(r) /\ r.from = Target(r.asker)
      BY Zenon, <1>2 DEF Genuine, ReplyTo
    <3> QED
      BY Zenon, <1>2, <3>1, <3>2 DEF Known
  <2> QED
    BY Zenon, <1>2, <1>3, <1>6, <2>1, QueueGrows
<1>9. \A c \in Client : OrderlyInv(c)'
  BY Zenon, <1>2, <1>3, <1>5, <1>6, OrderlyAnswer DEF RunInv
<1>10. RunInv'
  BY Zenon, <1>6, <1>7, <1>8, <1>9 DEF RunInv
<1> QED
  BY Zenon, <1>10, QuietReport DEF PingInv

\* A host that answers a request keeps the invariant.
LEMMA RoundTripKeeps ==
  ASSUME RunInv, NEW p \in net, RoundTrip(p)
  PROVE  PingInv'
<1>1. PICK r : r = Reply(p)
  OBVIOUS
<1>2. /\ net' = net \ {p} /\ Answer(p, r) /\ report' = {} /\ UNCHANGED clientVars /\ faults' = faults
  BY Zenon, <1>1 DEF RoundTrip
<1>3. p \in Packet
  BY Zenon, TypeFacts DEF RunInv
<1>4. ReplyTo(r, p)
  BY Zenon, <1>1, <1>3, ReplyFacts DEF ReplyTo
<1>5. faults' \in 0 .. MaxFaults
  BY <1>2, FaultRange
<1>6. \A q \in net' : q \in net /\ q # p
  BY Zenon, <1>2
<1> QED
  BY Zenon, <1>2, <1>4, <1>5, <1>6, AnswerKeeps

\* A duplicated packet keeps the invariant, a copy being no first answer.
LEMMA DuplicateKeeps ==
  ASSUME RunInv, NEW p \in net, Duplicate(p)
  PROVE  PingInv'
<1>1. PICK r : r = Reply(p)
  OBVIOUS
<1>2. PICK t : t = [p EXCEPT !.copy = TRUE]
  OBVIOUS
<1>3. /\ net' = (net \ {p}) \cup {t} /\ Answer(p, r) /\ report' = {} /\ UNCHANGED clientVars
      /\ faults < MaxFaults /\ faults' = faults + 1
  BY Zenon, <1>1, <1>2 DEF Duplicate, Fault
<1>4. p \in Packet
  BY Zenon, TypeFacts DEF RunInv
<1>5. ReplyTo(r, p)
  BY Zenon, <1>1, <1>4, ReplyFacts DEF ReplyTo
<1>6. faults' \in 0 .. MaxFaults
  BY <1>3, FaultRange
<1>7. Twin(t, p)
  BY Zenon, <1>2, <1>4, CopyFacts DEF Twin
<1>8. \A q \in net' : (q \in net /\ q # p) \/ Twin(q, p)
  BY Zenon, <1>3, <1>7
<1> QED
  BY Zenon, <1>3, <1>5, <1>6, <1>8, AnswerKeeps

\* A damaged packet keeps the invariant.
LEMMA DamageKeeps ==
  ASSUME RunInv, NEW p \in net, Damage(p)
  PROVE  PingInv'
<1>1. PICK s : s = Reply(p)
  OBVIOUS
<1>2. PICK r : r = [s EXCEPT !.intact = FALSE]
  OBVIOUS
<1>3. /\ net' = net \ {p} /\ Answer(p, r) /\ report' = {} /\ UNCHANGED clientVars
      /\ faults < MaxFaults /\ faults' = faults + 1
  BY Zenon, <1>1, <1>2 DEF Damage, Fault
<1>4. p \in Packet
  BY Zenon, TypeFacts DEF RunInv
<1>5. ReplyTo(s, p)
  BY Zenon, <1>1, <1>4, ReplyFacts DEF ReplyTo
<1>6. ReplyTo(r, p)
  BY Zenon, <1>2, <1>5, DamagedFacts DEF ReplyTo
<1>7. faults' \in 0 .. MaxFaults
  BY <1>3, FaultRange
<1>8. \A q \in net' : q \in net /\ q # p
  BY Zenon, <1>3
<1> QED
  BY Zenon, <1>3, <1>6, <1>7, <1>8, AnswerKeeps

\* A stray packet is nobody's answer.
LEMMA ArriveKeeps ==
  ASSUME RunInv, NEW p \in Stray, Arrive(p)
  PROVE  PingInv'
<1>1. net \subseteq Packet /\ queue \in [Client -> Seq(Packet)]
  BY Zenon, TypeFacts DEF RunInv
<1>2. p \in Packet /\ p.asker = Nobody
  BY Zenon, StrayAssumption
<1>3. /\ net' = net /\ history' = history /\ report' = {} /\ UNCHANGED clientVars
      /\ faults < MaxFaults /\ faults' = faults + 1
  BY Zenon DEF Arrive, Fault
<1>4. queue' \in [Client -> Seq(Packet)] /\ \A c \in Client : Grown(c, p, p)
  BY Zenon, <1>1, <1>2, ArriveFacts
<1>5. faults' \in 0 .. MaxFaults
  BY <1>3, FaultRange
<1>6. /\ (TypeOK /\ ClientTypes)' /\ RoundsGrow /\ PaceInv'
      /\ job' = job /\ pc' = pc /\ round' = round
  <2>1. HistoryKept
    BY Zenon, <1>3, TypeFacts DEF HistoryKept, RunInv
  <2> QED
    BY Zenon, <1>1, <1>3, <1>4, <1>5, <2>1, NetworkTypes
<1>7. NetInv'
  BY Zenon, <1>1, <1>3, <1>6, NetShrinks DEF RunInv
<1>8. QueueInv'
  <2>1. \A c \in Client : Sees(c, p) => Known(c, p)
    BY Zenon DEF Known
  <2> QED
    BY Zenon, <1>2, <1>4, <1>6, <2>1, QueueGrows
<1>9. ASSUME NEW c \in Client PROVE OrderlyInv(c)'
  <2>1. ~Mine(c, p)
    BY Zenon, <1>2, PingAssumption DEF Mine
  <2>2. \A i \in 1 .. Len(queue'[c]) :
          Mine(c, queue'[c][i]) => i \in 1 .. Len(queue[c]) /\ queue'[c][i] = queue[c][i]
    BY Zenon, <1>4, <2>1 DEF Grown
  <2>3. OrderlyInv(c)
    BY Zenon DEF RunInv
  <2> SUFFICES ASSUME history[c].orderly, Alone(c)
               PROVE  OrderlyInv(c)'
    BY Zenon, <1>3, <1>6, AloneStays DEF OrderlyInv
  <2>4. /\ \A i \in 1 .. Len(queue'[c]) :
             Mine(c, queue'[c][i]) => queue'[c][i].round = round[c] /\ pc[c] = "wait"
        /\ \A i, j \in 1 .. Len(queue'[c]) :
             Mine(c, queue'[c][i]) /\ Mine(c, queue'[c][j]) => i = j
        /\ \A q \in net, i \in 1 .. Len(queue'[c]) : ~(Asks(c, q) /\ Mine(c, queue'[c][i]))
        /\ \A q, s \in net : Asks(c, q) /\ Asks(c, s) => q = s
    BY Zenon, <2>2, <2>3 DEF OrderlyInv
  <2> QED
    BY Zenon, <1>3, <1>6, <2>4 DEF OrderlyInv, Asks, Mine
<1>10. RunInv'
  BY Zenon, <1>6, <1>7, <1>8, <1>9 DEF RunInv
<1> QED
  BY Zenon, <1>3, <1>10, QuietReport DEF PingInv

-----------------------------------------------------------------------------
(* The theorems.                                                           *)

\* Before the first round the invariant holds.
LEMMA InitHolds ==
  ASSUME Init
  PROVE  PingInv
<1>1. /\ job \in Jobs /\ pc = [c \in Client |-> "send"] /\ round = [c \in Client |-> 0]
      /\ timed = [c \in Client |-> Program(c) = "async"] /\ queue = [c \in Client |-> <<>>]
      /\ net = {} /\ faults = 0 /\ report = {}
      /\ history = [c \in Client |-> [orderly |-> TRUE, rested |-> TRUE, erred |-> FALSE]]
  BY Zenon DEF Init
<1>2. TypeOK
  <2>1. pc \in [Client -> Where] /\ timed \in [Client -> BOOLEAN] /\ net \subseteq Packet
    BY Zenon, <1>1 DEF Where
  <2>2. \A c \in Client : round[c] \in 0 .. MaxRounds[c]
    <3>1. \A c \in Client : MaxRounds[c] \in Nat /\ round[c] = 0
      BY Zenon, <1>1, PingAssumption
    <3>2. \A n \in Nat : 0 \in 0 .. n
      BY SMT
    <3> QED
      BY Zenon, <3>1, <3>2
  <2>3. faults \in 0 .. MaxFaults
    BY SMT, <1>1, PingAssumption
  <2>4. queue \in [Client -> Seq(Packet)]
    <3>1. <<>> \in Seq(Packet)
      BY SMT
    <3> QED
      BY Zenon, <1>1, <3>1
  <2> QED
    BY Zenon, <2>1, <2>2, <2>3, <2>4 DEF TypeOK, Where
<1>3. ClientTypes
  <2>1. round \in [Client -> Nat]
    BY SMT, <1>1
  <2>2. history \in [Client -> History]
    BY Zenon, <1>1 DEF History
  <2> QED
    BY Zenon, <1>1, <2>1, <2>2 DEF ClientTypes
<1>4. \A c \in Client : \A i \in 1 .. Len(queue[c]) : FALSE
  <2>1. \A i \in 1 .. Len(<<>>) : FALSE
    BY SMT
  <2> QED
    BY Zenon, <1>1, <2>1
<1>5. NetInv /\ QueueInv /\ \A c \in Client : OrderlyInv(c)
  BY Zenon, <1>1, <1>4 DEF NetInv, QueueInv, OrderlyInv
<1>6. PaceInv
  BY Zenon, <1>1 DEF PaceInv
<1>7. ReportInv
  BY Zenon, <1>1 DEF ReportInv, PrintsOwnReplies, TimeIsOwn
<1> QED
  BY Zenon, <1>2, <1>3, <1>5, <1>6, <1>7 DEF PingInv, RunInv

\* Every step of programs and network keeps the invariant.
LEMMA NextHolds ==
  ASSUME PingInv, [Next]_vars
  PROVE  PingInv'
<1>0. RunInv
  BY Zenon DEF PingInv
<1>1. ASSUME NEW c \in Client, Step(c) PROVE PingInv'
  BY Zenon, <1>0, <1>1, SendKeeps, SendFailsKeeps, PrintReplyKeeps, DiscardKeeps, PacketErrorKeeps,
     SocketErrorKeeps, TimeoutKeeps, SleepKeeps DEF Step
<1>2. ASSUME Network PROVE PingInv'
  BY Zenon, <1>0, <1>2, RoundTripKeeps, DuplicateKeeps, DamageKeeps, ArriveKeeps DEF Network
<1>3. ASSUME UNCHANGED vars PROVE PingInv'
  <2>1. /\ job' = job /\ pc' = pc /\ round' = round /\ timed' = timed /\ queue' = queue
        /\ net' = net /\ faults' = faults /\ report' = report /\ history' = history
    BY Zenon, <1>3 DEF vars
  <2>2. (TypeOK /\ ClientTypes)'
    BY Zenon, <1>0, <2>1 DEF RunInv, TypeOK, ClientTypes
  <2>3. (NetInv /\ QueueInv /\ PaceInv)'
    <3>1. round \in [Client -> Nat] /\ net \subseteq Packet /\ queue \in [Client -> Seq(Packet)]
      BY Zenon, <1>0, TypeFacts DEF RunInv
    <3>2. RoundsGrow
      BY SMT, <2>1, <3>1 DEF RoundsGrow
    <3>3. NetInv'
      BY Zenon, <1>0, <2>1, <3>1, <3>2, NetShrinks DEF RunInv
    <3>4. QueueInv'
      BY Zenon, <1>0, <2>1, <3>1, <3>2, QueueShrinks DEF RunInv
    <3>5. PaceInv'
      BY Zenon, <1>0, <2>1 DEF RunInv, PaceInv, Raw, Program
    <3> QED
      BY <3>3, <3>4, <3>5
  <2>4. \A c \in Client : OrderlyInv(c)'
    BY Zenon, <1>0, <2>1, OrderlyStays DEF RunInv
  <2>5. ReportInv'
    BY Zenon, <2>1 DEF PingInv, ReportInv, PrintsOwnReplies, TimeIsOwn, Alone, Raw, Program, Target
  <2> QED
    BY Zenon, <2>2, <2>3, <2>4, <2>5 DEF PingInv, RunInv
<1> QED
  BY Zenon, <1>1, <1>2, <1>3 DEF Next

\* PingInv is an inductive invariant of the programs and their network.
THEOREM PingInvariant == Spec => []PingInv
<1>1. Init => PingInv
  BY InitHolds
<1>2. PingInv /\ [Next]_vars => PingInv'
  BY NextHolds
<1> QED
  BY <1>1, <1>2, PTL DEF Spec

\* Every variable has its type; no sequence number leaves the u16 range.
THEOREM TypeCorrect == Spec => []TypeOK
<1>1. PingInv => TypeOK
  BY Zenon DEF PingInv, RunInv
<1> QED
  BY <1>1, PingInvariant, PTL

\* What is printed is an undamaged reply of the pinged host to a request sent
\* from this machine, and on a ping socket to one of its own (async_ping4.rs:65).
THEOREM PrintsCorrect == Spec => []PrintsOwnReplies
<1>1. PingInv => PrintsOwnReplies
  BY Zenon DEF PingInv, ReportInv
<1> QED
  BY <1>1, PingInvariant, PTL

\* While replies come once and in time, the printed time is measured from the
\* request the reply answers, whatever is lost, damaged or comes in between: no
\* round ends with its own reply still queued (ping4.rs:73, 90).
THEOREM TimeCorrect == Spec => []TimeIsOwn
<1>1. PingInv => TimeIsOwn
  BY Zenon DEF PingInv, ReportInv
<1> QED
  BY <1>1, PingInvariant, PTL

\* Only Send starts a round, and who sends has rested, or is a raw program that
\* comes from a receive error (ping4.rs:81, async_ping4.rs:102).
THEOREM PaceCorrect == Spec => Paced
<1>1. PingInv /\ [Next]_vars =>
        [\A c \in Client : round'[c] > round[c] =>
           history[c].rested \/ (Raw(c) /\ history[c].erred)]_vars
  <2> SUFFICES ASSUME PingInv, Next, NEW c \in Client, round'[c] > round[c]
               PROVE  history[c].rested \/ (Raw(c) /\ history[c].erred)
    BY DEF Paced
  <2>1. round \in [Client -> Nat]
    BY Zenon, TypeFacts DEF PingInv, RunInv
  <2>2. round'[c] # round[c]
    BY SMT, <2>1
  <2>3. PICK d \in Client : Send(d)
    <3>1. ASSUME NEW d \in Client, Step(d), ~Send(d) PROVE round' = round
      BY Zenon, <3>1 DEF Step, SendFails, PrintReply, Discard, PacketError, SocketError, Timeout,
         Sleep, Break, clientVars
    <3>2. ASSUME Network PROVE round' = round
      BY Zenon, <3>2 DEF Network, RoundTrip, Duplicate, Damage, Arrive, Fault, clientVars
    <3> QED
      BY Zenon, <2>2, <3>1, <3>2 DEF Next
  <2>4. c = d
    BY Zenon, <2>1, <2>2, <2>3 DEF Send
  <2>5. pc[c] = "send"
    BY Zenon, <2>3, <2>4 DEF Send
  <2> QED
    BY Zenon, <2>5 DEF PingInv, RunInv, PaceInv
<1> QED
  BY <1>1, PingInvariant, PTL DEF Spec, Paced

=============================================================================
