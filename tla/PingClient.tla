----------------------------- MODULE PingClient -----------------------------
(***************************************************************************)
(* The ping programs of examples/: ping4 and ping6 on raw sockets, the     *)
(* async_ping4 and tokio_ping4 programs ("async") on ping sockets, running *)
(* side by side on one machine against a network that loses, delays,       *)
(* reorders, duplicates and damages packets and carries those of others.   *)
(*                                                                         *)
(* rcv_from is what ReceiveContract promises: the oldest packet, an error  *)
(* about it, or nothing.  A round is one turn of the outer loop: one       *)
(* request, then receives until a reply is printed or a receive fails.     *)
(* Time is counted in rounds: a printed time is right when the reply       *)
(* answers the request of its own round, whose send_time it is measured    *)
(* from.                                                                   *)
(***************************************************************************)
EXTENDS Naturals, Sequences

CONSTANTS
  Client,      \* running programs
  Jobs,        \* who may run what: per client a program and the host it pings
  Port,        \* per client: the identifier the kernel gives its ping socket
  Host,        \* machines
  Local,       \* this one
  Stray,       \* packets that arrive though nobody here asked for them
  Nobody,      \* asker of a stray packet
  SeqMod,      \* sequence numbers wrap here; 65536 in the code
  MaxRounds,   \* per client: bound on its requests
  MaxFaults    \* bound on duplicates, damage and stray packets together

\* An ICMP identifier is a u16.
U16 == 0 .. 65535

ASSUME PingAssumption ==
  /\ Jobs \subseteq [Client -> [program: {"ping4", "ping6", "async"}, target: Host]]
  /\ \A c, d \in Client : Port[c] = Port[d] => c = d
  /\ \A c \in Client : Port[c] \in U16 \ {0}
  /\ Nobody \notin Client /\ Local \in Host
  /\ SeqMod \in Nat \ {0} /\ MaxRounds \in [Client -> Nat] /\ MaxFaults \in Nat

\* asker, round and copy are history: the request a packet is or answers, and
\* whether it is the network's second copy.
Packet ==
  [kind: {"request", "reply", "other", "unknown"}, from: Host, to: Host, v6: BOOLEAN,
   identifier: U16, sequence: 0 .. SeqMod - 1, intact: BOOLEAN,
   asker: Client \cup {Nobody}, round: Nat, copy: BOOLEAN]

\* A pinged host sends no reply that answers no request.
ASSUME StrayAssumption ==
  \A p \in Stray :
    /\ p \in Packet /\ p.asker = Nobody
    /\ p.kind = "reply" => \A j \in Jobs, c \in Client : p.from # j[c].target

VARIABLES
  job,       \* per client: program and target, never changes
  pc,        \* per client: "send", "wait", "sleep", "stopped"
  round,     \* per client: requests sent so far
  timed,     \* per client: a receive timeout is set
  queue,     \* per client: the receive queue of its socket
  net,       \* the requests that are, or whose replies are, under way
  faults,    \* what the network did of its own so far
  report,    \* {r} when the last step printed reply r, else {}
  history    \* per client: what happened to it, for the properties

clientVars == <<job, pc, round, timed>>
vars == <<job, pc, round, timed, queue, net, faults, report, history>>

Program(c) == job[c].program
Target(c) == job[c].target

\* The socket is bound; the async programs have set their timeout.
Init ==
  /\ job \in Jobs
  /\ pc = [c \in Client |-> "send"]
  /\ round = [c \in Client |-> 0]
  /\ timed = [c \in Client |-> Program(c) = "async"]
  /\ queue = [c \in Client |-> <<>>]
  /\ net = {} /\ faults = 0 /\ report = {}
  /\ history = [c \in Client |-> [orderly |-> TRUE, rested |-> TRUE, erred |-> FALSE]]

-----------------------------------------------------------------------------
(* Packets.                                                                *)

Raw(c) == Program(c) # "async"
V6(c) == Program(c) = "ping6"

\* The raw programs all use 42; a ping socket its port.
Identifier(c) == IF Raw(c) THEN 42 ELSE Port[c]

\* Mutant: the counter does not wrap.
SequenceUnwrapped(n) == n

\* The u16 counter after n turns of the loop: wrapping_add(1).
Sequence(n) == n % SeqMod

Request(c) ==
  [kind |-> "request", from |-> Local, to |-> Target(c), v6 |-> V6(c),
   identifier |-> Identifier(c), sequence |-> Sequence(round[c]), intact |-> TRUE,
   asker |-> c, round |-> round[c] + 1, copy |-> FALSE]

Reply(p) == [p EXCEPT !.kind = "reply", !.from = p.to, !.to = Local]

\* What the kernel queues for the socket of c: a raw socket gets every ICMP
\* packet for this machine, an ICMPv6 one only after the kernel verified it; a
\* ping socket the echo replies with its identifier.
Sees(c, p) ==
  /\ p.to = Local /\ p.v6 = V6(c)
  /\ V6(c) => p.intact
  /\ ~Raw(c) => p.kind = "reply" /\ p.identifier = Identifier(c)

\* The queue q of the socket of c after p arrived.
Queued(c, q, p) == IF Sees(c, p) THEN Append(q, p) ELSE q

-----------------------------------------------------------------------------
(* The programs.                                                           *)

\* send_to / send; the raw programs set the timeout after it.
Send(c) ==
  /\ pc[c] = "send" /\ round[c] < MaxRounds[c]
  /\ net' = net \cup {Request(c)}
  /\ round' = [round EXCEPT ![c] = @ + 1]
  /\ timed' = [timed EXCEPT ![c] = TRUE]
  /\ pc' = [pc EXCEPT ![c] = "wait"]
  /\ history' = [history EXCEPT ![c] = [@ EXCEPT !.rested = FALSE, !.erred = FALSE]]
  /\ report' = {} /\ UNCHANGED <<job, queue, faults>>

\* unwrap panics, ? returns: the program ends.
SendFails(c) ==
  /\ pc[c] = "send" /\ round[c] < MaxRounds[c]
  /\ pc' = [pc EXCEPT ![c] = "stopped"]
  /\ report' = {} /\ UNCHANGED <<job, round, timed, history, queue, net, faults>>

\* packet_handler of ping4 and ping6: the address, then the kind of message.
PacketHandler(c, p) == p.from = Target(c) /\ p.kind = "reply"

\* ping4 looks at the checksum first, ping6 not at all.
Ping4Prints(c, p) == p.intact /\ PacketHandler(c, p)
Ping6Prints(c, p) == PacketHandler(c, p)

\* Mutant: the async programs do not compare the address.
AsyncIgnoresAddress(c, p) == p.intact /\ p.kind = "reply"

\* The body of the match in async_ping4 and tokio_ping4.
AsyncPrints(c, p) == p.from = Target(c) /\ p.intact /\ p.kind = "reply"

Prints(c, p) ==
  CASE Program(c) = "ping4" -> Ping4Prints(c, p)
    [] Program(c) = "ping6" -> Ping6Prints(c, p)
    [] OTHER -> AsyncPrints(c, p)

\* rcv_from takes the oldest packet.
Taken(c) == pc[c] = "wait" /\ queue[c] # <<>> /\ queue' = [queue EXCEPT ![c] = Tail(@)]

\* A reply is printed, with its own sequence number and the time since the
\* last request; the round is over.
PrintReply(c) ==
  LET p == Head(queue[c])
  IN  /\ Taken(c) /\ p.kind # "unknown" /\ Prints(c, p)
      /\ report' = {[client |-> c, packet |-> p, round |-> round[c]]}
      /\ pc' = [pc EXCEPT ![c] = "sleep"]
      /\ UNCHANGED <<job, round, timed, history, net, faults>>

\* Mutant: a packet that is not the reply ends the inner loop too.
DiscardBreaks(c) ==
  LET p == Head(queue[c])
  IN  /\ Taken(c) /\ p.kind # "unknown" /\ ~Prints(c, p)
      /\ pc' = [pc EXCEPT ![c] = "sleep"]
      /\ report' = {} /\ UNCHANGED <<job, round, timed, history, net, faults>>

\* Any other packet: the inner loop receives again, with a new timeout.
Discard(c) ==
  LET p == Head(queue[c])
  IN  /\ Taken(c) /\ p.kind # "unknown" /\ ~Prints(c, p)
      /\ report' = {} /\ UNCHANGED <<clientVars, history, net, faults>>

\* Mutant: the async programs start over at once, as ping4 and ping6 do.
BreaksToSend(c, how) ==
  /\ pc' = [pc EXCEPT ![c] = "send"]
  /\ history' = [history EXCEPT ![c] = how]
  /\ report' = {} /\ UNCHANGED <<job, round, timed, net>>

\* Err(e) => break: the async programs sleep then, the others send at once.
Break(c, how) ==
  /\ pc' = [pc EXCEPT ![c] = IF Raw(c) THEN "send" ELSE "sleep"]
  /\ history' = [history EXCEPT ![c] = how]
  /\ report' = {} /\ UNCHANGED <<job, round, timed, net>>

Erred(c) == [history[c] EXCEPT !.erred = TRUE, !.orderly = FALSE]

\* A packet of a type the parser does not know becomes an error.
PacketError(c) ==
  /\ Taken(c) /\ Head(queue[c]).kind = "unknown"
  /\ Break(c, Erred(c)) /\ UNCHANGED faults

\* An error of the operating system.
SocketError(c) ==
  /\ pc[c] = "wait" /\ faults < MaxFaults /\ faults' = faults + 1
  /\ Break(c, Erred(c)) /\ UNCHANGED queue

\* Mutant: a timeout does not end the round.
TimeoutContinues(c) ==
  /\ pc[c] = "wait" /\ queue[c] = <<>> /\ timed[c]
  /\ report' = {} /\ UNCHANGED <<clientVars, history, queue, net, faults>>

\* A timeout, after one second without a packet.
Timeout(c) ==
  /\ pc[c] = "wait" /\ queue[c] = <<>> /\ timed[c]
  /\ Break(c, [history[c] EXCEPT !.rested = TRUE]) /\ UNCHANGED <<queue, faults>>

\* One second later the next round begins.
Sleep(c) ==
  /\ pc[c] = "sleep"
  /\ pc' = [pc EXCEPT ![c] = "send"]
  /\ history' = [history EXCEPT ![c].rested = TRUE]
  /\ report' = {} /\ UNCHANGED <<job, round, timed, queue, net, faults>>

-----------------------------------------------------------------------------
(* The network and the pinged hosts (external).                            *)

\* The first reply to p comes while its asker waits in the round of p.
InTime(p) == ~p.copy /\ pc[p.asker] = "wait" /\ round[p.asker] = p.round

\* The pinged host answers p and the reply arrives, sooner or later or, if this
\* step is never taken, not at all; this machine's raw sockets see the request,
\* too, if it is for this machine.
Answer(p, reply) ==
  /\ queue' = [c \in Client |-> Queued(c, Queued(c, queue[c], p), reply)]
  /\ history' = [history EXCEPT ![p.asker].orderly = @ /\ InTime(p)]

RoundTrip(p) ==
  /\ p \in net /\ net' = net \ {p} /\ Answer(p, Reply(p))
  /\ report' = {} /\ UNCHANGED <<clientVars, faults>>

Fault == faults < MaxFaults /\ faults' = faults + 1 /\ report' = {} /\ UNCHANGED clientVars

\* A second copy of the reply is still under way.
Duplicate(p) ==
  /\ Fault /\ p \in net /\ ~p.copy
  /\ net' = (net \ {p}) \cup {[p EXCEPT !.copy = TRUE]} /\ Answer(p, Reply(p))

Damage(p) ==
  /\ Fault /\ p \in net
  /\ net' = net \ {p} /\ Answer(p, [Reply(p) EXCEPT !.intact = FALSE])

Arrive(p) ==
  Fault /\ queue' = [c \in Client |-> Queued(c, queue[c], p)] /\ UNCHANGED <<net, history>>

-----------------------------------------------------------------------------

Step(c) ==
  \/ Send(c) \/ SendFails(c)
  \/ PrintReply(c) \/ Discard(c) \/ PacketError(c) \/ SocketError(c) \/ Timeout(c)
  \/ Sleep(c)

Network ==
  \/ \E p \in net : RoundTrip(p) \/ Duplicate(p) \/ Damage(p)
  \/ \E p \in Stray : Arrive(p)

Next == (\E c \in Client : Step(c)) \/ Network

\* A running program runs on: a receive returns a queued packet, or its timeout
\* runs out; a sleep ends.  The network owes nothing.
Fairness == \A c \in Client : WF_vars(PrintReply(c) \/ Discard(c) \/ PacketError(c) \/ Timeout(c) \/ Sleep(c))

Spec == Init /\ [][Next]_vars /\ Fairness

-----------------------------------------------------------------------------
(* Properties.                                                             *)

\* Every variable has its type.
TypeOK ==
  /\ pc \in [Client -> {"send", "wait", "sleep", "stopped"}]
  /\ \A c \in Client : round[c] \in 0 .. MaxRounds[c]
  /\ timed \in [Client -> BOOLEAN]
  /\ faults \in 0 .. MaxFaults
  /\ net \subseteq Packet
  /\ queue \in [Client -> Seq(Packet)]

\* What is printed is a reply: an undamaged echo reply of the pinged host to a
\* request some client here sent to it, in this or an earlier round.  A program
\* on a ping socket prints only replies to its own requests, whatever else is
\* pinged from this machine, unless a raw program happens to use its identifier
\* (async_ping4.rs:65, socket.rs:383).
PrintsOwnReplies ==
  \A r \in report :
    /\ r.packet.intact /\ r.packet.asker # Nobody
    /\ Target(r.packet.asker) = Target(r.client)
    /\ r.packet.round <= round[r.packet.asker]
    /\ ~Raw(r.client) /\ Port[r.client] # 42 => r.packet.asker = r.client

\* Nobody else's replies pass for those of c: on a ping socket no raw program has
\* its identifier, on a raw socket no other program pings its target.
Alone(c) ==
  IF Raw(c) THEN \A d \in Client \ {c} : Target(d) # Target(c) ELSE Port[c] # 42

\* The printed time is the reply's own: while the network is orderly towards a
\* client (each reply comes once and before its round is over, no receive ends in
\* an error, requests may be lost and other packets come in between), what is
\* printed answers the request send_time was taken for (ping4.rs:73, 90).  No
\* round leaves a queued reply behind for the next one.
TimeIsOwn ==
  \A r \in report :
    history[r.client].orderly /\ Alone(r.client) =>
      r.packet.asker = r.client /\ r.packet.round = r.round

\* A client that sends again has rested a second since its last request, in the
\* sleep or in a timeout; ping4 and ping6 may also come straight from a receive
\* error (ping4.rs:81), the async programs not (async_ping4.rs:102).
Paced ==
  [][\A c \in Client : round'[c] > round[c] =>
       history[c].rested \/ (Raw(c) /\ history[c].erred)]_vars

\* "Read replies until we see our own destination or time out"
\* (async_ping4.rs:64): every round ends, if the stray traffic does, lost
\* replies and discarded packets notwithstanding.
RoundEnds == \A c \in Client : pc[c] = "wait" ~> pc[c] # "wait"

=============================================================================
