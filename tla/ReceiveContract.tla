-------------------------- MODULE ReceiveContract --------------------------
(***************************************************************************)
(* What the receive calls of icmp-socket2 promise their callers: packets   *)
(* are handed out in arrival order, each to one call; a call returns its   *)
(* packet whole, or reports an error about it, or ends without a packet,   *)
(* and only in the first two cases does a packet leave the socket.         *)
(***************************************************************************)
EXTENDS Naturals, Sequences

CONSTANT Handle, Datagram   \* Datagram: the packets the network may deliver

VARIABLES
  pending,   \* packets delivered to the socket and not yet taken
  waiting,   \* the handles with a call in progress
  told       \* {v} when the last step returned verdict v to a caller, else {}

contractVars == <<pending, waiting, told>>

ContractInit == pending = <<>> /\ waiting = {} /\ told = {}

Deliver(p) == told' = {} /\ UNCHANGED waiting /\ pending' = Append(pending, p)

Begin(h) == told' = {} /\ UNCHANGED pending /\ waiting' = waiting \cup {h}

\* The call of h ends with verdict v.
Return(h, v) == h \in waiting /\ waiting' = waiting \ {h} /\ told' = {v}

\* The oldest packet is returned, every byte of it.
HandOver(h) ==
  /\ pending # <<>> /\ pending' = Tail(pending)
  /\ Return(h, [to |-> h, verdict |-> "packet", n |-> Head(pending).n,
                bytes |-> Head(pending).size])

\* The oldest packet is dropped, and the caller is told so.
Reject(h) ==
  /\ pending # <<>> /\ pending' = Tail(pending)
  /\ Return(h, [to |-> h, verdict |-> "error", n |-> Head(pending).n, bytes |-> 0])

\* No packet: a timeout, WouldBlock, an error of the operating system.
GiveUp(h) ==
  /\ UNCHANGED pending
  /\ Return(h, [to |-> h, verdict |-> "nothing", n |-> 0, bytes |-> 0])

\* The caller drops the future of an async call.
Abandon(h) == waiting' = waiting \ {h} /\ told' = {} /\ UNCHANGED pending

Internal == told' = {} /\ UNCHANGED <<pending, waiting>>

ContractNext ==
  \/ Internal
  \/ \E h \in Handle : Begin(h) \/ HandOver(h) \/ Reject(h) \/ GiveUp(h) \/ Abandon(h)
  \/ \E p \in Datagram : Deliver(p)

ContractSpec == ContractInit /\ [][ContractNext]_contractVars

=============================================================================
