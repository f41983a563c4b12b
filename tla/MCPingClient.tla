---------------------------- MODULE MCPingClient ----------------------------
(* PingClient for TLC: programs of two kinds that ping the same hosts.     *)
EXTENDS PingClient

CONSTANTS a, b, here, far, other, third

Job(program, target) == [program |-> program, target |-> target]

\* A raw and a ping socket on one target; two raw sockets, on one target or two;
\* this machine pinged over ICMPv6.
MCJobs ==
  {[c \in Client |-> IF c = a THEN Job("ping4", far) ELSE Job("async", far)],
   [c \in Client |-> Job("async", far)],
   [c \in Client |-> Job("ping4", IF c = a THEN far ELSE other)],
   [c \in Client |-> Job("ping6", here)]}

MCPort == [c \in Client |-> IF c = a THEN 7 ELSE 9]

\* One client long enough for the sequence to wrap, one to disturb it.
MCMaxRounds == [c \in Client |-> IF c = a THEN 3 ELSE 1]

StrayPacket(kind, from, identifier, v6) ==
  [kind |-> kind, from |-> from, to |-> here, v6 |-> v6, identifier |-> identifier,
   sequence |-> 0, intact |-> TRUE, asker |-> Nobody, round |-> 0, copy |-> FALSE]

\* A reply nobody asked for, of a host nobody pings; an error message of the
\* pinged host; a message of a type the parser does not know.
MCStray ==
  {StrayPacket("reply", third, 9, FALSE), StrayPacket("other", far, 0, FALSE),
   StrayPacket("unknown", third, 0, FALSE)}

=============================================================================
