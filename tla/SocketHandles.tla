--------------------------- MODULE SocketHandles ---------------------------
(***************************************************************************)
(* The socket wrappers of icmp-socket2 (socket.rs, async_common.rs,        *)
(* tokio.rs, async_io.rs): IcmpSocket4, DgramIcmpSocket4, IcmpSocket6 and  *)
(* the async sockets the IPv4 ones convert to.                             *)
(*                                                                         *)
(* A handle is one wrapper value; try_clone makes a second handle on the   *)
(* SAME operating-system socket (dup).  A handle keeps bound_to, the       *)
(* identifier and opts.hops for itself; TTL, nonblocking mode, bound       *)
(* address and port belong to the OS socket and are shared.  Handles live  *)
(* on different threads or tasks, so the two system calls of a send (set   *)
(* the TTL, then send) interleave with the calls of the other handles.     *)
(* A method takes &mut self, hence one handle runs one call at a time.     *)
(***************************************************************************)
EXTENDS Integers, FiniteSets

CONSTANTS
  Handle,              \* identities of wrapper values
  Sock,                \* identities of operating-system sockets
  Addr,                \* local addresses a caller may bind
  Port,                \* ICMP identifiers the kernel may assign to a ping socket
  Hops,                \* values a caller may pass to set_max_hops
  KernelTtl,           \* the TTL a new OS socket starts with
  KernelAssignsPorts,  \* TRUE on Linux; on macOS a ping socket has no port
  None                 \* Option::None for bound_to; the socket of a dropped handle

Identifier == 0 .. 65535   \* u16
Ttl == 0 .. 255            \* what the hop limit field of a packet can hold

\* Hops leaves out values from 2^31 up: all are refused like 256 except 2^32-1,
\* which the kernel reads as -1, "use the default".
MaxHops == 2147483647

ASSUME HandlesAssumption ==
  /\ None \notin Addr \cup Sock
  /\ Port \subseteq Identifier \ {0}
  /\ Hops \subseteq 0 .. MaxHops
  /\ KernelTtl \in Ttl
  /\ KernelAssignsPorts \in BOOLEAN

DefaultHops == 50
HopCount == Hops \cup {DefaultHops}

Kind == {"raw4", "dgram4", "raw6"}           \* IcmpSocket4, DgramIcmpSocket4, IcmpSocket6
Mode == {"blocking", "async_io", "tokio"}
AsyncMode == Mode \ {"blocking"}

VARIABLES
  handle,   \* per handle, the fields of the wrapper
  os,       \* per OS socket, the kernel's state
  call,     \* per handle, the send in progress
  wire      \* {p} when the last step handed packet p to the network, else {}

vars == <<handle, os, call, wire>>

-----------------------------------------------------------------------------
(* State.  everBound and established are history: the addresses an OS      *)
(* socket was ever bound to, and whether a bind() through this handle, or  *)
(* through the one it was cloned or converted from, returned Ok.           *)

HandleState ==
  [sock: Sock \cup {None}, kind: Kind, mode: Mode, bound_to: Addr \cup {None},
   identifier: Identifier, hops: HopCount, established: BOOLEAN]

OsState ==
  [local: Addr \cup {None}, port: Identifier, ttl: Ttl,
   nonblocking: BOOLEAN, everBound: SUBSET Addr]

\* quiet is history: no other handle set the TTL since this call did.
CallState ==
  [sending: BOOLEAN, hops: HopCount, ident: Identifier,
   src: Addr \cup {None}, quiet: BOOLEAN]

Packet ==
  [kind: Kind, ttl: Ttl, hops: HopCount, quiet: BOOLEAN,
   id: Identifier, ident: Identifier, established: BOOLEAN]

\* Icmp4Core::from_socket / IcmpSocket6::new_from_socket.
FromSocket(s, k) ==
  [sock |-> s, kind |-> k, mode |-> "blocking", bound_to |-> None,
   identifier |-> 0, hops |-> DefaultHops, established |-> FALSE]

\* Socket::new: an unbound, blocking OS socket.
NewOsSocket ==
  [local |-> None, port |-> 0, ttl |-> KernelTtl, nonblocking |-> FALSE,
   everBound |-> {}]

NoCall ==
  [sending |-> FALSE, hops |-> DefaultHops, ident |-> 0, src |-> None, quiet |-> TRUE]

Live == {h \in Handle : handle[h].sock # None}

Idle(h) == h \in Live /\ ~call[h].sending

\* The handles whose descriptor refers to OS socket s.
Sharers(s) == {h \in Live : handle[h].sock = s}

Init ==
  /\ handle = [h \in Handle |-> FromSocket(None, "raw4")]
  /\ os = [s \in Sock |-> NewOsSocket]
  /\ call = [h \in Handle |-> NoCall]
  /\ wire = {}

-----------------------------------------------------------------------------
(* Kernel (external): what the system calls do to an OS socket.            *)

\* IP_TTL accepts 1..255, IPV6_UNICAST_HOPS 0..255; set_max_hops checks nothing.
AcceptsHops(k, n) == n \in (IF k = "raw6" THEN 0 ELSE 1) .. 255

\* A ping socket gets a port no other socket has; one that has a port keeps it.
FreePorts == Port \ {os[s].port : s \in Sock}

\* The states bind(2) may leave the OS socket of h in; none when it refuses.
BindResults(h, a) ==
  LET o == os[handle[h].sock]
      ports == IF handle[h].kind = "dgram4" /\ KernelAssignsPorts
               THEN IF o.port = 0 THEN FreePorts ELSE {}
               ELSE {0}
  IN  {[local |-> a, port |-> p, ttl |-> o.ttl, nonblocking |-> o.nonblocking,
        everBound |-> o.everBound \cup {a}] : p \in ports}

\* Closing a descriptor closes the OS socket with its last handle.
AfterClose(h, o) == IF Sharers(handle[h].sock) = {h} THEN NewOsSocket ELSE o

-----------------------------------------------------------------------------
(* Construction, cloning, conversion, drop.                                *)

\* IcmpSocket4::new, DgramIcmpSocket4::new, IcmpSocket6::new.
New(h, k, s) ==
  /\ h \notin Live /\ Sharers(s) = {}
  /\ handle' = [handle EXCEPT ![h] = FromSocket(s, k)]
  /\ wire' = {} /\ UNCHANGED <<os, call>>

\* TryFrom<Ipv4Addr> / TryFrom<Ipv6Addr>: new, then bind; if the bind fails the
\* new socket is dropped and nothing is left.
TryFrom(h, k, s, a) ==
  /\ h \notin Live /\ Sharers(s) = {} /\ k # "dgram4"
  /\ handle' = [handle EXCEPT ![h] =
       [sock |-> s, kind |-> k, mode |-> "blocking", bound_to |-> a, identifier |-> 0,
        hops |-> DefaultHops, established |-> TRUE]]
  /\ os' = [os EXCEPT ![s] =
       [local |-> a, port |-> 0, ttl |-> KernelTtl, nonblocking |-> FALSE, everBound |-> {a}]]
  /\ wire' = {} /\ UNCHANGED call

\* Mutant: the clone is built with identifier 0, as new() does.
CloneForgetsIdentifier(h, c) ==
  /\ Idle(h) /\ handle[h].mode = "blocking"
  /\ handle[h].bound_to # None
  /\ c \notin Live
  /\ handle' = [handle EXCEPT ![c] = [handle[h] EXCEPT !.identifier = 0]]
  /\ wire' = {} /\ UNCHANGED <<os, call>>

\* try_clone: refused before bind; the clone copies the wrapper's own fields.
TryClone(h, c) ==
  /\ Idle(h) /\ handle[h].mode = "blocking"
  /\ handle[h].bound_to # None
  /\ c \notin Live
  /\ handle' = [handle EXCEPT ![c] = handle[h]]
  /\ wire' = {} /\ UNCHANGED <<os, call>>

\* Mutant: the conversion leaves the OS socket as it is.
ConvertKeepsBlocking(h, m) ==
  /\ Idle(h) /\ handle[h].mode = "blocking" /\ handle[h].kind # "raw6"
  /\ m \in AsyncMode
  /\ handle' = [handle EXCEPT ![h].mode = m]
  /\ wire' = {} /\ UNCHANGED <<os, call>>

\* into_async_io / into_tokio, every step Ok: the OS socket turns nonblocking
\* for all its handles, the wrapper state moves over.
Convert(h, m) ==
  /\ Idle(h) /\ handle[h].mode = "blocking" /\ handle[h].kind # "raw6"
  /\ m \in AsyncMode
  /\ os' = [os EXCEPT ![handle[h].sock].nonblocking = TRUE]
  /\ handle' = [handle EXCEPT ![h].mode = m]
  /\ wire' = {} /\ UNCHANGED call

\* Mutant: a conversion that takes &self, started while a send is in progress.
ConvertFailsMidSend(h, m) ==
  /\ h \in Live /\ handle[h].mode = "blocking" /\ handle[h].kind # "raw6"
  /\ m \in AsyncMode
  /\ \E nb \in {TRUE, os[handle[h].sock].nonblocking} :
       os' = [os EXCEPT ![handle[h].sock] = AfterClose(h, [@ EXCEPT !.nonblocking = nb])]
  /\ handle' = [handle EXCEPT ![h] = FromSocket(None, "raw4")]
  /\ wire' = {} /\ UNCHANGED call

\* A conversion that fails has consumed self: the handle is gone.  It fails
\* before set_nonblocking (no entered Tokio runtime) or after it (the reactor
\* refuses the descriptor); in that case the clones stay nonblocking.
ConvertFails(h, m) ==
  /\ Idle(h) /\ handle[h].mode = "blocking" /\ handle[h].kind # "raw6"
  /\ m \in AsyncMode
  /\ \E nb \in {TRUE, os[handle[h].sock].nonblocking} :
       os' = [os EXCEPT ![handle[h].sock] = AfterClose(h, [@ EXCEPT !.nonblocking = nb])]
  /\ handle' = [handle EXCEPT ![h] = FromSocket(None, "raw4")]
  /\ wire' = {} /\ UNCHANGED call

Drop(h) ==
  /\ Idle(h)
  /\ os' = [os EXCEPT ![handle[h].sock] = AfterClose(h, @)]
  /\ handle' = [handle EXCEPT ![h] = FromSocket(None, "raw4")]
  /\ wire' = {} /\ UNCHANGED call

-----------------------------------------------------------------------------
(* bind.                                                                   *)

\* Mutant: bind does not read the port back.
IdentifierNotRead(k, o, old) == old

\* DgramIcmpSocket4::bind reads the identifier back from the bound port.
LocalIdentifier(k, o, old) == IF k = "dgram4" THEN o.port ELSE old

\* The wrapper w after bind(a) returned Ok and left its OS socket in state o.
Bound(w, a, o) ==
  [sock |-> w.sock, kind |-> w.kind, mode |-> w.mode, bound_to |-> a,
   identifier |-> LocalIdentifier(w.kind, o, w.identifier), hops |-> w.hops,
   established |-> TRUE]

\* Icmp4Core::bind, IcmpSocket6::bind, DgramIcmpSocket4::bind: the kernel binds first.
Bind(h, a) ==
  /\ Idle(h) /\ handle[h].mode = "blocking"
  /\ \E o \in BindResults(h, a) :
       /\ os' = [os EXCEPT ![handle[h].sock] = o]
       /\ handle' = [handle EXCEPT ![h] = Bound(@, a, o)]
  /\ wire' = {} /\ UNCHANGED call

\* AsyncIcmp4State::bind records the address, then asks the kernel.
AsyncBind(h, a) ==
  /\ Idle(h) /\ handle[h].mode # "blocking"
  /\ \E o \in BindResults(h, a) :
       /\ os' = [os EXCEPT ![handle[h].sock] = o]
       /\ handle' = [handle EXCEPT ![h] = Bound(@, a, o)]
  /\ wire' = {} /\ UNCHANGED call

\* bind(2) succeeded, getsockname(2) did not: bind() returns Err with the OS
\* socket bound and the identifier not established.
BindLosesIdentifier(h, a) ==
  /\ Idle(h) /\ handle[h].kind = "dgram4"
  /\ \E o \in BindResults(h, a) : os' = [os EXCEPT ![handle[h].sock] = o]
  /\ handle' = [handle EXCEPT ![h].bound_to = a]
  /\ wire' = {} /\ UNCHANGED call

\* Mutant: the blocking bind records the address first, as the async one does.
BindRecordsFirst(h, a) ==
  /\ Idle(h) /\ handle[h].mode = "blocking"
  /\ handle' = [handle EXCEPT ![h].bound_to = a]
  /\ wire' = {} /\ UNCHANGED <<os, call>>

\* bind(2) refuses (address in use or not local, port already set): the
\* blocking wrapper returns before it touches bound_to ...
BindRefused(h, a) ==
  /\ Idle(h) /\ handle[h].mode = "blocking"
  /\ wire' = {} /\ UNCHANGED <<handle, os, call>>

\* ... the async one has already recorded the address.
AsyncBindRefused(h, a) ==
  /\ Idle(h) /\ handle[h].mode # "blocking"
  /\ handle' = [handle EXCEPT ![h].bound_to = a]
  /\ wire' = {} /\ UNCHANGED <<os, call>>

-----------------------------------------------------------------------------
(* Options and send.                                                       *)

\* set_max_hops stores the value; it reaches the kernel with the next send.
SetMaxHops(h, n) ==
  /\ Idle(h)
  /\ handle' = [handle EXCEPT ![h].hops = n]
  /\ wire' = {} /\ UNCHANGED <<os, call>>

\* Mutant: the send does not set the TTL of the OS socket.
SendSkipsTtl(h) ==
  /\ Idle(h)
  /\ handle[h].kind = "raw6" => handle[h].bound_to # None
  /\ call' = [call EXCEPT ![h] =
       [sending |-> TRUE, hops |-> handle[h].hops, ident |-> handle[h].identifier,
        src |-> handle[h].bound_to, quiet |-> TRUE]]
  /\ wire' = {} /\ UNCHANGED <<handle, os>>

\* Mutant: an unbound IPv6 socket may send, with no source for the checksum.
SendUnbound(h) ==
  /\ Idle(h) /\ AcceptsHops(handle[h].kind, handle[h].hops)
  /\ os' = [os EXCEPT ![handle[h].sock].ttl = handle[h].hops]
  /\ call' = [g \in Handle |->
       IF g = h
       THEN [sending |-> TRUE, hops |-> handle[h].hops, ident |-> handle[h].identifier,
             src |-> handle[h].bound_to, quiet |-> TRUE]
       ELSE [call[g] EXCEPT !.quiet = @ /\ (call[g].sending => handle[g].sock # handle[h].sock)]]
  /\ wire' = {} /\ UNCHANGED handle

\* The first half of a send: IPv6 needs bound_to, the source of its checksum;
\* then set_ttl_v4 / set_unicast_hops_v6 writes opts.hops to the shared OS
\* socket.  An error of either step returns with nothing changed.
SendStart(h) ==
  /\ Idle(h)
  /\ handle[h].kind = "raw6" => handle[h].bound_to # None
  /\ AcceptsHops(handle[h].kind, handle[h].hops)
  /\ os' = [os EXCEPT ![handle[h].sock].ttl = handle[h].hops]
  /\ call' = [g \in Handle |->
       IF g = h
       THEN [sending |-> TRUE, hops |-> handle[h].hops, ident |-> handle[h].identifier,
             src |-> handle[h].bound_to, quiet |-> TRUE]
       ELSE [call[g] EXCEPT !.quiet = @ /\ (call[g].sending => handle[g].sock # handle[h].sock)]]
  /\ wire' = {} /\ UNCHANGED handle

\* The second half, send_to.  The packet leaves with the TTL the OS socket has
\* now; a Linux ping socket (bound by the kernel if nobody did) replaces the
\* identifier by its port.
SendFinish(h) ==
  /\ h \in Live /\ call[h].sending
  /\ LET s == handle[h].sock
         ping == handle[h].kind = "dgram4" /\ KernelAssignsPorts
     IN  \E port \in IF ping /\ os[s].port = 0 THEN FreePorts ELSE {os[s].port} :
           /\ os' = [os EXCEPT ![s].port = port]
           /\ wire' = {[kind |-> handle[h].kind, ttl |-> os[s].ttl, hops |-> call[h].hops,
                        quiet |-> call[h].quiet, id |-> IF ping THEN port ELSE call[h].ident,
                        ident |-> call[h].ident, established |-> handle[h].established]}
  /\ call' = [call EXCEPT ![h] = NoCall]
  /\ UNCHANGED handle

\* send_to fails, or the async send is cancelled before the socket is writable.
SendFails(h) ==
  /\ h \in Live /\ call[h].sending
  /\ call' = [call EXCEPT ![h] = NoCall]
  /\ wire' = {} /\ UNCHANGED <<handle, os>>

-----------------------------------------------------------------------------

Lifecycle(h) ==
  \/ \E k \in Kind, s \in Sock : New(h, k, s) \/ \E a \in Addr : TryFrom(h, k, s, a)
  \/ \E c \in Handle : TryClone(h, c)
  \/ \E m \in Mode : Convert(h, m) \/ ConvertFails(h, m)
  \/ Drop(h)

Binding(h, a) ==
  \/ Bind(h, a)
  \/ AsyncBind(h, a)
  \/ BindLosesIdentifier(h, a)
  \/ BindRefused(h, a)
  \/ AsyncBindRefused(h, a)

Sending(h) ==
  \/ \E n \in Hops : SetMaxHops(h, n)
  \/ SendStart(h)
  \/ SendFinish(h)
  \/ SendFails(h)

Next == \E h \in Handle : Lifecycle(h) \/ Sending(h) \/ \E a \in Addr : Binding(h, a)

Spec == Init /\ [][Next]_vars

-----------------------------------------------------------------------------
(* Properties.                                                             *)

\* Every field of a wrapper, an OS socket, a send in progress and a packet on
\* the wire has its type; the handle of a send in progress exists.
TypeOK ==
  /\ handle \in [Handle -> HandleState]
  /\ os \in [Sock -> OsState]
  /\ call \in [Handle -> CallState]
  /\ wire \in SUBSET Packet
  /\ \A h \in Handle : call[h].sending => h \in Live

\* bound_to() (socket.rs:272) of a handle that was never converted names an
\* address the OS socket really was bound to, whatever its clones do and
\* however their binds and conversions fail.
BoundToTruthful ==
  \A h \in Live : handle[h].mode = "blocking" /\ handle[h].bound_to # None
                    => handle[h].bound_to \in os[handle[h].sock].everBound

\* The same of an async handle; it fails, because AsyncIcmp4State::bind
\* (async_common.rs:68) records the address before the kernel accepts it.
AsyncBoundToTruthful ==
  \A h \in Live : handle[h].mode # "blocking" /\ handle[h].bound_to # None
                    => handle[h].bound_to \in os[handle[h].sock].everBound

\* The identifiers of ping sockets tell OS sockets apart (socket.rs:429): once
\* bind() returned Ok, another handle has the same identifier exactly when it is
\* a clone of the same OS socket made since, or bound it too; a handle on which
\* bind() failed, or was never called, has nobody's.
IdentifiersTellSocketsApart ==
  KernelAssignsPorts =>
    \A h, g \in Live :
      /\ {handle[h].kind, handle[g].kind} = {"dgram4"}
      /\ handle[h].established
      => (handle[h].identifier = handle[g].identifier
            <=> handle[h].sock = handle[g].sock /\ handle[g].established)

\* "Match replies against identifier()" (socket.rs:383): every packet a ping
\* socket sends after a successful bind carries the identifier its handle
\* reports, even though the kernel overwrites the one in the packet; a handle
\* that sends without one reports 0, never a wrong identifier.
WireCarriesIdentifier ==
  \A p \in wire : p.kind = "dgram4" => IF p.established THEN p.id = p.ident ELSE p.ident = 0

\* A packet leaves with the hop count its own handle had when the send began,
\* if no clone started a send between the two system calls.
UndisturbedTtl == \A p \in wire : p.quiet => p.ttl = p.hops

\* IPv6 checksums cover bound_to as the source address (socket.rs:666), while the
\* kernel goes by the address the OS socket has: from the first step of a send
\* to its last they are the same, if only one address was ever bound, and
\* whatever clones bind in between the checksum's was bound once.
ChecksumSourceBound ==
  \A h \in Live : handle[h].kind = "raw6" /\ call[h].sending =>
    LET o == os[handle[h].sock]
    IN  call[h].src \in o.everBound /\ (o.everBound = {call[h].src} => o.local = call[h].src)

\* What set_max_hops (socket.rs:58) promises without that proviso; it fails:
\* the TTL is set and the packet sent in two steps, on a shared OS socket.
TtlIsCallers == \A p \in wire : p.ttl = p.hops

\* The OS socket under an async handle is nonblocking, so a receive or a send
\* polled by an executor can never block its thread, whatever clones exist.
AsyncNeverBlocks ==
  \A h \in Live : handle[h].mode # "blocking" => os[handle[h].sock].nonblocking

=============================================================================
