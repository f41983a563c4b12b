------------------------ MODULE SocketHandles_proofs ------------------------
(***************************************************************************)
(* SocketHandles, for every number of handles, OS sockets, addresses and   *)
(* ports: types, and the invariants about bound_to, identifiers, TTL and   *)
(* nonblocking mode that the runs check on two and three handles.          *)
(***************************************************************************)
EXTENDS SocketHandles, TLAPS

-----------------------------------------------------------------------------
(* The inductive invariant.                                                *)

\* Clones and conversions never change what kind of socket is underneath.
SharersAgreeOnKind ==
  \A h, g \in Live : handle[h].sock = handle[g].sock => handle[h].kind = handle[g].kind

\* A port belongs to one OS socket, and exists only where the kernel assigns them.
PortsAreUnique ==
  /\ \A s, r \in Sock : os[s].port = os[r].port /\ os[s].port # 0 => s = r
  /\ ~KernelAssignsPorts => \A s \in Sock : os[s].port = 0

\* The identifier a ping handle read at bind stays the port of its OS socket;
\* before that it is 0.
IdentifierIsPort ==
  \A h \in Live : handle[h].kind = "dgram4" =>
    /\ handle[h].established => handle[h].identifier = os[handle[h].sock].port
    /\ handle[h].established /\ KernelAssignsPorts => os[handle[h].sock].port # 0
    /\ ~handle[h].established => handle[h].identifier = 0

\* A send in progress uses the identifier of its handle, and finds the TTL it
\* set unless another handle set it since.
SendsInProgress ==
  \A h \in Live : call[h].sending =>
    /\ call[h].ident = handle[h].identifier
    /\ call[h].quiet => os[handle[h].sock].ttl = call[h].hops

\* The conjuncts that speak of one OS socket and the handles on it.
SharedInv ==
  /\ SharersAgreeOnKind
  /\ PortsAreUnique
  /\ IdentifierIsPort
  /\ SendsInProgress
  /\ BoundToTruthful
  /\ AsyncNeverBlocks

\* An OS socket has a local address once it was bound, one it was bound to.
LocalIsBound(o) == IF o.everBound = {} THEN o.local = None ELSE o.local \in o.everBound

\* IPv6 sockets have no async form, so their bound_to is always truthful, and
\* the source a send in progress computed its checksum with was bound once.
SourceInv ==
  /\ \A s \in Sock : LocalIsBound(os[s])
  /\ \A h \in Live : handle[h].kind = "raw6" =>
       /\ handle[h].mode = "blocking"
       /\ call[h].sending => call[h].src \in os[handle[h].sock].everBound

HandlesInv == TypeOK /\ SharedInv /\ SourceInv /\ WireCarriesIdentifier /\ UndisturbedTtl

-----------------------------------------------------------------------------
(* Types.                                                                  *)

\* Numbers: the provers see the ranges Identifier and Ttl only through these.
LEMMA Ranges ==
  /\ 0 \in Identifier
  /\ Port \subseteq Identifier \ {0}
  /\ \A k \in Kind, n \in HopCount : AcceptsHops(k, n) => n \in Ttl
  /\ KernelTtl \in Ttl
  /\ DefaultHops \in HopCount
<1>1. 0 \in Identifier
  BY SMT DEF Identifier
<1>2. Port \subseteq Identifier \ {0} /\ KernelTtl \in Ttl
  BY Zenon, HandlesAssumption
<1>3. \A k \in Kind, n \in HopCount : AcceptsHops(k, n) => n \in Ttl
  BY SMT DEF AcceptsHops, Ttl
<1>4. DefaultHops \in HopCount
  BY Zenon DEF HopCount
<1> QED
  BY Zenon, <1>1, <1>2, <1>3, <1>4

\* None is neither an address nor an OS socket.
LEMMA NoneApart == None \notin Addr /\ None \notin Sock
BY Zenon, HandlesAssumption

\* The values the constructors build have their types.
LEMMA ConstructorTypes ==
  /\ \A s \in Sock \cup {None}, k \in Kind : FromSocket(s, k) \in HandleState
  /\ NewOsSocket \in OsState
  /\ NoCall \in CallState
<1> USE Ranges
<1>1. \A s \in Sock \cup {None}, k \in Kind : FromSocket(s, k) \in HandleState
  BY SMT DEF FromSocket, HandleState, Mode
<1>2. NewOsSocket \in OsState
  BY SMT DEF NewOsSocket, OsState
<1>3. NoCall \in CallState
  BY SMT DEF NoCall, CallState
<1> QED
  BY <1>1, <1>2, <1>3

\* What bind(2) and close(2) leave behind is an OS socket.
LEMMA KernelTypes ==
  ASSUME TypeOK, NEW h \in Live
  PROVE  /\ handle[h] \in HandleState /\ handle[h].sock \in Sock
         /\ os[handle[h].sock] \in OsState
         /\ \A a \in Addr : \A o \in BindResults(h, a) : o \in OsState
         /\ \A o \in OsState : AfterClose(h, o) \in OsState
<1>1. handle[h] \in HandleState /\ handle[h].sock \in Sock
  BY SMT DEF TypeOK, Live, HandleState
<1>2. os[handle[h].sock] \in OsState
  BY SMT, <1>1 DEF TypeOK
<1>3. ASSUME NEW a \in Addr, NEW o \in BindResults(h, a) PROVE o \in OsState
  <2> DEFINE q == os[handle[h].sock]
  <2>1. PICK p \in FreePorts \cup {0} :
          o = [local |-> a, port |-> p, ttl |-> q.ttl, nonblocking |-> q.nonblocking,
               everBound |-> q.everBound \cup {a}]
    BY SMT, <1>3 DEF BindResults
  <2>2. p \in Identifier
    BY SMT, <2>1, Ranges DEF FreePorts
  <2>3. q \in OsState
    BY <1>2
  <2> HIDE DEF q
  <2> QED
    BY SMT, <2>1, <2>2, <2>3 DEF OsState
<1>4. \A o \in OsState : AfterClose(h, o) \in OsState
  BY SMT, ConstructorTypes DEF AfterClose
<1> QED
  BY <1>1, <1>2, <1>3, <1>4

\* A function stays in its function space when one value is replaced.
LEMMA ExceptType ==
  \A S, T : \A f \in [S -> T] : \A x : \A v \in T : [f EXCEPT ![x] = v] \in [S -> T]
BY Zenon

\* Initially no handle lives and no send is in progress.
LEMMA TypeOKInit == Init => TypeOK
<1> SUFFICES ASSUME Init PROVE TypeOK
  OBVIOUS
<1>1. FromSocket(None, "raw4") \in HandleState /\ NewOsSocket \in OsState /\ NoCall \in CallState
  BY SMT, ConstructorTypes DEF Kind
<1>2. ~NoCall.sending
  BY SMT DEF NoCall
<1> QED
  BY SMT, <1>1, <1>2 DEF Init, TypeOK

\* A send that starts changes of another handle's call at most the quiet mark.
LEMMA OtherCalls ==
  ASSUME TypeOK, NEW h \in Handle, SendStart(h), NEW g \in Handle, g # h
  PROVE  /\ call'[g] \in CallState
         /\ call'[g].sending = call[g].sending
         /\ call'[g].ident = call[g].ident
         /\ call'[g].hops = call[g].hops /\ call'[g].src = call[g].src
         /\ call'[g].quiet = (call[g].quiet /\ (call[g].sending => handle[g].sock # handle[h].sock))
<1> DEFINE q == call[g].quiet /\ (call[g].sending => handle[g].sock # handle[h].sock)
<1>1. call'[g] = [call[g] EXCEPT !.quiet = q]
  BY Zenon DEF SendStart
<1>2. q \in BOOLEAN
  BY Zenon
<1>3. call[g] \in CallState
  BY SMT DEF TypeOK
<1> HIDE DEF q
<1>4. /\ call'[g] \in CallState
      /\ call'[g].sending = call[g].sending
      /\ call'[g].ident = call[g].ident
      /\ call'[g].hops = call[g].hops /\ call'[g].src = call[g].src
      /\ call'[g].quiet = q
  BY SMT, <1>1, <1>2, <1>3 DEF CallState
<1> QED
  BY Zenon, <1>4 DEF q

\* A step that leaves every handle it does not drop with its OS socket, and
\* starts no send on a dropped one, is well typed if its parts are.
LEMMA TypeOKStep == TypeOK /\ [Next]_vars => TypeOK'
<1> SUFFICES ASSUME TypeOK, [Next]_vars PROVE TypeOK'
  OBVIOUS
<1> USE ConstructorTypes, NoneApart
<1>1. ASSUME NEW h \in Handle, NEW k \in Kind, NEW s \in Sock, New(h, k, s) PROVE TypeOK'
  BY SMT, <1>1 DEF New, TypeOK, Live, FromSocket
<1>2. ASSUME NEW h \in Handle, NEW k \in Kind, NEW s \in Sock, NEW a \in Addr, TryFrom(h, k, s, a)
      PROVE  TypeOK'
  <2>1. handle'[h] \in HandleState
    BY SMT, <1>2, Ranges DEF TryFrom, TypeOK, HandleState, Mode
  <2>2. os'[s] \in OsState
    BY SMT, <1>2, Ranges DEF TryFrom, TypeOK, OsState
  <2> QED
    BY SMT, <1>2, <2>1, <2>2 DEF TryFrom, TypeOK, Live
<1>3. ASSUME NEW h \in Handle, NEW c \in Handle, TryClone(h, c) PROVE TypeOK'
  BY SMT, <1>3 DEF TryClone, TypeOK, Live, Idle
<1>4. ASSUME NEW h \in Handle, NEW m \in Mode, Convert(h, m) PROVE TypeOK'
  <2>1. h \in Live
    BY <1>4 DEF Convert, Idle
  <2>2. [handle[h] EXCEPT !.mode = m] \in HandleState
    BY SMT, <2>1, KernelTypes DEF HandleState
  <2>3. [os[handle[h].sock] EXCEPT !.nonblocking = TRUE] \in OsState
    <3>1. \A nb \in BOOLEAN : [os[handle[h].sock] EXCEPT !.nonblocking = nb] \in OsState
      BY SMT, <2>1, KernelTypes DEF OsState
    <3> QED
      BY Zenon, <3>1
  <2> QED
    BY SMT, <1>4, <2>1, <2>2, <2>3 DEF Convert, TypeOK, Live, HandleState
<1>5. ASSUME NEW h \in Handle, NEW m \in Mode, ConvertFails(h, m) PROVE TypeOK'
  <2>1. h \in Live /\ ~call[h].sending
    BY <1>5 DEF ConvertFails, Idle
  <2>2. \A nb \in BOOLEAN : AfterClose(h, [os[handle[h].sock] EXCEPT !.nonblocking = nb]) \in OsState
    BY SMT, <2>1, KernelTypes DEF OsState
  <2>3. os' \in [Sock -> OsState]
    <3>1. PICK nb \in {TRUE, os[handle[h].sock].nonblocking} :
            os' = [os EXCEPT ![handle[h].sock] =
                     AfterClose(h, [os[handle[h].sock] EXCEPT !.nonblocking = nb])]
      BY Zenon, <1>5 DEF ConvertFails
    <3>2. nb \in BOOLEAN
      <4>1. os[handle[h].sock].nonblocking \in BOOLEAN
        BY SMT, <2>1, KernelTypes DEF OsState
      <4> QED
        BY Zenon, <4>1
    <3>3. AfterClose(h, [os[handle[h].sock] EXCEPT !.nonblocking = nb]) \in OsState
      BY Zenon, <2>2, <3>2
    <3> QED
      BY Zenon, <3>1, <3>3, ExceptType DEF TypeOK
  <2> QED
    BY SMT, <1>5, <2>1, <2>3 DEF ConvertFails, TypeOK, Live, Kind
<1>6. ASSUME NEW h \in Handle, Drop(h) PROVE TypeOK'
  <2>1. h \in Live /\ ~call[h].sending
    BY <1>6 DEF Drop, Idle
  <2>2. os' \in [Sock -> OsState]
    BY SMT, <1>6, <2>1, KernelTypes DEF Drop, TypeOK
  <2> QED
    BY SMT, <1>6, <2>1, <2>2 DEF Drop, TypeOK, Live, Kind
<1>7. ASSUME NEW h \in Handle, NEW a \in Addr, Bind(h, a) \/ AsyncBind(h, a) PROVE TypeOK'
  <2>1. h \in Live
    BY <1>7 DEF Bind, AsyncBind, Idle
  <2>2. PICK o \in BindResults(h, a) :
          /\ os' = [os EXCEPT ![handle[h].sock] = o]
          /\ handle' = [handle EXCEPT ![h] = Bound(@, a, o)]
          /\ wire' = {} /\ UNCHANGED call
    BY <1>7 DEF Bind, AsyncBind
  <2>3. o \in OsState
    BY <2>1, <2>2, KernelTypes
  <2>4. Bound(handle[h], a, o) \in HandleState
    BY SMT, <2>1, <2>3, KernelTypes DEF Bound, LocalIdentifier, HandleState, OsState
  <2>5. Bound(handle[h], a, o).sock = handle[h].sock
    BY SMT DEF Bound
  <2> QED
    <3>1. handle' \in [Handle -> HandleState] /\ os' \in [Sock -> OsState]
      BY Zenon, <2>2, <2>3, <2>4, ExceptType DEF TypeOK
    <3>2. \A g \in Handle : handle'[g].sock = handle[g].sock
      BY SMT, <2>2, <2>5 DEF TypeOK
    <3> QED
      BY SMT, <2>2, <3>1, <3>2 DEF TypeOK, Live
<1>8. ASSUME NEW h \in Handle, NEW a \in Addr, BindLosesIdentifier(h, a) PROVE TypeOK'
  <2>1. h \in Live
    BY <1>8 DEF BindLosesIdentifier, Idle
  <2>2. PICK o \in BindResults(h, a) : os' = [os EXCEPT ![handle[h].sock] = o]
    BY <1>8 DEF BindLosesIdentifier
  <2>3. o \in OsState
    BY <2>1, <2>2, KernelTypes
  <2>4. [handle[h] EXCEPT !.bound_to = a] \in HandleState
    BY SMT, <2>1, KernelTypes DEF HandleState
  <2> QED
    BY SMT, <1>8, <2>1, <2>2, <2>3, <2>4 DEF BindLosesIdentifier, TypeOK, Live, HandleState
<1>9. ASSUME NEW h \in Handle, NEW a \in Addr, BindRefused(h, a) \/ AsyncBindRefused(h, a) PROVE TypeOK'
  <2>1. h \in Live
    BY <1>9 DEF BindRefused, AsyncBindRefused, Idle
  <2>2. [handle[h] EXCEPT !.bound_to = a] \in HandleState
    BY SMT, <2>1, KernelTypes DEF HandleState
  <2> QED
    BY SMT, <1>9, <2>1, <2>2 DEF BindRefused, AsyncBindRefused, TypeOK, Live, HandleState
<1>10. ASSUME NEW h \in Handle, NEW n \in Hops, SetMaxHops(h, n) PROVE TypeOK'
  <2>1. h \in Live
    BY <1>10 DEF SetMaxHops, Idle
  <2>2. [handle[h] EXCEPT !.hops = n] \in HandleState
    BY SMT, <2>1, KernelTypes DEF HandleState, HopCount
  <2> QED
    BY SMT, <1>10, <2>1, <2>2 DEF SetMaxHops, TypeOK, Live, HandleState
<1>11. ASSUME NEW h \in Handle, SendStart(h) PROVE TypeOK'
  <2>1. h \in Live
    BY <1>11 DEF SendStart, Idle
  <2>2. handle[h].hops \in Ttl
    BY SMT, <1>11, <2>1, KernelTypes, Ranges DEF SendStart, HandleState
  <2>3. [os[handle[h].sock] EXCEPT !.ttl = handle[h].hops] \in OsState
    BY SMT, <2>1, <2>2, KernelTypes DEF OsState
  <2>4. \A g \in Handle : call'[g] \in CallState
    <3>1. call'[h] \in CallState
      BY SMT, <1>11, <2>1, KernelTypes DEF SendStart, CallState, HandleState
    <3>2. ASSUME NEW g \in Handle, g # h PROVE call'[g] \in CallState
      BY <1>11, <3>2, OtherCalls
    <3> QED
      BY <3>1, <3>2
  <2>5. \A g \in Handle : g # h => call'[g].sending = call[g].sending
    BY <1>11, OtherCalls
  <2>6. call' \in [Handle -> CallState]
    BY Zenon, <1>11, <2>4 DEF SendStart
  <2>7. handle' = handle /\ wire' = {}
        /\ os' = [os EXCEPT ![handle[h].sock] = [os[handle[h].sock] EXCEPT !.ttl = handle[h].hops]]
    BY <1>11 DEF SendStart
  <2>8. os' \in [Sock -> OsState]
    BY Zenon, <2>3, <2>7, ExceptType DEF TypeOK
  <2>9. \A g \in Handle : call'[g].sending => g \in Live
    BY Zenon, <2>1, <2>5 DEF TypeOK
  <2>10. Live' = Live
    BY Zenon, <2>7 DEF Live
  <2> QED
    BY Zenon, <2>6, <2>7, <2>8, <2>9, <2>10 DEF TypeOK
<1>12. ASSUME NEW h \in Handle, SendFinish(h) PROVE TypeOK'
  <2>1. h \in Live
    BY <1>12 DEF SendFinish
  <2> DEFINE s == handle[h].sock
             ping == handle[h].kind = "dgram4" /\ KernelAssignsPorts
  <2>2. PICK port \in IF ping /\ os[s].port = 0 THEN FreePorts ELSE {os[s].port} :
           /\ os' = [os EXCEPT ![s].port = port]
           /\ wire' = {[kind |-> handle[h].kind, ttl |-> os[s].ttl, hops |-> call[h].hops,
                        quiet |-> call[h].quiet, id |-> IF ping THEN port ELSE call[h].ident,
                        ident |-> call[h].ident, established |-> handle[h].established]}
    BY <1>12 DEF SendFinish
  <2>3. port \in Identifier
    BY SMT, <2>1, <2>2, KernelTypes, Ranges DEF FreePorts, OsState
  <2>4. [os[s] EXCEPT !.port = port] \in OsState
    BY SMT, <2>1, <2>3, KernelTypes DEF OsState
  <2>5. wire' \in SUBSET Packet
    BY SMT, <2>1, <2>2, <2>3, KernelTypes DEF TypeOK, Packet, CallState, OsState, HandleState
  <2>6. ~NoCall.sending
    BY SMT DEF NoCall
  <2>7. handle' = handle /\ call' = [call EXCEPT ![h] = NoCall]
        /\ os' = [os EXCEPT ![s] = [os[s] EXCEPT !.port = port]]
    BY <1>12, <2>2 DEF SendFinish
  <2> HIDE DEF s, ping
  <2>8. os' \in [Sock -> OsState] /\ call' \in [Handle -> CallState]
    BY Zenon, <2>4, <2>7, ExceptType, ConstructorTypes DEF TypeOK
  <2>9. \A g \in Handle : call'[g].sending => call[g].sending
    BY SMT, <2>6, <2>7 DEF TypeOK
  <2>10. Live' = Live
    BY Zenon, <2>7 DEF Live
  <2> QED
    BY Zenon, <2>5, <2>7, <2>8, <2>9, <2>10 DEF TypeOK
<1>13. ASSUME NEW h \in Handle, SendFails(h) PROVE TypeOK'
  <2>1. ~NoCall.sending
    BY SMT DEF NoCall
  <2> QED
    BY SMT, <1>13, <2>1 DEF SendFails, TypeOK, Live
<1>14. CASE UNCHANGED vars
  BY SMT, <1>14 DEF vars, TypeOK, Live
<1> QED
  BY <1>1, <1>2, <1>3, <1>4, <1>5, <1>6, <1>7, <1>8, <1>9, <1>10, <1>11, <1>12, <1>13, <1>14
     DEF Next, Lifecycle, Binding, Sending

-----------------------------------------------------------------------------
(* The invariants about handles that share an OS socket.                   *)

\* What a successful bind(2) changes of an OS socket: its address, and the
\* port of a ping socket that had none.
LEMMA BindFacts ==
  ASSUME TypeOK, NEW h \in Live, NEW a \in Addr, NEW o \in BindResults(h, a)
  PROVE  LET q == os[handle[h].sock] IN
         /\ o.ttl = q.ttl /\ o.nonblocking = q.nonblocking
         /\ o.everBound = q.everBound \cup {a}
         /\ IF handle[h].kind = "dgram4" /\ KernelAssignsPorts
            THEN q.port = 0 /\ o.port # 0 /\ \A s \in Sock : os[s].port # o.port
            ELSE o.port = 0
<1> DEFINE q == os[handle[h].sock]
           ports == IF handle[h].kind = "dgram4" /\ KernelAssignsPorts
                    THEN IF q.port = 0 THEN FreePorts ELSE {}
                    ELSE {0}
<1>1. PICK p \in ports : o = [local |-> a, port |-> p, ttl |-> q.ttl,
                             nonblocking |-> q.nonblocking, everBound |-> q.everBound \cup {a}]
  BY Zenon DEF BindResults
<1>2. handle[h].kind = "dgram4" /\ KernelAssignsPorts
        => q.port = 0 /\ p # 0 /\ \A s \in Sock : os[s].port # p
  BY SMT, <1>1, Ranges DEF FreePorts
<1>3. ~(handle[h].kind = "dgram4" /\ KernelAssignsPorts) => p = 0
  BY Zenon, <1>1
<1> HIDE DEF q, ports
<1>4. /\ o.ttl = q.ttl /\ o.nonblocking = q.nonblocking
      /\ o.everBound = q.everBound \cup {a} /\ o.port = p
  BY SMT, <1>1
<1> QED
  BY Zenon, <1>2, <1>3, <1>4 DEF q

\* Initially there is nothing to share.
LEMMA SharedInit == Init => SharedInv
<1> SUFFICES ASSUME Init PROVE SharedInv
  OBVIOUS
<1>1. Live = {}
  BY SMT DEF Init, Live, FromSocket
<1>2. PortsAreUnique
  BY SMT DEF Init, PortsAreUnique, NewOsSocket
<1> QED
  BY Zenon, <1>1, <1>2 DEF SharedInv, SharersAgreeOnKind, IdentifierIsPort, SendsInProgress,
                          BoundToTruthful, AsyncNeverBlocks

\* Closing a descriptor leaves the OS socket as it was for the other handles,
\* and takes no port.
LEMMA CloseFacts ==
  ASSUME TypeOK, NEW h \in Live, NEW o \in OsState
  PROVE  /\ \A g \in Live : g # h /\ handle[g].sock = handle[h].sock => AfterClose(h, o) = o
         /\ AfterClose(h, o).port \in {o.port, 0}
<1>1. \A g \in Live : g # h /\ handle[g].sock = handle[h].sock => AfterClose(h, o) = o
  BY Zenon DEF AfterClose, Sharers
<1>2. AfterClose(h, o).port \in {o.port, 0}
  BY SMT DEF AfterClose, NewOsSocket
<1> QED
  BY <1>1, <1>2

\* Dropping handle h, with its OS socket left in state o, preserves SharedInv.
LEMMA CloseStep ==
  ASSUME TypeOK, SharedInv, NEW h \in Live, ~call[h].sending, NEW o \in OsState,
         o.port = os[handle[h].sock].port, o.ttl = os[handle[h].sock].ttl,
         o.everBound = os[handle[h].sock].everBound,
         os[handle[h].sock].nonblocking => o.nonblocking,
         os' = [os EXCEPT ![handle[h].sock] = AfterClose(h, o)],
         handle' = [handle EXCEPT ![h] = FromSocket(None, "raw4")],
         call' = call
  PROVE  SharedInv'
<1>1. handle \in [Handle -> HandleState] /\ os \in [Sock -> OsState] /\ handle[h].sock \in Sock
  BY KernelTypes DEF TypeOK
<1>2. Live' = Live \ {h} /\ \A g \in Live' : handle'[g] = handle[g]
  BY SMT, <1>1 DEF Live, FromSocket
<1>3. \A g \in Live' : /\ handle[g].sock = handle[h].sock => os'[handle[g].sock] = o
                       /\ handle[g].sock # handle[h].sock => os'[handle[g].sock] = os[handle[g].sock]
  BY SMT, <1>1, <1>2, CloseFacts
<1>4. \A r \in Sock : os'[r].port \in {os[r].port, 0}
  BY SMT, <1>1, CloseFacts
<1>5. SharersAgreeOnKind'
  BY SMT, <1>2 DEF SharedInv, SharersAgreeOnKind
<1>6. PortsAreUnique'
  BY SMT, <1>4 DEF SharedInv, PortsAreUnique
<1>7. IdentifierIsPort' /\ SendsInProgress' /\ BoundToTruthful' /\ AsyncNeverBlocks'
  BY SMT, <1>2, <1>3 DEF SharedInv, IdentifierIsPort, SendsInProgress, BoundToTruthful, AsyncNeverBlocks
<1> QED
  BY <1>5, <1>6, <1>7 DEF SharedInv

\* A successful bind(2) through h, after which the wrapper h holds w: an
\* established identifier is never invalidated, because the kernel refuses to
\* bind a ping socket that has a port.
LEMMA BindStep ==
  ASSUME TypeOK, SharedInv, NEW h \in Live, NEW a \in Addr, ~call[h].sending,
         NEW o \in BindResults(h, a), NEW w \in HandleState,
         w.sock = handle[h].sock, w.kind = handle[h].kind, w.mode = handle[h].mode,
         w.bound_to = a,
         w.kind = "dgram4" /\ w.established => w.identifier = o.port \/ handle[h].established,
         w.kind = "dgram4" /\ handle[h].established => w.identifier \in {o.port, handle[h].identifier},
         w.established \/ (~handle[h].established /\ w.identifier = handle[h].identifier),
         os' = [os EXCEPT ![handle[h].sock] = o],
         handle' = [handle EXCEPT ![h] = w],
         call' = call
  PROVE  SharedInv'
<1>1. handle \in [Handle -> HandleState] /\ os \in [Sock -> OsState] /\ handle[h].sock \in Sock
  BY KernelTypes DEF TypeOK
<1> DEFINE s == handle[h].sock
           ping == handle[h].kind = "dgram4" /\ KernelAssignsPorts
<1>2. /\ os'[s] = o /\ \A r \in Sock : r # s => os'[r] = os[r]
      /\ handle'[h] = w /\ \A g \in Handle : g # h => handle'[g] = handle[g]
      /\ Live' = Live
  BY SMT, <1>1 DEF Live
<1>3. /\ o.ttl = os[s].ttl /\ o.nonblocking = os[s].nonblocking /\ o.everBound = os[s].everBound \cup {a}
      /\ ping => os[s].port = 0 /\ o.port # 0 /\ \A r \in Sock : os[r].port # o.port
      /\ ~ping => o.port = 0
  BY BindFacts
<1>4. SharersAgreeOnKind'
  BY SMT, <1>2 DEF SharedInv, SharersAgreeOnKind
<1>5. PortsAreUnique'
  BY SMT, <1>1, <1>2, <1>3 DEF SharedInv, PortsAreUnique
<1>6. IdentifierIsPort'
  BY SMT, <1>1, <1>2, <1>3 DEF SharedInv, IdentifierIsPort, PortsAreUnique, SharersAgreeOnKind, Live
<1>7. SendsInProgress'
  BY SMT, <1>1, <1>2, <1>3 DEF SharedInv, SendsInProgress, Live
<1>8. BoundToTruthful'
  BY SMT, <1>1, <1>2, <1>3 DEF SharedInv, BoundToTruthful, Live
<1>9. AsyncNeverBlocks'
  BY SMT, <1>1, <1>2, <1>3 DEF SharedInv, AsyncNeverBlocks, Live
<1> QED
  BY <1>4, <1>5, <1>6, <1>7, <1>8, <1>9 DEF SharedInv

\* Every step preserves the invariants about shared OS sockets.
LEMMA SharedStep == TypeOK /\ SharedInv /\ [Next]_vars => SharedInv'
<1> SUFFICES ASSUME TypeOK, SharedInv, [Next]_vars PROVE SharedInv'
  OBVIOUS
<1> USE NoneApart
<1>0. /\ handle \in [Handle -> HandleState] /\ os \in [Sock -> OsState]
      /\ call \in [Handle -> CallState]
      /\ \A g \in Handle : call[g].sending => g \in Live
  BY DEF TypeOK
<1>1. ASSUME NEW h \in Handle, NEW k \in Kind, NEW s \in Sock, New(h, k, s) PROVE SharedInv'
  BY SMT, <1>0, <1>1 DEF New, FromSocket, Sharers,
         SharedInv, SharersAgreeOnKind, PortsAreUnique, IdentifierIsPort,
         SendsInProgress, BoundToTruthful, AsyncNeverBlocks, Live
<1>2. ASSUME NEW h \in Handle, NEW k \in Kind, NEW s \in Sock, NEW a \in Addr, TryFrom(h, k, s, a)
      PROVE  SharedInv'
  BY SMT, <1>0, <1>2 DEF TryFrom, Sharers,
         SharedInv, SharersAgreeOnKind, PortsAreUnique, IdentifierIsPort,
         SendsInProgress, BoundToTruthful, AsyncNeverBlocks, Live
<1>3. ASSUME NEW h \in Handle, NEW c \in Handle, TryClone(h, c) PROVE SharedInv'
  BY SMT, <1>0, <1>3 DEF TryClone, Idle,
         SharedInv, SharersAgreeOnKind, PortsAreUnique, IdentifierIsPort,
         SendsInProgress, BoundToTruthful, AsyncNeverBlocks, Live
<1>4. ASSUME NEW h \in Handle, NEW m \in Mode, Convert(h, m) PROVE SharedInv'
  <2>1. h \in Live /\ handle[h].sock \in Sock
    BY <1>4, KernelTypes DEF Convert, Idle
  <2> DEFINE s == handle[h].sock
  <2>2. /\ Live' = Live /\ call' = call
        /\ \A g \in Handle : /\ handle'[g].sock = handle[g].sock /\ handle'[g].kind = handle[g].kind
                             /\ handle'[g].bound_to = handle[g].bound_to
                             /\ handle'[g].identifier = handle[g].identifier
                             /\ handle'[g].established = handle[g].established
                             /\ g # h => handle'[g] = handle[g]
        /\ handle'[h].mode = m /\ m # "blocking"
    BY SMT, <1>0, <1>4 DEF Convert, Live, HandleState, AsyncMode
  <2>3. \A r \in Sock : /\ os'[r].port = os[r].port /\ os'[r].ttl = os[r].ttl
                        /\ os'[r].everBound = os[r].everBound
                        /\ r # s => os'[r] = os[r]
    BY SMT, <1>0, <1>4, <2>1 DEF Convert, OsState
  <2>4. os'[s].nonblocking = TRUE
    BY SMT, <1>0, <1>4, <2>1 DEF Convert, OsState
  <2>5. SharersAgreeOnKind' /\ PortsAreUnique'
    BY SMT, <2>2, <2>3 DEF SharedInv, SharersAgreeOnKind, PortsAreUnique, Live
  <2>6. \A g \in Live : handle[g].sock \in Sock
    BY <1>0, KernelTypes
  <2>7. IdentifierIsPort' /\ SendsInProgress'
    BY SMT, <2>2, <2>3, <2>6 DEF SharedInv, IdentifierIsPort, SendsInProgress, Live
  <2>8. BoundToTruthful'
    BY SMT, <2>2, <2>3, <2>6 DEF SharedInv, BoundToTruthful, Live
  <2>9. AsyncNeverBlocks'
    BY SMT, <2>1, <2>2, <2>3, <2>4, <2>6 DEF SharedInv, AsyncNeverBlocks, Live
  <2> QED
    BY <2>5, <2>7, <2>8, <2>9 DEF SharedInv
<1>5. ASSUME NEW h \in Handle, NEW m \in Mode, ConvertFails(h, m) PROVE SharedInv'
  <2>1. h \in Live /\ ~call[h].sending
    BY <1>5 DEF ConvertFails, Idle
  <2> DEFINE q == os[handle[h].sock]
  <2>2. PICK nb \in {TRUE, q.nonblocking} :
          os' = [os EXCEPT ![handle[h].sock] = AfterClose(h, [q EXCEPT !.nonblocking = nb])]
    BY Zenon, <1>5 DEF ConvertFails
  <2>3. q \in OsState
    BY <2>1, KernelTypes
  <2>4. nb \in BOOLEAN /\ (q.nonblocking => nb)
    <3>1. q.nonblocking \in BOOLEAN
      BY SMT, <2>3 DEF OsState
    <3> QED
      BY Zenon, <2>2, <3>1
  <2> DEFINE o == [q EXCEPT !.nonblocking = nb]
  <2>5. /\ o \in OsState /\ o.port = q.port /\ o.ttl = q.ttl /\ o.everBound = q.everBound
        /\ (q.nonblocking => o.nonblocking)
    <3> HIDE DEF q
    <3> QED
      BY SMT, <2>3, <2>4 DEF OsState
  <2>6. handle' = [handle EXCEPT ![h] = FromSocket(None, "raw4")] /\ call' = call
    BY <1>5 DEF ConvertFails
  <2> HIDE DEF o
  <2> QED
    BY Zenon, <2>1, <2>2, <2>5, <2>6, CloseStep DEF o
<1>6. ASSUME NEW h \in Handle, Drop(h) PROVE SharedInv'
  <2>1. h \in Live /\ ~call[h].sending
    BY <1>6 DEF Drop, Idle
  <2>2. os[handle[h].sock] \in OsState
    BY <2>1, KernelTypes
  <2> QED
    BY Zenon, <1>6, <2>1, <2>2, CloseStep DEF Drop
<1>7. ASSUME NEW h \in Handle, NEW a \in Addr, Bind(h, a) \/ AsyncBind(h, a) PROVE SharedInv'
  <2>1. h \in Live /\ ~call[h].sending
    BY <1>7 DEF Bind, AsyncBind, Idle
  <2>2. PICK o \in BindResults(h, a) :
          /\ os' = [os EXCEPT ![handle[h].sock] = o]
          /\ handle' = [handle EXCEPT ![h] = Bound(handle[h], a, o)]
          /\ call' = call
    BY <1>7 DEF Bind, AsyncBind
  <2>3. o \in OsState /\ handle[h] \in HandleState
    BY <2>1, <2>2, KernelTypes
  <2> DEFINE w == Bound(handle[h], a, o)
  <2>4. /\ w \in HandleState /\ w.sock = handle[h].sock /\ w.kind = handle[h].kind
        /\ w.mode = handle[h].mode /\ w.bound_to = a
        /\ (w.kind = "dgram4" => w.identifier = o.port) /\ w.established = TRUE
    BY SMT, <2>3 DEF Bound, LocalIdentifier, HandleState, OsState
  <2> HIDE DEF w
  <2> QED
    BY Zenon, <2>1, <2>2, <2>4, BindStep DEF w
<1>15. ASSUME NEW h \in Handle, NEW a \in Addr, BindLosesIdentifier(h, a) PROVE SharedInv'
  <2>1. h \in Live /\ ~call[h].sending
    BY <1>15 DEF BindLosesIdentifier, Idle
  <2>2. PICK o \in BindResults(h, a) : os' = [os EXCEPT ![handle[h].sock] = o]
    BY <1>15 DEF BindLosesIdentifier
  <2> DEFINE w == [handle[h] EXCEPT !.bound_to = a]
  <2>3. handle' = [handle EXCEPT ![h] = w] /\ call' = call
    BY <1>15 DEF BindLosesIdentifier
  <2>4. handle[h] \in HandleState
    BY <2>1, KernelTypes
  <2>5. /\ w \in HandleState /\ w.sock = handle[h].sock /\ w.kind = handle[h].kind
        /\ w.mode = handle[h].mode /\ w.bound_to = a
        /\ w.identifier = handle[h].identifier /\ w.established = handle[h].established
    BY SMT, <2>4 DEF HandleState
  <2> HIDE DEF w
  <2> QED
    BY Zenon, <2>1, <2>2, <2>3, <2>5, BindStep
<1>8. ASSUME NEW h \in Handle, NEW a \in Addr, BindRefused(h, a) PROVE SharedInv'
  BY SMT, <1>0, <1>8 DEF BindRefused,
         SharedInv, SharersAgreeOnKind, PortsAreUnique, IdentifierIsPort,
         SendsInProgress, BoundToTruthful, AsyncNeverBlocks, Live
<1>9. ASSUME NEW h \in Handle, NEW a \in Addr, AsyncBindRefused(h, a) PROVE SharedInv'
  BY SMT, <1>0, <1>9 DEF AsyncBindRefused, Idle,
         SharedInv, SharersAgreeOnKind, PortsAreUnique, IdentifierIsPort,
         SendsInProgress, BoundToTruthful, AsyncNeverBlocks, Live
<1>10. ASSUME NEW h \in Handle, NEW n \in Hops, SetMaxHops(h, n) PROVE SharedInv'
  BY SMT, <1>0, <1>10 DEF SetMaxHops, Idle,
         SharedInv, SharersAgreeOnKind, PortsAreUnique, IdentifierIsPort,
         SendsInProgress, BoundToTruthful, AsyncNeverBlocks, Live
<1>13. ASSUME NEW h \in Handle, SendFails(h) PROVE SharedInv'
  BY SMT, <1>0, <1>13 DEF SendFails, NoCall,
         SharedInv, SharersAgreeOnKind, PortsAreUnique, IdentifierIsPort,
         SendsInProgress, BoundToTruthful, AsyncNeverBlocks, Live
<1>11. ASSUME NEW h \in Handle, SendStart(h) PROVE SharedInv'
  <2>1. h \in Live /\ handle[h].sock \in Sock
    BY <1>11, KernelTypes DEF SendStart, Idle
  <2> DEFINE s == handle[h].sock
  <2>2. handle' = handle /\ Live' = Live
    BY <1>11 DEF SendStart, Live
  <2>3. \A r \in Sock : /\ os'[r].port = os[r].port /\ os'[r].nonblocking = os[r].nonblocking
                        /\ os'[r].everBound = os[r].everBound
                        /\ r # s => os'[r] = os[r]
    BY SMT, <1>0, <1>11, <2>1 DEF SendStart, OsState
  <2>4. os'[s].ttl = handle[h].hops
    BY SMT, <1>0, <1>11, <2>1 DEF SendStart, OsState
  <2>5. call'[h].ident = handle[h].identifier /\ call'[h].hops = handle[h].hops
    BY SMT, <1>11 DEF SendStart
  <2>6. \A g \in Live : handle[g].sock \in Sock
    BY KernelTypes
  <2>7. SharersAgreeOnKind' /\ PortsAreUnique' /\ IdentifierIsPort' /\ BoundToTruthful' /\ AsyncNeverBlocks'
    BY SMT, <2>2, <2>3, <2>6 DEF SharedInv, SharersAgreeOnKind, PortsAreUnique, IdentifierIsPort,
                                BoundToTruthful, AsyncNeverBlocks
  <2>8. ASSUME NEW g \in Live, call'[g].sending
        PROVE  /\ call'[g].ident = handle[g].identifier
               /\ call'[g].quiet => os'[handle[g].sock].ttl = call'[g].hops
    <3>1. CASE g = h
      BY Zenon, <2>4, <2>5, <3>1
    <3>2. CASE g # h
      <4>1. /\ call'[g].sending = call[g].sending /\ call'[g].ident = call[g].ident
            /\ call'[g].hops = call[g].hops
            /\ call'[g].quiet = (call[g].quiet /\ (call[g].sending => handle[g].sock # s))
        BY <1>11, <2>1, <3>2, OtherCalls DEF Live
      <4>2. call[g].ident = handle[g].identifier
            /\ (call[g].quiet => os[handle[g].sock].ttl = call[g].hops)
        BY Zenon, <2>8, <4>1 DEF SharedInv, SendsInProgress
      <4>3. call'[g].quiet => os'[handle[g].sock] = os[handle[g].sock]
        BY Zenon, <2>3, <2>6, <2>8, <4>1
      <4> QED
        BY Zenon, <4>1, <4>2, <4>3
    <3> QED
      BY <3>1, <3>2
  <2>9. SendsInProgress'
    BY Zenon, <2>2, <2>8 DEF SendsInProgress
  <2> QED
    BY <2>7, <2>9 DEF SharedInv
<1>12. ASSUME NEW h \in Handle, SendFinish(h) PROVE SharedInv'
  <2>1. h \in Live /\ handle[h].sock \in Sock
    BY <1>12, KernelTypes DEF SendFinish
  <2> DEFINE s == handle[h].sock
             ping == handle[h].kind = "dgram4" /\ KernelAssignsPorts
  <2>2. PICK port \in IF ping /\ os[s].port = 0 THEN FreePorts ELSE {os[s].port} :
           os' = [os EXCEPT ![s].port = port]
    BY <1>12 DEF SendFinish
  <2>3. /\ port = os[s].port \/ (ping /\ os[s].port = 0 /\ \A r \in Sock : os[r].port # port)
    BY SMT, <2>2 DEF FreePorts
  <2>4. handle' = handle /\ Live' = Live /\ call' = [call EXCEPT ![h] = NoCall]
    BY <1>12 DEF SendFinish, Live
  <2>5. /\ \A r \in Sock : /\ os'[r].ttl = os[r].ttl /\ os'[r].nonblocking = os[r].nonblocking
                           /\ os'[r].everBound = os[r].everBound
                           /\ r # s => os'[r] = os[r]
        /\ os'[s].port = port
    BY SMT, <1>0, <2>1, <2>2 DEF OsState
  <2>6. \A g \in Live : handle[g].sock \in Sock
    BY KernelTypes
  <2>7. SharersAgreeOnKind' /\ BoundToTruthful' /\ AsyncNeverBlocks'
    BY SMT, <2>4, <2>5, <2>6 DEF SharedInv, SharersAgreeOnKind, BoundToTruthful, AsyncNeverBlocks
  <2>8. PortsAreUnique'
    BY SMT, <2>1, <2>3, <2>5 DEF SharedInv, PortsAreUnique
  <2>9. IdentifierIsPort'
    BY SMT, <2>1, <2>3, <2>4, <2>5, <2>6 DEF SharedInv, IdentifierIsPort, PortsAreUnique
  <2>10. \A g \in Handle : call'[g].sending => call'[g] = call[g]
    BY SMT, <1>0, <2>4 DEF NoCall
  <2>11. SendsInProgress'
    <3>1. ASSUME NEW g \in Live, call'[g].sending
          PROVE  /\ call'[g].ident = handle[g].identifier
                 /\ call'[g].quiet => os'[handle[g].sock].ttl = call'[g].hops
      <4>1. call'[g] = call[g]
        BY Zenon, <2>10, <3>1 DEF Live
      <4>2. os'[handle[g].sock].ttl = os[handle[g].sock].ttl
        BY Zenon, <2>5, <2>6
      <4> QED
        BY Zenon, <3>1, <4>1, <4>2 DEF SharedInv, SendsInProgress
    <3> QED
      BY Zenon, <2>4, <3>1 DEF SendsInProgress
  <2> QED
    BY <2>7, <2>8, <2>9, <2>11 DEF SharedInv
<1>14. CASE UNCHANGED vars
  BY Zenon, <1>14 DEF vars, SharedInv, SharersAgreeOnKind, PortsAreUnique, IdentifierIsPort,
         SendsInProgress, BoundToTruthful, AsyncNeverBlocks, Live
<1> QED
  BY <1>1, <1>2, <1>3, <1>4, <1>5, <1>6, <1>7, <1>15, <1>8, <1>9, <1>10, <1>11, <1>12, <1>13, <1>14
     DEF Next, Lifecycle, Binding, Sending

-----------------------------------------------------------------------------
(* The source address of IPv6 checksums.                                   *)

\* A step that starts no send keeps SourceInv if every OS socket still has one
\* of its addresses, and every handle with a send in progress its OS socket,
\* from which no address is forgotten.
LEMMA SourceFrame ==
  ASSUME SourceInv,
         \A s \in Sock : LocalIsBound(os'[s]),
         \A g \in Live' : handle'[g].kind = "raw6" => handle'[g].mode = "blocking",
         \A g \in Live' : call'[g].sending =>
           /\ g \in Live /\ call[g].sending /\ call'[g].src = call[g].src
           /\ handle'[g].kind = handle[g].kind
           /\ os[handle[g].sock].everBound \subseteq os'[handle'[g].sock].everBound
  PROVE  SourceInv'
BY Zenon DEF SourceInv

\* What the system calls leave behind has one of its addresses.
LEMMA LocalFacts ==
  ASSUME TypeOK, SourceInv
  PROVE  /\ LocalIsBound(NewOsSocket)
         /\ \A h \in Live, a \in Addr : \A o \in BindResults(h, a) : LocalIsBound(o)
         /\ \A h \in Live, o \in OsState : LocalIsBound(o) => LocalIsBound(AfterClose(h, o))
<1>1. LocalIsBound(NewOsSocket)
  BY SMT DEF LocalIsBound, NewOsSocket
<1>2. ASSUME NEW h \in Live, NEW a \in Addr, NEW o \in BindResults(h, a) PROVE LocalIsBound(o)
  <2>1. o.local = a /\ a \in o.everBound
    BY SMT, <1>2 DEF BindResults
  <2> QED
    BY Zenon, <2>1 DEF LocalIsBound
<1> QED
  BY Zenon, <1>1, <1>2 DEF AfterClose

\* No address is forgotten while a handle is left: every step preserves SourceInv.
LEMMA SourceStep == TypeOK /\ SharedInv /\ SourceInv /\ [Next]_vars => SourceInv'
<1> SUFFICES ASSUME TypeOK, SharedInv, SourceInv, [Next]_vars PROVE SourceInv'
  OBVIOUS
<1> USE NoneApart
<1>0. /\ handle \in [Handle -> HandleState] /\ os \in [Sock -> OsState]
      /\ call \in [Handle -> CallState]
      /\ \A g \in Handle : call[g].sending => g \in Live
      /\ \A g \in Live : g \in Handle /\ handle[g].sock \in Sock
      /\ \A s \in Sock : LocalIsBound(os[s])
      /\ \A g \in Live : handle[g].kind = "raw6" => handle[g].mode = "blocking"
  BY KernelTypes DEF TypeOK, SourceInv, Live
<1>1. ASSUME NEW h \in Handle, NEW k \in Kind, NEW s \in Sock, New(h, k, s) PROVE SourceInv'
  <2>1. \A g \in Live' : g # h => g \in Live /\ handle'[g] = handle[g]
    BY SMT, <1>0, <1>1 DEF New, Live
  <2>2. handle'[h].mode = "blocking" /\ ~call[h].sending
    BY SMT, <1>0, <1>1 DEF New, FromSocket
  <2>3. os' = os /\ call' = call
    BY <1>1 DEF New
  <2> QED
    BY Zenon, <1>0, <2>1, <2>2, <2>3, SourceFrame
<1>2. ASSUME NEW h \in Handle, NEW k \in Kind, NEW s \in Sock, NEW a \in Addr, TryFrom(h, k, s, a)
      PROVE  SourceInv'
  <2>1. \A g \in Live' : g # h => g \in Live /\ handle'[g] = handle[g] /\ handle[g].sock # s
    BY SMT, <1>0, <1>2 DEF TryFrom, Live, Sharers
  <2>2. handle'[h].mode = "blocking" /\ ~call[h].sending
    BY SMT, <1>0, <1>2 DEF TryFrom
  <2>3. call' = call /\ \A r \in Sock : r # s => os'[r] = os[r]
    BY SMT, <1>0, <1>2 DEF TryFrom
  <2>4. LocalIsBound(os'[s])
    <3>1. os'[s].local = a /\ os'[s].everBound = {a}
      BY SMT, <1>0, <1>2 DEF TryFrom
    <3> QED
      BY Zenon, <3>1 DEF LocalIsBound
  <2> QED
    BY Zenon, <1>0, <2>1, <2>2, <2>3, <2>4, SourceFrame
<1>3. ASSUME NEW h \in Handle, NEW c \in Handle, TryClone(h, c) PROVE SourceInv'
  <2>1. /\ os' = os /\ call' = call /\ h \in Live /\ ~call[c].sending
        /\ handle'[c] = handle[h]
        /\ \A g \in Live' : g # c => g \in Live /\ handle'[g] = handle[g]
    BY SMT, <1>0, <1>3 DEF TryClone, Idle, Live
  <2> QED
    BY Zenon, <1>0, <2>1, SourceFrame
<1>4. ASSUME NEW h \in Handle, NEW m \in Mode, Convert(h, m) PROVE SourceInv'
  <2>1. call' = call /\ h \in Live /\ handle[h].kind # "raw6"
    BY <1>4 DEF Convert, Idle
  <2>2. \A r \in Sock : os'[r].local = os[r].local /\ os'[r].everBound = os[r].everBound
    BY SMT, <1>0, <1>4 DEF Convert, OsState
  <2>3. /\ Live' = Live /\ handle'[h].kind = handle[h].kind /\ handle'[h].sock = handle[h].sock
        /\ \A g \in Handle : g # h => handle'[g] = handle[g]
    BY SMT, <1>0, <1>4 DEF Convert, Live, HandleState
  <2>4. \A r \in Sock : LocalIsBound(os'[r])
    BY Zenon, <1>0, <2>2 DEF LocalIsBound
  <2>5. \A g \in Live' : handle'[g].kind = "raw6" => handle'[g].mode = "blocking"
    BY Zenon, <1>0, <2>1, <2>3
  <2>6. \A g \in Live' : /\ g \in Live /\ handle'[g].kind = handle[g].kind
                         /\ os[handle[g].sock].everBound \subseteq os'[handle'[g].sock].everBound
    <3>1. \A g \in Live : handle'[g].kind = handle[g].kind /\ handle'[g].sock = handle[g].sock
      BY Zenon, <1>0, <2>3
    <3> QED
      BY Zenon, <1>0, <2>2, <2>3, <3>1
  <2> QED
    BY Zenon, <2>1, <2>4, <2>5, <2>6, SourceFrame
<1>5. ASSUME NEW h \in Handle, Drop(h) \/ \E m \in Mode : ConvertFails(h, m) PROVE SourceInv'
  <2> DEFINE q == os[handle[h].sock]
  <2>1. /\ h \in Live /\ ~call[h].sending /\ call' = call
        /\ handle' = [handle EXCEPT ![h] = FromSocket(None, "raw4")]
    BY <1>5 DEF Drop, ConvertFails, Idle
  <2>2. q \in OsState
    BY <2>1, KernelTypes
  <2>3. PICK o \in OsState : /\ o.local = q.local /\ o.everBound = q.everBound
                             /\ os' = [os EXCEPT ![handle[h].sock] = AfterClose(h, o)]
    <3>1. CASE Drop(h)
      BY Zenon, <2>2, <3>1 DEF Drop
    <3>2. ASSUME NEW m \in Mode, ConvertFails(h, m)
          PROVE  \E o \in OsState : /\ o.local = q.local /\ o.everBound = q.everBound
                                     /\ os' = [os EXCEPT ![handle[h].sock] = AfterClose(h, o)]
      <4>1. PICK nb \in {TRUE, q.nonblocking} :
              os' = [os EXCEPT ![handle[h].sock] = AfterClose(h, [q EXCEPT !.nonblocking = nb])]
        BY Zenon, <3>2 DEF ConvertFails
      <4>2. nb \in BOOLEAN
        <5>1. q.nonblocking \in BOOLEAN
          BY SMT, <2>2 DEF OsState
        <5> QED
          BY Zenon, <5>1
      <4> DEFINE p == [q EXCEPT !.nonblocking = nb]
      <4>3. p \in OsState /\ p.local = q.local /\ p.everBound = q.everBound
        <5> HIDE DEF q
        <5> QED
          BY SMT, <2>2, <4>2 DEF OsState
      <4> QED
        BY Zenon, <4>1, <4>3
    <3> QED
      BY <1>5, <3>1, <3>2
  <2> HIDE DEF q
  <2>4. LocalIsBound(o)
    BY Zenon, <1>0, <2>1, <2>3 DEF LocalIsBound, q
  <2>5. \A r \in Sock : LocalIsBound(os'[r])
    BY SMT, <1>0, <2>1, <2>3, <2>4, LocalFacts
  <2>6. Live' = Live \ {h} /\ \A g \in Live' : handle'[g] = handle[g]
    BY SMT, <1>0, <2>1 DEF Live, FromSocket
  <2>7. \A g \in Live' : os'[handle[g].sock].everBound = os[handle[g].sock].everBound
    <3> SUFFICES ASSUME NEW g \in Live' PROVE os'[handle[g].sock].everBound = os[handle[g].sock].everBound
      OBVIOUS
    <3>1. g \in Live /\ g # h /\ handle[g].sock \in Sock
      BY <1>0, <2>6
    <3>2. CASE handle[g].sock = handle[h].sock
      <4>1. os'[handle[g].sock] = AfterClose(h, o)
        BY SMT, <1>0, <2>3, <3>1, <3>2
      <4>2. AfterClose(h, o) = o
        BY <2>1, <2>3, <3>1, <3>2, CloseFacts
      <4> QED
        BY Zenon, <2>3, <3>2, <4>1, <4>2 DEF q
    <3>3. CASE handle[g].sock # handle[h].sock
      BY SMT, <1>0, <2>3, <3>1, <3>3
    <3> QED
      BY <3>2, <3>3
  <2> QED
    BY Zenon, <1>0, <2>1, <2>5, <2>6, <2>7, SourceFrame
<1>6. ASSUME NEW h \in Handle, NEW a \in Addr, Bind(h, a) \/ AsyncBind(h, a) \/ BindLosesIdentifier(h, a)
      PROVE  SourceInv'
  <2>1. h \in Live /\ ~call[h].sending /\ call' = call
    BY <1>6 DEF Bind, AsyncBind, BindLosesIdentifier, Idle
  <2>2. PICK o \in BindResults(h, a) : os' = [os EXCEPT ![handle[h].sock] = o]
    BY <1>6 DEF Bind, AsyncBind, BindLosesIdentifier
  <2>3. /\ Live' = Live
        /\ handle'[h].kind = handle[h].kind /\ handle'[h].mode = handle[h].mode
        /\ handle'[h].sock = handle[h].sock
        /\ \A g \in Handle : g # h => handle'[g] = handle[g]
    BY SMT, <1>0, <1>6, <2>1 DEF Bind, AsyncBind, BindLosesIdentifier, Bound, HandleState, Live
  <2>4. LocalIsBound(o) /\ o.everBound = os[handle[h].sock].everBound \cup {a}
    BY <2>1, <2>2, LocalFacts, BindFacts
  <2>5. \A r \in Sock : LocalIsBound(os'[r]) /\ os[r].everBound \subseteq os'[r].everBound
    BY SMT, <1>0, <2>2, <2>4
  <2> QED
    BY Zenon, <1>0, <2>1, <2>3, <2>5, SourceFrame
<1>7. ASSUME NEW h \in Handle, NEW a \in Addr, AsyncBindRefused(h, a) PROVE SourceInv'
  <2>1. /\ os' = os /\ call' = call /\ Live' = Live
        /\ \A g \in Handle : /\ handle'[g].kind = handle[g].kind /\ handle'[g].mode = handle[g].mode
                              /\ handle'[g].sock = handle[g].sock
    BY SMT, <1>0, <1>7 DEF AsyncBindRefused, HandleState, Live
  <2> QED
    BY Zenon, <1>0, <2>1, SourceFrame
<1>8. ASSUME NEW h \in Handle, NEW n \in Hops, SetMaxHops(h, n) PROVE SourceInv'
  <2>1. /\ os' = os /\ call' = call /\ Live' = Live
        /\ \A g \in Handle : /\ handle'[g].kind = handle[g].kind /\ handle'[g].mode = handle[g].mode
                              /\ handle'[g].sock = handle[g].sock
    BY SMT, <1>0, <1>8 DEF SetMaxHops, HandleState, Live
  <2> QED
    BY Zenon, <1>0, <2>1, SourceFrame
<1>9. ASSUME NEW h \in Handle, SendStart(h) PROVE SourceInv'
  <2>1. h \in Live /\ handle' = handle /\ Live' = Live
    BY <1>9 DEF SendStart, Idle, Live
  <2>2. \A r \in Sock : os'[r].local = os[r].local /\ os'[r].everBound = os[r].everBound
    BY SMT, <1>0, <1>9 DEF SendStart, OsState
  <2>3. \A r \in Sock : LocalIsBound(os'[r])
    BY Zenon, <1>0, <2>2 DEF LocalIsBound
  <2>4. call'[h].src = handle[h].bound_to
    BY SMT, <1>9 DEF SendStart
  <2>5. handle[h].kind = "raw6" => handle[h].bound_to \in os[handle[h].sock].everBound
    BY Zenon, <1>0, <1>9, <2>1 DEF SendStart, SharedInv, BoundToTruthful
  <2>6. \A g \in Handle : g # h => call'[g].sending = call[g].sending /\ call'[g].src = call[g].src
    BY <1>9, OtherCalls
  <2>7. ASSUME NEW g \in Live, handle[g].kind = "raw6", call'[g].sending
        PROVE  call'[g].src \in os'[handle[g].sock].everBound
    <3>1. g \in Handle /\ os'[handle[g].sock].everBound = os[handle[g].sock].everBound
      BY Zenon, <1>0, <2>2
    <3>2. CASE g = h
      BY Zenon, <2>4, <2>5, <2>7, <3>1, <3>2
    <3>3. CASE g # h
      <4>1. call[g].sending /\ call'[g].src = call[g].src
        BY Zenon, <2>6, <2>7, <3>1, <3>3
      <4>2. call[g].src \in os[handle[g].sock].everBound
        BY Zenon, <2>7, <4>1 DEF SourceInv
      <4> QED
        BY Zenon, <3>1, <4>1, <4>2
    <3> QED
      BY <3>2, <3>3
  <2>8. \A g \in Live' : g \in Live /\ handle'[g] = handle[g]
    BY Zenon, <2>1
  <2> QED
    BY Zenon, <1>0, <2>3, <2>7, <2>8 DEF SourceInv
<1>10. ASSUME NEW h \in Handle, SendFinish(h) \/ SendFails(h) PROVE SourceInv'
  <2>1. handle' = handle /\ Live' = Live /\ call' = [call EXCEPT ![h] = NoCall]
    BY <1>10 DEF SendFinish, SendFails, Live
  <2>2. \A r \in Sock : os'[r].local = os[r].local /\ os'[r].everBound = os[r].everBound
    <3>1. CASE SendFails(h)
      BY Zenon, <3>1 DEF SendFails
    <3>2. CASE SendFinish(h)
      <4>1. PICK port : os' = [os EXCEPT ![handle[h].sock].port = port]
        BY Zenon, <3>2 DEF SendFinish
      <4> QED
        BY SMT, <1>0, <4>1 DEF OsState
    <3> QED
      BY <1>10, <3>1, <3>2
  <2>3. \A g \in Handle : call'[g].sending => call'[g] = call[g]
    BY SMT, <1>0, <2>1 DEF NoCall
  <2>4. \A r \in Sock : LocalIsBound(os'[r])
    BY Zenon, <1>0, <2>2 DEF LocalIsBound
  <2> QED
    BY Zenon, <1>0, <2>1, <2>2, <2>3, <2>4, SourceFrame
<1>11. CASE UNCHANGED <<handle, os, call>>
  <2>1. handle' = handle /\ os' = os /\ call' = call /\ Live' = Live
    BY <1>11 DEF Live
  <2> QED
    BY Zenon, <2>1 DEF SourceInv
<1> QED
  BY <1>1, <1>2, <1>3, <1>4, <1>5, <1>6, <1>7, <1>8, <1>9, <1>10, <1>11
     DEF Next, vars, Lifecycle, Binding, Sending, BindRefused

-----------------------------------------------------------------------------
(* Packets on the wire, and the theorems.                                  *)

\* A packet handed to the network carries the identifier of its handle if that
\* was established, and the TTL its send set if nobody set it since.
LEMMA WireStep ==
  TypeOK /\ SharedInv /\ WireCarriesIdentifier /\ UndisturbedTtl /\ [Next]_vars
    => WireCarriesIdentifier' /\ UndisturbedTtl'
<1> SUFFICES ASSUME TypeOK, SharedInv, WireCarriesIdentifier, UndisturbedTtl, [Next]_vars
             PROVE  WireCarriesIdentifier' /\ UndisturbedTtl'
  OBVIOUS
<1>1. ASSUME NEW h \in Handle, SendFinish(h) PROVE WireCarriesIdentifier' /\ UndisturbedTtl'
  <2> DEFINE s == handle[h].sock
             ping == handle[h].kind = "dgram4" /\ KernelAssignsPorts
  <2>1. h \in Live /\ call[h].sending
    BY <1>1 DEF SendFinish
  <2>2. PICK port \in IF ping /\ os[s].port = 0 THEN FreePorts ELSE {os[s].port} :
          wire' = {[kind |-> handle[h].kind, ttl |-> os[s].ttl, hops |-> call[h].hops,
                    quiet |-> call[h].quiet, id |-> IF ping THEN port ELSE call[h].ident,
                    ident |-> call[h].ident, established |-> handle[h].established]}
    BY <1>1 DEF SendFinish
  <2>3. /\ call[h].ident = handle[h].identifier
        /\ call[h].quiet => os[s].ttl = call[h].hops
    BY <2>1 DEF SharedInv, SendsInProgress
  <2>4. handle[h].kind = "dgram4" =>
          /\ handle[h].established => handle[h].identifier = os[s].port
          /\ handle[h].established /\ KernelAssignsPorts => os[s].port # 0
          /\ ~handle[h].established => handle[h].identifier = 0
    BY <2>1 DEF SharedInv, IdentifierIsPort
  <2>5. UndisturbedTtl'
    BY SMT, <2>2, <2>3 DEF UndisturbedTtl
  <2>6. WireCarriesIdentifier'
    BY SMT, <2>2, <2>3, <2>4 DEF WireCarriesIdentifier
  <2> QED
    BY <2>5, <2>6
<1>2. CASE wire' = {}
  BY <1>2 DEF WireCarriesIdentifier, UndisturbedTtl
<1>3. CASE UNCHANGED vars
  BY <1>3 DEF vars, WireCarriesIdentifier, UndisturbedTtl
<1> QED
  BY <1>1, <1>2, <1>3 DEF Next, Lifecycle, Binding, Sending, New, TryFrom, TryClone, Convert,
     ConvertFails, Drop, Bind, AsyncBind, BindLosesIdentifier, BindRefused, AsyncBindRefused,
     SetMaxHops, SendStart, SendFails

\* The inductive invariant holds in every reachable state.
THEOREM HandlesInvariant == Spec => []HandlesInv
<1>1. Init => HandlesInv
  <2>1. Init => WireCarriesIdentifier /\ UndisturbedTtl
    BY DEF Init, WireCarriesIdentifier, UndisturbedTtl
  <2>2. Init => SourceInv
    BY SMT DEF Init, SourceInv, LocalIsBound, NewOsSocket, Live, FromSocket
  <2> QED
    BY <2>1, <2>2, TypeOKInit, SharedInit DEF HandlesInv
<1>2. HandlesInv /\ [Next]_vars => HandlesInv'
  BY TypeOKStep, SharedStep, SourceStep, WireStep DEF HandlesInv
<1> QED
  BY <1>1, <1>2, PTL DEF Spec

\* Wrapper fields, kernel state and sends in progress keep their types.
THEOREM TypeCorrect == Spec => []TypeOK
<1>1. HandlesInv => TypeOK
  BY DEF HandlesInv
<1> QED
  BY <1>1, HandlesInvariant, PTL

\* bound_to() of a blocking handle always names an address its OS socket was
\* bound to, for any number of clones.
THEOREM BoundToCorrect == Spec => []BoundToTruthful
<1>1. HandlesInv => BoundToTruthful
  BY DEF HandlesInv, SharedInv
<1> QED
  BY <1>1, HandlesInvariant, PTL

\* Once bound, a ping socket's packets carry the identifier its handle reports;
\* before, it reports 0.
THEOREM IdentifierOnWire == Spec => []WireCarriesIdentifier
<1>1. HandlesInv => WireCarriesIdentifier
  BY DEF HandlesInv
<1> QED
  BY <1>1, HandlesInvariant, PTL

\* An established identifier is shared exactly by the established handles on one
\* OS socket.
THEOREM IdentifiersUnique == Spec => []IdentifiersTellSocketsApart
<1>1. HandlesInv => IdentifiersTellSocketsApart
  <2> SUFFICES ASSUME HandlesInv, KernelAssignsPorts, NEW h \in Live, NEW g \in Live,
                      {handle[h].kind, handle[g].kind} = {"dgram4"},
                      handle[h].established
               PROVE  handle[h].identifier = handle[g].identifier
                        <=> handle[h].sock = handle[g].sock /\ handle[g].established
    BY DEF IdentifiersTellSocketsApart
  <2>1. handle[h].sock \in Sock /\ handle[g].sock \in Sock
    BY KernelTypes DEF HandlesInv
  <2>2. handle[h].kind = "dgram4" /\ handle[g].kind = "dgram4"
    BY Zenon
  <2>3. /\ handle[h].identifier = os[handle[h].sock].port /\ os[handle[h].sock].port # 0
        /\ handle[g].established => handle[g].identifier = os[handle[g].sock].port
        /\ ~handle[g].established => handle[g].identifier = 0
    BY Zenon, <2>2 DEF HandlesInv, SharedInv, IdentifierIsPort
  <2> QED
    BY Zenon, <2>1, <2>3 DEF HandlesInv, SharedInv, PortsAreUnique
<1> QED
  BY <1>1, HandlesInvariant, PTL

\* A packet leaves with its caller's TTL unless another handle set the TTL in
\* between, for any number of clones.
THEOREM TtlCorrect == Spec => []UndisturbedTtl
<1>1. HandlesInv => UndisturbedTtl
  BY DEF HandlesInv
<1> QED
  BY <1>1, HandlesInvariant, PTL

\* The OS socket under an async handle is nonblocking.
THEOREM AsyncNonblocking == Spec => []AsyncNeverBlocks
<1>1. HandlesInv => AsyncNeverBlocks
  BY DEF HandlesInv, SharedInv
<1> QED
  BY <1>1, HandlesInvariant, PTL

\* The source address under an IPv6 checksum was bound, and is the address of
\* the OS socket if that never had another, for any number of clones that bind
\* and send at once.
THEOREM ChecksumSource == Spec => []ChecksumSourceBound
<1>1. HandlesInv => ChecksumSourceBound
  <2> SUFFICES ASSUME HandlesInv, NEW h \in Live, handle[h].kind = "raw6", call[h].sending
               PROVE  LET o == os[handle[h].sock]
                      IN  call[h].src \in o.everBound /\ (o.everBound = {call[h].src} => o.local = call[h].src)
    BY DEF ChecksumSourceBound
  <2>1. call[h].src \in os[handle[h].sock].everBound
    BY Zenon DEF HandlesInv, SourceInv
  <2>2. LocalIsBound(os[handle[h].sock])
    BY KernelTypes DEF HandlesInv, SourceInv
  <2> QED
    BY Zenon, <2>1, <2>2 DEF LocalIsBound
<1> QED
  BY <1>1, HandlesInvariant, PTL

=============================================================================
