-------------------------- MODULE TypeFilter_proofs --------------------------
(***************************************************************************)
(* TypeFilter, for every set of callers and every allow-list of any length *)
(* up to MaxList: the installed filter is always exactly the last granted  *)
(* list.  The inductive invariant adds to FilterMatchesRequest what the    *)
(* loops of the calls in progress have done so far (MaskTracksLoop).       *)
(***************************************************************************)
EXTENDS TypeFilter, TLAPS

\* Two types of a list that have a bit have different bits, and bits of the mask.
LEMMA BitsDiffer ==
  ASSUME NEW t \in 0 .. 255, NEW u \in 0 .. 255, Shiftable(t), Shiftable(u)
  PROVE  BitOf(t) \in AllBits /\ (BitOf(t) = BitOf(u) => t = u)
<1>1. CASE v6
  BY <1>1 DEF BitOf, AllBits
<1>2. CASE ~v6
  BY <1>2 DEF BitOf, AllBits, Shiftable
<1> QED
  BY <1>1, <1>2

\* No step changes the protocol, nor what depends on it alone.
LEMMA ProtocolFixed ==
  ASSUME [Next]_vars
  PROVE  /\ v6' = v6 /\ AllBits' = AllBits /\ TaskState' = TaskState
         /\ \A t : BitOf(t)' = BitOf(t) /\ (Shiftable(t)' <=> Shiftable(t))
<1>1. v6' = v6
  BY DEF Next, Step, SetAllowedTypes, ClearBit, InvalidInput, Install, ClearTypeFilter,
         SetsockoptFails, vars
<1>2. AllBits' = AllBits
  BY <1>1 DEF AllBits
<1> QED
  BY <1>1, <1>2 DEF TaskState, BitOf, Shiftable

\* An allow-list is a sequence of types.
LEMMA AllowListIsSeq ==
  ASSUME NEW a \in AllowList
  PROVE  /\ Len(a) \in 0 .. MaxList /\ DOMAIN a = 1 .. Len(a)
         /\ \A i \in 1 .. Len(a) : a[i] \in Type /\ a[i] \in 0 .. 255
<1>1. PICK n \in 0 .. MaxList : a \in [1 .. n -> Type]
  BY DEF AllowList
<1>2. n \in Nat /\ MaxList \in Nat
  BY <1>1, FilterAssumption
<1>3. Len(a) = n /\ DOMAIN a = 1 .. n
  BY <1>1, <1>2
<1> QED
  BY <1>1, <1>2, <1>3, FilterAssumption

\* The last type with a bit.
LEMMA LastFilterable == \A x \in 0 .. 255 : x < 32 <=> x <= 31
OBVIOUS

\* An element without a bit is a type above 31 of an ICMPv4 list ...
LEMMA UnfilterableElement ==
  ASSUME NEW a \in AllowList, NEW k \in Nat, k < Len(a), ~Shiftable(a[k + 1])
  PROVE  a[k + 1] \in Listed(a) /\ ~v6 /\ ~(a[k + 1] <= 31)
<1>1. Len(a) \in Nat /\ DOMAIN a = 1 .. Len(a)
  BY AllowListIsSeq
<1>2. k + 1 \in 1 .. Len(a)
  BY <1>1
<1>3. a[k + 1] \in 0 .. 255
  BY <1>2, AllowListIsSeq
<1>4. ~v6 /\ ~(a[k + 1] < 32)
  BY Zenon DEF Shiftable
<1>5. ~(a[k + 1] <= 31)
  BY <1>3, <1>4, LastFilterable, Zenon
<1>6. a[k + 1] \in Listed(a)
  BY <1>1, <1>2 DEF Listed
<1> QED
  BY <1>4, <1>5, <1>6, Zenon

\* ... and a list all of whose elements have a bit names none.
LEMMA FilterableList ==
  ASSUME NEW a \in AllowList, \A i \in 1 .. Len(a) : Shiftable(a[i])
  PROVE  v6 \/ \A t \in Listed(a) : t <= 31
<1>1. DOMAIN a = 1 .. Len(a) /\ \A i \in 1 .. Len(a) : a[i] \in 0 .. 255
  BY AllowListIsSeq
<1>2. CASE ~v6
  <2>1. \A i \in 1 .. Len(a) : a[i] < 32
    BY <1>2, Zenon DEF Shiftable
  <2>2. \A i \in DOMAIN a : a[i] <= 31
    BY <1>1, <2>1, LastFilterable, Zenon
  <2> QED
    BY <2>2 DEF Listed
<1> QED
  BY <1>2, Zenon

\* A kernel mask that blocks all bits but those of a list lets in exactly the
\* list (and on ICMPv4 the types above 31).
LEMMA MaskOfList ==
  ASSUME NEW a \in AllowList, \A i \in 1 .. Len(a) : Shiftable(a[i]),
         v6' = v6, filter' = AllBits \ {BitOf(a[i]) : i \in 1 .. Len(a)},
         NEW t \in Type
  PROVE  Passes(t)' <=> t \in Listed(a) \/ (~v6 /\ t >= 32)
<1>1. t \in 0 .. 255
  BY FilterAssumption
<1>2. \A i \in 1 .. Len(a) : a[i] \in 0 .. 255
  BY AllowListIsSeq
<1>3. Listed(a) = {a[i] : i \in 1 .. Len(a)}
  BY AllowListIsSeq DEF Listed
<1>4. CASE Shiftable(t)
  <2>1. BitOf(t) \in AllBits
    BY <1>1, <1>4, BitsDiffer
  <2>2. \A i \in 1 .. Len(a) : BitOf(t) = BitOf(a[i]) => t = a[i]
    BY <1>1, <1>2, <1>4, BitsDiffer
  <2>3. BitOf(t) \notin filter' <=> t \in Listed(a)
    BY <1>3, <2>1, <2>2
  <2>4. Passes(t)' <=> BitOf(t) \notin filter'
    BY <1>1, <1>4 DEF Passes, BitOf, Shiftable
  <2>5. ~(~v6 /\ t >= 32)
    BY <1>1, <1>4 DEF Shiftable
  <2> QED
    BY <2>3, <2>4, <2>5, Zenon
<1>5. CASE ~Shiftable(t)
  BY <1>1, <1>5 DEF Shiftable, Passes
<1> QED
  BY <1>4, <1>5

\* The inductive invariant.
FilterInv == TypeOK /\ MaskTracksLoop /\ FilterMatchesRequest

\* Initially no call runs and the kernel's filter blocks nothing.
LEMMA FilterInvInit == Init => FilterInv
<1> SUFFICES ASSUME Init PROVE FilterInv
  OBVIOUS
<1>1. NoTask \in TaskState
  <2>1. <<>> \in AllowList
    <3>1. <<>> \in [1 .. 0 -> Type] /\ 0 \in 0 .. MaxList
      BY FilterAssumption
    <3> QED
      BY <3>1 DEF AllowList
  <2> QED
    BY <2>1, FilterAssumption DEF NoTask, TaskState
<1>2. TypeOK
  BY <1>1 DEF Init, TypeOK
<1>3. MaskTracksLoop
  BY DEF Init, MaskTracksLoop, NoTask
<1>4. FilterMatchesRequest
  BY DEF Init, FilterMatchesRequest, Passes
<1> QED
  BY <1>2, <1>3, <1>4 DEF FilterInv

\* Every step of a caller preserves the types.
LEMMA TypeOKStep == TypeOK /\ MaskTracksLoop /\ [Next]_vars => TypeOK'
<1> SUFFICES ASSUME TypeOK, MaskTracksLoop, [Next]_vars PROVE TypeOK'
  OBVIOUS
<1> USE FilterAssumption
<1>p. v6' = v6 /\ AllBits' = AllBits /\ TaskState' = TaskState
  BY ProtocolFixed
<1>0. NoTask \in TaskState
  <2>1. <<>> \in [1 .. 0 -> Type] /\ 0 \in 0 .. MaxList
    OBVIOUS
  <2> QED
    BY <2>1 DEF NoTask, TaskState, AllowList
<1>1. ASSUME NEW c \in Caller, NEW a \in AllowList, SetAllowedTypes(c, a) PROVE TypeOK'
  <2>1. [running |-> TRUE, allowed |-> a, done |-> 0, mask |-> AllBits] \in TaskState
    BY DEF TaskState
  <2> QED
    BY <1>p, <1>1, <2>1 DEF TypeOK, SetAllowedTypes
<1>2. ASSUME NEW c \in Caller, ClearBit(c) PROVE TypeOK'
  <2> DEFINE t == task[c].allowed[task[c].done + 1]
             new == [task[c] EXCEPT !.done = @ + 1, !.mask = @ \ {BitOf(t)}]
  <2>1. task[c] \in TaskState /\ task[c].done < Len(task[c].allowed)
    BY <1>2 DEF TypeOK, ClearBit
  <2>2. Len(task[c].allowed) \in 0 .. MaxList
    BY <2>1, AllowListIsSeq DEF TaskState
  <2>3. new \in TaskState
    <3>1. task[c].done + 1 \in 0 .. MaxList
      BY <2>1, <2>2 DEF TaskState
    <3>2. task[c].mask \ {BitOf(t)} \in SUBSET AllBits
      BY <2>1 DEF TaskState
    <3> HIDE DEF t
    <3> QED
      BY <2>1, <3>1, <3>2 DEF TaskState
  <2>4. task' = [task EXCEPT ![c] = new]
    BY <1>2 DEF ClearBit
  <2> QED
    BY <1>p, <1>2, <2>3, <2>4 DEF TypeOK, ClearBit
<1>3. ASSUME NEW c \in Caller, task[c].running PROVE Listed(task[c].allowed) \in SUBSET Type
  <2>1. task[c].allowed \in AllowList
    BY <1>3 DEF TypeOK, TaskState
  <2> QED
    BY <2>1, AllowListIsSeq DEF Listed
<1>4. ASSUME NEW c \in Caller, InvalidInput(c) PROVE TypeOK'
  BY <1>p, <1>0, <1>3, <1>4 DEF TypeOK, InvalidInput
<1>5. ASSUME NEW c \in Caller, Install(c) PROVE TypeOK'
  <2>1. task[c].mask \in SUBSET AllBits
    BY <1>5 DEF TypeOK, TaskState
  <2> QED
    BY <1>p, <1>0, <1>3, <1>5, <2>1 DEF TypeOK, Install
<1>6. ASSUME NEW c \in Caller, ClearTypeFilter(c) PROVE TypeOK'
  BY <1>p, <1>6 DEF TypeOK, ClearTypeFilter
<1>7. ASSUME NEW c \in Caller, SetsockoptFails(c) PROVE TypeOK'
  BY <1>p, <1>0, <1>7 DEF TypeOK, SetsockoptFails
<1>8. CASE UNCHANGED vars
  BY <1>p, <1>8 DEF TypeOK, vars
<1> QED
  BY <1>1, <1>2, <1>4, <1>5, <1>6, <1>7, <1>8 DEF Next, Step

\* Every step keeps the masks of the loops in progress right.
LEMMA MaskStep == TypeOK /\ MaskTracksLoop /\ [Next]_vars => MaskTracksLoop'
<1> SUFFICES ASSUME TypeOK, MaskTracksLoop, [Next]_vars,
                    NEW d \in Caller, task'[d].running
             PROVE  /\ task'[d].done <= Len(task'[d].allowed)
                    /\ \A i \in 1 .. task'[d].done : Shiftable(task'[d].allowed[i])
                    /\ task'[d].mask = AllBits \ {BitOf(task'[d].allowed[i]) : i \in 1 .. task'[d].done}
  BY ProtocolFixed DEF MaskTracksLoop, Shiftable, BitOf
<1> USE FilterAssumption
<1>1. CASE task'[d] = task[d]
  BY <1>1 DEF MaskTracksLoop
<1>2. ASSUME NEW a \in AllowList, SetAllowedTypes(d, a) PROVE task'[d].done = 0 /\ task'[d].mask = AllBits /\ task'[d].allowed = a
  BY <1>2 DEF SetAllowedTypes, TypeOK
<1>3. ASSUME NEW a \in AllowList, SetAllowedTypes(d, a)
      PROVE  /\ task'[d].done <= Len(task'[d].allowed)
             /\ \A i \in 1 .. task'[d].done : Shiftable(task'[d].allowed[i])
             /\ task'[d].mask = AllBits \ {BitOf(task'[d].allowed[i]) : i \in 1 .. task'[d].done}
  <2>1. Len(a) \in 0 .. MaxList
    BY AllowListIsSeq
  <2> QED
    BY <1>2, <1>3, <2>1
<1>4. CASE ClearBit(d)
  <2> DEFINE a == task[d].allowed
             k == task[d].done
  <2>1. a \in AllowList /\ k \in Nat /\ task[d].running /\ k < Len(a) /\ Shiftable(a[k + 1])
    BY <1>4 DEF TypeOK, TaskState, ClearBit
  <2>2. task'[d].allowed = a /\ task'[d].done = k + 1
        /\ task'[d].mask = task[d].mask \ {BitOf(a[k + 1])}
    BY <1>4 DEF TypeOK, TaskState, ClearBit
  <2>3. Len(a) \in Nat
    BY <2>1, AllowListIsSeq
  <2>4. 1 .. (k + 1) = (1 .. k) \cup {k + 1}
    BY <2>1
  <2>5. (\A i \in 1 .. k : Shiftable(a[i])) /\ task[d].mask = AllBits \ {BitOf(a[i]) : i \in 1 .. k}
    BY <2>1 DEF MaskTracksLoop
  <2> HIDE DEF a, k
  <2> QED
    BY <2>1, <2>2, <2>3, <2>4, <2>5
<1>5. ASSUME NEW c \in Caller, c # d, Step(c) PROVE task'[d] = task[d]
  BY <1>5 DEF TypeOK, Step, SetAllowedTypes, ClearBit, InvalidInput, Install,
              ClearTypeFilter, SetsockoptFails
<1>6. CASE InvalidInput(d) \/ Install(d) \/ SetsockoptFails(d)
  BY <1>6 DEF TypeOK, InvalidInput, Install, SetsockoptFails, NoTask
<1>7. CASE ClearTypeFilter(d) \/ UNCHANGED vars
  BY <1>1, <1>7 DEF ClearTypeFilter, vars
<1> QED
  BY <1>1, <1>3, <1>4, <1>5, <1>6, <1>7 DEF Next, Step

\* Every step leaves a filter that matches the last granted list.
LEMMA MatchStep == FilterInv /\ [Next]_vars => FilterMatchesRequest'
<1> SUFFICES ASSUME FilterInv, [Next]_vars PROVE FilterMatchesRequest'
  OBVIOUS
<1>p. v6' = v6
  BY ProtocolFixed
<1>1. CASE filter' = filter /\ granted' = granted
  BY <1>p, <1>1 DEF FilterInv, FilterMatchesRequest, Passes
<1>2. ASSUME NEW c \in Caller, Install(c) PROVE FilterMatchesRequest'
  <2> DEFINE a == task[c].allowed
  <2>1. a \in AllowList
    BY <1>2 DEF FilterInv, TypeOK, TaskState
  <2>2. filter' = AllBits \ {BitOf(a[i]) : i \in 1 .. Len(a)}
    BY <1>2 DEF FilterInv, MaskTracksLoop, Install
  <2>3. \A i \in 1 .. Len(a) : Shiftable(a[i])
    BY <1>2 DEF FilterInv, MaskTracksLoop, Install
  <2>4. granted' = Listed(a)
    BY <1>2 DEF Install
  <2> HIDE DEF a
  <2>5. \A t \in Type : Passes(t)' <=> t \in Listed(a) \/ (~v6 /\ t >= 32)
    BY <1>p, <2>1, <2>2, <2>3, MaskOfList
  <2> QED
    BY <1>p, <2>4, <2>5 DEF FilterMatchesRequest
<1>3. ASSUME NEW c \in Caller, ClearTypeFilter(c) PROVE FilterMatchesRequest'
  BY <1>p, <1>3 DEF ClearTypeFilter, FilterMatchesRequest, Passes
<1> QED
  BY <1>1, <1>2, <1>3 DEF Next, Step, SetAllowedTypes, ClearBit, InvalidInput, SetsockoptFails, vars

\* Every call that returns is refused exactly when its list names a type that
\* has no bit.
LEMMA InvalidStep ==
  FilterInv /\ InvalidExactlyWhenUnfilterable /\ [Next]_vars => InvalidExactlyWhenUnfilterable'
<1> SUFFICES ASSUME FilterInv, InvalidExactlyWhenUnfilterable, [Next]_vars
             PROVE  InvalidExactlyWhenUnfilterable'
  OBVIOUS
<1>p. v6' = v6
  BY ProtocolFixed
<1>1. CASE returned' = {} \/ returned' = returned
  BY <1>p, <1>1 DEF InvalidExactlyWhenUnfilterable
<1>2. ASSUME NEW c \in Caller, InvalidInput(c) PROVE InvalidExactlyWhenUnfilterable'
  <2> DEFINE a == task[c].allowed
             k == task[c].done
  <2>1. a \in AllowList /\ k \in Nat /\ k < Len(a) /\ ~Shiftable(a[k + 1])
    BY <1>2 DEF FilterInv, TypeOK, TaskState, InvalidInput
  <2>2. returned' = {[ok |-> FALSE, allowed |-> Listed(a)]}
    BY <1>2 DEF InvalidInput
  <2> HIDE DEF a, k
  <2>4. a[k + 1] \in Listed(a) /\ ~v6 /\ ~(a[k + 1] <= 31)
    BY <2>1, UnfilterableElement
  <2> QED
    BY <1>p, <2>2, <2>4 DEF InvalidExactlyWhenUnfilterable
<1>3. ASSUME NEW c \in Caller, Install(c) PROVE InvalidExactlyWhenUnfilterable'
  <2> DEFINE a == task[c].allowed
  <2>1. a \in AllowList /\ \A i \in 1 .. Len(a) : Shiftable(a[i])
    BY <1>3 DEF FilterInv, TypeOK, TaskState, MaskTracksLoop, Install
  <2>2. returned' = {[ok |-> TRUE, allowed |-> Listed(a)]}
    BY <1>3 DEF Install
  <2> HIDE DEF a
  <2>3. v6 \/ \A t \in Listed(a) : t <= 31
    BY <2>1, FilterableList
  <2> QED
    BY <1>p, <2>2, <2>3 DEF InvalidExactlyWhenUnfilterable
<1> QED
  BY <1>1, <1>2, <1>3 DEF Next, Step, SetAllowedTypes, ClearBit, ClearTypeFilter,
                          SetsockoptFails, vars

\* The inductive invariant holds throughout: types, the masks of the loops in
\* progress (filter.rs:38, 56), and the kernel's filter.
THEOREM FilterInvariant == Spec => []FilterInv
<1>1. FilterInv /\ [Next]_vars => FilterInv'
  BY TypeOKStep, MaskStep, MatchStep DEF FilterInv
<1> QED
  BY FilterInvInit, <1>1, PTL DEF Spec

\* Every variable keeps its type (filter.rs:25-34): a mask never has a bit the
\* kernel's option does not.
THEOREM FilterTypes == Spec => []TypeOK
<1>1. FilterInv => TypeOK
  BY DEF FilterInv
<1> QED
  BY FilterInvariant, <1>1, PTL

\* The mask of every call in progress is what its loop has done so far,
\* whatever the other callers do (filter.rs:38, 56).
THEOREM LoopCorrect == Spec => []MaskTracksLoop
<1>1. FilterInv => MaskTracksLoop
  BY DEF FilterInv
<1> QED
  BY FilterInvariant, <1>1, PTL

\* The kernel's filter always lets in exactly what the last successful
\* set_allowed_types or clear_type_filter asked for (filter.rs).
THEOREM FilterCorrect == Spec => []FilterMatchesRequest
<1>1. FilterInv => FilterMatchesRequest
  BY DEF FilterInv
<1> QED
  BY FilterInvariant, <1>1, PTL

\* A list is refused with InvalidInput exactly when it names a type above 31
\* and the socket is ICMPv4 (filter.rs:39).
THEOREM InvalidCorrect == Spec => []InvalidExactlyWhenUnfilterable
<1>1. Init => InvalidExactlyWhenUnfilterable
  BY DEF Init, InvalidExactlyWhenUnfilterable
<1>2. FilterInv /\ InvalidExactlyWhenUnfilterable /\ [Next]_vars => InvalidExactlyWhenUnfilterable'
  BY InvalidStep
<1> QED
  BY FilterInvariant, <1>1, <1>2, PTL DEF Spec

=============================================================================
