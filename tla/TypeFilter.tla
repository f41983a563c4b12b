----------------------------- MODULE TypeFilter -----------------------------
(***************************************************************************)
(* The Linux receive filter of the raw sockets (filter.rs): callers on     *)
(* different threads, through clones and async conversions of one OS       *)
(* socket (the methods take &self), build a mask of blocked types bit by   *)
(* bit and install it with one setsockopt.  A mask is the set of its one   *)
(* bits <<word, bit>>: one u32 for ICMPv4, eight for ICMPv6.               *)
(***************************************************************************)
EXTENDS Integers, Sequences

CONSTANTS
  Caller,    \* threads that call the filter methods
  Type,      \* ICMP types in allow-lists and packets
  MaxList    \* bound on the length of an allow-list

ASSUME FilterAssumption ==
  Type \subseteq 0 .. 255 /\ MaxList \in Nat

AllowList == UNION {[1 .. n -> Type] : n \in 0 .. MaxList}

VARIABLES
  v6,        \* TRUE: ICMP6_FILTER, FALSE: ICMP_FILTER; never changes
  task,      \* per caller, the set_allowed_types call in progress
  filter,    \* the kernel's mask
  granted,   \* history: what the last call that returned Ok asked to let in
  returned   \* {r} when the last step returned result r, else {}

vars == <<v6, task, filter, granted, returned>>

\* [u32; 8] or one u32.
AllBits == (IF v6 THEN 0 .. 7 ELSE {0}) \X (0 .. 31)

\* done: the elements of allowed the loop has handled.
TaskState == [running: BOOLEAN, allowed: AllowList, done: 0 .. MaxList, mask: SUBSET AllBits]

NoTask == [running |-> FALSE, allowed |-> <<>>, done |-> 0, mask |-> {}]

Init ==
  /\ v6 \in BOOLEAN
  /\ task = [c \in Caller |-> NoTask]
  /\ filter = {}
  /\ granted = Type
  /\ returned = {}

Listed(allowed) == {allowed[i] : i \in DOMAIN allowed}

-----------------------------------------------------------------------------
(* Kernel (external).                                                      *)

\* icmp_filter lets every type above 31 pass; icmpv6_filter knows all types.
Passes(t) ==
  IF v6 THEN <<t \div 32, t % 32>> \notin filter ELSE t < 32 => <<0, t>> \notin filter

-----------------------------------------------------------------------------

\* Mutant: the v6 mask is indexed with typ / 8, as a byte array would be.
ByteIndexed(t) == <<(t \div 8) % 8, t % 32>>

\* The bit of a type: 1u32.checked_shl(typ), or 1 << (typ % 32) of word typ / 32.
BitOf(t) == IF v6 THEN <<t \div 32, t % 32>> ELSE <<0, t>>

\* Mutant: checked_shl tests for 33 bits.
ShiftsTo32(t) == v6 \/ t <= 32

\* checked_shl gives None from 32 up.
Shiftable(t) == v6 \/ t < 32

\* Mutant: the mask starts as u64::MAX.
MaskTooWide(c, allowed) ==
  /\ ~task[c].running
  /\ task' = [task EXCEPT ![c] = [running |-> TRUE, allowed |-> allowed, done |-> 0,
                                  mask |-> AllBits \cup ({0} \X (32 .. 63))]]
  /\ returned' = {} /\ UNCHANGED <<v6, filter, granted>>

\* set_allowed_types: the mask starts with every bit set.
SetAllowedTypes(c, allowed) ==
  /\ ~task[c].running
  /\ task' = [task EXCEPT ![c] =
       [running |-> TRUE, allowed |-> allowed, done |-> 0, mask |-> AllBits]]
  /\ returned' = {} /\ UNCHANGED <<v6, filter, granted>>

\* Mutant: an iteration that assigns !bit instead of and-ing it in.
ClearBitOverwrites(c) ==
  LET t == task[c].allowed[task[c].done + 1]
  IN  /\ task[c].running /\ task[c].done < Len(task[c].allowed) /\ Shiftable(t)
      /\ task' = [task EXCEPT ![c].done = @ + 1, ![c].mask = AllBits \ {BitOf(t)}]
      /\ returned' = {} /\ UNCHANGED <<v6, filter, granted>>

\* One iteration of the loop: mask &= !bit.
ClearBit(c) ==
  LET t == task[c].allowed[task[c].done + 1]
  IN  /\ task[c].running /\ task[c].done < Len(task[c].allowed) /\ Shiftable(t)
      /\ task' = [task EXCEPT ![c].done = @ + 1, ![c].mask = @ \ {BitOf(t)}]
      /\ returned' = {} /\ UNCHANGED <<v6, filter, granted>>

\* A type that has no bit: InvalidInput, before setsockopt.
InvalidInput(c) ==
  /\ task[c].running /\ task[c].done < Len(task[c].allowed)
  /\ ~Shiftable(task[c].allowed[task[c].done + 1])
  /\ returned' = {[ok |-> FALSE, allowed |-> Listed(task[c].allowed)]}
  /\ task' = [task EXCEPT ![c] = NoTask]
  /\ UNCHANGED <<v6, filter, granted>>

\* setsockopt replaces the whole mask.
Install(c) ==
  /\ task[c].running /\ task[c].done = Len(task[c].allowed)
  /\ filter' = task[c].mask /\ granted' = Listed(task[c].allowed)
  /\ returned' = {[ok |-> TRUE, allowed |-> Listed(task[c].allowed)]}
  /\ task' = [task EXCEPT ![c] = NoTask]
  /\ UNCHANGED v6

\* Mutant: the filter is cleared to ones.
ClearBlocksAll(c) ==
  /\ ~task[c].running
  /\ filter' = AllBits /\ granted' = Type
  /\ returned' = {} /\ UNCHANGED <<v6, task>>

\* clear_type_filter: all bits zero.
ClearTypeFilter(c) ==
  /\ ~task[c].running
  /\ filter' = {} /\ granted' = Type
  /\ returned' = {} /\ UNCHANGED <<v6, task>>

\* setsockopt fails; nothing is installed.
SetsockoptFails(c) ==
  /\ task[c].running /\ task[c].done = Len(task[c].allowed)
  /\ task' = [task EXCEPT ![c] = NoTask]
  /\ returned' = {} /\ UNCHANGED <<v6, filter, granted>>

Step(c) ==
  \/ \E allowed \in AllowList : SetAllowedTypes(c, allowed)
  \/ ClearBit(c)
  \/ InvalidInput(c)
  \/ Install(c)
  \/ ClearTypeFilter(c)
  \/ SetsockoptFails(c)

Next == \E c \in Caller : Step(c)

Spec == Init /\ [][Next]_vars

-----------------------------------------------------------------------------
(* Properties.                                                             *)

\* Every variable has its type.
TypeOK ==
  /\ v6 \in BOOLEAN
  /\ task \in [Caller -> TaskState]
  /\ filter \in SUBSET AllBits
  /\ granted \in SUBSET Type
  /\ returned \in SUBSET [ok: BOOLEAN, allowed: SUBSET Type]

\* The loop of a call in progress (filter.rs:38, 56) has met only types that
\* have a bit, and has cleared exactly their bits, whatever the other callers
\* did to the kernel's filter meanwhile.
MaskTracksLoop ==
  \A c \in Caller : task[c].running =>
    /\ task[c].done <= Len(task[c].allowed)
    /\ \A i \in 1 .. task[c].done : Shiftable(task[c].allowed[i])
    /\ task[c].mask = AllBits \ {BitOf(task[c].allowed[i]) : i \in 1 .. task[c].done}

\* "Each call replaces the allow-list" (README.md:72): at every moment the
\* kernel lets in exactly the types of the last call that returned Ok, and for
\* ICMPv4 the types above 31; never a mixture of two concurrent calls, of an old
\* list and a new one, or the beginning of a list that was refused.
FilterMatchesRequest ==
  \A t \in Type : Passes(t) <=> t \in granted \/ (~v6 /\ t >= 32)

\* "listing one returns InvalidInput" (README.md:74): an ICMPv4 list is refused
\* exactly when it names a type above 31, wherever in the list; an ICMPv6 list
\* never is.
InvalidExactlyWhenUnfilterable ==
  \A r \in returned : r.ok <=> v6 \/ \A t \in r.allowed : t <= 31

=============================================================================
