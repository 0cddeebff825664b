------------------------------ MODULE FlatMemory ------------------------------
(***************************************************************************)
(* What the memory image promises a program: one flat space of bytes.  A   *)
(* byte that is mapped keeps its value until a store to it, memory only     *)
(* grows, new memory is zero, and an access that faults changes nothing.    *)
(***************************************************************************)
EXTENDS Integers

CONSTANT Code   \* the addresses of the text segment

VARIABLES
    cells,   \* cells[a]: the byte at a, for every mapped address a
    result   \* what the last operation did

Mapped == DOMAIN cells

Init ==
    /\ \A a \in Mapped : cells[a] = 0
    /\ result = [op |-> "reset"]

Span(a, w) == a .. a + w - 1

Running == result.op \notin {"stop", "crash"}

(* Memory grows if it must to hold Span(a, w), and every byte outside of    *)
(* Span(a, w) keeps its value or is new and zero.                           *)
KeepsTheRest(a, w) ==
    /\ Mapped \subseteq DOMAIN cells'
    /\ Span(a, w) \subseteq DOMAIN cells'
    /\ \A b \in DOMAIN cells' \ Span(a, w) :
          cells'[b] = IF b \in Mapped THEN cells[b] ELSE 0

(* Only an access outside of it makes memory grow.                          *)
GrowsIfNeeded(a, w) == Span(a, w) \subseteq Mapped => DOMAIN cells' = Mapped

(* A read returns what is mapped, or the zeros of the memory it grows.      *)
Read(a, w) ==
    /\ KeepsTheRest(a, w)
    /\ \A k \in 0 .. w - 1 :
          /\ cells'[a + k] = IF a + k \in Mapped THEN cells[a + k] ELSE 0
          /\ result'.value[k] = cells'[a + k]

Write(a, w) ==
    /\ KeepsTheRest(a, w)
    /\ \A k \in 0 .. w - 1 : cells'[a + k] = result'.value[k]

Access ==
    /\ result'.op \in {"read", "write"}
    /\ result'.addr % result'.width = 0
    /\ GrowsIfNeeded(result'.addr, result'.width)
    /\ IF result'.op = "read"
       THEN Read(result'.addr, result'.width)
       ELSE Write(result'.addr, result'.width)

(* A misaligned or an unmapped address faults.                              *)
Fault ==
    /\ result'.op = "fault"
    /\ result'.addr % result'.width # 0 \/ ~ Span(result'.addr, result'.width) \subseteq Mapped
    /\ UNCHANGED cells

(* A device register is not memory.                                        *)
Device ==
    /\ result'.op = "device"
    /\ result'.addr \notin Mapped
    /\ UNCHANGED cells

(* sbrk returns the first of size bytes that nobody has had before.         *)
Grow ==
    /\ result'.op = "grow"
    /\ Span(result'.addr, result'.size) \cap Mapped = {}
    /\ KeepsTheRest(result'.addr, 0)
    /\ Span(result'.addr, result'.size) \subseteq DOMAIN cells'
    /\ \A b \in Span(result'.addr, result'.size) : cells'[b] = 0

(* A request beyond a limit ends the simulation; the simulator itself dies  *)
(* only of narrow accesses to the text segment.                            *)
Stop == result'.op = "stop" /\ UNCHANGED cells

Crash ==
    /\ result'.op = "crash"
    /\ result'.addr \in Code /\ result'.width < 4
    /\ UNCHANGED cells

Reset ==
    /\ result' = [op |-> "reset"]
    /\ \A a \in DOMAIN cells' : cells'[a] = 0

Next ==
    \/ Running /\ (Access \/ Fault \/ Device \/ Grow \/ Stop \/ Crash)
    \/ result.op # "crash" /\ Reset

Spec == Init /\ [][Next]_<<cells, result>>
=============================================================================
