--------------------------- MODULE MemoryManager ---------------------------
(***************************************************************************)
(* The guest-memory layer of devices-bin/pyutils/memorymanager.py.         *)
(*                                                                         *)
(* A MemoryManager is a sequence of MemRanges, each an mmap of one file    *)
(* descriptor placed at start_addr. Here a region is a record              *)
(* [start, size] and the contents of region r are mem[r], a sequence of    *)
(* size bytes: regions are separate mappings even if their address ranges  *)
(* overlap. Python slices are modelled by what they do: a read slice is    *)
(* clipped at the end of the mapping, and a slice assignment whose clipped *)
(* length differs from the data raises IndexError.                         *)
(***************************************************************************)
EXTENDS Integers, Sequences

(* The -1 that MemoryManager.read and .write return when no range holds   *)
(* the address.                                                           *)
NoRegion == -1

Lesser(a, b) == IF a <= b THEN a ELSE b

(* memrange.start_addr <= addr < memrange.end_addr *)
InRegion(rg, addr) == rg.start <= addr /\ addr < rg.start + rg.size

(* The index of the first range, in registration order, holding addr, or *)
(* 0 when none does (the for loops of read and write).                    *)
Route(regions, addr) ==
  IF \E r \in 1..Len(regions) : InRegion(regions[r], addr)
    THEN CHOOSE r \in 1..Len(regions) :
           /\ InRegion(regions[r], addr)
           /\ \A q \in 1..(r - 1) : ~InRegion(regions[q], addr)
    ELSE 0

(* MemRange.read: self.mem[offset:offset + size], clipped at the mapping's *)
(* end.                                                                    *)
RangeRead(bytes, offset, size) ==
  SubSeq(bytes, offset + 1, Lesser(offset + size, Len(bytes)))

(* MemoryManager.read: the bytes, or NoRegion. *)
MemRead(mem, regions, addr, size) ==
  LET r == Route(regions, addr) IN
  IF r = 0 THEN NoRegion
  ELSE RangeRead(mem[r], addr - regions[r].start, size)

(* MemRange.write raises IndexError when the clipped slice                 *)
(* mem[offset:offset + len(data)] is shorter than the data.               *)
RangeWriteFits(bytes, offset, data) == offset + Len(data) <= Len(bytes)

(* MemRange.write, when it fits: bytes offset+1 .. offset+len(data)       *)
(* replaced.                                                               *)
RangeWrite(bytes, offset, data) ==
  [j \in 1..Len(bytes) |->
     IF offset < j /\ j <= offset + Len(data) THEN data[j - offset]
     ELSE bytes[j]]

(* The outcome of MemoryManager.write: "miss" (returns -1), "raise"        *)
(* (IndexError propagates to the caller) or "ok".                          *)
MemWriteOutcome(mem, regions, addr, data) ==
  LET r == Route(regions, addr) IN
  IF r = 0 THEN "miss"
  ELSE IF RangeWriteFits(mem[r], addr - regions[r].start, data) THEN "ok"
  ELSE "raise"

(* The memory after a MemoryManager.write whose outcome is "ok". *)
MemWrite(mem, regions, addr, data) ==
  LET r == Route(regions, addr) IN
  [mem EXCEPT ![r] = RangeWrite(@, addr - regions[r].start, data)]
=============================================================================
