--------------------------- MODULE OoowsDiskProofs ---------------------------
(***************************************************************************)
(* Proofs about the disk device: the type invariant, and that the backing *)
(* file never changes size, for every file size, memory map and register  *)
(* value set. The argument rests on the memory layer: a routed            *)
(* MemoryManager.read returns at most the size asked for, so a DO_WRITE   *)
(* that passes the bounds check (off + size < filesize) writes inside the *)
(* file.                                                                  *)
(***************************************************************************)
EXTENDS OoowsDisk, SequenceTheorems, WellFoundedInduction, TLAPS

(* The inductive invariant: the interrupt count, raised at most once per  *)
(* request, stays within the request bound.                               *)
IInv == TypeOK /\ DiskSizeFixed /\ irqs <= nreq

LEMMA RegionsType ==
  /\ Regions \in Seq([start : Nat, size : Nat])
  /\ Len(Regions) \in Nat
  /\ \A r \in 1..Len(Regions) : Regions[r].start \in Nat /\ Regions[r].size \in Nat
<1>1. Regions \in Seq([start : Nat, size : Nat])
  BY DiskAssumption
<1>2. Len(Regions) \in Nat
  BY <1>1, LenProperties
<1>3. \A r \in 1..Len(Regions) : Regions[r] \in [start : Nat, size : Nat]
  BY <1>1, ElementOfSeq
<1>4. QED
  BY <1>1, <1>2, <1>3

(* Route returns 0 when no range holds the address, and otherwise the     *)
(* index of a range that does: the CHOOSE has a witness, the least such   *)
(* index.                                                                 *)
LEMMA RouteFacts ==
  ASSUME NEW addr \in Nat
  PROVE  LET r == Route(Regions, addr) IN
         \/ r = 0 /\ \A q \in 1..Len(Regions) : ~InRegion(Regions[q], addr)
         \/ r \in 1..Len(Regions) /\ InRegion(Regions[r], addr)
<1> DEFINE Hold(r) == InRegion(Regions[r], addr)
           T == {r \in 1..Len(Regions) : Hold(r)}
<1>1. CASE T = {}
  BY <1>1 DEF Route
<1>2. CASE T # {}
  <2>1. PICK x \in T : \A y \in T : ~(<<y, x>> \in OpToRel(<, Nat))
    <3>1. T \subseteq Nat
      BY RegionsType
    <3>2. QED
      BY <1>2, <3>1, NatLessThanWellFounded, WFMin
  <2>2. \A y \in T : ~(y < x)
    <3> SUFFICES ASSUME NEW y \in T, y < x PROVE FALSE
      OBVIOUS
    <3>1. x \in Nat /\ y \in Nat
      BY RegionsType
    <3>2. <<y, x>> \in OpToRel(<, Nat)
      BY <3>1 DEF OpToRel
    <3>3. QED
      BY <3>2, <2>1
  <2>3. Hold(x) /\ \A q \in 1..(x - 1) : ~Hold(q)
    BY <2>2, RegionsType
  <2>4. \E r \in 1..Len(Regions) : Hold(r) /\ \A q \in 1..(r - 1) : ~Hold(q)
    BY <2>3
  <2>5. QED
    BY <2>4 DEF Route
<1>3. QED
  BY <1>1, <1>2
(* The guest memory as TypeOK describes it. *)
MemOK(mem) ==
  /\ mem \in [1..Len(Regions) -> Seq(Bytes)]
  /\ \A r \in 1..Len(Regions) : Len(mem[r]) = Regions[r].size

(* A slice of a sequence of bytes, clipped at its end, is a sequence of   *)
(* bytes no longer than asked for.                                        *)
LEMMA SliceFacts ==
  ASSUME NEW s \in Seq(Bytes), NEW off \in Nat, NEW n \in Nat
  PROVE  /\ SubSeq(s, off + 1, Lesser(off + n, Len(s))) \in Seq(Bytes)
         /\ Len(SubSeq(s, off + 1, Lesser(off + n, Len(s)))) <= n
<1>1. Len(s) \in Nat
  BY LenProperties
<1>2. \A i \in (off + 1)..Lesser(off + n, Len(s)) : s[i] \in Bytes
  BY <1>1, ElementOfSeq DEF Lesser
<1>3. Len(SubSeq(s, off + 1, Lesser(off + n, Len(s))))
        = IF off + 1 <= Lesser(off + n, Len(s))
            THEN Lesser(off + n, Len(s)) - (off + 1) + 1 ELSE 0
  BY <1>1, <1>2, SubSeqProperties DEF Lesser
<1>4. QED
  BY <1>1, <1>2, <1>3, SubSeqProperties DEF Lesser

(* MemoryManager.read at a routed address returns bytes, at most size of  *)
(* them.                                                                  *)
LEMMA MemReadFacts ==
  ASSUME NEW mem, MemOK(mem), NEW addr \in Nat, NEW size \in Nat,
         Route(Regions, addr) # 0
  PROVE  /\ MemRead(mem, Regions, addr, size) \in Seq(Bytes)
         /\ Len(MemRead(mem, Regions, addr, size)) <= size
<1> DEFINE r == Route(Regions, addr)
<1>1. r \in 1..Len(Regions) /\ InRegion(Regions[r], addr)
  BY RouteFacts
<1>2. addr - Regions[r].start \in Nat
  BY <1>1, RegionsType DEF InRegion
<1>3. mem[r] \in Seq(Bytes)
  BY <1>1 DEF MemOK
<1>4. MemRead(mem, Regions, addr, size)
        = SubSeq(mem[r], (addr - Regions[r].start) + 1,
                 Lesser((addr - Regions[r].start) + size, Len(mem[r])))
  BY DEF MemRead, RangeRead
<1>5. QED
  BY <1>2, <1>3, <1>4, SliceFacts

(* handle.write: the file stays a sequence of bytes, of length the larger *)
(* of its old length and the end of the data.                             *)
LEMMA FileWriteFacts ==
  ASSUME NEW f \in Seq(Bytes), NEW off \in Nat, NEW data \in Seq(Bytes)
  PROVE  /\ FileWrite(f, off, data) \in Seq(Bytes)
         /\ Len(FileWrite(f, off, data)) = Lg(Len(f), off + Len(data))
<1>1. Len(f) \in Nat /\ Len(data) \in Nat
  BY LenProperties
<1>2. Zero \in Bytes
  BY DEF Bytes
<1>3. \A j \in 1..Lg(Len(f), off + Len(data)) :
        (IF off < j /\ j <= off + Len(data) THEN data[j - off]
         ELSE IF j <= Len(f) THEN f[j] ELSE Zero) \in Bytes
  BY <1>1, <1>2, ElementOfSeq DEF Lg
<1>4. Lg(Len(f), off + Len(data)) \in Nat
  BY <1>1 DEF Lg
<1>5. QED
  BY <1>3, <1>4 DEF FileWrite

(* MemoryManager.write, when it fits, keeps every mapping's bytes and its *)
(* length.                                                                *)
LEMMA MemWriteFacts ==
  ASSUME NEW mem, MemOK(mem), NEW addr \in Nat, NEW data \in Seq(Bytes),
         MemWriteOutcome(mem, Regions, addr, data) = "ok"
  PROVE  MemOK(MemWrite(mem, Regions, addr, data))
<1> DEFINE r == Route(Regions, addr)
           off == addr - Regions[r].start
<1>1. r \in 1..Len(Regions) /\ off \in Nat
  <2>1. r \in 1..Len(Regions) /\ InRegion(Regions[r], addr)
    BY RouteFacts DEF MemWriteOutcome
  <2>2. QED
    BY <2>1, RegionsType DEF InRegion
<1>2. mem[r] \in Seq(Bytes) /\ Len(mem[r]) \in Nat /\ Len(data) \in Nat
  BY <1>1, LenProperties DEF MemOK
<1>3. off + Len(data) <= Len(mem[r])
  BY DEF MemWriteOutcome, RangeWriteFits
<1>4. RangeWrite(mem[r], off, data) \in Seq(Bytes)
      /\ Len(RangeWrite(mem[r], off, data)) = Len(mem[r])
  <2>1. \A j \in 1..Len(mem[r]) :
          (IF off < j /\ j <= off + Len(data) THEN data[j - off] ELSE mem[r][j])
            \in Bytes
    <3> SUFFICES ASSUME NEW j \in 1..Len(mem[r])
                 PROVE  (IF off < j /\ j <= off + Len(data) THEN data[j - off]
                         ELSE mem[r][j]) \in Bytes
      OBVIOUS
    <3>1. CASE off < j /\ j <= off + Len(data)
      <4>1. j - off \in 1..Len(data)
        BY <3>1, <1>1, <1>2
      <4>2. QED
        BY <3>1, <4>1, ElementOfSeq
    <3>2. CASE ~(off < j /\ j <= off + Len(data))
      BY <3>2, <1>2, ElementOfSeq
    <3>3. QED
      BY <3>1, <3>2
  <2>2. QED
    BY <2>1, <1>2 DEF RangeWrite
<1>5. QED
  BY <1>1, <1>4 DEF MemOK, MemWrite
(* A function on 1..n is a sequence of length n. *)
LEMMA FcnIsSeq ==
  ASSUME NEW S, NEW n \in Nat, NEW f \in [1..n -> S]
  PROVE  f \in Seq(S) /\ Len(f) = n
OBVIOUS

LEMMA TypeOKMem == TypeOK => MemOK(ram)
BY DEF TypeOK, MemOK

LEMMA InitIInv == Init => IInv
<1> SUFFICES ASSUME Init PROVE IInv
  OBVIOUS
<1>1. [j \in 1..FileSize |-> FileByte(j)] \in [1..FileSize -> Bytes]
  BY DEF Bytes
<1>2. file \in Seq(Bytes) /\ Len(file) = FileSize
  BY <1>1, DiskAssumption, FcnIsSeq DEF Init
<1>3. ASSUME NEW r \in 1..Len(Regions)
      PROVE  ram[r] \in Seq(Bytes) /\ Len(ram[r]) = Regions[r].size
  <2>1. [j \in 1..Regions[r].size |-> MemByte(r, j)] \in [1..Regions[r].size -> Bytes]
    BY DEF Bytes
  <2>2. ram[r] = [j \in 1..Regions[r].size |-> MemByte(r, j)]
    BY DEF Init
  <2>3. Regions[r].size \in Nat
    BY RegionsType
  <2>4. ram[r] \in [1..Regions[r].size -> Bytes]
    BY <2>1, <2>2
  <2>5. QED
    BY <2>3, <2>4, FcnIsSeq
<1>4. MemOK(ram)
  BY <1>3 DEF Init, MemOK
<1>5. last \in [port : DiskPorts \cup {0}, dir : {0, 1},
                value : Vals \cup {0, DefaultSectorSize}]
  BY DEF Init, NoRequest, Served
<1>6. /\ status \in {"handshake", "running", "exited"}
      /\ sector \in Vals /\ destAddr \in Vals /\ sectorCount \in Vals
      /\ sectorSize \in Vals \cup {DefaultSectorSize}
      /\ irqs \in 0..MaxReq /\ nreq \in 0..MaxReq /\ irqs <= nreq
  BY DiskAssumption DEF Init
<1>7. QED
  BY <1>2, <1>4, <1>5, <1>6 DEF IInv, TypeOK, MemOK, DiskSizeFixed

(* The registers and the sizes computed from them are naturals. *)
LEMMA RegsNat ==
  TypeOK => /\ sector \in Nat /\ destAddr \in Nat /\ sectorSize \in Nat
            /\ sectorCount \in Nat
BY DiskAssumption DEF TypeOK

LEMMA HandshakeIInv == IInv /\ Handshake => IInv'
BY DEF IInv, TypeOK, DiskSizeFixed, Handshake, regs

LEMMA BadRequestIInv == IInv /\ BadRequest => IInv'
BY DiskAssumption DEF IInv, TypeOK, DiskSizeFixed, BadRequest, regs

LEMMA IoPortReadIInv ==
  ASSUME NEW port \in DiskPorts PROVE IInv /\ IoPortRead(port) => IInv'
BY DiskAssumption DEF IInv, TypeOK, DiskSizeFixed, IoPortRead, Served, regs, DiskPorts

LEMMA SetRegisterIInv ==
  ASSUME NEW port \in DiskPorts, NEW v \in Vals
  PROVE  IInv /\ SetRegister(port, v) => IInv'
BY DiskAssumption DEF IInv, TypeOK, DiskSizeFixed, SetRegister, Served, DiskPorts

LEMMA DoReadIInv == IInv /\ DoRead => IInv'
<1> SUFFICES ASSUME IInv, DoRead PROVE IInv'
  OBVIOUS
<1> DEFINE data == FileRead(file, sectorSize * sector, sectorSize * sectorCount)
           outcome == MemWriteOutcome(ram, Regions, destAddr, data)
<1>1. data \in Seq(Bytes)
  <2>1. sectorSize * sector \in Nat /\ sectorSize * sectorCount \in Nat
    BY RegsNat DEF IInv
  <2>2. file \in Seq(Bytes)
    BY DEF IInv, TypeOK
  <2>3. QED
    BY <2>1, <2>2, SliceFacts DEF FileRead
<1>2. MemOK(ram')
  <2>1. CASE outcome = "ok"
    BY <2>1, <1>1, RegsNat, TypeOKMem, MemWriteFacts DEF IInv, DoRead
  <2>2. CASE outcome # "ok"
    BY <2>2, TypeOKMem DEF IInv, DoRead
  <2>3. QED
    BY <2>1, <2>2
<1>3. /\ sector' = sector /\ destAddr' = destAddr
      /\ sectorSize' = sectorSize /\ sectorCount' = sectorCount
      /\ file' = file /\ irqs' = irqs /\ nreq' = nreq + 1
  BY DEF DoRead, regs
<1>4. last' \in [port : DiskPorts \cup {0}, dir : {0, 1},
                 value : Vals \cup {0, DefaultSectorSize}]
  BY DEF DoRead, Served, DiskPorts, OOOWS_DO_READ, OOOWS_SECTOR, OOOWS_DO_WRITE
<1>5. status' \in {"handshake", "running", "exited"}
  BY DEF DoRead
<1>6. nreq' \in 0..MaxReq
  BY DiskAssumption DEF IInv, TypeOK, DoRead
<1>7. QED
  BY <1>2, <1>3, <1>4, <1>5, <1>6 DEF IInv, TypeOK, MemOK, DiskSizeFixed

LEMMA DoWriteIInv == IInv /\ DoWrite => IInv'
<1> SUFFICES ASSUME IInv, DoWrite PROVE IInv'
  OBVIOUS
<1> DEFINE off  == sectorSize * sector
           size == sectorSize * sectorCount
           miss == Route(Regions, destAddr) = 0
           data == MemRead(ram, Regions, destAddr, size)
<1>1. off \in Nat /\ size \in Nat /\ Len(file) = FileSize /\ file \in Seq(Bytes)
  BY RegsNat DEF IInv, TypeOK, DiskSizeFixed
<1>2. file' \in Seq(Bytes) /\ Len(file') = FileSize
  <2>1. CASE off + size < FileSize /\ ~miss
    <3>1. data \in Seq(Bytes) /\ Len(data) <= size
      BY <2>1, RegsNat, TypeOKMem, MemReadFacts DEF IInv
    <3>2. file' = FileWrite(file, off, data)
      BY <2>1 DEF DoWrite
    <3>3. Lg(Len(file), off + Len(data)) = FileSize
      BY <1>1, <2>1, <3>1, LenProperties DEF Lg
    <3>4. QED
      BY <1>1, <3>1, <3>2, <3>3, FileWriteFacts
  <2>2. CASE ~(off + size < FileSize /\ ~miss)
    BY <2>2, <1>1 DEF DoWrite
  <2>3. QED
    BY <2>1, <2>2
<1>3. irqs' <= irqs + 1 /\ irqs' \in Nat
  BY DEF IInv, TypeOK, DoWrite
<1>4. /\ sector' = sector /\ destAddr' = destAddr
      /\ sectorSize' = sectorSize /\ sectorCount' = sectorCount
      /\ ram' = ram /\ nreq' = nreq + 1
  BY DEF DoWrite, regs
<1>5. last' \in [port : DiskPorts \cup {0}, dir : {0, 1},
                 value : Vals \cup {0, DefaultSectorSize}]
  BY DEF DoWrite, Served, DiskPorts, OOOWS_SECTOR, OOOWS_DO_WRITE
<1>6. status' \in {"handshake", "running", "exited"}
  BY DEF IInv, TypeOK, DoWrite
<1>7. nreq' \in 0..MaxReq /\ irqs' <= nreq' /\ irqs' \in 0..MaxReq
  BY <1>3, <1>4, DiskAssumption DEF IInv, TypeOK, DoWrite
<1>8. QED
  BY <1>2, <1>4, <1>5, <1>6, <1>7 DEF IInv, TypeOK, DiskSizeFixed

LEMMA NextIInv == IInv /\ [Next]_vars => IInv'
<1> SUFFICES ASSUME IInv, [Next]_vars PROVE IInv'
  OBVIOUS
<1>1. CASE Handshake BY <1>1, HandshakeIInv
<1>2. CASE BadRequest BY <1>2, BadRequestIInv
<1>3. CASE \E port \in DiskPorts : IoPortRead(port) BY <1>3, IoPortReadIInv
<1>4. CASE \E port \in DiskPorts, v \in Vals : SetRegister(port, v)
  BY <1>4, SetRegisterIInv
<1>5. CASE DoRead BY <1>5, DoReadIInv
<1>6. CASE DoWrite BY <1>6, DoWriteIInv
<1>7. CASE UNCHANGED vars
  BY <1>7 DEF IInv, TypeOK, DiskSizeFixed, vars, regs
<1>8. QED
  BY <1>1, <1>2, <1>3, <1>4, <1>5, <1>6, <1>7 DEF Next

(* The disk device's state keeps its types: the registers hold values the *)
(* guest wrote, the file and each memory mapping are sequences of bytes,  *)
(* each mapping keeps its length, and the request and interrupt counters  *)
(* stay within the request bound.                                         *)
THEOREM DiskTypeCorrect == Spec => []TypeOK
<1>1. IInv => TypeOK
  BY DEF IInv
<1>2. QED
  BY <1>1, InitIInv, NextIInv, PTL DEF Spec

(* Whatever the guest programs into the registers, the backing file keeps *)
(* the size that main cached in self.filesize: the bounds check of        *)
(* DO_WRITE, with the clipped MemoryManager.read, never lets a write      *)
(* extend the file, so the cached size never goes stale.                  *)
THEOREM DiskSizeNeverStale == Spec => []DiskSizeFixed
<1>1. IInv => DiskSizeFixed
  BY DEF IInv
<1>2. QED
  BY <1>1, InitIInv, NextIInv, PTL DEF Spec
=============================================================================
