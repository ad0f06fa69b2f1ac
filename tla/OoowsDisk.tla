----------------------------- MODULE OoowsDisk -----------------------------
(***************************************************************************)
(* The block-storage device of devices-bin/ooowsdisk.py: the handshake of  *)
(* main, the request loop of OoowsDiskEntry and the registers of           *)
(* OoowsDiskController. Guest memory is the MemoryManager over RAM_FD and  *)
(* SYS_FD; the backing file is a sequence of bytes. A byte is a value that *)
(* names where it came from, so that copies can be traced.                 *)
(***************************************************************************)
EXTENDS Naturals, Sequences, MemoryManager

CONSTANTS
  FileSize,          \* os.stat(backingFile).st_size
  Regions,           \* the MemRanges: <<RAM at 0x0, SYS at 0x100000>>
  Vals,              \* the values a guest writes to a register
  DefaultSectorSize, \* the initial sectorSize (512)
  MaxReq             \* bound on the requests the VMM sends

ASSUME DiskAssumption ==
  /\ FileSize \in Nat
  /\ Regions \in Seq([start : Nat, size : Nat])
  /\ Vals \subseteq Nat /\ 0 \in Vals   \* the registers start at 0
  /\ DefaultSectorSize \in Nat
  /\ MaxReq \in Nat

VARIABLES
  status,       \* "handshake", "running" or "exited"
  sector,       \* OoowsDiskController.sector
  destAddr,     \* .destAddr
  sectorSize,   \* .sectorSize
  sectorCount,  \* .sectorCount
  file,         \* contents of the backing file
  ram,          \* ram[r]: contents of the mapping of MemRange r
  irqs,         \* interrupts written to PIC_FD
  nreq,         \* requests read from VMM_FD
  last          \* the last request served, and the response written

vars == <<status, sector, destAddr, sectorSize, sectorCount, file, ram,
          irqs, nreq, last>>

regs == <<sector, destAddr, sectorSize, sectorCount>>
-----------------------------------------------------------------------------
OOOWS_SECTOR     == 144   \* 0x90
OOOWS_DESTADDR   == 145
OOOWS_SECTORSIZE == 146
OOOWS_SECTORCNT  == 147
OOOWS_DO_READ    == 148
OOOWS_DO_WRITE   == 149   \* 0x95

DiskPorts == OOOWS_SECTOR..OOOWS_DO_WRITE

(* Bytes: the original byte j of the file, the original byte j of region *)
(* r, and the zero Python writes when a file grows past a hole.          *)
FileByte(j) == <<"file", j>>
MemByte(r, j) == <<"mem", r, j>>
Zero == <<"zero">>

Bytes == {FileByte(j) : j \in 1..FileSize}
           \cup (UNION {{MemByte(r, j) : j \in 1..Regions[r].size} :
                        r \in 1..Len(Regions)})
           \cup {Zero}

Lg(a, b) == IF a >= b THEN a ELSE b
(* Mutant: the read without the seek, from the start of the file. *)
FileReadNoSeek(f, off, n) == SubSeq(f, 1, Lesser(n, Len(f)))


(* handle.seek(off); handle.read(n): clipped at the end of the file. *)
FileRead(f, off, n) == SubSeq(f, off + 1, Lesser(off + n, Len(f)))

(* Mutant: the write without the seek, at the start of the file. *)
FileWriteNoSeek(f, off, data) ==
  [j \in 1..Lg(Len(f), Len(data)) |->
     IF j <= Len(data) THEN data[j] ELSE f[j]]

(* handle.seek(off); handle.write(data): overwrites, extends the file   *)
(* past its end, and fills a hole before off with zeros.               *)
FileWrite(f, off, data) ==
  [j \in 1..Lg(Len(f), off + Len(data)) |->
     IF off < j /\ j <= off + Len(data) THEN data[j - off]
     ELSE IF j <= Len(f) THEN f[j] ELSE Zero]

(* The request record the loop served last: port, direction, value. *)
Served(port, dir, value) == [port |-> port, dir |-> dir, value |-> value]

NoRequest == Served(0, 0, 0)

TypeOK ==
  /\ status \in {"handshake", "running", "exited"}
  /\ sector \in Vals /\ destAddr \in Vals /\ sectorCount \in Vals
  /\ sectorSize \in Vals \cup {DefaultSectorSize}
  /\ file \in Seq(Bytes)
  /\ ram \in [1..Len(Regions) -> Seq(Bytes)]
  /\ \A r \in 1..Len(Regions) : Len(ram[r]) = Regions[r].size
  /\ irqs \in 0..MaxReq
  /\ nreq \in 0..MaxReq
  /\ last \in [port : DiskPorts \cup {0}, dir : {0, 1},
               value : Vals \cup {0, DefaultSectorSize}]
-----------------------------------------------------------------------------
(* OoowsDiskController.__init__: zeroed registers, 512-byte sectors. *)
Init ==
  /\ status = "handshake"
  /\ sector = 0 /\ destAddr = 0 /\ sectorCount = 0
  /\ sectorSize = DefaultSectorSize
  /\ file = [j \in 1..FileSize |-> FileByte(j)]
  /\ ram = [r \in 1..Len(Regions) |-> [j \in 1..Regions[r].size |-> MemByte(r, j)]]
  /\ irqs = 0
  /\ nreq = 0
  /\ last = NoRequest

(* DeviceHandshake: write INIT, read the reply; main returns 1 unless it *)
(* is TINI, otherwise the 16-byte fd list is read and discarded.         *)
Handshake ==
  /\ status = "handshake"
  /\ \E ok \in BOOLEAN : status' = IF ok THEN "running" ELSE "exited"
  /\ UNCHANGED <<regs, file, ram, irqs, nreq, last>>

(* ReadIoRequest returns None (unknown tag) or raises NameError (MMIO:   *)
(* MmioRequest is undefined): the loop, and the process, end.            *)
BadRequest ==
  /\ status = "running"
  /\ nreq < MaxReq
  /\ status' = "exited"
  /\ nreq' = nreq + 1
  /\ UNCHANGED <<regs, file, ram, irqs, last>>

(* IoPortRead, then WritePioResponse of the register's value. *)
IoPortRead(port) ==
  /\ status = "running"
  /\ nreq < MaxReq
  /\ nreq' = nreq + 1
  /\ last' = Served(port, 0,
               CASE port = OOOWS_SECTOR     -> sector
                 [] port = OOOWS_DESTADDR   -> destAddr
                 [] port = OOOWS_SECTORSIZE -> sectorSize
                 [] port = OOOWS_SECTORCNT  -> sectorCount
                 [] OTHER                   -> 0)
  /\ UNCHANGED <<status, regs, file, ram, irqs>>

(* IoPortWrite of one of the four plain registers. *)
SetRegister(port, v) ==
  /\ status = "running"
  /\ nreq < MaxReq
  /\ port \in OOOWS_SECTOR..OOOWS_SECTORCNT
  /\ nreq' = nreq + 1
  /\ sector'      = IF port = OOOWS_SECTOR     THEN v ELSE sector
  /\ destAddr'    = IF port = OOOWS_DESTADDR   THEN v ELSE destAddr
  /\ sectorSize'  = IF port = OOOWS_SECTORSIZE THEN v ELSE sectorSize
  /\ sectorCount' = IF port = OOOWS_SECTORCNT  THEN v ELSE sectorCount
  /\ last' = Served(port, 1, 0)
  /\ UNCHANGED <<status, file, ram, irqs>>

(* DO_READ: read sectorSize * sectorCount bytes at sectorSize * sector  *)
(* and ram.write them at destAddr. A miss (-1) is ignored; an IndexError *)
(* from the slice assignment ends the process.                           *)
DoRead ==
  LET data    == FileRead(file, sectorSize * sector, sectorSize * sectorCount)
      outcome == MemWriteOutcome(ram, Regions, destAddr, data)
  IN
  /\ status = "running"
  /\ nreq < MaxReq
  /\ nreq' = nreq + 1
  /\ status' = IF outcome = "raise" THEN "exited" ELSE status
  /\ ram' = IF outcome = "ok" THEN MemWrite(ram, Regions, destAddr, data)
            ELSE ram
  /\ last' = Served(OOOWS_DO_READ, 1, 0)
  /\ UNCHANGED <<regs, file, irqs>>
(* Mutant: DO_WRITE without the bounds check. *)
DoWriteUnchecked ==
  LET off  == sectorSize * sector
      size == sectorSize * sectorCount
      miss == Route(Regions, destAddr) = 0
  IN
  /\ status = "running"
  /\ nreq < MaxReq
  /\ nreq' = nreq + 1
  /\ status' = IF miss THEN "exited" ELSE status
  /\ file' = IF miss THEN file
             ELSE FileWrite(file, off, MemRead(ram, Regions, destAddr, size))
  /\ irqs' = IF miss THEN irqs ELSE irqs + 1
  /\ last' = Served(OOOWS_DO_WRITE, 1, 0)
  /\ UNCHANGED <<regs, ram>>

(* Mutant: AssertIrq inside the bounds check as well as after it. *)
DoWriteIrqTwice ==
  LET off  == sectorSize * sector
      size == sectorSize * sectorCount
      miss == Route(Regions, destAddr) = 0
  IN
  /\ status = "running"
  /\ nreq < MaxReq
  /\ nreq' = nreq + 1
  /\ IF off + size < FileSize
       THEN /\ status' = IF miss THEN "exited" ELSE status
            /\ file' = IF miss THEN file
                       ELSE FileWrite(file, off, MemRead(ram, Regions, destAddr, size))
            /\ irqs' = IF miss THEN irqs ELSE irqs + 2
       ELSE /\ irqs' = irqs + 1
            /\ UNCHANGED <<status, file>>
  /\ last' = Served(OOOWS_DO_WRITE, 1, 0)
  /\ UNCHANGED <<regs, ram>>


(* DO_WRITE: when off + size < self.filesize, ram.read size bytes at    *)
(* destAddr and write them at off (a miss hands -1 to handle.write,     *)
(* which raises TypeError); then AssertIrq, whatever the bounds check.   *)
DoWrite ==
  LET off  == sectorSize * sector
      size == sectorSize * sectorCount
      miss == Route(Regions, destAddr) = 0
  IN
  /\ status = "running"
  /\ nreq < MaxReq
  /\ nreq' = nreq + 1
  /\ IF off + size < FileSize
       THEN /\ status' = IF miss THEN "exited" ELSE status
            /\ file' = IF miss THEN file
                       ELSE FileWrite(file, off, MemRead(ram, Regions, destAddr, size))
            /\ irqs' = IF miss THEN irqs ELSE irqs + 1
       ELSE /\ irqs' = irqs + 1
            /\ UNCHANGED <<status, file>>
  /\ last' = Served(OOOWS_DO_WRITE, 1, 0)
  /\ UNCHANGED <<regs, ram>>
-----------------------------------------------------------------------------
Next ==
  \/ Handshake
  \/ BadRequest
  \/ \E port \in DiskPorts : IoPortRead(port)
  \/ \E port \in DiskPorts, v \in Vals : SetRegister(port, v)
  \/ DoRead
  \/ DoWrite

Spec == Init /\ [][Next]_vars
-----------------------------------------------------------------------------
(***************************************************************************)
(* Properties.                                                             *)
(***************************************************************************)

(* The byte at guest-physical address a in the flat address space. *)
Flat(a) == LET r == Route(Regions, a) IN ram[r][a - Regions[r].start + 1]

(* A step of the loop that served a write to DO_WRITE. *)
DoWriteStep == nreq' = nreq + 1 /\ last'.port = OOOWS_DO_WRITE /\ last'.dir = 1

(* The backing file keeps the size cached in self.filesize: no DO_WRITE   *)
(* extends it, so the bounds check never reads a stale size.              *)
DiskSizeFixed == Len(file) = FileSize

(* Guest memory changes only by DO_READ, only inside the MemRange that    *)
(* holds destAddr, only at [destAddr, destAddr + sectorSize*sectorCount), *)
(* and each changed byte is the file byte at the same distance from       *)
(* sector * sectorSize.                                                   *)
DoReadCopiesFile ==
  [][\A r \in 1..Len(Regions) : \A j \in 1..Regions[r].size :
       ram'[r][j] # ram[r][j] =>
         LET a == Regions[r].start + j - 1 IN
         /\ r = Route(Regions, destAddr)
         /\ destAddr <= a /\ a < destAddr + sectorSize * sectorCount
         /\ ram'[r][j] = file[sectorSize * sector + (a - destAddr) + 1]]_vars

(* The backing file changes only by DO_WRITE, only at                    *)
(* [sector * sectorSize, sector * sectorSize + size), from a destAddr     *)
(* some MemRange holds (a miss raises before handle.write), and each      *)
(* changed byte is the guest byte at the same distance from destAddr, in  *)
(* the MemRange that holds destAddr (ram.read clips at its end).          *)
DoWriteStoresRam ==
  [][\A j \in 1..Len(file) :
       file'[j] # file[j] =>
         LET k == j - 1 - sectorSize * sector
             r == Route(Regions, destAddr)
         IN /\ r # 0
            /\ 0 <= k /\ k < sectorSize * sectorCount
            /\ InRegion(Regions[r], destAddr + k)
            /\ file'[j] = ram[r][destAddr - Regions[r].start + k + 1]]_vars

(* The comment in IoPortWrite: only a write outside the disk is invalid. *)
(* A DO_WRITE of sectors that lie inside the file, from mapped memory,   *)
(* stores the guest bytes.                                               *)
InBoundsWriteStored ==
  [][(DoWriteStep
      /\ Route(Regions, destAddr) # 0
      /\ sectorSize * sector + sectorSize * sectorCount <= FileSize)
     => file' = FileWrite(file, sectorSize * sector,
                          MemRead(ram, Regions, destAddr, sectorSize * sectorCount))]_vars

(* Spec 4.2 over the flat guest address space: a DO_WRITE that passes    *)
(* the bounds check, from addresses that are all mapped, stores the      *)
(* guest bytes [destAddr, destAddr + size) at sector * sectorSize.       *)
DoWriteCopiesGuest ==
  [][(DoWriteStep
      /\ sectorSize * sector + sectorSize * sectorCount < FileSize
      /\ \A k \in 0..(sectorSize * sectorCount - 1) :
           Route(Regions, destAddr + k) # 0)
     => \A k \in 0..(sectorSize * sectorCount - 1) :
          file'[sectorSize * sector + k + 1] = Flat(destAddr + k)]_vars
=============================================================================
