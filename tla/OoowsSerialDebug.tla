------------------------- MODULE OoowsSerialDebug -------------------------
(***************************************************************************)
(* The debug serial device of devices-bin/ooowsserial-debug.py.            *)
(*                                                                         *)
(* The same controller as ooowsserial.py without the ComPorts: both COM    *)
(* registers read the process's stdin and write its stdout, one os.read or *)
(* os.write call per byte, under the controller lock. The process starts   *)
(* with DeviceHandshake and OoowsSerialEntry, which start one HandleIO     *)
(* thread per vCPU channel.                                                *)
(*                                                                         *)
(* stdin and stdout are the environment: stdin delivers bytes and may      *)
(* reach end-of-file, and the reader of stdout may go away. An inbound     *)
(* byte is its position in stdin; an outbound byte is identified by the    *)
(* write that produced it, as in OoowsSerial.                              *)
(***************************************************************************)
EXTENDS Naturals, Sequences

CONSTANTS
  CPUs,      \* the vCPU channels the VMM may pass in the handshake
  Ports,     \* the COM registers, {1, 2} for COM1_RXTX and COM2_RXTX
  SizeCodes, \* access-size codes the VMM sends (1, 2 and 4)
  MaxReq,    \* bound on the requests one vCPU issues
  MaxIn,     \* bound on the bytes stdin delivers
  NoCpu      \* a model value: the lock is free

ASSUME DebugAssumption ==
  /\ CPUs # {} /\ NoCpu \notin CPUs
  /\ Ports # {} /\ SizeCodes # {} /\ SizeCodes \subseteq {1, 2, 4}
  /\ MaxReq \in Nat /\ MaxIn \in Nat

VARIABLES
  proc,     \* the process: "handshake", "running", or how main ended
  lock,     \* owner of OoowsSerialController._lock, or NoCpu
  pc,       \* where each channel's thread is; "none" if it has none
  req,      \* the request each thread is serving
  nreq,     \* requests read so far by each thread
  txi,      \* bytes of the current TxCom already written
  inSent,   \* bytes stdin has made available
  inEof,    \* stdin is at end-of-file after inSent bytes
  inRead,   \* bytes of stdin RxCom has consumed
  outOpen,  \* stdout still has a reader
  out       \* the bytes written to stdout

vars == <<proc, lock, pc, req, nreq, txi, inSent, inEof, inRead, outOpen, out>>

envVars == <<inSent, inEof, outOpen>>
-----------------------------------------------------------------------------
(* IO_DIR_READ and IO_DIR_WRITE *)
Dirs == {0, 1}

Request == [port : Ports, dir : Dirs, size : SizeCodes]

(* unpacks[floor(size / 2)]: the write is 1, 2 or 4 bytes wide. *)
TxWidth(size) == <<1, 2, 4>>[(size \div 2) + 1]

(* bytes([i]): byte i of the n-byte write k of cpu c. *)
Byte(c, k, i, n) == [len |-> 1, w |-> <<c, k>>, i |-> i, n |-> n]

Items ==
  {b \in [len : {1}, w : CPUs \X (1..MaxReq), i : 0..3, n : {1, 2, 4}] :
     b.i < b.n}

TypeOK ==
  /\ proc \in {"handshake", "running", "failed", "noname"}
  /\ lock \in CPUs \cup {NoCpu}
  /\ pc \in [CPUs -> {"none", "idle", "lock", "rx", "tx", "exited"}]
  /\ req \in [CPUs -> Request]
  /\ nreq \in [CPUs -> 0..MaxReq]
  /\ txi \in [CPUs -> 0..3]
  /\ inSent \in 0..MaxIn /\ inEof \in BOOLEAN
  /\ inRead \in 0..inSent
  /\ outOpen \in BOOLEAN
  /\ out \in Seq(Items)
-----------------------------------------------------------------------------
Init ==
  /\ proc = "handshake"
  /\ lock = NoCpu
  /\ pc = [c \in CPUs |-> "none"]
  /\ req = [c \in CPUs |-> CHOOSE r \in Request : TRUE]
  /\ nreq = [c \in CPUs |-> 0]
  /\ txi = [c \in CPUs |-> 0]
  /\ inSent = 0 /\ inEof = FALSE /\ inRead = 0
  /\ outOpen = TRUE /\ out = <<>>

(* main: DeviceHandshake returns False on a bad reply, and len(False)    *)
(* raises TypeError; with no non-zero fd main returns 1. Otherwise       *)
(* OoowsSerialEntry returns 0 without OOOWS_VM_NAME, or starts one       *)
(* HandleIO thread per channel fd.                                       *)
Handshake ==
  /\ proc = "handshake"
  /\ \/ /\ proc' = "failed"
        /\ UNCHANGED pc
     \/ \E fds \in SUBSET CPUs \ {{}} :
          \/ /\ proc' = "noname"
             /\ UNCHANGED pc
          \/ /\ proc' = "running"
             /\ pc' = [c \in CPUs |-> IF c \in fds THEN "idle" ELSE "none"]
  /\ UNCHANGED <<lock, req, nreq, txi, inSent, inEof, inRead, outOpen, out>>
-----------------------------------------------------------------------------
(* HandleIO: ReadIoRequest decodes a port-I/O frame. *)
ReadRequest(c) ==
  /\ pc[c] = "idle"
  /\ nreq[c] < MaxReq
  /\ \E r \in Request :
       /\ req' = [req EXCEPT ![c] = r]
       /\ pc' = [pc EXCEPT ![c] = "lock"]
  /\ nreq' = [nreq EXCEPT ![c] = @ + 1]
  /\ UNCHANGED <<proc, lock, txi, inSent, inEof, inRead, outOpen, out>>

(* An MMIO frame raises NameError, any other kind returns 1: the thread  *)
(* ends, holding nothing.                                                *)
BadRequest(c) ==
  /\ pc[c] = "idle"
  /\ nreq[c] < MaxReq
  /\ pc' = [pc EXCEPT ![c] = "exited"]
  /\ nreq' = [nreq EXCEPT ![c] = @ + 1]
  /\ UNCHANGED <<proc, lock, req, txi, inSent, inEof, inRead, outOpen, out>>

(* IoPortRead of a wider-than-byte access: acquire, RxCom returns 0,     *)
(* release, WritePioResponse.                                            *)
RxInvalid(c) ==
  /\ pc[c] = "lock"
  /\ lock = NoCpu
  /\ req[c].dir = 0 /\ req[c].size > 1
  /\ pc' = [pc EXCEPT ![c] = "idle"]
  /\ UNCHANGED <<proc, lock, req, nreq, txi, inSent, inEof, inRead, outOpen,
                 out>>

(* Mutant: the thread goes on without waiting for the lock. *)
AcquireUnguarded(c) ==
  /\ pc[c] = "lock"
  /\ req[c].dir = 1 \/ req[c].size <= 1
  /\ lock' = c
  /\ pc' = [pc EXCEPT ![c] = IF req[c].dir = 0 THEN "rx" ELSE "tx"]
  /\ UNCHANGED <<proc, req, nreq, txi, inSent, inEof, inRead, outOpen, out>>

(* IoPortRead of a byte, IoPortWrite: acquire the lock. *)
Acquire(c) ==
  /\ pc[c] = "lock"
  /\ lock = NoCpu
  /\ req[c].dir = 1 \/ req[c].size <= 1
  /\ lock' = c
  /\ pc' = [pc EXCEPT ![c] = IF req[c].dir = 0 THEN "rx" ELSE "tx"]
  /\ UNCHANGED <<proc, req, nreq, txi, inSent, inEof, inRead, outOpen, out>>

(* RxCom: os.read(stdin, 1) returns the next byte; unpack, release the   *)
(* lock, WritePioResponse.                                               *)
RxCom(c) ==
  /\ pc[c] = "rx"
  /\ inRead < inSent
  /\ inRead' = inRead + 1
  /\ lock' = NoCpu
  /\ pc' = [pc EXCEPT ![c] = "idle"]
  /\ UNCHANGED <<proc, req, nreq, txi, inSent, inEof, outOpen, out>>

(* RxCom at end-of-file: os.read returns b"", struct.unpack raises       *)
(* struct.error and the thread ends without releasing the lock.          *)
RxEof(c) ==
  /\ pc[c] = "rx"
  /\ inRead = inSent /\ inEof
  /\ pc' = [pc EXCEPT ![c] = "exited"]
  /\ UNCHANGED <<proc, lock, req, nreq, txi, inSent, inEof, inRead, outOpen,
                 out>>

(* Mutant: the loop writes one byte past the width. *)
TxComExtra(c) ==
  LET n == TxWidth(req[c].size) IN
  /\ pc[c] = "tx"
  /\ outOpen
  /\ out' = Append(out, Byte(c, nreq[c], txi[c], n))
  /\ IF txi[c] = n
       THEN /\ lock' = NoCpu
            /\ pc' = [pc EXCEPT ![c] = "idle"]
            /\ txi' = [txi EXCEPT ![c] = 0]
       ELSE /\ txi' = [txi EXCEPT ![c] = @ + 1]
            /\ UNCHANGED <<lock, pc>>
  /\ UNCHANGED <<proc, req, nreq, inSent, inEof, inRead, outOpen>>

(* TxCom: one os.write(stdout) per byte of the packed value; after the   *)
(* last, release the lock and WritePioResponse.                          *)
TxCom(c) ==
  LET n == TxWidth(req[c].size) IN
  /\ pc[c] = "tx"
  /\ outOpen
  /\ out' = Append(out, Byte(c, nreq[c], txi[c], n))
  /\ IF txi[c] + 1 = n
       THEN /\ lock' = NoCpu
            /\ pc' = [pc EXCEPT ![c] = "idle"]
            /\ txi' = [txi EXCEPT ![c] = 0]
       ELSE /\ txi' = [txi EXCEPT ![c] = @ + 1]
            /\ UNCHANGED <<lock, pc>>
  /\ UNCHANGED <<proc, req, nreq, inSent, inEof, inRead, outOpen>>

(* os.write to a stdout with no reader raises BrokenPipeError (Python    *)
(* ignores SIGPIPE); the thread ends without releasing the lock.         *)
TxBroken(c) ==
  /\ pc[c] = "tx"
  /\ ~outOpen
  /\ pc' = [pc EXCEPT ![c] = "exited"]
  /\ UNCHANGED <<proc, lock, req, nreq, txi, inSent, inEof, inRead, outOpen,
                 out>>
-----------------------------------------------------------------------------
(* The environment: stdin gets a byte or reaches end-of-file, the reader *)
(* of stdout goes away.                                                  *)
StdinByte ==
  /\ ~inEof /\ inSent < MaxIn
  /\ inSent' = inSent + 1
  /\ UNCHANGED <<proc, lock, pc, req, nreq, txi, inEof, inRead, outOpen, out>>

StdinEof ==
  /\ ~inEof
  /\ inEof' = TRUE
  /\ UNCHANGED <<proc, lock, pc, req, nreq, txi, inSent, inRead, outOpen, out>>

StdoutClose ==
  /\ outOpen
  /\ outOpen' = FALSE
  /\ UNCHANGED <<proc, lock, pc, req, nreq, txi, inSent, inEof, inRead, out>>

Thread(c) ==
  \/ ReadRequest(c) \/ BadRequest(c) \/ RxInvalid(c) \/ Acquire(c)
  \/ RxCom(c) \/ RxEof(c) \/ TxCom(c) \/ TxBroken(c)

Next ==
  \/ Handshake
  \/ \E c \in CPUs : Thread(c)
  \/ StdinByte \/ StdinEof \/ StdoutClose

Spec == Init /\ [][Next]_vars
-----------------------------------------------------------------------------
(***************************************************************************)
(* Spec 4.4 and 7: a fatal condition ends the loop of its own channel, not *)
(* its siblings. A thread of ooowsserial-debug.py that dies holds the lock *)
(* only if it dies inside RxCom or TxCom; the property says that the lock *)
(* is never held by a thread that has ended, so that sibling channels can *)
(* still take it.                                                          *)
(***************************************************************************)
LockOwnerAlive == lock # NoCpu => pc[lock] # "exited"
-----------------------------------------------------------------------------
(***************************************************************************)
(* Refinement to SerialDevice: both registers are bridged to the one       *)
(* stdio line. A request is served when its thread is back in the loop or *)
(* has ended on it. The bytes of a write still in progress, or of one cut *)
(* off because stdout lost its reader, are not yet part of the stream.     *)
(***************************************************************************)
InFlight(c) == pc[c] \in {"lock", "rx", "tx"}

Cut(c) == pc[c] = "tx" \/ (pc[c] = "exited" /\ txi[c] > 0)

Pending == IF \E c \in CPUs : Cut(c) THEN txi[CHOOSE c \in CPUs : Cut(c)] ELSE 0

Abs == INSTANCE SerialDevice
         WITH Lines <- {0}, LineOf <- [p \in Ports |-> 0],
              served <- [c \in CPUs |-> IF InFlight(c) THEN nreq[c] - 1 ELSE nreq[c]],
              alive <- [c \in CPUs |-> pc[c] # "exited"],
              rxRead <- [l \in {0} |-> [i \in 1..inRead |-> i]],
              txLog <- [l \in {0} |-> SubSeq(out, 1, Len(out) - Pending)]

(* Every behaviour of the debug device is one where each request is       *)
(* served in one step: a byte read returns the next byte of stdin, a wide *)
(* read consumes nothing, and the bytes of a write reach stdout together, *)
(* never interleaved with another vCPU's.                                 *)
ImplementsSerialDevice == Abs!Spec
=============================================================================
