---------------------------- MODULE OoowsSerial ----------------------------
(***************************************************************************)
(* The multi-port serial device of devices-bin/ooowsserial.py.             *)
(*                                                                         *)
(* One dispatch thread per vCPU channel (HandleIO) serves port-I/O         *)
(* requests; register dispatch is serialised by the controller lock.       *)
(* Each COM port has an inbound and an outbound bounded Queue and two      *)
(* bridge threads: _RxHandler moves bytes from the rx socket peer to the   *)
(* inbound queue and, when that peer hangs up, puts the empty string on    *)
(* the outbound queue; _TxHandler sends outbound items to the tx socket    *)
(* peer and closes that peer when it takes the empty string.               *)
(*                                                                         *)
(* Data is abstracted: an outbound byte is identified by the write that    *)
(* produced it (cpu, request number, index, width); an inbound byte by its *)
(* position in the stream the rx peers sent on that port.                  *)
(***************************************************************************)
EXTENDS Naturals, Sequences

CONSTANTS
  CPUs,      \* the vCPU channels returned by DeviceHandshake
  Ports,     \* the COM lines, {1, 2} for COM1_RXTX and COM2_RXTX
  SizeCodes, \* access-size codes the VMM sends (1, 2 and 4)
  QCap,      \* capacity of each Queue (128 in ComPort.__init__)
  MaxReq,    \* bound on the requests one vCPU issues
  MaxSend,   \* bound on the bytes the rx peers of one port send
  MaxConns,  \* bound on the rx peer connections of one port
  NoCpu      \* a model value: the lock is free

ASSUME SerialAssumption ==
  /\ CPUs # {} /\ NoCpu \notin CPUs
  /\ Ports # {} /\ Ports \subseteq Nat \ {0}
  /\ SizeCodes # {} /\ SizeCodes \subseteq {1, 2, 4}
  /\ QCap \in Nat \ {0}
  /\ MaxReq \in Nat /\ MaxSend \in Nat /\ MaxConns \in Nat

VARIABLES
  lock,     \* owner of OoowsSerialController._lock, or NoCpu
  pc,       \* where each dispatch thread is in HandleIO
  req,      \* the request each dispatch thread is serving
  nreq,     \* requests read so far by each dispatch thread
  txi,      \* bytes of the current TxCom already put on the queue
  rxq,      \* ComPort._rxQueue, per port
  txq,      \* ComPort._txQueue, per port
  rxConn,   \* state of the rx socket of each port
  rxPipe,   \* bytes sent by the rx peer and not yet received
  nsent,    \* bytes sent so far by the rx peers of each port
  rxRead,   \* bytes returned to guests by RxCom, per port (history)
  txConn,   \* state of the tx socket and of the _TxHandler thread
  nconns,   \* rx peer connections accepted so far, per port
  txLog,    \* bytes put on the outbound queue by TxCom (history)
  txOut     \* what tx peers received: bytes, and Sentinel for each EOF

vars == <<lock, pc, req, nreq, txi, rxq, txq, rxConn, rxPipe, nsent,
          rxRead, txConn, nconns, txLog, txOut>>

guestVars == <<pc, req, nreq, txi>>
rxVars == <<rxConn, rxPipe, nsent, nconns>>
-----------------------------------------------------------------------------
(* IO_DIR_READ and IO_DIR_WRITE *)
Dirs == {0, 1}

(* The width TxCom serialises to: unpacks[floor(size / 2)] is "B", "<H"  *)
(* or "<I".                                                              *)
TxWidth(size) == <<1, 2, 4>>[(size \div 2) + 1]

(* An outbound byte: len(b) = 1, byte i of the n-byte write k of cpu c.  *)
Byte(c, k, i, n) == [len |-> 1, w |-> <<c, k>>, i |-> i, n |-> n]

(* The empty string _RxHandler puts on the outbound queue on hang-up.    *)
Sentinel == [len |-> 0, w |-> <<>>, i |-> 0, n |-> 0]

Request == [port : Ports, dir : Dirs, size : SizeCodes]

(* What the outbound queue holds: bytes of writes, below their width,    *)
(* and the sentinel.                                                      *)
Items ==
  {b \in [len : {1}, w : CPUs \X (1..MaxReq), i : 0..3, n : {1, 2, 4}] :
     b.i < b.n} \cup {Sentinel}

TypeOK ==
  /\ lock \in CPUs \cup {NoCpu}
  /\ pc \in [CPUs -> {"idle", "lock", "rx", "tx", "exited"}]
  /\ req \in [CPUs -> Request]
  /\ nreq \in [CPUs -> 0..MaxReq]
  /\ txi \in [CPUs -> 0..3]
  /\ rxq \in [Ports -> Seq(1..MaxSend)]
  /\ txq \in [Ports -> Seq(Items)]
  /\ rxConn \in [Ports -> {"listen", "open", "closed"}]
  /\ rxPipe \in [Ports -> Seq(1..MaxSend)]
  /\ nsent \in [Ports -> 0..MaxSend]
  /\ rxRead \in [Ports -> Seq(1..MaxSend)]
  /\ txConn \in [Ports -> {"listen", "open", "hungup", "dead"}]
  /\ nconns \in [Ports -> 0..MaxConns]
  /\ txLog \in [Ports -> Seq(Items)]
  /\ txOut \in [Ports -> Seq(Items)]
-----------------------------------------------------------------------------
Init ==
  /\ lock = NoCpu
  /\ pc = [c \in CPUs |-> "idle"]
  /\ req = [c \in CPUs |-> CHOOSE r \in Request : TRUE]
  /\ nreq = [c \in CPUs |-> 0]
  /\ txi = [c \in CPUs |-> 0]
  /\ rxq = [p \in Ports |-> <<>>]
  /\ txq = [p \in Ports |-> <<>>]
  /\ rxConn = [p \in Ports |-> "listen"]
  /\ rxPipe = [p \in Ports |-> <<>>]
  /\ nsent = [p \in Ports |-> 0]
  /\ rxRead = [p \in Ports |-> <<>>]
  /\ txConn = [p \in Ports |-> "listen"]
  /\ nconns = [p \in Ports |-> 0]
  /\ txLog = [p \in Ports |-> <<>>]
  /\ txOut = [p \in Ports |-> <<>>]
-----------------------------------------------------------------------------
(***************************************************************************)
(* Dispatch threads: HandleIO and OoowsSerialController.IoPortAccess.      *)
(***************************************************************************)

(* ReadIoRequest decodes a port-I/O frame; the thread goes for the lock.  *)
ReadRequest(c) ==
  /\ pc[c] = "idle"
  /\ nreq[c] < MaxReq
  /\ \E r \in Request :
       /\ req' = [req EXCEPT ![c] = r]
       /\ pc' = [pc EXCEPT ![c] = "lock"]
  /\ nreq' = [nreq EXCEPT ![c] = @ + 1]
  /\ UNCHANGED <<lock, txi, rxq, txq, rxVars, rxRead, txConn, txLog, txOut>>

(* A frame of another kind: MMIO raises NameError (MmioRequest is not     *)
(* defined), anything else makes HandleIO return 1; the thread ends.     *)
BadRequest(c) ==
  /\ pc[c] = "idle"
  /\ nreq[c] < MaxReq
  /\ pc' = [pc EXCEPT ![c] = "exited"]
  /\ nreq' = [nreq EXCEPT ![c] = @ + 1]
  /\ UNCHANGED <<lock, req, txi, rxq, txq, rxVars, rxRead, txConn, txLog,
                 txOut>>
(* Mutant: a wide read that still consumes the queued byte. *)
RxInvalidConsumes(c) ==
  /\ pc[c] = "lock"
  /\ lock = NoCpu
  /\ req[c].dir = 0
  /\ req[c].size > 1
  /\ pc' = [pc EXCEPT ![c] = "idle"]
  /\ rxq' = [rxq EXCEPT ![req[c].port] = IF @ = <<>> THEN @ ELSE Tail(@)]
  /\ UNCHANGED <<lock, req, nreq, txi, txq, rxVars, rxRead, txConn, txLog,
                 txOut>>


(* IoPortRead of a wider-than-byte access: acquire, RxCom returns 0,     *)
(* release, and WritePioResponse; nothing else changes.                  *)
RxInvalid(c) ==
  /\ pc[c] = "lock"
  /\ lock = NoCpu
  /\ req[c].dir = 0
  /\ req[c].size > 1
  /\ pc' = [pc EXCEPT ![c] = "idle"]
  /\ UNCHANGED <<lock, req, nreq, txi, rxq, txq, rxVars, rxRead, txConn,
                 txLog, txOut>>

(* IoPortRead of a byte: acquire the lock and block in _rxQueue.get().  *)
RxAcquire(c) ==
  /\ pc[c] = "lock"
  /\ lock = NoCpu
  /\ req[c].dir = 0
  /\ req[c].size <= 1
  /\ lock' = c
  /\ pc' = [pc EXCEPT ![c] = "rx"]
  /\ UNCHANGED <<req, nreq, txi, rxq, txq, rxVars, rxRead, txConn, txLog,
                 txOut>>

(* Mutant: RxCom that looks at the head of the queue without taking it. *)
RxComPeek(c) ==
  LET p == req[c].port IN
  /\ pc[c] = "rx"
  /\ rxq[p] # <<>>
  /\ rxRead' = [rxRead EXCEPT ![p] = Append(@, Head(rxq[p]))]
  /\ lock' = NoCpu
  /\ pc' = [pc EXCEPT ![c] = "idle"]
  /\ UNCHANGED <<req, nreq, txi, rxq, txq, rxVars, txConn, txLog, txOut>>

(* get() returns a byte; RxCom unpacks it, the lock is released and the *)
(* value written back as the response.                                   *)
RxCom(c) ==
  LET p == req[c].port IN
  /\ pc[c] = "rx"
  /\ rxq[p] # <<>>
  /\ rxRead' = [rxRead EXCEPT ![p] = Append(@, Head(rxq[p]))]
  /\ rxq' = [rxq EXCEPT ![p] = Tail(@)]
  /\ lock' = NoCpu
  /\ pc' = [pc EXCEPT ![c] = "idle"]
  /\ UNCHANGED <<req, nreq, txi, txq, rxVars, txConn, txLog, txOut>>
(* Mutant: IoPortWrite without _lock.acquire(). *)
TxAcquireNoLock(c) ==
  /\ pc[c] = "lock"
  /\ req[c].dir = 1
  /\ lock' = c
  /\ pc' = [pc EXCEPT ![c] = "tx"]
  /\ txi' = [txi EXCEPT ![c] = 0]
  /\ UNCHANGED <<req, nreq, rxq, txq, rxVars, rxRead, txConn, txLog, txOut>>


(* IoPortWrite: acquire the lock; TxCom then puts the bytes one by one. *)
TxAcquire(c) ==
  /\ pc[c] = "lock"
  /\ lock = NoCpu
  /\ req[c].dir = 1
  /\ lock' = c
  /\ pc' = [pc EXCEPT ![c] = "tx"]
  /\ txi' = [txi EXCEPT ![c] = 0]
  /\ UNCHANGED <<req, nreq, rxq, txq, rxVars, rxRead, txConn, txLog, txOut>>
(* Mutant: the loop of TxCom runs one byte too far. *)
TxComLate(c) ==
  LET p == req[c].port
      n == TxWidth(req[c].size)
      b == Byte(c, nreq[c], txi[c], n)
  IN
  /\ pc[c] = "tx"
  /\ Len(txq[p]) < QCap
  /\ txq' = [txq EXCEPT ![p] = Append(@, b)]
  /\ txLog' = [txLog EXCEPT ![p] = Append(@, b)]
  /\ IF txi[c] = n
       THEN /\ lock' = NoCpu
            /\ pc' = [pc EXCEPT ![c] = "idle"]
            /\ txi' = [txi EXCEPT ![c] = 0]
       ELSE /\ txi' = [txi EXCEPT ![c] = @ + 1]
            /\ UNCHANGED <<lock, pc>>
  /\ UNCHANGED <<req, nreq, rxq, rxVars, rxRead, txConn, txOut>>


(* One _txQueue.put(bytes([i])) of TxCom, blocking while the queue is    *)
(* full; after the last byte the lock is released and 0 is returned.     *)
TxCom(c) ==
  LET p == req[c].port
      n == TxWidth(req[c].size)
      b == Byte(c, nreq[c], txi[c], n)
  IN
  /\ pc[c] = "tx"
  /\ Len(txq[p]) < QCap
  /\ txq' = [txq EXCEPT ![p] = Append(@, b)]
  /\ txLog' = [txLog EXCEPT ![p] = Append(@, b)]
  /\ IF txi[c] + 1 = n
       THEN /\ lock' = NoCpu
            /\ pc' = [pc EXCEPT ![c] = "idle"]
            /\ txi' = [txi EXCEPT ![c] = 0]
       ELSE /\ txi' = [txi EXCEPT ![c] = @ + 1]
            /\ UNCHANGED <<lock, pc>>
  /\ UNCHANGED <<req, nreq, rxq, rxVars, rxRead, txConn, txOut>>
-----------------------------------------------------------------------------
(***************************************************************************)
(* ComPort._RxHandler and the rx socket peer.                              *)
(***************************************************************************)

(* s.accept() returns a peer connected to com-<n>-rx. *)
RxAccept(p) ==
  /\ rxConn[p] = "listen"
  /\ nconns[p] < MaxConns
  /\ rxConn' = [rxConn EXCEPT ![p] = "open"]
  /\ nconns' = [nconns EXCEPT ![p] = @ + 1]
  /\ UNCHANGED <<lock, guestVars, rxq, txq, rxPipe, nsent, rxRead, txConn,
                 txLog, txOut>>

(* The rx peer sends one byte. *)
RxPeerSend(p) ==
  /\ rxConn[p] = "open"
  /\ nsent[p] < MaxSend
  /\ nsent' = [nsent EXCEPT ![p] = @ + 1]
  /\ rxPipe' = [rxPipe EXCEPT ![p] = Append(@, nsent[p] + 1)]
  /\ UNCHANGED <<lock, guestVars, rxq, txq, rxConn, nconns, rxRead, txConn,
                 txLog, txOut>>

(* The rx peer closes its end. *)
RxPeerClose(p) ==
  /\ rxConn[p] = "open"
  /\ rxConn' = [rxConn EXCEPT ![p] = "closed"]
  /\ UNCHANGED <<lock, guestVars, rxq, txq, rxPipe, nsent, rxRead, txConn,
                 nconns, txLog, txOut>>

(* conn.recv(1) returns a byte and rq.put(b) stores it, blocking while  *)
(* the inbound queue is full.                                            *)
RxRecv(p) ==
  /\ rxConn[p] \in {"open", "closed"}
  /\ rxPipe[p] # <<>>
  /\ Len(rxq[p]) < QCap
  /\ rxq' = [rxq EXCEPT ![p] = Append(@, Head(rxPipe[p]))]
  /\ rxPipe' = [rxPipe EXCEPT ![p] = Tail(@)]
  /\ UNCHANGED <<lock, guestVars, txq, rxConn, nsent, rxRead, txConn, nconns,
                 txLog, txOut>>

(* conn.recv(1) returns b"": tq.put('') (blocking while the outbound    *)
(* queue is full), conn.close(), and back to s.accept().                 *)
RxEof(p) ==
  /\ rxConn[p] = "closed"
  /\ rxPipe[p] = <<>>
  /\ Len(txq[p]) < QCap
  /\ txq' = [txq EXCEPT ![p] = Append(@, Sentinel)]
  /\ rxConn' = [rxConn EXCEPT ![p] = "listen"]
  /\ UNCHANGED <<lock, guestVars, rxq, rxPipe, nsent, rxRead, txConn, nconns,
                 txLog, txOut>>
-----------------------------------------------------------------------------
(***************************************************************************)
(* ComPort._TxHandler and the tx socket peer.                              *)
(***************************************************************************)

(* s.accept() returns a peer connected to com-<n>-tx. *)
TxAccept(p) ==
  /\ txConn[p] = "listen"
  /\ txConn' = [txConn EXCEPT ![p] = "open"]
  /\ UNCHANGED <<lock, guestVars, rxq, txq, rxVars, rxRead, txLog, txOut>>

(* The tx peer closes its end (the thread notices on its next send). *)
TxPeerClose(p) ==
  /\ txConn[p] = "open"
  /\ txConn' = [txConn EXCEPT ![p] = "hungup"]
  /\ UNCHANGED <<lock, guestVars, rxq, txq, rxVars, rxRead, txLog, txOut>>

(* b = q.get(); a non-empty item is sent to the peer. If the peer has   *)
(* hung up, conn.send raises BrokenPipeError and the thread dies.        *)
TxSend(p) ==
  /\ txConn[p] \in {"open", "hungup"}
  /\ txq[p] # <<>>
  /\ Head(txq[p]).len > 0
  /\ txq' = [txq EXCEPT ![p] = Tail(@)]
  /\ IF txConn[p] = "open"
       THEN /\ txOut' = [txOut EXCEPT ![p] = Append(@, Head(txq[p]))]
            /\ UNCHANGED txConn
       ELSE /\ txConn' = [txConn EXCEPT ![p] = "dead"]
            /\ UNCHANGED txOut
  /\ UNCHANGED <<lock, guestVars, rxq, rxVars, rxRead, txLog>>
(* Mutant: conn.close() without the break, so the thread keeps the     *)
(* closed connection instead of accepting a new one.                     *)
TxCloseNoBreak(p) ==
  /\ txConn[p] \in {"open", "hungup"}
  /\ txq[p] # <<>>
  /\ Head(txq[p]).len = 0
  /\ txq' = [txq EXCEPT ![p] = Tail(@)]
  /\ txConn' = [txConn EXCEPT ![p] = "hungup"]
  /\ txOut' = IF txConn[p] = "open"
               THEN [txOut EXCEPT ![p] = Append(@, Sentinel)]
               ELSE txOut
  /\ UNCHANGED <<lock, guestVars, rxq, rxVars, rxRead, txLog>>


(* b = q.get() is the empty string: conn.close() and back to accept(); *)
(* a peer still connected reads end-of-file.                             *)
TxClose(p) ==
  /\ txConn[p] \in {"open", "hungup"}
  /\ txq[p] # <<>>
  /\ Head(txq[p]).len = 0
  /\ txq' = [txq EXCEPT ![p] = Tail(@)]
  /\ txConn' = [txConn EXCEPT ![p] = "listen"]
  /\ txOut' = IF txConn[p] = "open"
               THEN [txOut EXCEPT ![p] = Append(@, Sentinel)]
               ELSE txOut
  /\ UNCHANGED <<lock, guestVars, rxq, rxVars, rxRead, txLog>>
-----------------------------------------------------------------------------
Guest(c) ==
  \/ ReadRequest(c) \/ BadRequest(c)
  \/ RxInvalid(c) \/ RxAcquire(c) \/ RxCom(c)
  \/ TxAcquire(c) \/ TxCom(c)

RxBridge(p) == RxRecv(p) \/ RxEof(p)

TxBridge(p) == TxSend(p) \/ TxClose(p)

RxPeer(p) == RxAccept(p) \/ RxPeerSend(p) \/ RxPeerClose(p)

TxPeer(p) == TxAccept(p) \/ TxPeerClose(p)

Next ==
  \/ \E c \in CPUs : Guest(c)
  \/ \E p \in Ports : RxBridge(p) \/ TxBridge(p) \/ RxPeer(p) \/ TxPeer(p)

(* The dispatch and bridge threads are OS threads: each keeps running    *)
(* while it can. The peers are the environment and are not fair.         *)
Fairness ==
  /\ \A c \in CPUs : WF_vars(Guest(c) /\ pc[c] # "idle")
  /\ \A p \in Ports : WF_vars(RxBridge(p)) /\ WF_vars(TxBridge(p))

Spec == Init /\ [][Next]_vars /\ Fairness
-----------------------------------------------------------------------------
(***************************************************************************)
(* The environment of web/console.py: consoleTx connects to com-1-tx and   *)
(* reads until end-of-file, never closing its end first, and a console     *)
(* connects again whenever the port listens.                               *)
(***************************************************************************)
ConsoleNext ==
  \/ \E c \in CPUs : Guest(c)
  \/ \E p \in Ports : RxBridge(p) \/ TxBridge(p) \/ RxPeer(p) \/ TxAccept(p)

ConsoleSpec ==
  Init /\ [][ConsoleNext]_vars /\ Fairness /\ \A p \in Ports : WF_vars(TxAccept(p))
-----------------------------------------------------------------------------
(***************************************************************************)
(* Properties.                                                             *)
(***************************************************************************)

(* Inbound stream (RxCom, _RxHandler): the bytes the guests have read from *)
(* a port, then those still queued, then those still in the socket, are   *)
(* exactly the bytes the rx peers sent, in order: a 1-byte read consumes  *)
(* one byte and a wider read consumes none.                               *)
RxInOrder ==
  \A p \in Ports :
    rxRead[p] \o rxq[p] \o rxPipe[p] = [j \in 1..nsent[p] |-> j]

(* s lists the bytes of whole writes one after another: a byte that does  *)
(* not start a write follows the previous byte of the same write.         *)
Contiguous(s) ==
  \A j \in 1..Len(s) :
    IF s[j].i = 0
      THEN j = 1 \/ s[j - 1].i = s[j - 1].n - 1
      ELSE j > 1 /\ s[j - 1].w = s[j].w /\ s[j - 1].i = s[j].i - 1

(* Outbound stream (TxCom under the controller lock): the bytes of a      *)
(* 2- or 4-byte write by one vCPU are never interleaved with the bytes of *)
(* a write by another vCPU on the outbound queue of a port.               *)
TxWritesContiguous == \A p \in Ports : Contiguous(txLog[p])

(* A tx peer receives every guest write whole: no end-of-file (the empty  *)
(* string from _RxHandler) reaches it between two bytes of one write.     *)
TxWriteNotSplit ==
  \A p \in Ports : \A j, k \in 1..Len(txOut[p]) :
    (j < k /\ txOut[p][j].w = txOut[p][k].w /\ txOut[p][j].len = 1)
      => \A m \in j..k : txOut[p][m].len = 1

(* With a console attached, a vCPU that has started a write through       *)
(* TxCom eventually puts all its bytes and releases the lock, however     *)
(* full the outbound queue was.                                           *)
WriteCompletes == \A c \in CPUs : (pc[c] = "tx") ~> (pc[c] = "idle")

(* ComPort: after a tx peer disconnects, _TxHandler eventually goes back  *)
(* to accept() a new peer.                                                 *)
TxReaccepts == \A p \in Ports : (txConn[p] = "hungup") ~> (txConn[p] = "listen")
=============================================================================
