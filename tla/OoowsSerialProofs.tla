------------------------- MODULE OoowsSerialProofs -------------------------
(***************************************************************************)
(* Proofs about OoowsSerial, for every value of the constants that        *)
(* satisfies SerialAssumption.                                             *)
(***************************************************************************)
EXTENDS OoowsSerial, SequenceTheorems, TLAPS

(* The width TxCom serialises to is 1, 2 or 4 bytes. *)
LEMMA TxWidthRange ==
  ASSUME NEW size \in {1, 2, 4}
  PROVE  TxWidth(size) \in {1, 2, 4}
  <1>1. CASE size = 1
    BY <1>1 DEF TxWidth
  <1>2. CASE size = 2
    BY <1>2 DEF TxWidth
  <1>3. CASE size = 4
    BY <1>3 DEF TxWidth
  <1>4. QED
    BY <1>1, <1>2, <1>3

(* A byte of a write of width n, at an index below n, is an Items value. *)
LEMMA ByteInItems ==
  ASSUME NEW c \in CPUs, NEW k \in 1..MaxReq, NEW n \in {1, 2, 4},
         NEW i \in 0..(n - 1)
  PROVE  Byte(c, k, i, n) \in Items
  BY DEF Items, Byte

(* The bounds are naturals (SerialAssumption). *)
LEMMA BoundsNat == MaxReq \in Nat /\ MaxSend \in Nat /\ MaxConns \in Nat
  BY SerialAssumption

(* A request names a COM port and an access width TxWidth accepts. *)
LEMMA RequestFields ==
  ASSUME NEW r \in Request
  PROVE  r.port \in Ports /\ r.size \in {1, 2, 4}
  BY SerialAssumption DEF Request

(***************************************************************************)
(* TypeOK is not inductive by itself: a vCPU past ReadIoRequest has read  *)
(* a request (nreq >= 1), and one inside TxCom is below the width of its   *)
(* write, so that the byte it puts next is an Items value.                 *)
(***************************************************************************)
WriterState ==
  \A c \in CPUs :
    /\ pc[c] \in {"lock", "rx", "tx"} => nreq[c] \in 1..MaxReq
    /\ pc[c] = "tx" => txi[c] < TxWidth(req[c].size)

TypeInv == TypeOK /\ WriterState

(* The initial state of the device threads satisfies TypeInv. *)
LEMMA TypeInit == Init => TypeInv
  <1> SUFFICES ASSUME Init PROVE TypeInv
    OBVIOUS
  <1>1. PICK pt \in Ports, sz \in SizeCodes : TRUE
    BY SerialAssumption, Zenon
  <1>2. [port |-> pt, dir |-> 0, size |-> sz] \in Request
    BY DEF Request, Dirs
  <1>3. (CHOOSE r \in Request : TRUE) \in Request
    BY <1>2
  <1>4. QED
    BY <1>3, BoundsNat DEF Init, TypeInv, TypeOK, WriterState

(* The types of the dispatch threads' state, without the queues, whose   *)
(* sequence types make SMT slow.                                          *)
GuestTypes ==
  /\ pc \in [CPUs -> {"idle", "lock", "rx", "tx", "exited"}]
  /\ req \in [CPUs -> Request]
  /\ nreq \in [CPUs -> 0..MaxReq]
  /\ txi \in [CPUs -> 0..3]

(* Every step of a dispatch, bridge or peer thread preserves TypeInv. *)
LEMMA TypeStep == TypeInv /\ [Next]_vars => TypeInv'
  <1> SUFFICES ASSUME TypeOK, WriterState, [Next]_vars
               PROVE  TypeOK' /\ WriterState'
    BY DEF TypeInv
  <1>0. GuestTypes
    BY Zenon DEF TypeOK, GuestTypes
  <1> USE BoundsNat
  <1>1. ASSUME NEW c \in CPUs, ReadRequest(c) PROVE TypeOK' /\ WriterState'
    <2>1. PICK r \in Request : /\ req' = [req EXCEPT ![c] = r]
                               /\ pc' = [pc EXCEPT ![c] = "lock"]
      BY <1>1 DEF ReadRequest
    <2>2. nreq[c] + 1 \in 1..MaxReq /\ nreq[c] + 1 \in 0..MaxReq
      BY <1>0, <1>1 DEF ReadRequest, GuestTypes
    <2>3. TypeOK'
      BY <1>1, <2>1, <2>2, Zenon DEF ReadRequest, rxVars, TypeOK
    <2>4. WriterState'
      BY <1>0, <1>1, <2>1, <2>2 DEF ReadRequest, GuestTypes, WriterState
    <2>5. QED
      BY <2>3, <2>4
  <1>2. ASSUME NEW c \in CPUs, BadRequest(c) PROVE TypeOK' /\ WriterState'
    <2>1. nreq[c] + 1 \in 0..MaxReq
      BY <1>0, <1>2 DEF BadRequest, GuestTypes
    <2>2. TypeOK'
      BY <1>2, <2>1, Zenon DEF BadRequest, rxVars, TypeOK
    <2>3. WriterState'
      BY <1>0, <1>2 DEF BadRequest, GuestTypes, WriterState
    <2>4. QED
      BY <2>2, <2>3
  <1>3. ASSUME NEW c \in CPUs, RxInvalid(c) PROVE TypeOK' /\ WriterState'
    <2>1. TypeOK'
      BY <1>3, Zenon DEF RxInvalid, rxVars, TypeOK
    <2>2. WriterState'
      BY <1>0, <1>3 DEF RxInvalid, GuestTypes, WriterState
    <2>3. QED
      BY <2>1, <2>2
  <1>4. ASSUME NEW c \in CPUs, RxAcquire(c) PROVE TypeOK' /\ WriterState'
    <2>1. TypeOK'
      BY <1>4, Zenon DEF RxAcquire, rxVars, TypeOK
    <2>2. WriterState'
      BY <1>0, <1>4 DEF RxAcquire, GuestTypes, WriterState
    <2>3. QED
      BY <2>1, <2>2
  <1>5. ASSUME NEW c \in CPUs, RxCom(c) PROVE TypeOK' /\ WriterState'
    <2> DEFINE p == req[c].port
    <2>1. p \in Ports /\ rxq[p] # <<>>
      BY <1>0, <1>5, RequestFields DEF RxCom, GuestTypes
    <2>2. rxq[p] \in Seq(1..MaxSend) /\ rxRead[p] \in Seq(1..MaxSend)
      BY <2>1, Zenon DEF TypeOK
    <2>3. Head(rxq[p]) \in 1..MaxSend /\ Tail(rxq[p]) \in Seq(1..MaxSend)
      BY <2>1, <2>2, HeadTailProperties
    <2>4. Append(rxRead[p], Head(rxq[p])) \in Seq(1..MaxSend)
      BY <2>2, <2>3, AppendProperties
    <2>5. TypeOK'
      BY <1>5, <2>1, <2>3, <2>4, Zenon DEF RxCom, rxVars, TypeOK
    <2>6. WriterState'
      BY <1>0, <1>5 DEF RxCom, GuestTypes, WriterState
    <2>7. QED
      BY <2>5, <2>6
  <1>6. ASSUME NEW c \in CPUs, TxAcquire(c) PROVE TypeOK' /\ WriterState'
    <2>1. TxWidth(req[c].size) \in {1, 2, 4} /\ 0 \in 0..3
      BY <1>0, TxWidthRange, RequestFields DEF GuestTypes
    <2>2. TypeOK'
      BY <1>6, <2>1, Zenon DEF TxAcquire, rxVars, TypeOK
    <2>3. WriterState'
      BY <1>0, <1>6, <2>1 DEF TxAcquire, GuestTypes, WriterState
    <2>4. QED
      BY <2>2, <2>3
  <1>7. ASSUME NEW c \in CPUs, TxCom(c) PROVE TypeOK' /\ WriterState'
    <2> DEFINE p == req[c].port
               n == TxWidth(req[c].size)
               b == Byte(c, nreq[c], txi[c], n)
    <2>1. n \in {1, 2, 4} /\ p \in Ports
      BY <1>0, TxWidthRange, RequestFields DEF GuestTypes
    <2>2. nreq[c] \in 1..MaxReq /\ txi[c] \in 0..(n - 1)
      <3>1. pc[c] = "tx"
        BY <1>7 DEF TxCom
      <3>2. nreq[c] \in 1..MaxReq /\ txi[c] < n
        BY <3>1 DEF WriterState
      <3>3. QED
        BY <1>0, <2>1, <3>2 DEF GuestTypes
    <2>3. b \in Items
      BY <2>1, <2>2, ByteInItems
    <2>4. txq[p] \in Seq(Items) /\ txLog[p] \in Seq(Items)
      BY <2>1, Zenon DEF TypeOK
    <2>5. Append(txq[p], b) \in Seq(Items) /\ Append(txLog[p], b) \in Seq(Items)
      BY <2>3, <2>4, AppendProperties
    <2>6. /\ txq' = [txq EXCEPT ![p] = Append(@, b)]
          /\ txLog' = [txLog EXCEPT ![p] = Append(@, b)]
          /\ UNCHANGED <<req, nreq, rxq, rxVars, rxRead, txConn, txOut>>
      BY <1>7 DEF TxCom
    <2>7. CASE txi[c] + 1 = n
      <3>1. /\ lock' = NoCpu
            /\ pc' = [pc EXCEPT ![c] = "idle"]
            /\ txi' = [txi EXCEPT ![c] = 0]
        BY <1>7, <2>7 DEF TxCom
      <3>2. 0 \in 0..3
        OBVIOUS
      <3>3. TypeOK'
        BY <2>1, <2>5, <2>6, <3>1, <3>2, Zenon DEF rxVars, TypeOK
      <3>4. WriterState'
        BY <1>0, <2>6, <3>1 DEF rxVars, GuestTypes, WriterState
      <3>5. QED
        BY <3>3, <3>4
    <2>8. CASE txi[c] + 1 # n
      <3>1. /\ txi' = [txi EXCEPT ![c] = txi[c] + 1]
            /\ UNCHANGED <<lock, pc>>
        BY <1>7, <2>8 DEF TxCom
      <3>2. txi[c] + 1 \in 0..3 /\ txi[c] + 1 < n
        BY <2>1, <2>2, <2>8
      <3>3. TypeOK'
        BY <2>1, <2>5, <2>6, <3>1, <3>2, Zenon DEF rxVars, TypeOK
      <3>4. WriterState'
        BY <1>0, <2>6, <3>1, <3>2 DEF rxVars, GuestTypes, WriterState
      <3>5. QED
        BY <3>3, <3>4
    <2>9. QED
      BY <2>7, <2>8
  <1>8. ASSUME NEW p \in Ports, RxBridge(p) PROVE TypeOK' /\ WriterState'
    <2>1. CASE RxRecv(p)
      <3>1. rxPipe[p] \in Seq(1..MaxSend) /\ rxq[p] \in Seq(1..MaxSend)
        BY Zenon DEF TypeOK
      <3>2. Head(rxPipe[p]) \in 1..MaxSend /\ Tail(rxPipe[p]) \in Seq(1..MaxSend)
        BY <2>1, <3>1, HeadTailProperties DEF RxRecv
      <3>3. Append(rxq[p], Head(rxPipe[p])) \in Seq(1..MaxSend)
        BY <3>1, <3>2, AppendProperties
      <3>4. QED
        BY <2>1, <3>2, <3>3, Zenon DEF RxRecv, guestVars, TypeOK, WriterState
    <2>2. CASE RxEof(p)
      <3>1. Sentinel \in Items /\ txq[p] \in Seq(Items)
        BY Zenon DEF Items, TypeOK
      <3>2. Append(txq[p], Sentinel) \in Seq(Items)
        BY <3>1, AppendProperties
      <3>3. QED
        BY <2>2, <3>2, Zenon DEF RxEof, guestVars, TypeOK, WriterState
    <2>3. QED
      BY <1>8, <2>1, <2>2 DEF RxBridge
  <1>9. ASSUME NEW p \in Ports, TxBridge(p) PROVE TypeOK' /\ WriterState'
    <2>1. txq[p] \in Seq(Items) /\ txOut[p] \in Seq(Items) /\ Sentinel \in Items
      BY Zenon DEF TypeOK, Items
    <2>2. txq[p] # <<>> => Head(txq[p]) \in Items /\ Tail(txq[p]) \in Seq(Items)
      BY <2>1, HeadTailProperties
    <2>3. Append(txOut[p], Sentinel) \in Seq(Items)
      BY <2>1, AppendProperties
    <2>4. txq[p] # <<>> => Append(txOut[p], Head(txq[p])) \in Seq(Items)
      BY <2>1, <2>2, AppendProperties
    <2>5. CASE TxSend(p)
      BY <2>2, <2>4, <2>5, Zenon DEF TxSend, guestVars, rxVars, TypeOK, WriterState
    <2>6. CASE TxClose(p)
      BY <2>2, <2>3, <2>6, Zenon DEF TxClose, guestVars, rxVars, TypeOK, WriterState
    <2>7. QED
      BY <1>9, <2>5, <2>6 DEF TxBridge
  <1>10. ASSUME NEW p \in Ports, RxPeer(p) PROVE TypeOK' /\ WriterState'
    <2>1. CASE RxAccept(p)
      <3>1. nconns[p] + 1 \in 0..MaxConns
        <4>1. nconns[p] \in 0..MaxConns
          BY Zenon DEF TypeOK
        <4>2. QED
          BY <2>1, <4>1 DEF RxAccept
      <3>2. QED
        BY <2>1, <3>1, Zenon DEF RxAccept, guestVars, TypeOK, WriterState
    <2>2. CASE RxPeerSend(p)
      <3>1. nsent[p] \in 0..MaxSend /\ rxPipe[p] \in Seq(1..MaxSend)
        BY Zenon DEF TypeOK
      <3>2. nsent[p] + 1 \in 1..MaxSend /\ nsent[p] + 1 \in 0..MaxSend
        BY <2>2, <3>1 DEF RxPeerSend
      <3>3. Append(rxPipe[p], nsent[p] + 1) \in Seq(1..MaxSend)
        BY <3>1, <3>2, AppendProperties
      <3>4. QED
        BY <2>2, <3>2, <3>3, Zenon DEF RxPeerSend, guestVars, TypeOK, WriterState
    <2>3. CASE RxPeerClose(p)
      BY <2>3, Zenon DEF RxPeerClose, guestVars, TypeOK, WriterState
    <2>4. QED
      BY <1>10, <2>1, <2>2, <2>3 DEF RxPeer
  <1>11. ASSUME NEW p \in Ports, TxPeer(p) PROVE TypeOK' /\ WriterState'
    BY <1>11, Zenon DEF TxPeer, TxAccept, TxPeerClose, guestVars, rxVars, TypeOK,
                        WriterState
  <1>12. CASE UNCHANGED vars
    BY <1>12, Zenon DEF vars, TypeOK, WriterState
  <1>13. QED
    BY <1>1, <1>2, <1>3, <1>4, <1>5, <1>6, <1>7, <1>8, <1>9, <1>10, <1>11,
       <1>12 DEF Next, Guest

(* Appending a byte keeps a log contiguous when the byte starts a write   *)
(* right after a whole one, or continues the write the log ends with.     *)
LEMMA ContiguousAppend ==
  ASSUME NEW S, NEW s \in Seq(S), NEW b, Contiguous(s),
         b.i = 0 => \/ s = <<>>
                    \/ s[Len(s)].i = s[Len(s)].n - 1,
         b.i # 0 => /\ s # <<>>
                    /\ s[Len(s)].w = b.w
                    /\ s[Len(s)].i = b.i - 1
  PROVE  Contiguous(Append(s, b))
  <1> DEFINE t == Append(s, b)
  <1>1. Len(t) = Len(s) + 1 /\ t[Len(s) + 1] = b
        /\ \A j \in 1..Len(s) : t[j] = s[j]
    BY AppendProperties
  <1> SUFFICES ASSUME NEW j \in 1..Len(t)
               PROVE  IF t[j].i = 0
                        THEN j = 1 \/ t[j - 1].i = t[j - 1].n - 1
                        ELSE j > 1 /\ t[j - 1].w = t[j].w /\ t[j - 1].i = t[j].i - 1
    BY DEF Contiguous
  <1>2. CASE j \in 1..Len(s)
    <2>1. IF s[j].i = 0
            THEN j = 1 \/ s[j - 1].i = s[j - 1].n - 1
            ELSE j > 1 /\ s[j - 1].w = s[j].w /\ s[j - 1].i = s[j].i - 1
      BY <1>2 DEF Contiguous
    <2>2. j > 1 => t[j - 1] = s[j - 1]
      BY <1>1, <1>2
    <2>3. QED
      BY <1>1, <1>2, <2>1, <2>2
  <1>3. CASE j = Len(s) + 1
    <2>1. s # <<>> => t[j - 1] = s[Len(s)] /\ j > 1
      BY <1>1, <1>3, EmptySeq, LenProperties
    <2>2. s = <<>> => j = 1
      BY <1>3, EmptySeq
    <2>3. QED
      BY <1>1, <1>3, <2>1, <2>2
  <1>4. QED
    BY <1>1, <1>2, <1>3

(***************************************************************************)
(* The inductive invariant behind TxWritesContiguous.                      *)
(***************************************************************************)

(* The controller lock is held exactly by the vCPU inside RxCom or TxCom. *)
LockInv == \A c \in CPUs : (pc[c] \in {"rx", "tx"}) <=> (lock = c)

(* vCPU c is inside TxCom on port p and has put at least one byte. *)
Writing(c, p) == pc[c] = "tx" /\ req[c].port = p /\ txi[c] > 0

(* The last byte logged on a port is the last one put by the vCPU that is *)
(* writing there; with no such vCPU it ends a whole write.                 *)
LogTail ==
  \A p \in Ports :
    /\ \A c \in CPUs :
         Writing(c, p) =>
           /\ txLog[p] # <<>>
           /\ txLog[p][Len(txLog[p])] =
                Byte(c, nreq[c], txi[c] - 1, TxWidth(req[c].size))
    /\ (\A c \in CPUs : ~Writing(c, p)) =>
         \/ txLog[p] = <<>>
         \/ txLog[p][Len(txLog[p])].i = txLog[p][Len(txLog[p])].n - 1

ContigInv == TypeInv /\ LockInv /\ LogTail /\ TxWritesContiguous

(* NoCpu is not a vCPU (SerialAssumption). *)
LEMMA NoCpuFresh == NoCpu \notin CPUs
  BY SerialAssumption

(* The byte record TxCom puts carries its write, index and width. *)
LEMMA ByteFields ==
  ASSUME NEW c, NEW k, NEW i, NEW n
  PROVE  /\ Byte(c, k, i, n).w = <<c, k>>
         /\ Byte(c, k, i, n).i = i
         /\ Byte(c, k, i, n).n = n
  BY DEF Byte

(* The state the invariant reads. *)
logVars == <<lock, pc, req, nreq, txi, txLog>>

(* A step that leaves the lock, the dispatch threads and the outbound log *)
(* alone preserves it.                                                     *)
LEMMA ContigFrame ==
  ASSUME LockInv, LogTail, TxWritesContiguous, UNCHANGED logVars
  PROVE  LockInv' /\ LogTail' /\ TxWritesContiguous'
  BY Zenon DEF logVars, LockInv, LogTail, Writing, TxWritesContiguous, Contiguous


(* A step of one vCPU c that is writing neither before nor after it, and  *)
(* that leaves the other vCPUs and the outbound log alone, preserves      *)
(* LogTail.                                                                *)
LEMMA LogTailOther ==
  ASSUME LogTail, NEW c \in CPUs, GuestTypes, GuestTypes',
         txLog' = txLog,
         \A q \in Ports : ~Writing(c, q) /\ ~Writing(c, q)',
         \A d \in CPUs \ {c} : /\ pc'[d] = pc[d] /\ req'[d] = req[d]
                              /\ nreq'[d] = nreq[d] /\ txi'[d] = txi[d]
  PROVE  LogTail'
  <1> SUFFICES ASSUME NEW p \in Ports
               PROVE  /\ \A d \in CPUs :
                            Writing(d, p)' =>
                              /\ txLog'[p] # <<>>
                              /\ txLog'[p][Len(txLog'[p])] =
                                   Byte(d, nreq'[d], txi'[d] - 1, TxWidth(req'[d].size))
                      /\ (\A d \in CPUs : ~Writing(d, p)') =>
                           \/ txLog'[p] = <<>>
                           \/ txLog'[p][Len(txLog'[p])].i = txLog'[p][Len(txLog'[p])].n - 1
    BY DEF LogTail
  <1>1. \A d \in CPUs : Writing(d, p)' <=> Writing(d, p)
    BY DEF Writing
  <1>2. QED
    BY <1>1 DEF LogTail, Writing

(* The initial state, with the lock free and empty logs, satisfies      *)
(* ContigInv.                                                           *)
LEMMA ContigInit == Init => ContigInv
  <1> SUFFICES ASSUME Init PROVE ContigInv
    OBVIOUS
  <1>1. TypeInv
    BY TypeInit
  <1>2. LockInv
    BY NoCpuFresh DEF Init, LockInv
  <1>3. \A c \in CPUs, p \in Ports : ~Writing(c, p)
    BY DEF Init, Writing
  <1>4. LogTail /\ TxWritesContiguous
    BY <1>3 DEF Init, LogTail, TxWritesContiguous, Contiguous
  <1>5. QED
    BY <1>1, <1>2, <1>4 DEF ContigInv

(* Every step preserves ContigInv: the one step that extends a log,      *)
(* TxCom, is taken by the lock holder, which is the only writer.         *)
LEMMA ContigStep == ContigInv /\ [Next]_vars => ContigInv'
  <1> SUFFICES ASSUME TypeInv, LockInv, LogTail, TxWritesContiguous, [Next]_vars
               PROVE  TypeInv' /\ LockInv' /\ LogTail' /\ TxWritesContiguous'
    BY DEF ContigInv
  <1>1. TypeInv'
    BY TypeStep
  <1>2. GuestTypes /\ GuestTypes' /\ lock \in CPUs \cup {NoCpu}
    BY <1>1, Zenon DEF TypeInv, TypeOK, GuestTypes
  <1>3. NoCpu \notin CPUs
    BY NoCpuFresh
  <1>4. ASSUME NEW c \in CPUs, ReadRequest(c)
        PROVE  LockInv' /\ LogTail' /\ TxWritesContiguous'
    <2>1. LockInv'
      BY <1>2, <1>4 DEF ReadRequest, LockInv
    <2>2. LogTail'
      BY <1>2, <1>4, LogTailOther DEF ReadRequest, Writing
    <2>3. QED
      BY <1>4, <2>1, <2>2 DEF ReadRequest, TxWritesContiguous
  <1>5. ASSUME NEW c \in CPUs, BadRequest(c)
        PROVE  LockInv' /\ LogTail' /\ TxWritesContiguous'
    <2>1. LockInv'
      BY <1>2, <1>5 DEF BadRequest, LockInv
    <2>2. LogTail'
      BY <1>2, <1>5, LogTailOther DEF BadRequest, Writing
    <2>3. QED
      BY <1>5, <2>1, <2>2 DEF BadRequest, TxWritesContiguous
  <1>6. ASSUME NEW c \in CPUs, RxInvalid(c)
        PROVE  LockInv' /\ LogTail' /\ TxWritesContiguous'
    <2>1. LockInv'
      BY <1>2, <1>3, <1>6 DEF RxInvalid, LockInv
    <2>2. LogTail'
      BY <1>2, <1>6, LogTailOther DEF RxInvalid, Writing
    <2>3. QED
      BY <1>6, <2>1, <2>2 DEF RxInvalid, TxWritesContiguous
  <1>7. ASSUME NEW c \in CPUs, RxAcquire(c)
        PROVE  LockInv' /\ LogTail' /\ TxWritesContiguous'
    <2>1. \A d \in CPUs : pc[d] \notin {"rx", "tx"}
      BY <1>3, <1>7 DEF RxAcquire, LockInv
    <2>2. LockInv'
      BY <1>2, <1>7, <2>1 DEF RxAcquire, LockInv, GuestTypes
    <2>3. LogTail'
      BY <1>2, <1>7, LogTailOther DEF RxAcquire, Writing
    <2>4. QED
      BY <1>7, <2>2, <2>3 DEF RxAcquire, TxWritesContiguous
  <1>8. ASSUME NEW c \in CPUs, RxCom(c)
        PROVE  LockInv' /\ LogTail' /\ TxWritesContiguous'
    <2>1. lock = c /\ \A d \in CPUs \ {c} : pc[d] \notin {"rx", "tx"}
      BY <1>8 DEF RxCom, LockInv
    <2>2. LockInv'
      BY <1>2, <1>3, <1>8, <2>1 DEF RxCom, LockInv, GuestTypes
    <2>3. LogTail'
      BY <1>2, <1>8, LogTailOther DEF RxCom, Writing
    <2>4. QED
      BY <1>8, <2>2, <2>3 DEF RxCom, TxWritesContiguous
  <1>9. ASSUME NEW c \in CPUs, TxAcquire(c)
        PROVE  LockInv' /\ LogTail' /\ TxWritesContiguous'
    <2>1. \A d \in CPUs : pc[d] \notin {"rx", "tx"}
      BY <1>3, <1>9 DEF TxAcquire, LockInv
    <2>2. LockInv'
      BY <1>2, <1>9, <2>1 DEF TxAcquire, LockInv, GuestTypes
    <2>3. /\ txi'[c] = 0 /\ txLog' = txLog
          /\ \A d \in CPUs \ {c} : /\ pc'[d] = pc[d] /\ req'[d] = req[d]
                                   /\ nreq'[d] = nreq[d] /\ txi'[d] = txi[d]
      BY <1>2, <1>9 DEF TxAcquire, GuestTypes
    <2>4. \A q \in Ports : ~Writing(c, q) /\ ~Writing(c, q)'
      BY <1>9, <2>3 DEF TxAcquire, Writing
    <2>5. LogTail'
      BY <1>2, <2>3, <2>4, LogTailOther
    <2>6. QED
      BY <1>9, <2>2, <2>5 DEF TxAcquire, TxWritesContiguous
  <1>10. ASSUME NEW c \in CPUs, TxCom(c)
         PROVE  LockInv' /\ LogTail' /\ TxWritesContiguous'
    <2> DEFINE p == req[c].port
               n == TxWidth(req[c].size)
               b == Byte(c, nreq[c], txi[c], n)
               s == txLog[p]
    <2>1. pc[c] = "tx" /\ lock = c
      BY <1>10 DEF TxCom, LockInv
    <2>2. \A d \in CPUs \ {c} : pc[d] \notin {"rx", "tx"}
      BY <2>1 DEF LockInv
    <2>3. p \in Ports /\ n \in {1, 2, 4} /\ txi[c] \in 0..(n - 1)
      <3>1. req[c] \in Request /\ txi[c] \in 0..3
        BY <1>2 DEF GuestTypes
      <3>2. txi[c] < n
        BY <2>1 DEF TypeInv, WriterState
      <3>3. QED
        BY <3>1, <3>2, RequestFields, TxWidthRange
    <2>4. \A d \in CPUs \ {c}, q \in Ports : ~Writing(d, q) /\ ~Writing(d, q)'
      <3>1. \A d \in CPUs \ {c} : pc'[d] = pc[d]
        BY <1>2, <1>10 DEF TxCom, GuestTypes
      <3>2. QED
        BY <2>2, <3>1 DEF Writing
    <2>5. txLog \in [Ports -> Seq(Items)]
      BY Zenon DEF TypeInv, TypeOK
    <2>6. /\ txLog' = [txLog EXCEPT ![p] = Append(@, b)]
          /\ req' = req /\ nreq' = nreq
      BY <1>10 DEF TxCom
    <2>7. b.w = <<c, nreq[c]>> /\ b.i = txi[c] /\ b.n = n
      BY ByteFields
    <2>8. \A q \in Ports \ {p} : ~Writing(c, q) /\ ~Writing(c, q)'
      BY <2>6 DEF Writing
    <2>9. Len(txLog'[p]) = Len(s) + 1 /\ txLog'[p][Len(txLog'[p])] = b
          /\ \A q \in Ports \ {p} : txLog'[q] = txLog[q]
      <3>1. s \in Seq(Items)
        BY <2>3, <2>5
      <3>2. Len(Append(s, b)) = Len(s) + 1 /\ Append(s, b)[Len(s) + 1] = b
        BY <3>1, AppendProperties
      <3>3. QED
        BY <2>3, <2>5, <2>6, <3>2
    <2>10. TxWritesContiguous'
      <3>1. Contiguous(Append(s, b))
        <4>1. Contiguous(s)
          BY <2>3 DEF TxWritesContiguous
        <4>2. b.i = 0 => \/ s = <<>>
                         \/ s[Len(s)].i = s[Len(s)].n - 1
          <5>1. txi[c] = 0 => \A d \in CPUs : ~Writing(d, p)
            <6>1. txi[c] = 0 => ~Writing(c, p)
              BY DEF Writing
            <6>2. QED
              BY <2>3, <2>4, <6>1
          <5>2. QED
            BY <2>3, <2>7, <5>1 DEF LogTail
        <4>3. b.i # 0 => /\ s # <<>>
                         /\ s[Len(s)].w = b.w
                         /\ s[Len(s)].i = b.i - 1
          <5>1. txi[c] # 0 => Writing(c, p)
            BY <2>1, <2>3 DEF Writing
          <5>2. txi[c] # 0 => /\ s # <<>>
                              /\ s[Len(s)] = Byte(c, nreq[c], txi[c] - 1, n)
            BY <2>3, <5>1 DEF LogTail
          <5>3. QED
            BY <2>7, <5>2, ByteFields
        <4>4. QED
          BY <2>3, <2>5, <4>1, <4>2, <4>3, ContiguousAppend
      <3>2. QED
        BY <2>3, <2>5, <2>6, <3>1 DEF TxWritesContiguous
    <2>11. CASE txi[c] + 1 = n
      <3>1. /\ lock' = NoCpu
            /\ pc' = [pc EXCEPT ![c] = "idle"]
            /\ txi' = [txi EXCEPT ![c] = 0]
        BY <1>10, <2>11 DEF TxCom
      <3>2. LockInv'
        BY <1>2, <1>3, <2>2, <3>1 DEF LockInv, GuestTypes
      <3>3. \A d \in CPUs, q \in Ports : ~Writing(d, q)'
        BY <1>2, <2>4, <3>1 DEF Writing, GuestTypes
      <3>4. LogTail'
        <4> SUFFICES ASSUME NEW q \in Ports
                     PROVE  \/ txLog'[q] = <<>>
                            \/ txLog'[q][Len(txLog'[q])].i
                                 = txLog'[q][Len(txLog'[q])].n - 1
          BY <3>3 DEF LogTail
        <4>1. CASE q = p
          BY <2>3, <2>7, <2>9, <2>11, <4>1, SMTT(30)
        <4>2. CASE q # p
          <5>1. \A d \in CPUs : ~Writing(d, q)
            BY <2>4, <2>8, <4>2
          <5>2. QED
            BY <2>9, <4>2, <5>1 DEF LogTail
        <4>3. QED
          BY <4>1, <4>2
      <3>5. QED
        BY <2>10, <3>2, <3>4
    <2>12. CASE txi[c] + 1 # n
      <3>1. /\ txi' = [txi EXCEPT ![c] = txi[c] + 1]
            /\ lock' = lock /\ pc' = pc
        BY <1>10, <2>12 DEF TxCom
      <3>2. LockInv'
        BY <3>1 DEF LockInv
      <3>3. Writing(c, p)' /\ txi'[c] - 1 = txi[c]
        BY <1>2, <2>1, <2>3, <2>6, <3>1 DEF Writing, GuestTypes
      <3>4. LogTail'
        <4> SUFFICES ASSUME NEW q \in Ports
                     PROVE  /\ \A d \in CPUs :
                                  Writing(d, q)' =>
                                    /\ txLog'[q] # <<>>
                                    /\ txLog'[q][Len(txLog'[q])] =
                                         Byte(d, nreq'[d], txi'[d] - 1,
                                              TxWidth(req'[d].size))
                            /\ (\A d \in CPUs : ~Writing(d, q)') =>
                                 \/ txLog'[q] = <<>>
                                 \/ txLog'[q][Len(txLog'[q])].i
                                      = txLog'[q][Len(txLog'[q])].n - 1
          BY DEF LogTail
        <4>1. CASE q = p
          <5>1. \A d \in CPUs : Writing(d, q)' => d = c
            BY <2>4, <4>1
          <5>2. txLog'[q] # <<>>
            BY <2>9, <4>1, <2>3, <2>5, LenProperties
          <5>3. QED
            BY <2>6, <2>9, <3>3, <4>1, <5>1, <5>2
        <4>2. CASE q # p
          <5>1. \A d \in CPUs : ~Writing(d, q)' /\ ~Writing(d, q)
            BY <2>4, <2>8, <4>2
          <5>2. QED
            BY <2>9, <4>2, <5>1 DEF LogTail
        <4>3. QED
          BY <4>1, <4>2
      <3>5. QED
        BY <2>10, <3>2, <3>4
    <2>13. QED
      BY <2>11, <2>12
  <1>11. ASSUME NEW p \in Ports,
                RxBridge(p) \/ TxBridge(p) \/ RxPeer(p) \/ TxPeer(p)
         PROVE  LockInv' /\ LogTail' /\ TxWritesContiguous'
    <2>1. UNCHANGED logVars
      BY <1>11 DEF RxBridge, TxBridge, RxPeer, TxPeer, RxRecv, RxEof, TxSend,
                   TxClose, RxAccept, RxPeerSend, RxPeerClose, TxAccept,
                   TxPeerClose, guestVars, logVars
    <2>2. QED
      BY <2>1, ContigFrame, Zenon
  <1>12. CASE UNCHANGED vars
    <2>1. UNCHANGED logVars
      BY <1>12 DEF vars, logVars
    <2>2. QED
      BY <1>1, <2>1, ContigFrame
  <1>13. QED
    BY <1>1, <1>4, <1>5, <1>6, <1>7, <1>8, <1>9, <1>10, <1>11, <1>12
       DEF Next, Guest

-----------------------------------------------------------------------------
(***************************************************************************)
(* The inbound stream. RxInOrder is inductive given the types: each rx    *)
(* step moves the first byte of one segment of rxRead \o rxq \o rxPipe to *)
(* the end of the previous one, or appends the next byte to rxPipe.       *)
(***************************************************************************)

(* A nonempty sequence is its head followed by its tail. *)
LEMMA HeadTailConcat ==
  ASSUME NEW S, NEW s \in Seq(S), s # <<>>
  PROVE  s = <<Head(s)>> \o Tail(s)
  <1>1. Head(s) \in S /\ Tail(s) \in Seq(S) /\ Len(Tail(s)) = Len(s) - 1
        /\ \A i \in 1..Len(Tail(s)) : Tail(s)[i] = s[i+1]
    BY HeadTailProperties
  <1>2. <<Head(s)>> \in Seq(S)
    BY <1>1
  <1>3. Len(<<Head(s)>> \o Tail(s)) = Len(s)
    BY <1>1, <1>2, ConcatProperties
  <1>4. \A i \in 1..Len(s) : (<<Head(s)>> \o Tail(s))[i] = s[i]
    BY <1>1, <1>2, ConcatProperties
  <1>5. QED
    BY <1>1, <1>2, <1>3, <1>4, ConcatProperties, SeqEqual

(* Moving the head of the middle segment to the end of the first. *)
LEMMA ShiftFirst ==
  ASSUME NEW S, NEW a \in Seq(S), NEW b \in Seq(S), NEW c \in Seq(S), b # <<>>
  PROVE  (Append(a, Head(b)) \o Tail(b)) \o c = (a \o b) \o c
  <1>1. Head(b) \in S /\ Tail(b) \in Seq(S) /\ b = <<Head(b)>> \o Tail(b)
    BY HeadTailProperties
  <1>2. Append(a, Head(b)) = a \o <<Head(b)>>
    BY <1>1, AppendIsConcat
  <1>3. <<Head(b)>> \in Seq(S)
    BY <1>1
  <1>4. (a \o <<Head(b)>>) \o Tail(b) = a \o (<<Head(b)>> \o Tail(b))
    BY <1>1, <1>3, ConcatAssociative
  <1>5. QED
    BY <1>1, <1>2, <1>4

(* Moving the head of the last segment to the end of the middle one. *)
LEMMA ShiftSecond ==
  ASSUME NEW x \in Seq(1..MaxSend), NEW y \in Seq(1..MaxSend), NEW z \in Seq(1..MaxSend), z # <<>>
  PROVE  (x \o Append(y, Head(z))) \o Tail(z) = (x \o y) \o z
  <1>1. Head(z) \in 1..MaxSend /\ Tail(z) \in Seq(1..MaxSend)
    BY HeadTailProperties
  <1>2. z = <<Head(z)>> \o Tail(z)
    BY HeadTailConcat
  <1>3. x \o y \in Seq(1..MaxSend) /\ <<Head(z)>> \in Seq(1..MaxSend)
    BY <1>1, ConcatProperties
  <1>4. Append(y, Head(z)) = y \o <<Head(z)>>
    BY <1>1, AppendIsConcat
  <1>5. x \o (y \o <<Head(z)>>) = (x \o y) \o <<Head(z)>>
    BY <1>1, <1>3, ConcatAssociative
  <1>6. ((x \o y) \o <<Head(z)>>) \o Tail(z) = (x \o y) \o (<<Head(z)>> \o Tail(z))
    BY <1>1, <1>3, ConcatAssociative
  <1>7. QED
    BY <1>2, <1>4, <1>5, <1>6

(* The same two shifts, on the segments of one port. *)
LEMMA ShiftFirstAt ==
  ASSUME NEW p \in Ports, NEW r \in [Ports -> Seq(1..MaxSend)],
         NEW q \in [Ports -> Seq(1..MaxSend)], NEW d \in [Ports -> Seq(1..MaxSend)], q[p] # <<>>
  PROVE  (Append(r[p], Head(q[p])) \o Tail(q[p])) \o d[p] = (r[p] \o q[p]) \o d[p]
  <1>1. PICK x \in Seq(1..MaxSend) : x = r[p]
    OBVIOUS
  <1>2. PICK y \in Seq(1..MaxSend) : y = q[p]
    OBVIOUS
  <1>3. PICK z \in Seq(1..MaxSend) : z = d[p]
    OBVIOUS
  <1>4. y # <<>>
    BY <1>2
  <1>5. (Append(x, Head(y)) \o Tail(y)) \o z = (x \o y) \o z
    BY <1>4, ShiftFirst
  <1>6. QED
    BY <1>1, <1>2, <1>3, <1>5

LEMMA ShiftSecondAt ==
  ASSUME NEW p \in Ports, NEW r \in [Ports -> Seq(1..MaxSend)],
         NEW q \in [Ports -> Seq(1..MaxSend)], NEW d \in [Ports -> Seq(1..MaxSend)], d[p] # <<>>
  PROVE  (r[p] \o Append(q[p], Head(d[p]))) \o Tail(d[p]) = (r[p] \o q[p]) \o d[p]
  <1>1. PICK x \in Seq(1..MaxSend) : x = r[p]
    OBVIOUS
  <1>2. PICK y \in Seq(1..MaxSend) : y = q[p]
    OBVIOUS
  <1>3. PICK z \in Seq(1..MaxSend) : z = d[p]
    OBVIOUS
  <1>4. z # <<>>
    BY <1>3
  <1>5. (x \o Append(y, Head(z))) \o Tail(z) = (x \o y) \o z
    BY <1>4, ShiftSecond
  <1>6. QED
    BY <1>1, <1>2, <1>3, <1>5

(* Appending to the last segment. *)
LEMMA AppendLast ==
  ASSUME NEW S, NEW a \in Seq(S), NEW b \in Seq(S), NEW c \in Seq(S), NEW x \in S
  PROVE  (a \o b) \o Append(c, x) = Append((a \o b) \o c, x)
  <1>1. a \o b \in Seq(S) /\ (a \o b) \o c \in Seq(S)
    BY ConcatProperties
  <1>2. Append(c, x) = c \o <<x>> /\ Append((a \o b) \o c, x) = ((a \o b) \o c) \o <<x>>
    BY <1>1, AppendIsConcat
  <1>3. QED
    BY <1>1, <1>2, ConcatAssociative

(* The stream 1, 2, ..., n grows by n + 1. *)
LEMMA CountUp ==
  ASSUME NEW n \in Nat
  PROVE  Append([j \in 1..n |-> j], n + 1) = [j \in 1..(n + 1) |-> j]
  BY DEF Append

(* The rx history, the inbound queue and the socket's bytes, of every    *)
(* port, are sequences of bytes sent.                                      *)
RxTypes ==
  /\ rxRead \in [Ports -> Seq(1..MaxSend)]
  /\ rxq \in [Ports -> Seq(1..MaxSend)]
  /\ rxPipe \in [Ports -> Seq(1..MaxSend)]
  /\ nsent \in [Ports -> 0..MaxSend]

rxStream == <<rxRead, rxq, rxPipe, nsent>>

(* A step that leaves the inbound stream alone keeps RxInOrder. *)
LEMMA RxFrame == RxInOrder /\ UNCHANGED rxStream => RxInOrder'
  BY DEF RxInOrder, rxStream

LEMMA RxStep == TypeInv /\ RxInOrder /\ [Next]_vars => RxInOrder'
  <1> SUFFICES ASSUME TypeInv, RxInOrder, [Next]_vars PROVE RxInOrder'
    OBVIOUS
  <1>1. RxTypes
    BY DEF TypeInv, TypeOK, RxTypes
  <1>2. ASSUME NEW c \in CPUs, RxCom(c) PROVE RxInOrder'
    <2> DEFINE p == req[c].port
    <2>1. p \in Ports
      BY RequestFields DEF TypeInv, TypeOK
    <2>2. rxq[p] # <<>> /\ rxRead'[p] = Append(rxRead[p], Head(rxq[p]))
          /\ rxq'[p] = Tail(rxq[p]) /\ rxPipe' = rxPipe /\ nsent' = nsent
      BY <1>1, <1>2, <2>1 DEF RxCom, RxTypes, rxVars
    <2>3. (rxRead'[p] \o rxq'[p]) \o rxPipe'[p] = (rxRead[p] \o rxq[p]) \o rxPipe[p]
      <3>1. rxRead[p] \in Seq(1..MaxSend) /\ rxq[p] \in Seq(1..MaxSend)
            /\ rxPipe[p] \in Seq(1..MaxSend)
        BY <1>1, <2>1 DEF RxTypes
      <3>2. (Append(rxRead[p], Head(rxq[p])) \o Tail(rxq[p])) \o rxPipe[p]
              = (rxRead[p] \o rxq[p]) \o rxPipe[p]
        BY <1>1, <2>1, <2>2, ShiftFirstAt DEF RxTypes
      <3>3. QED
        BY <3>2, <2>2
    <2>4. \A q \in Ports \ {p} : rxRead'[q] = rxRead[q] /\ rxq'[q] = rxq[q]
      BY <1>1, <1>2 DEF RxCom, RxTypes
    <2>5. QED
      BY <2>2, <2>3, <2>4 DEF RxInOrder
  <1>3. ASSUME NEW p \in Ports, RxRecv(p) PROVE RxInOrder'
    <2>1. rxPipe[p] # <<>> /\ rxq'[p] = Append(rxq[p], Head(rxPipe[p]))
          /\ rxPipe'[p] = Tail(rxPipe[p]) /\ rxRead' = rxRead /\ nsent' = nsent
      BY <1>1, <1>3 DEF RxRecv, RxTypes
    <2>2. (rxRead'[p] \o rxq'[p]) \o rxPipe'[p] = (rxRead[p] \o rxq[p]) \o rxPipe[p]
      <3>1. rxRead[p] \in Seq(1..MaxSend) /\ rxq[p] \in Seq(1..MaxSend)
            /\ rxPipe[p] \in Seq(1..MaxSend)
        BY <1>1 DEF RxTypes
      <3>2. (rxRead[p] \o Append(rxq[p], Head(rxPipe[p]))) \o Tail(rxPipe[p])
              = (rxRead[p] \o rxq[p]) \o rxPipe[p]
        BY <1>1, <2>1, ShiftSecondAt DEF RxTypes
      <3>3. QED
        BY <3>2, <2>1
    <2>3. \A q \in Ports \ {p} : rxq'[q] = rxq[q] /\ rxPipe'[q] = rxPipe[q]
      BY <1>1, <1>3 DEF RxRecv, RxTypes
    <2>4. QED
      BY <2>1, <2>2, <2>3 DEF RxInOrder
  <1>4. ASSUME NEW p \in Ports, RxPeerSend(p) PROVE RxInOrder'
    <2>1. nsent[p] \in Nat /\ nsent[p] < MaxSend
      BY <1>1, <1>4 DEF RxPeerSend, RxTypes
    <2>2. /\ rxPipe'[p] = Append(rxPipe[p], nsent[p] + 1)
          /\ nsent'[p] = nsent[p] + 1 /\ rxRead' = rxRead /\ rxq' = rxq
      BY <1>1, <1>4 DEF RxPeerSend, RxTypes
    <2>3. nsent[p] + 1 \in 1..MaxSend
      BY <2>1, BoundsNat
    <2>4. (rxRead[p] \o rxq[p]) \o rxPipe'[p]
            = Append((rxRead[p] \o rxq[p]) \o rxPipe[p], nsent[p] + 1)
      BY <1>1, <2>2, <2>3, AppendLast, SMTT(30) DEF RxTypes
    <2>5. (rxRead'[p] \o rxq'[p]) \o rxPipe'[p] = [j \in 1..nsent'[p] |-> j]
      BY <2>1, <2>2, <2>4, CountUp DEF RxInOrder
    <2>6. \A q \in Ports \ {p} : rxPipe'[q] = rxPipe[q] /\ nsent'[q] = nsent[q]
      BY <1>1, <1>4 DEF RxPeerSend, RxTypes
    <2>7. QED
      BY <2>2, <2>5, <2>6 DEF RxInOrder
  <1>5. ASSUME NEW c \in CPUs,
               ReadRequest(c) \/ BadRequest(c) \/ RxInvalid(c) \/ RxAcquire(c)
               \/ TxAcquire(c) \/ TxCom(c)
        PROVE  UNCHANGED rxStream
    BY <1>5 DEF ReadRequest, BadRequest, RxInvalid, RxAcquire, TxAcquire, TxCom,
                rxStream, rxVars
  <1>6. ASSUME NEW p \in Ports,
               RxEof(p) \/ TxSend(p) \/ TxClose(p) \/ RxAccept(p)
               \/ RxPeerClose(p) \/ TxAccept(p) \/ TxPeerClose(p)
        PROVE  UNCHANGED rxStream
    BY <1>6 DEF RxEof, TxSend, TxClose, RxAccept, RxPeerClose, TxAccept,
                TxPeerClose, rxStream, rxVars, guestVars
  <1>7. CASE UNCHANGED vars
    BY <1>7, RxFrame DEF vars, rxStream
  <1>8. QED
    BY <1>2, <1>3, <1>4, <1>5, <1>6, <1>7, RxFrame
       DEF Next, Guest, RxBridge, TxBridge, RxPeer, TxPeer

(* The initial state has empty streams. *)
LEMMA RxInit == Init => RxInOrder
  BY DEF Init, RxInOrder

(* The state of the dispatch threads, queues and bridge threads of       *)
(* ooowsserial.py is always well typed: in particular TxCom only ever     *)
(* puts bytes of index below the width of the write on the queue.         *)
THEOREM TypeCorrect == Spec => []TypeOK
  <1>1. TypeInv => TypeOK
    BY DEF TypeInv
  <1>2. QED
    BY <1>1, TypeInit, TypeStep, PTL DEF Spec

(* Under the controller lock, the bytes TxCom puts on an outbound queue   *)
(* are whole writes one after another: no two vCPUs' multi-byte writes    *)
(* interleave, for any number of vCPUs, ports, requests and queue sizes.  *)
THEOREM WritesContiguous == Spec => []TxWritesContiguous
  <1>1. ContigInv => TxWritesContiguous
    BY DEF ContigInv
  <1>2. QED
    BY <1>1, ContigInit, ContigStep, PTL DEF Spec

(* Bytes from the rx socket peers reach the guest in the order they were  *)
(* sent, none lost or repeated: a 1-byte RxCom consumes exactly the head  *)
(* of the inbound queue and a wider read consumes nothing, for any number *)
(* of vCPUs, ports, peers and queue capacities.                           *)
THEOREM InboundInOrder == Spec => []RxInOrder
  <1>1. Init => TypeInv /\ RxInOrder
    BY TypeInit, RxInit
  <1>2. TypeInv /\ RxInOrder /\ [Next]_vars => TypeInv' /\ RxInOrder'
    BY TypeStep, RxStep
  <1>3. QED
    BY <1>1, <1>2, PTL DEF Spec
=============================================================================
