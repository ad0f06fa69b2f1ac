----------------------- MODULE OoowsSerialDebugProofs -----------------------
(***************************************************************************)
(* Proofs about the debug serial device (OoowsSerialDebug,                 *)
(* src/devices-bin/ooowsserial-debug.py): its type invariant, and that it  *)
(* implements SerialDevice under the mapping Abs, for every set of vCPUs,  *)
(* ports, size codes and bounds.                                           *)
(*                                                                         *)
(* The mapping is a function of the state only if the state is one the     *)
(* controller can reach: the proof rests on the invariant RInv, which says *)
(* what the controller lock protects. A thread inside RxCom or TxCom, or   *)
(* one that died there, owns the lock; so at most one write is cut short   *)
(* (Pending names it), and the last bytes of stdout are the first bytes of *)
(* that write.                                                             *)
(***************************************************************************)
EXTENDS OoowsSerialDebug, TLAPS

(* A thread between ReadIoRequest and WritePioResponse has read a request. *)
InFlightCounted == \A c \in CPUs : InFlight(c) => nreq[c] >= 1

(* Only TxCom leaves a byte count behind. *)
TxiClear == \A c \in CPUs : pc[c] \in {"none", "idle", "lock", "rx"} => txi[c] = 0

(* The lock is owned by the thread inside RxCom or TxCom, and by the     *)
(* thread that died holding a partly written value.                     *)
LockOwned ==
  \A c \in CPUs : (pc[c] \in {"rx", "tx"} \/ Cut(c)) => lock = c

(* The bytes of the write under way, or cut off, end stdout. *)
TailIsWrite ==
  \A c \in CPUs :
    /\ pc[c] = "tx" => txi[c] < TxWidth(req[c].size)
    /\ Cut(c) =>
         /\ txi[c] <= Len(out)
         /\ \A j \in 0..(txi[c] - 1) :
              out[Len(out) - txi[c] + 1 + j] = Byte(c, nreq[c], j, TxWidth(req[c].size))

(* Before the handshake no thread exists. *)
NoThreadYet == proc = "handshake" => \A c \in CPUs : pc[c] = "none"

RInv ==
  /\ TypeOK /\ NoThreadYet /\ InFlightCounted /\ TxiClear /\ LockOwned
  /\ TailIsWrite

-----------------------------------------------------------------------------
(* The invariant. *)

(* unpacks[floor(size / 2)] picks a 1, 2 or 4 byte format. *)
LEMMA TxWidthRange ==
  ASSUME NEW s \in SizeCodes
  PROVE  TxWidth(s) \in {1, 2, 4}
<1>1. s \in {1, 2, 4}
  BY DebugAssumption
<1>2. QED
  BY <1>1 DEF TxWidth

LEMMA RequestNonEmpty == \E r \in Request : TRUE
<1>1. [port |-> CHOOSE p \in Ports : TRUE, dir |-> 0, size |-> CHOOSE s \in SizeCodes : TRUE]
        \in Request
  BY DebugAssumption DEF Request, Dirs
<1>2. QED
  BY <1>1

LEMMA RInvInit == Init => RInv
<1> SUFFICES ASSUME Init PROVE RInv
  OBVIOUS
<1> USE DebugAssumption
<1>1. (CHOOSE r \in Request : TRUE) \in Request
  BY RequestNonEmpty
<1>2. TypeOK
  <2>1. req \in [CPUs -> Request]
    BY <1>1 DEF Init
  <2>2. out \in Seq(Items) /\ pc \in [CPUs -> {"none", "idle", "lock", "rx", "tx", "exited"}]
    BY DEF Init
  <2>3. nreq \in [CPUs -> 0..MaxReq] /\ txi \in [CPUs -> 0..3]
    BY DEF Init
  <2>4. inSent \in 0..MaxIn /\ inRead \in 0..inSent /\ lock \in CPUs \cup {NoCpu}
    BY DEF Init
  <2>5. QED
    BY <2>1, <2>2, <2>3, <2>4 DEF Init, TypeOK
<1>3. QED
  BY <1>2 DEF Init, RInv, NoThreadYet, InFlightCounted, InFlight, TxiClear,
              LockOwned, Cut, TailIsWrite

(* A byte of a write that is not its last: the bytes already at the end *)
(* of stdout and this one still end it, in order.                        *)
LEMMA TxComTail ==
  ASSUME RInv, NEW c \in CPUs, TxCom(c), txi[c] + 1 # TxWidth(req[c].size)
  PROVE  \A j \in 0..(txi'[c] - 1) :
           out'[Len(out') - txi'[c] + 1 + j] = Byte(c, nreq'[c], j, TxWidth(req'[c].size))
<1> DEFINE n == TxWidth(req[c].size)
           b == Byte(c, nreq[c], txi[c], n)
<1>1. /\ pc[c] = "tx" /\ out' = Append(out, b) /\ txi' = [txi EXCEPT ![c] = @ + 1]
      /\ UNCHANGED <<req, nreq>>
  BY DEF TxCom
<1>2. out \in Seq(Items) /\ txi \in [CPUs -> 0..3] /\ nreq[c] \in 1..MaxReq
  BY <1>1, DebugAssumption DEF RInv, TypeOK, InFlightCounted, InFlight
<1>3. n \in {1, 2, 4}
  BY TxWidthRange DEF RInv, TypeOK, Request
<1>4. /\ txi[c] < n /\ txi[c] <= Len(out)
      /\ \A j \in 0..(txi[c] - 1) : out[Len(out) - txi[c] + 1 + j] = Byte(c, nreq[c], j, n)
  BY <1>1 DEF RInv, TailIsWrite, Cut
<1>5. b \in Items
  BY <1>2, <1>3, <1>4 DEF Items, Byte
<1>6. PICK o \in Seq(Items), k \in Nat, r \in Nat, w \in Nat, bb \in Items :
        o = out /\ k = txi[c] /\ r = nreq[c] /\ w = n /\ bb = b
  BY <1>2, <1>3, <1>5
<1>7. k <= Len(o) /\ bb = Byte(c, r, k, w)
  BY <1>4, <1>6
<1>8. \A j \in 0..(k - 1) : o[Len(o) - k + 1 + j] = Byte(c, r, j, w)
  BY <1>4, <1>6
<1>9. \A j \in 0..k : Append(o, bb)[Len(o) - k + 1 + j] = Byte(c, r, j, w)
  <2> SUFFICES ASSUME NEW j \in 0..k
               PROVE  Append(o, bb)[Len(o) - k + 1 + j] = Byte(c, r, j, w)
    BY Zenon
  <2>1. CASE j = k
    BY <1>7, <2>1
  <2>2. CASE j < k
    <3>1. Len(o) - k + 1 + j \in 1..Len(o) /\ j \in 0..(k - 1)
      BY <1>7, <2>2
    <3>2. Append(o, bb)[Len(o) - k + 1 + j] = o[Len(o) - k + 1 + j]
      BY <3>1
    <3>3. QED
      BY <1>8, <3>1, <3>2
  <2>3. j = k \/ j < k
    BY <1>6
  <2>4. QED
    BY <2>1, <2>2, <2>3, Zenon
<1>10. out' = Append(o, bb) /\ txi'[c] = k + 1 /\ nreq'[c] = r /\ TxWidth(req'[c].size) = w
  BY <1>1, <1>2, <1>6
<1>11. QED
  <2> SUFFICES ASSUME NEW j \in 0..(txi'[c] - 1)
               PROVE  out'[Len(out') - txi'[c] + 1 + j] = Byte(c, nreq'[c], j, TxWidth(req'[c].size))
    BY Zenon
  <2>1. txi'[c] = k + 1 /\ Len(out') = Len(o) + 1
    BY <1>6, <1>10
  <2>2. PICK L \in Nat, L2 \in Nat, t2 \in Nat : L = Len(o) /\ L2 = Len(out') /\ t2 = txi'[c]
    BY <1>6, <2>1
  <2>3. L2 = L + 1 /\ t2 = k + 1
    BY <2>1, <2>2
  <2>6. j \in 0..k /\ L2 - t2 + 1 + j = L - k + 1 + j
    BY <2>2, <2>3
  <2>4. Append(o, bb)[L - k + 1 + j] = Byte(c, r, j, w)
    BY <1>9, <2>2, <2>6, Zenon
  <2>5. QED
    BY <1>10, <2>2, <2>6, <2>4, Zenon

LEMMA RInvStep == RInv /\ [Next]_vars => RInv'
<1> SUFFICES ASSUME RInv, [Next]_vars PROVE RInv'
  OBVIOUS
<1> USE DebugAssumption DEF RInv, TypeOK, NoThreadYet, InFlightCounted, InFlight,
        TxiClear, LockOwned, Cut, TailIsWrite
<1>1. CASE Handshake
  BY <1>1 DEF Handshake
<1>2. ASSUME NEW c \in CPUs, ReadRequest(c) PROVE RInv'
  BY <1>2 DEF ReadRequest
<1>3. ASSUME NEW c \in CPUs, BadRequest(c) PROVE RInv'
  BY <1>3 DEF BadRequest
<1>4. ASSUME NEW c \in CPUs, RxInvalid(c) PROVE RInv'
  BY <1>4 DEF RxInvalid
<1>5. ASSUME NEW c \in CPUs, Acquire(c) PROVE RInv'
  <2>1. TxWidth(req[c].size) \in {1, 2, 4}
    BY TxWidthRange DEF Request
  <2>2. QED
    BY <1>5, <2>1 DEF Acquire
<1>6. ASSUME NEW c \in CPUs, RxCom(c) PROVE RInv'
  BY <1>6 DEF RxCom
<1>7. ASSUME NEW c \in CPUs, RxEof(c) PROVE RInv'
  BY <1>7 DEF RxEof
<1>8. ASSUME NEW c \in CPUs, TxCom(c) PROVE RInv'
  <2> DEFINE n == TxWidth(req[c].size)
             b == Byte(c, nreq[c], txi[c], n)
  <2>1. /\ n \in {1, 2, 4} /\ pc[c] = "tx" /\ lock = c /\ txi[c] < n
        /\ nreq[c] \in 1..MaxReq /\ txi[c] \in 0..3
        /\ out' = Append(out, b)
    <3>1. pc[c] = "tx" /\ out' = Append(out, b)
      BY <1>8 DEF TxCom
    <3>2. n \in {1, 2, 4}
      BY TxWidthRange DEF Request
    <3>3. lock = c /\ txi[c] < n /\ nreq[c] \in 1..MaxReq /\ txi[c] \in 0..3
      BY <3>1
    <3>4. QED
      BY <3>1, <3>2, <3>3
  <2>2. \A d \in CPUs \ {c} : pc[d] \notin {"rx", "tx"} /\ ~Cut(d)
    BY <2>1
  <2>3. b \in Items /\ out' \in Seq(Items)
    BY <2>1 DEF Items, Byte
  <2>4. CASE txi[c] + 1 = n
    <3>1. pc' = [pc EXCEPT ![c] = "idle"] /\ txi' = [txi EXCEPT ![c] = 0] /\ lock' = NoCpu
          /\ UNCHANGED <<proc, req, nreq, inSent, inEof, inRead, outOpen>>
      BY <1>8, <2>4 DEF TxCom
    <3>2. TypeOK'
      BY <2>3, <3>1
    <3>3. NoThreadYet' /\ InFlightCounted' /\ TxiClear'
      BY <2>1, <3>1
    <3>4. \A d \in CPUs : pc'[d] \notin {"rx", "tx"} /\ ~Cut(d)'
      BY <2>2, <3>1
    <3>5. LockOwned' /\ TailIsWrite'
      BY <3>4
    <3>6. QED
      BY <3>2, <3>3, <3>5
  <2>5. CASE txi[c] + 1 # n
    <3>1. txi' = [txi EXCEPT ![c] = @ + 1] /\ UNCHANGED <<lock, pc>>
          /\ UNCHANGED <<proc, req, nreq, inSent, inEof, inRead, outOpen>>
      BY <1>8, <2>5 DEF TxCom
    <3>2. txi[c] + 1 < n /\ txi'[c] = txi[c] + 1
      BY <2>1, <2>5, <3>1
    <3>3. TypeOK'
      BY <2>1, <2>3, <3>1, <3>2
    <3>4. txi'[c] <= Len(out')
      BY <2>1, <3>2
    <3>5. \A j \in 0..(txi'[c] - 1) :
            out'[Len(out') - txi'[c] + 1 + j] = Byte(c, nreq'[c], j, TxWidth(req'[c].size))
      BY <1>8, <2>5, TxComTail
    <3>6. NoThreadYet' /\ InFlightCounted' /\ TxiClear' /\ LockOwned'
      BY <2>1, <2>2, <3>1, <3>2
    <3>7. \A d \in CPUs \ {c} : pc'[d] # "tx" /\ ~Cut(d)'
      BY <2>2, <3>1, <3>2
    <3>8. txi'[c] < TxWidth(req'[c].size)
      BY <3>1, <3>2
    <3>9. TailIsWrite'
      BY <2>1, <3>4, <3>5, <3>7, <3>8
    <3>10. QED
      BY <3>3, <3>6, <3>9
  <2>6. QED
    BY <2>4, <2>5
<1>9. ASSUME NEW c \in CPUs, TxBroken(c) PROVE RInv'
  BY <1>9 DEF TxBroken
<1>10. CASE StdinByte
  BY <1>10 DEF StdinByte
<1>11. CASE StdinEof
  BY <1>11 DEF StdinEof
<1>12. CASE StdoutClose
  BY <1>12 DEF StdoutClose
<1>13. CASE UNCHANGED vars
  BY <1>13 DEF vars
<1>14. QED
  BY <1>1, <1>2, <1>3, <1>4, <1>5, <1>6, <1>7, <1>8, <1>9, <1>10, <1>11, <1>12,
     <1>13 DEF Next, Thread

(* The controller lock keeps the state within RInv. *)
THEOREM DebugInvariant == Spec => []RInv
BY RInvInit, RInvStep, PTL DEF Spec

(* Every reachable state of the debug device has the types of TypeOK: in *)
(* particular every byte written to stdout is byte i < n of an n-byte     *)
(* write of a request some thread has read.                               *)
THEOREM DebugTypeCorrect == Spec => []TypeOK
BY DebugInvariant, PTL DEF RInv

-----------------------------------------------------------------------------
(* The refinement. The state of SerialDevice as Abs maps it. *)

servedBar == [c \in CPUs |-> IF InFlight(c) THEN nreq[c] - 1 ELSE nreq[c]]

aliveBar == [c \in CPUs |-> pc[c] # "exited"]

rxReadBar == [l \in {0} |-> [i \in 1..inRead |-> i]]

txLogBar == [l \in {0} |-> SubSeq(out, 1, Len(out) - Pending)]

LEMMA AbsVars == Abs!vars = <<servedBar, aliveBar, rxReadBar, txLogBar>>
BY DEF Abs!vars, servedBar, aliveBar, rxReadBar, txLogBar

(* Pending is the byte count of the one write cut short, if any. *)
LEMMA PendingIsCut ==
  ASSUME RInv, NEW c \in CPUs, Cut(c)
  PROVE  Pending = txi[c]
<1>1. \A d \in CPUs : Cut(d) => d = c
  BY DEF RInv, LockOwned
<1>2. (CHOOSE d \in CPUs : Cut(d)) = c
  BY <1>1
<1>3. QED
  BY <1>2 DEF Pending

LEMMA PendingNone ==
  ASSUME \A c \in CPUs : ~Cut(c)
  PROVE  Pending = 0
BY DEF Pending

(* The debug device starts where SerialDevice starts. *)
LEMMA RefInit == Init => Abs!Init
<1> SUFFICES ASSUME Init PROVE Abs!Init
  OBVIOUS
<1>1. \A c \in CPUs : ~Cut(c) /\ ~InFlight(c)
  BY DEF Init, Cut, InFlight
<1>2. Pending = 0
  BY <1>1, PendingNone
<1>3. txLogBar = [l \in {0} |-> <<>>]
  BY <1>2 DEF Init, txLogBar
<1>4. rxReadBar = [l \in {0} |-> <<>>]
  BY DEF Init, rxReadBar
<1>5. servedBar = [c \in CPUs |-> 0] /\ aliveBar = [c \in CPUs |-> TRUE]
  BY <1>1 DEF Init, servedBar, aliveBar
<1>6. QED
  BY <1>3, <1>4, <1>5 DEF Abs!Init, servedBar, aliveBar, rxReadBar, txLogBar

(* A step that neither cuts a write nor resumes one, and writes no byte, *)
(* leaves the mapped stream alone.                                         *)
LEMMA TxLogSame ==
  ASSUME RInv, RInv',
         \A c \in CPUs : (Cut(c)' <=> Cut(c)) /\ (Cut(c) => txi'[c] = txi[c]),
         UNCHANGED out
  PROVE  txLogBar' = txLogBar
<1>1. Pending' = Pending
  <2>1. CASE \E c \in CPUs : Cut(c)
    <3>1. PICK c \in CPUs : Cut(c)
      BY <2>1
    <3>2. Pending = txi[c]
      BY <3>1, PendingIsCut
    <3>3. \A d \in CPUs : Cut(d)' => d = c
      BY <3>1 DEF RInv, LockOwned
    <3>4. Pending' = txi'[c]
      BY <3>1, <3>3 DEF Pending
    <3>5. QED
      BY <3>1, <3>2, <3>4
  <2>2. CASE \A c \in CPUs : ~Cut(c)
    <3>1. \A c \in CPUs : ~Cut(c)'
      BY <2>2
    <3>2. QED
      BY <2>2, <3>1 DEF Pending
  <2>3. QED
    BY <2>1, <2>2
<1>2. QED
  BY <1>1 DEF txLogBar

(* A step that moves no thread across ReadIoRequest or WritePioResponse,  *)
(* and writes no byte, is a stutter of SerialDevice.                      *)
LEMMA RefStutter ==
  ASSUME RInv, RInv', servedBar' = servedBar, aliveBar' = aliveBar,
         \A c \in CPUs : (Cut(c)' <=> Cut(c)) /\ (Cut(c) => txi'[c] = txi[c]),
         UNCHANGED <<inRead, out>>
  PROVE  UNCHANGED Abs!vars
<1>1. rxReadBar' = rxReadBar /\ txLogBar' = txLogBar
  BY TxLogSame DEF rxReadBar
<1>2. QED
  BY <1>1 DEF Abs!vars, servedBar, aliveBar, rxReadBar, txLogBar

(* The last byte of a write: the txi bytes already at the end of stdout and *)
(* this one are the whole value, in order.                                   *)
LEMMA CompleteWrite ==
  ASSUME NEW o \in Seq(Items), NEW k \in 0..3, NEW c, NEW r, k <= Len(o),
         \A j \in 0..(k - 1) : o[Len(o) - k + 1 + j] = Byte(c, r, j, k + 1)
  PROVE  Append(o, Byte(c, r, k, k + 1))
           = SubSeq(o, 1, Len(o) - k) \o [j \in 1..(k + 1) |-> Byte(c, r, j - 1, k + 1)]
<1> DEFINE lhs == Append(o, Byte(c, r, k, k + 1))
           rhs == SubSeq(o, 1, Len(o) - k) \o [j \in 1..(k + 1) |-> Byte(c, r, j - 1, k + 1)]
<1>1. Len(lhs) = Len(o) + 1 /\ Len(rhs) = Len(o) + 1
  OBVIOUS
<1>2. \A i \in 1..(Len(o) - k) : lhs[i] = o[i] /\ rhs[i] = o[i]
  OBVIOUS
<1>3. \A i \in (Len(o) - k + 1)..(Len(o) + 1) :
        lhs[i] = Byte(c, r, i - Len(o) + k - 1, k + 1) /\ rhs[i] = Byte(c, r, i - Len(o) + k - 1, k + 1)
  <2> SUFFICES ASSUME NEW i \in (Len(o) - k + 1)..(Len(o) + 1)
               PROVE  lhs[i] = Byte(c, r, i - Len(o) + k - 1, k + 1)
                      /\ rhs[i] = Byte(c, r, i - Len(o) + k - 1, k + 1)
    OBVIOUS
  <2>1. rhs[i] = Byte(c, r, i - Len(o) + k - 1, k + 1)
    <3>1. SubSeq(o, 1, Len(o) - k) \in Seq(Items) /\ Len(SubSeq(o, 1, Len(o) - k)) = Len(o) - k
      OBVIOUS
    <3>2. i - (Len(o) - k) \in 1..(k + 1)
      OBVIOUS
    <3>3. rhs[i] = [j \in 1..(k + 1) |-> Byte(c, r, j - 1, k + 1)][i - (Len(o) - k)]
      BY <3>1, <3>2
    <3>4. [j \in 1..(k + 1) |-> Byte(c, r, j - 1, k + 1)][i - (Len(o) - k)]
            = Byte(c, r, i - (Len(o) - k) - 1, k + 1)
      BY <3>2
    <3>5. i - (Len(o) - k) - 1 = i - Len(o) + k - 1
      OBVIOUS
    <3>6. QED
      BY <3>3, <3>4, <3>5
  <2>2. CASE i = Len(o) + 1
    <3>1. lhs[Len(o) + 1] = Byte(c, r, k, k + 1)
      OBVIOUS
    <3>2. i - Len(o) + k - 1 = k
      BY <2>2
    <3>3. Byte(c, r, i - Len(o) + k - 1, k + 1) = Byte(c, r, k, k + 1)
      BY <3>2
    <3>4. lhs[i] = Byte(c, r, k, k + 1)
      BY <2>2, <3>1
    <3>5. QED
      BY <2>1, <3>3, <3>4
  <2>3. CASE i <= Len(o)
    <3>1. i - Len(o) + k - 1 \in 0..(k - 1) /\ Len(o) - k + 1 + (i - Len(o) + k - 1) = i
      BY <2>3
    <3>2. lhs[i] = o[i]
      BY <2>3
    <3>3. PICK j \in 0..(k - 1) : j = i - Len(o) + k - 1
      BY <3>1
    <3>4. o[Len(o) - k + 1 + j] = Byte(c, r, j, k + 1)
      OBVIOUS
    <3>5. o[i] = Byte(c, r, i - Len(o) + k - 1, k + 1)
      BY <3>1, <3>3, <3>4
    <3>6. QED
      BY <2>1, <3>2, <3>5
  <2>4. QED
    BY <2>1, <2>2, <2>3
<1>5. \A i \in 1..Len(lhs) : lhs[i] = rhs[i]
  BY <1>1, <1>2, <1>3
<1>6. lhs \in Seq(Items \cup {Byte(c, r, k, k + 1)}) /\ rhs \in Seq(Items \cup {Byte(c, r, j, k + 1) : j \in 0..k})
  OBVIOUS
<1>7. lhs = [i \in 1..Len(o) + 1 |-> lhs[i]] /\ rhs = [i \in 1..Len(o) + 1 |-> rhs[i]]
  BY <1>1, <1>6
<1>8. [i \in 1..Len(o) + 1 |-> lhs[i]] = [i \in 1..Len(o) + 1 |-> rhs[i]]
  BY <1>1, <1>5
<1>9. QED
  BY <1>7, <1>8

(* Every step of the debug device is a step of SerialDevice or leaves its *)
(* mapped state alone.                                                      *)
LEMMA RefStep == RInv /\ RInv' /\ [Next]_vars => [Abs!Next]_Abs!vars
<1> SUFFICES ASSUME RInv, RInv', [Next]_vars PROVE [Abs!Next]_Abs!vars
  OBVIOUS
<1> USE DEF RInv, TypeOK
<1>1. CASE Handshake
  <2>1. \A c \in CPUs : pc[c] = "none" /\ pc'[c] \in {"none", "idle"}
    BY <1>1 DEF Handshake, NoThreadYet
  <2>2. servedBar' = servedBar /\ aliveBar' = aliveBar
    BY <1>1, <2>1 DEF Handshake, servedBar, aliveBar, InFlight
  <2>3. \A c \in CPUs : ~Cut(c) /\ ~Cut(c)'
    BY <2>1 DEF Cut
  <2>4. QED
    BY <1>1, <2>2, <2>3, RefStutter DEF Handshake
<1>2. ASSUME NEW c \in CPUs, ReadRequest(c) PROVE [Abs!Next]_Abs!vars
  <2>1. servedBar' = servedBar /\ aliveBar' = aliveBar
    BY <1>2 DEF ReadRequest, servedBar, aliveBar, InFlight
  <2>2. \A d \in CPUs : (Cut(d)' <=> Cut(d)) /\ (Cut(d) => txi'[d] = txi[d])
    BY <1>2 DEF ReadRequest, Cut
  <2>3. QED
    BY <1>2, <2>1, <2>2, RefStutter DEF ReadRequest
<1>3. ASSUME NEW c \in CPUs, BadRequest(c) PROVE [Abs!Next]_Abs!vars
  <2>1. servedBar' = [servedBar EXCEPT ![c] = @ + 1] /\ servedBar[c] < MaxReq
    BY <1>3 DEF BadRequest, servedBar, InFlight
  <2>2. aliveBar' = [aliveBar EXCEPT ![c] = FALSE] /\ aliveBar[c]
    BY <1>3 DEF BadRequest, aliveBar
  <2>3. txLogBar' = txLogBar /\ rxReadBar' = rxReadBar
    <3>1. \A d \in CPUs : (Cut(d)' <=> Cut(d)) /\ (Cut(d) => txi'[d] = txi[d])
      BY <1>3 DEF BadRequest, Cut, TxiClear
    <3>2. QED
      BY <1>3, <3>1, TxLogSame DEF BadRequest, rxReadBar
  <2>4. Abs!Halt(c)
    BY <2>1, <2>2, <2>3 DEF Abs!Halt, Abs!Ready, servedBar, aliveBar, rxReadBar, txLogBar
  <2>5. QED
    BY <2>4 DEF Abs!Next
<1>4. ASSUME NEW c \in CPUs, RxInvalid(c) PROVE [Abs!Next]_Abs!vars
  <2>1. servedBar' = [servedBar EXCEPT ![c] = @ + 1] /\ servedBar[c] < MaxReq
    <3>1. InFlight(c) /\ ~InFlight(c)' /\ nreq' = nreq
      BY <1>4 DEF RxInvalid, InFlight
    <3>2. \A d \in CPUs \ {c} : InFlight(d)' <=> InFlight(d)
      BY <1>4 DEF RxInvalid, InFlight
    <3>3. nreq[c] \in 1..MaxReq
      BY <3>1 DEF InFlightCounted
    <3>4. servedBar'[c] = nreq[c] /\ servedBar[c] = nreq[c] - 1
      BY <3>1 DEF servedBar
    <3>7. servedBar'[c] = servedBar[c] + 1 /\ servedBar[c] < MaxReq
      BY <3>3, <3>4, DebugAssumption
    <3>5. \A d \in CPUs \ {c} : servedBar'[d] = servedBar[d]
      BY <3>1, <3>2 DEF servedBar
    <3>6. QED
      BY <3>5, <3>7 DEF servedBar
  <2>2. aliveBar' = aliveBar /\ aliveBar[c]
    BY <1>4 DEF RxInvalid, aliveBar
  <2>3. txLogBar' = txLogBar /\ rxReadBar' = rxReadBar
    <3>1. \A d \in CPUs : (Cut(d)' <=> Cut(d)) /\ (Cut(d) => txi'[d] = txi[d])
      BY <1>4 DEF RxInvalid, Cut
    <3>2. QED
      BY <1>4, <3>1, TxLogSame DEF RxInvalid, rxReadBar
  <2>4. Abs!Serve(c)
    BY <2>1, <2>2, <2>3 DEF Abs!Serve, Abs!Ready, servedBar, aliveBar, rxReadBar, txLogBar
  <2>5. QED
    BY <2>4 DEF Abs!Next
<1>5. ASSUME NEW c \in CPUs, Acquire(c) PROVE [Abs!Next]_Abs!vars
  <2>1. servedBar' = servedBar /\ aliveBar' = aliveBar
    BY <1>5 DEF Acquire, servedBar, aliveBar, InFlight
  <2>2. \A d \in CPUs : ~Cut(d)
    BY <1>5, DebugAssumption DEF Acquire, LockOwned
  <2>3. \A d \in CPUs : ~Cut(d)' \/ (d = c /\ txi'[d] = 0)
    BY <1>5, <2>2 DEF Acquire, Cut, TxiClear
  <2>4. txLogBar' = txLogBar
    <3>1. Pending = 0 /\ Pending' = 0
      BY <2>2, <2>3 DEF Pending
    <3>2. QED
      BY <1>5, <3>1 DEF Acquire, txLogBar
  <2>5. QED
    BY <1>5, <2>1, <2>4 DEF Acquire, Abs!vars, servedBar, aliveBar, rxReadBar, txLogBar
<1>6. ASSUME NEW c \in CPUs, RxCom(c) PROVE [Abs!Next]_Abs!vars
  <2>1. servedBar' = [servedBar EXCEPT ![c] = @ + 1] /\ servedBar[c] < MaxReq
    <3>1. InFlight(c) /\ ~InFlight(c)' /\ nreq' = nreq
      BY <1>6 DEF RxCom, InFlight
    <3>2. \A d \in CPUs \ {c} : InFlight(d)' <=> InFlight(d)
      BY <1>6 DEF RxCom, InFlight
    <3>3. nreq[c] \in 1..MaxReq
      BY <3>1 DEF InFlightCounted
    <3>4. servedBar'[c] = nreq[c] /\ servedBar[c] = nreq[c] - 1
      BY <3>1 DEF servedBar
    <3>7. servedBar'[c] = servedBar[c] + 1 /\ servedBar[c] < MaxReq
      BY <3>3, <3>4, DebugAssumption
    <3>5. \A d \in CPUs \ {c} : servedBar'[d] = servedBar[d]
      BY <3>1, <3>2 DEF servedBar
    <3>6. QED
      BY <3>5, <3>7 DEF servedBar
  <2>2. aliveBar' = aliveBar /\ aliveBar[c]
    BY <1>6 DEF RxCom, aliveBar
  <2>3. txLogBar' = txLogBar
    <3>1. \A d \in CPUs : (Cut(d)' <=> Cut(d)) /\ (Cut(d) => txi'[d] = txi[d])
      BY <1>6 DEF RxCom, Cut, TxiClear
    <3>2. QED
      BY <1>6, <3>1, TxLogSame DEF RxCom
  <2>4. rxReadBar' = [rxReadBar EXCEPT ![0] = Append(@, Len(@) + 1)]
    <3>1. inRead' = inRead + 1 /\ inRead \in Nat
      BY <1>6 DEF RxCom
    <3>2. [i \in 1..inRead + 1 |-> i] = Append([i \in 1..inRead |-> i], Len([i \in 1..inRead |-> i]) + 1)
      BY <3>1
    <3>3. QED
      BY <3>1, <3>2 DEF rxReadBar
  <2>5. req[c].port \in Ports /\ [p \in Ports |-> 0][req[c].port] = 0
    BY DEF Request
  <2>6. \E p \in Ports : Abs!Read(c, p)
    BY <2>1, <2>2, <2>3, <2>4, <2>5
    DEF Abs!Read, Abs!Ready, servedBar, aliveBar, rxReadBar, txLogBar
  <2>7. QED
    BY <2>6 DEF Abs!Next
<1>7. ASSUME NEW c \in CPUs, RxEof(c) PROVE [Abs!Next]_Abs!vars
  <2>1. servedBar' = [servedBar EXCEPT ![c] = @ + 1] /\ servedBar[c] < MaxReq
    <3>1. InFlight(c) /\ ~InFlight(c)' /\ nreq' = nreq
      BY <1>7 DEF RxEof, InFlight
    <3>2. \A d \in CPUs \ {c} : InFlight(d)' <=> InFlight(d)
      BY <1>7 DEF RxEof, InFlight
    <3>3. nreq[c] \in 1..MaxReq
      BY <3>1 DEF InFlightCounted
    <3>4. servedBar'[c] = nreq[c] /\ servedBar[c] = nreq[c] - 1
      BY <3>1 DEF servedBar
    <3>7. servedBar'[c] = servedBar[c] + 1 /\ servedBar[c] < MaxReq
      BY <3>3, <3>4, DebugAssumption
    <3>5. \A d \in CPUs \ {c} : servedBar'[d] = servedBar[d]
      BY <3>1, <3>2 DEF servedBar
    <3>6. QED
      BY <3>5, <3>7 DEF servedBar
  <2>2. aliveBar' = [aliveBar EXCEPT ![c] = FALSE] /\ aliveBar[c]
    BY <1>7 DEF RxEof, aliveBar
  <2>3. txLogBar' = txLogBar /\ rxReadBar' = rxReadBar
    <3>1. \A d \in CPUs : (Cut(d)' <=> Cut(d)) /\ (Cut(d) => txi'[d] = txi[d])
      BY <1>7 DEF RxEof, Cut, TxiClear
    <3>2. QED
      BY <1>7, <3>1, TxLogSame DEF RxEof, rxReadBar
  <2>4. Abs!Halt(c)
    BY <2>1, <2>2, <2>3 DEF Abs!Halt, Abs!Ready, servedBar, aliveBar, rxReadBar, txLogBar
  <2>5. QED
    BY <2>4 DEF Abs!Next
<1>8. ASSUME NEW c \in CPUs, TxCom(c) PROVE [Abs!Next]_Abs!vars
  <2> DEFINE n == TxWidth(req[c].size)
             b == Byte(c, nreq[c], txi[c], n)
  <2>1. /\ pc[c] = "tx" /\ lock = c /\ out' = Append(out, b)
        /\ UNCHANGED <<req, nreq, inRead>>
        /\ txi[c] \in 0..3 /\ txi[c] <= Len(out) /\ nreq[c] \in 1..MaxReq
        /\ \A j \in 0..(txi[c] - 1) : out[Len(out) - txi[c] + 1 + j] = Byte(c, nreq[c], j, n)
    <3>1. pc[c] = "tx" /\ out' = Append(out, b) /\ UNCHANGED <<req, nreq, inRead>>
      BY <1>8 DEF TxCom
    <3>2. Cut(c) /\ InFlight(c)
      BY <3>1 DEF Cut, InFlight
    <3>3. lock = c /\ nreq[c] \in 1..MaxReq
      BY <3>2 DEF LockOwned, InFlightCounted
    <3>4. txi[c] \in 0..3 /\ txi[c] <= Len(out)
          /\ \A j \in 0..(txi[c] - 1) : out[Len(out) - txi[c] + 1 + j] = Byte(c, nreq[c], j, n)
      BY <3>2 DEF TailIsWrite
    <3>5. QED
      BY <3>1, <3>3, <3>4
  <2>2. Pending = txi[c]
    BY <2>1, PendingIsCut DEF Cut
  <2>3. \A d \in CPUs \ {c} : UNCHANGED <<pc[d], txi[d]>> /\ ~Cut(d) /\ ~Cut(d)'
    BY <1>8, <2>1 DEF TxCom, LockOwned, Cut
  <2>4. aliveBar' = aliveBar /\ rxReadBar' = rxReadBar
    BY <1>8, <2>1 DEF TxCom, aliveBar, rxReadBar
  <2>5. CASE txi[c] + 1 # n
    <3>1. pc' = pc /\ txi'[c] = txi[c] + 1
      BY <1>8, <2>5 DEF TxCom
    <3>2. servedBar' = servedBar
      BY <2>1, <3>1 DEF servedBar, InFlight
    <3>3. Pending' = txi[c] + 1
      <4>1. Cut(c)'
        BY <2>1, <3>1 DEF Cut
      <4>2. QED
        BY <2>3, <3>1, <4>1 DEF Pending
    <3>4. SubSeq(out', 1, Len(out') - Pending') = SubSeq(out, 1, Len(out) - Pending)
      <4> DEFINE k == Len(out) - txi[c]
      <4>1. Len(out') - Pending' = k /\ Len(out) - Pending = k /\ k \in 0..Len(out)
        BY <2>1, <2>2, <3>3
      <4>2. \A i \in 1..k : out'[i] = out[i]
        BY <2>1, <4>1
      <4>3. SubSeq(out', 1, k) = SubSeq(out, 1, k)
        BY <4>1, <4>2
      <4>4. QED
        BY <4>1, <4>3
    <3>5. txLogBar' = txLogBar
      BY <3>4 DEF txLogBar
    <3>6. QED
      BY <2>4, <3>2, <3>5 DEF Abs!vars, servedBar, aliveBar, rxReadBar, txLogBar
  <2>6. CASE txi[c] + 1 = n
    <3>1. pc' = [pc EXCEPT ![c] = "idle"] /\ txi'[c] = 0
      BY <1>8, <2>6 DEF TxCom
    <3>2. servedBar' = [servedBar EXCEPT ![c] = @ + 1] /\ servedBar[c] < MaxReq
          /\ servedBar[c] + 1 = nreq[c]
      <4>1. InFlight(c) /\ ~InFlight(c)'
        BY <2>1, <3>1 DEF InFlight
      <4>2. \A d \in CPUs \ {c} : InFlight(d)' <=> InFlight(d)
        BY <3>1 DEF InFlight
      <4>3. servedBar'[c] = nreq[c] /\ servedBar[c] = nreq[c] - 1
        BY <2>1, <4>1 DEF servedBar
      <4>4. servedBar'[c] = servedBar[c] + 1 /\ servedBar[c] < MaxReq
        BY <2>1, <4>3, DebugAssumption
      <4>5. \A d \in CPUs \ {c} : servedBar'[d] = servedBar[d]
        BY <2>1, <4>2 DEF servedBar
      <4>6. QED
        BY <4>3, <4>4, <4>5 DEF servedBar
    <3>3. Pending' = 0
      <4>1. ~Cut(c)'
        BY <3>1 DEF Cut
      <4>2. QED
        BY <2>3, <4>1 DEF Pending
    <3>4. out' = SubSeq(out, 1, Len(out) - txi[c]) \o [j \in 1..n |-> Byte(c, nreq[c], j - 1, n)]
      <4>1. out \in Seq(Items)
        OBVIOUS
      <4>2. \A j \in 0..(txi[c] - 1) :
              out[Len(out) - txi[c] + 1 + j] = Byte(c, nreq[c], j, txi[c] + 1)
        BY <2>1, <2>6
      <4>3. Append(out, Byte(c, nreq[c], txi[c], txi[c] + 1))
              = SubSeq(out, 1, Len(out) - txi[c])
                \o [j \in 1..(txi[c] + 1) |-> Byte(c, nreq[c], j - 1, txi[c] + 1)]
        <5>1. PICK o \in Seq(Items), k \in 0..3 : o = out /\ k = txi[c]
          BY <2>1, <4>1
        <5>2. k <= Len(o) /\ \A j \in 0..(k - 1) : o[Len(o) - k + 1 + j] = Byte(c, nreq[c], j, k + 1)
          BY <2>1, <4>2, <5>1
        <5>3. Append(o, Byte(c, nreq[c], k, k + 1))
                = SubSeq(o, 1, Len(o) - k) \o [j \in 1..(k + 1) |-> Byte(c, nreq[c], j - 1, k + 1)]
          BY <5>2, CompleteWrite
        <5>4. QED
          BY <5>1, <5>3
      <4>4. QED
        BY <2>1, <2>6, <4>3
    <3>5. txLogBar' = [txLogBar EXCEPT ![0] = @ \o Abs!WriteBytes(c, servedBar[c] + 1, Abs!Width(req[c].size))]
      <4>1. Abs!Width(req[c].size) = n
        BY DEF Abs!Width, TxWidth
      <4>2. Abs!WriteBytes(c, servedBar[c] + 1, n) = [j \in 1..n |-> Byte(c, nreq[c], j - 1, n)]
        BY <3>2 DEF Abs!WriteBytes, Abs!Byte, Byte
      <4>3. SubSeq(out', 1, Len(out') - 0) = out'
        BY <2>1
      <4>4. QED
        BY <2>2, <3>3, <3>4, <4>1, <4>2, <4>3 DEF txLogBar
    <3>6. req[c].port \in Ports /\ req[c].size \in SizeCodes /\ [p \in Ports |-> 0][req[c].port] = 0
      BY DEF Request
    <3>7. \E p \in Ports, s \in SizeCodes : Abs!Write(c, p, s)
      BY <2>1, <2>4, <3>2, <3>5, <3>6
      DEF Abs!Write, Abs!Ready, servedBar, aliveBar, rxReadBar, txLogBar
    <3>8. QED
      BY <3>7 DEF Abs!Next
  <2>7. QED
    BY <2>5, <2>6
<1>9. ASSUME NEW c \in CPUs, TxBroken(c) PROVE [Abs!Next]_Abs!vars
  <2>1. servedBar' = [servedBar EXCEPT ![c] = @ + 1] /\ servedBar[c] < MaxReq
    <3>1. InFlight(c) /\ ~InFlight(c)' /\ nreq' = nreq
      BY <1>9 DEF TxBroken, InFlight
    <3>2. \A d \in CPUs \ {c} : InFlight(d)' <=> InFlight(d)
      BY <1>9 DEF TxBroken, InFlight
    <3>3. nreq[c] \in 1..MaxReq
      BY <3>1 DEF InFlightCounted
    <3>4. servedBar'[c] = nreq[c] /\ servedBar[c] = nreq[c] - 1
      BY <3>1 DEF servedBar
    <3>7. servedBar'[c] = servedBar[c] + 1 /\ servedBar[c] < MaxReq
      BY <3>3, <3>4, DebugAssumption
    <3>5. \A d \in CPUs \ {c} : servedBar'[d] = servedBar[d]
      BY <3>1, <3>2 DEF servedBar
    <3>6. QED
      BY <3>5, <3>7 DEF servedBar
  <2>2. aliveBar' = [aliveBar EXCEPT ![c] = FALSE] /\ aliveBar[c]
    BY <1>9 DEF TxBroken, aliveBar
  <2>3. txLogBar' = txLogBar /\ rxReadBar' = rxReadBar
    <3>1. pc[c] = "tx" /\ lock' = c /\ UNCHANGED <<txi, out, inRead>>
      BY <1>9 DEF TxBroken, LockOwned
    <3>2. Pending = txi[c]
      BY <3>1, PendingIsCut DEF Cut
    <3>3. \A d \in CPUs \ {c} : ~Cut(d)'
      BY <3>1 DEF LockOwned
    <3>4. Pending' = txi[c]
      <4>1. CASE txi[c] > 0
        <5>1. Cut(c)'
          BY <1>9, <3>1, <4>1 DEF TxBroken, Cut
        <5>2. QED
          BY <3>1, <3>3, <5>1 DEF Pending
      <4>2. CASE txi[c] = 0
        <5>1. ~Cut(c)'
          BY <1>9, <3>1, <4>2 DEF TxBroken, Cut
        <5>2. QED
          BY <3>3, <4>2, <5>1 DEF Pending
      <4>3. txi[c] \in 0..3
        OBVIOUS
      <4>4. QED
        BY <4>1, <4>2, <4>3
    <3>5. QED
      BY <3>1, <3>2, <3>4 DEF txLogBar, rxReadBar
  <2>4. Abs!Halt(c)
    BY <2>1, <2>2, <2>3 DEF Abs!Halt, Abs!Ready, servedBar, aliveBar, rxReadBar, txLogBar
  <2>5. QED
    BY <2>4 DEF Abs!Next
<1>10. CASE StdinByte \/ StdinEof \/ StdoutClose
  BY <1>10 DEF StdinByte, StdinEof, StdoutClose, Abs!vars, servedBar, aliveBar,
               rxReadBar, txLogBar, InFlight, Cut, Pending
<1>11. CASE UNCHANGED vars
  BY <1>11 DEF vars, Abs!vars, servedBar, aliveBar, rxReadBar, txLogBar, InFlight,
               Cut, Pending
<1>12. QED
  BY <1>1, <1>2, <1>3, <1>4, <1>5, <1>6, <1>7, <1>8, <1>9, <1>10, <1>11
  DEF Next, Thread

(* The debug device of ooowsserial-debug.py implements SerialDevice: every *)
(* request is served as one step under the controller lock, a byte read   *)
(* returns the next byte of stdin, a wider read consumes nothing, and the *)
(* bytes of a write reach stdout together, never interleaved with another *)
(* vCPU's; a thread that dies serves nothing more. For every set of vCPUs, *)
(* ports and size codes and every bound.                                  *)
THEOREM DebugRefinement == Spec => ImplementsSerialDevice
<1>1. Spec => []RInv
  BY DebugInvariant
<1>2. QED
  BY <1>1, RefInit, RefStep, PTL DEF Spec, ImplementsSerialDevice, Abs!Spec

=============================================================================
