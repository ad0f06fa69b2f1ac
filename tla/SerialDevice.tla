---------------------------- MODULE SerialDevice ----------------------------
(***************************************************************************)
(* What a serial controller promises the guest (spec 4.3, 5): requests    *)
(* of all vCPU channels are served one at a time, each as one step under  *)
(* the controller lock. A byte read of a COM line returns the next byte of *)
(* the line's inbound stream; a wider read returns 0 and consumes nothing; *)
(* a write appends every byte of the value to the line's outbound stream  *)
(* at once, so no other write can come between them. A channel whose loop *)
(* ends serves nothing more.                                               *)
(*                                                                         *)
(* The detailed models OoowsSerial and OoowsSerialDebug implement it:     *)
(* see SerialRefinement and OoowsSerialDebug.                              *)
(***************************************************************************)
EXTENDS Naturals, Sequences

CONSTANTS
  CPUs,      \* the vCPU channels
  Ports,     \* the COM line registers
  Lines,     \* the byte streams the lines are bridged to
  LineOf,    \* LineOf[p]: the stream of register p
  SizeCodes, \* access-size codes
  MaxReq     \* bound on the requests one channel issues

VARIABLES
  served,    \* served[c]: requests of channel c answered so far
  alive,     \* alive[c]: the loop of channel c still runs
  rxRead,    \* rxRead[l]: bytes of stream l returned to guests
  txLog      \* txLog[l]: bytes written to stream l

vars == <<served, alive, rxRead, txLog>>

(* An outbound byte: byte i of the n-byte write k of channel c. *)
Byte(c, k, i, n) == [len |-> 1, w |-> <<c, k>>, i |-> i, n |-> n]

(* The bytes of an n-byte write, in order. *)
WriteBytes(c, k, n) == [j \in 1..n |-> Byte(c, k, j - 1, n)]

(* The width of a write of size code s (spec 4.3: index s / 2). *)
Width(s) == <<1, 2, 4>>[(s \div 2) + 1]

Init ==
  /\ served = [c \in CPUs |-> 0]
  /\ alive = [c \in CPUs |-> TRUE]
  /\ rxRead = [l \in Lines |-> <<>>]
  /\ txLog = [l \in Lines |-> <<>>]

(* Channel c has a request to serve. *)
Ready(c) == alive[c] /\ served[c] < MaxReq

(* A request with no effect on the streams: a wider-than-byte read. *)
Serve(c) ==
  /\ Ready(c)
  /\ served' = [served EXCEPT ![c] = @ + 1]
  /\ UNCHANGED <<alive, rxRead, txLog>>

(* A byte read of register p: the next byte of its stream. *)
Read(c, p) ==
  LET l == LineOf[p] IN
  /\ Ready(c)
  /\ served' = [served EXCEPT ![c] = @ + 1]
  /\ rxRead' = [rxRead EXCEPT ![l] = Append(@, Len(@) + 1)]
  /\ UNCHANGED <<alive, txLog>>

(* A write of size code s to register p: all its bytes at once. *)
Write(c, p, s) ==
  LET l == LineOf[p] IN
  /\ Ready(c)
  /\ served' = [served EXCEPT ![c] = @ + 1]
  /\ txLog' = [txLog EXCEPT ![l] = @ \o WriteBytes(c, served[c] + 1, Width(s))]
  /\ UNCHANGED <<alive, rxRead>>

(* The loop of channel c ends on the request it has just read. *)
Halt(c) ==
  /\ Ready(c)
  /\ served' = [served EXCEPT ![c] = @ + 1]
  /\ alive' = [alive EXCEPT ![c] = FALSE]
  /\ UNCHANGED <<rxRead, txLog>>

Next ==
  \E c \in CPUs :
    \/ Serve(c)
    \/ Halt(c)
    \/ \E p \in Ports : Read(c, p)
    \/ \E p \in Ports, s \in SizeCodes : Write(c, p, s)

Spec == Init /\ [][Next]_vars
=============================================================================
