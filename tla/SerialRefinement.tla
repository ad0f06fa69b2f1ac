-------------------------- MODULE SerialRefinement --------------------------
(***************************************************************************)
(* OoowsSerial implements SerialDevice. Under the refinement mapping:      *)
(*   - a request is served when its dispatch thread is back in HandleIO's *)
(*     loop: the one a thread holds between ReadIoRequest and             *)
(*     WritePioResponse is not counted yet;                                *)
(*   - a COM line is its own stream;                                      *)
(*   - the outbound stream is what TxCom has put on the queue, less the   *)
(*     bytes of the write still in progress. That write appears in one    *)
(*     step, with its last byte, which is the step that releases the lock. *)
(* The rx history is kept as it is: the detailed RxCom returns the head of *)
(* the queue, and the abstract Read returns the next byte of the stream;   *)
(* they agree because of RxInOrder.                                        *)
(***************************************************************************)
EXTENDS OoowsSerial

(* The thread has read a request and not yet written the response. *)
InFlight(c) == pc[c] \in {"lock", "rx", "tx"}

servedBar == [c \in CPUs |-> IF InFlight(c) THEN nreq[c] - 1 ELSE nreq[c]]

aliveBar == [c \in CPUs |-> pc[c] # "exited"]

(* The threads inside TxCom on port p (at most one: it holds the lock). *)
Writers(p) == {c \in CPUs : pc[c] = "tx" /\ req[c].port = p}

txLogBar ==
  [p \in Ports |->
     IF Writers(p) = {} THEN txLog[p]
     ELSE SubSeq(txLog[p], 1, Len(txLog[p]) - txi[CHOOSE c \in Writers(p) : TRUE])]

Abs == INSTANCE SerialDevice
         WITH Lines <- Ports, LineOf <- [p \in Ports |-> p],
              served <- servedBar, alive <- aliveBar,
              rxRead <- rxRead, txLog <- txLogBar

(* Spec 4.3 and 5: register dispatch is serialised by the controller lock. *)
(* Every behaviour of the device, whatever the bridge threads and the      *)
(* peers do, is one where each request of each vCPU is served in a single *)
(* step: a byte read returns the next inbound byte, and a write's bytes   *)
(* reach the outbound queue together.                                     *)
ImplementsSerialDevice == Abs!Spec
=============================================================================
