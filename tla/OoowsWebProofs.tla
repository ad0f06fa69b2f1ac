-------------------------- MODULE OoowsWebProofs ---------------------------
(***************************************************************************)
(* Proofs about OoowsWeb, for every value of the constants that satisfies  *)
(* WebAssumption.                                                          *)
(***************************************************************************)
EXTENDS OoowsWeb, TLAPS

(***************************************************************************)
(* The inductive invariant. NoOrphanVmm is not inductive by itself: /start *)
(* must know that the new process index is unborn, /new that the id it    *)
(* takes has no worker with a process, and /delete and /stop that the     *)
(* worker of a process carries the row's name. Until vmms is loaded there *)
(* are no rows, workers or processes.                                      *)
(***************************************************************************)
Unloaded ==
  ~loaded => /\ Rows(table) = {}
             /\ DOMAIN vmms = {}
             /\ nprocs = 0

(* Process indices above nprocs are the ones Popen has not used. *)
Unborn == \A k \in 1..MaxProcs : pst[k] = "unborn" <=> nprocs < k

(* Names are unique in the vms table (the check of /new). *)
TableUnique ==
  \A i, j \in Rows(table) : table[i] = table[j] => i = j

(* A worker of an id with no row has never been started. *)
RowlessIdle == \A i \in DOMAIN vmms : table[i] = NoName => vmms[i].proc = 0

(* Workers point at processes Popen has started. *)
ProcsStarted == \A i \in DOMAIN vmms : vmms[i].proc <= nprocs

IInv ==
  /\ TypeOK
  /\ Unloaded
  /\ Unborn
  /\ TableUnique
  /\ RowlessIdle
  /\ ProcsStarted
  /\ WorkerMatchesRow
  /\ NoOrphanVmm
-----------------------------------------------------------------------------
(* The bounds are naturals and NoName is no name (WebAssumption). *)
LEMMA BoundsNat == MaxProcs \in Nat /\ VM_LIMIT \in Nat /\ NoName \notin Names
  BY WebAssumption

(* A fresh VmmWorker is a Worker, whatever its name. *)
LEMMA NewWorkerType ==
  ASSUME NEW n \in Names \cup {NoName}
  PROVE  NewWorker(n) \in Worker /\ NewWorker(n).proc = 0
  BY BoundsNat DEF NewWorker, Worker, ThreadStates

(***************************************************************************)
(* What get_vmm returns, over a table tbl: the dict of workers, loaded     *)
(* from tbl if it was None, with a worker for id i. An existing worker is  *)
(* returned as it was; a new one has no process; a worker loaded from a   *)
(* row has the row's name.                                                 *)
(***************************************************************************)
LEMMA GetVmmFacts ==
  ASSUME TypeOK, ~loaded => DOMAIN vmms = {},
         NEW tbl \in [Ids -> Names \cup {NoName}], NEW i \in Ids
  PROVE  LET g == GetVmm(tbl, i) IN
         /\ DOMAIN g = (IF loaded THEN DOMAIN vmms ELSE Rows(tbl)) \cup {i}
         /\ \A j \in DOMAIN vmms : g[j] = vmms[j]
         /\ \A j \in DOMAIN g : g[j] \in Worker
         /\ \A j \in DOMAIN g \ DOMAIN vmms : g[j].proc = 0
         /\ ~loaded => \A r \in Rows(tbl) : g[r].name = tbl[r]
  <1> DEFINE base == IF loaded THEN vmms
                     ELSE [j \in Rows(tbl) |-> NewWorker(tbl[j])]
             g == GetVmm(tbl, i)
  <1>1. g = [j \in DOMAIN base \cup {i} |->
               IF j \in DOMAIN base THEN base[j] ELSE NewWorker(NoName)]
    BY DEF GetVmm
  <1>2. DOMAIN base = IF loaded THEN DOMAIN vmms ELSE Rows(tbl)
    OBVIOUS
  <1>3. \A j \in DOMAIN base : base[j] \in Worker
    <2>1. CASE loaded
      BY <2>1 DEF TypeOK
    <2>2. CASE ~loaded
      BY <2>2, NewWorkerType DEF Rows
    <2>3. QED
      BY <2>1, <2>2
  <1>4. \A j \in DOMAIN base \ DOMAIN vmms : base[j].proc = 0
    BY NewWorkerType DEF Rows
  <1>5. DOMAIN g = (IF loaded THEN DOMAIN vmms ELSE Rows(tbl)) \cup {i}
    BY <1>1, <1>2
  <1>6. \A j \in DOMAIN vmms : g[j] = vmms[j]
    BY <1>1
  <1>7. \A j \in DOMAIN g : g[j] \in Worker
    BY <1>1, <1>3, NewWorkerType
  <1>8. \A j \in DOMAIN g \ DOMAIN vmms : g[j].proc = 0
    BY <1>1, <1>4, NewWorkerType
  <1>9. ~loaded => \A r \in Rows(tbl) : g[r].name = tbl[r]
    BY <1>1 DEF NewWorker
  <1>10. QED
    BY <1>5, <1>6, <1>7, <1>8, <1>9, Zenon

(* The initial state satisfies IInv: no rows, no workers, no processes. *)
LEMMA InitIInv == Init => IInv
  <1> SUFFICES ASSUME Init PROVE IInv
    OBVIOUS
  <1>1. TypeOK
    <2>1. table \in [Ids -> Names \cup {NoName}] /\ loaded \in BOOLEAN
      BY DEF Init
    <2>2. DOMAIN vmms \subseteq Ids /\ \A i \in DOMAIN vmms : vmms[i] \in Worker
      BY DEF Init
    <2>3. pst \in [1..MaxProcs -> ProcStates \cup {"unborn"}]
      BY DEF Init
    <2>4. pname \in [1..MaxProcs -> Names \cup {NoName}]
      BY DEF Init
    <2>5. nprocs \in 0..MaxProcs
      BY BoundsNat DEF Init
    <2>6. QED
      BY <2>1, <2>2, <2>3, <2>4, <2>5 DEF TypeOK
  <1>2. Unloaded /\ Unborn /\ TableUnique /\ RowlessIdle /\ ProcsStarted
    BY DEF Init, Unloaded, Unborn, TableUnique, RowlessIdle, ProcsStarted,
           Rows
  <1>3. WorkerMatchesRow /\ NoOrphanVmm
    BY DEF Init, WorkerMatchesRow, NoOrphanVmm
  <1>4. QED
    BY <1>1, <1>2, <1>3 DEF IInv

(***************************************************************************)
(* A step that leaves the table and the processes alone and changes the    *)
(* workers only by adding idle ones (a row's worker with the row's name)   *)
(* and by changing thread attributes keeps IInv. get_vmm alone, the view   *)
(* events and the console threads are such steps.                          *)
(***************************************************************************)
LEMMA WorkersGrow ==
  ASSUME IInv, loaded' = TRUE, UNCHANGED <<table, pst, pname, nprocs>>,
         DOMAIN vmms \subseteq DOMAIN vmms', DOMAIN vmms' \subseteq Ids,
         \A j \in DOMAIN vmms' : vmms'[j] \in Worker,
         \A j \in DOMAIN vmms : /\ vmms'[j].proc = vmms[j].proc
                                /\ vmms'[j].name = vmms[j].name,
         \A j \in DOMAIN vmms' \ DOMAIN vmms :
            /\ vmms'[j].proc = 0
            /\ table[j] # NoName => vmms'[j].name = table[j]
  PROVE  IInv'
  <1>1. TypeOK'
    BY DEF IInv, TypeOK
  <1>2. Unloaded' /\ Unborn' /\ TableUnique'
    BY DEF IInv, Unloaded, Unborn, TableUnique, Rows
  <1>3. RowlessIdle'
    BY DEF IInv, RowlessIdle
  <1>4. ProcsStarted'
    BY DEF IInv, ProcsStarted, TypeOK
  <1>5. WorkerMatchesRow'
    <2>1. CASE loaded
      BY <2>1 DEF IInv, WorkerMatchesRow, Rows
    <2>2. CASE ~loaded
      BY <2>2 DEF IInv, Unloaded, WorkerMatchesRow
    <2>3. QED
      BY <2>1, <2>2
  <1>6. NoOrphanVmm'
    BY DEF IInv, NoOrphanVmm
  <1>7. QED
    BY <1>1, <1>2, <1>3, <1>4, <1>5, <1>6 DEF IInv

(* get_vmm's result, as the workers after a Touch, keeps IInv. *)
LEMMA TouchIInv ==
  ASSUME IInv, NEW i \in Ids, Touch(i)
  PROVE  IInv'
  <1>1. TypeOK /\ (~loaded => DOMAIN vmms = {})
    BY DEF IInv, Unloaded
  <1> DEFINE g == GetVmm(table, i)
  <1>2. /\ DOMAIN g = (IF loaded THEN DOMAIN vmms ELSE Rows(table)) \cup {i}
        /\ \A j \in DOMAIN vmms : g[j] = vmms[j]
        /\ \A j \in DOMAIN g : g[j] \in Worker
        /\ \A j \in DOMAIN g \ DOMAIN vmms : g[j].proc = 0
        /\ ~loaded => \A r \in Rows(table) : g[r].name = table[r]
    BY <1>1, GetVmmFacts DEF TypeOK
  <1>3. vmms' = g /\ loaded' = TRUE /\ UNCHANGED <<table, pst, pname, nprocs>>
    BY DEF Touch
  <1>4. \A j \in DOMAIN g \ DOMAIN vmms :
           table[j] # NoName => g[j].name = table[j]
    <2>1. CASE loaded
      BY <2>1, <1>2 DEF IInv, WorkerMatchesRow, Rows
    <2>2. CASE ~loaded
      BY <2>2, <1>2 DEF IInv, Unloaded, Rows
    <2>3. QED
      BY <2>1, <2>2
  <1>5. DOMAIN g \subseteq Ids
    BY <1>2 DEF Rows, IInv, TypeOK
  <1>6. DOMAIN vmms \subseteq DOMAIN vmms' /\ DOMAIN vmms' \subseteq Ids
    BY <1>1, <1>2, <1>3, <1>5
  <1>7. \A j \in DOMAIN vmms' : vmms'[j] \in Worker
    BY <1>2, <1>3
  <1>8. \A j \in DOMAIN vmms : /\ vmms'[j].proc = vmms[j].proc
                              /\ vmms'[j].name = vmms[j].name
    BY <1>2, <1>3
  <1>9. \A j \in DOMAIN vmms' \ DOMAIN vmms :
           /\ vmms'[j].proc = 0
           /\ table[j] # NoName => vmms'[j].name = table[j]
    BY <1>2, <1>3, <1>4
  <1>10. QED
    BY <1>3, <1>6, <1>7, <1>8, <1>9, WorkersGrow
-----------------------------------------------------------------------------
(***************************************************************************)
(* The worker-side half of IInv, stated of any dict g of workers over the  *)
(* current table and processes: what get_vmm's result satisfies before a   *)
(* route changes it.                                                       *)
(***************************************************************************)
WorkersOK(g) ==
  /\ DOMAIN g \subseteq Ids
  /\ \A j \in DOMAIN g : g[j] \in Worker
  /\ \A j \in DOMAIN g : table[j] = NoName => g[j].proc = 0
  /\ \A j \in DOMAIN g : g[j].proc <= nprocs
  /\ \A r \in Rows(table) : r \in DOMAIN g /\ g[r].name = table[r]
  /\ \A k \in 1..nprocs : pst[k] \in {"booting", "up"} =>
        \E j \in DOMAIN g : g[j].proc = k /\ table[j] = pname[k]

(* get_vmm(i) returns a dict with a worker for i that satisfies WorkersOK. *)
LEMMA GetVmmOK ==
  ASSUME IInv, NEW i \in Ids
  PROVE  WorkersOK(GetVmm(table, i)) /\ i \in DOMAIN GetVmm(table, i)
  <1> DEFINE g == GetVmm(table, i)
  <1>1. TypeOK /\ (~loaded => DOMAIN vmms = {})
    BY DEF IInv, Unloaded
  <1>2. /\ DOMAIN g = (IF loaded THEN DOMAIN vmms ELSE Rows(table)) \cup {i}
        /\ \A j \in DOMAIN vmms : g[j] = vmms[j]
        /\ \A j \in DOMAIN g : g[j] \in Worker
        /\ \A j \in DOMAIN g \ DOMAIN vmms : g[j].proc = 0
    BY <1>1, GetVmmFacts DEF TypeOK
  <1>3. DOMAIN g \subseteq Ids /\ i \in DOMAIN g
    BY <1>1, <1>2 DEF TypeOK, Rows
  <1>4. \A j \in DOMAIN g : table[j] = NoName => g[j].proc = 0
    BY <1>2 DEF IInv, RowlessIdle
  <1>5. \A j \in DOMAIN g : g[j].proc <= nprocs
    BY <1>2 DEF IInv, ProcsStarted, TypeOK
  <1>6. \A r \in Rows(table) : r \in DOMAIN g /\ g[r].name = table[r]
    <2>1. CASE loaded
      BY <2>1, <1>2 DEF IInv, WorkerMatchesRow
    <2>2. CASE ~loaded
      BY <2>2 DEF IInv, Unloaded
    <2>3. QED
      BY <2>1, <2>2
  <1>7. \A k \in 1..nprocs : pst[k] \in {"booting", "up"} =>
           \E j \in DOMAIN g : g[j].proc = k /\ table[j] = pname[k]
    <2>1. CASE loaded
      BY <2>1, <1>2 DEF IInv, NoOrphanVmm
    <2>2. CASE ~loaded
      BY <2>2 DEF IInv, Unloaded
    <2>3. QED
      BY <2>1, <2>2
  <1>8. QED
    BY <1>2, <1>3, <1>4, <1>5, <1>6, <1>7 DEF WorkersOK

(* A step after which vmms is loaded and satisfies WorkersOK over the new  *)
(* table and processes keeps IInv, given the other conjuncts.              *)
LEMMA WorkersOKIInv ==
  ASSUME loaded' = TRUE, TypeOK', Unborn', TableUnique', WorkersOK(vmms)'
  PROVE  IInv'
  <1>1. Unloaded'
    BY DEF Unloaded
  <1>2. RowlessIdle' /\ ProcsStarted'
    BY DEF WorkersOK, RowlessIdle, ProcsStarted
  <1>3. WorkerMatchesRow' /\ NoOrphanVmm'
    BY DEF WorkersOK, WorkerMatchesRow, NoOrphanVmm
  <1>4. QED
    BY <1>1, <1>2, <1>3 DEF IInv
-----------------------------------------------------------------------------
(***************************************************************************)
(* The processes. A step of a VMM process, or a SIGTERM, never makes a     *)
(* process run that did not, and never touches an unborn index.           *)
(***************************************************************************)
ProcsCalmer ==
  /\ pst' \in [1..MaxProcs -> ProcStates \cup {"unborn"}]
  /\ \A k \in 1..MaxProcs : pst'[k] = "unborn" <=> pst[k] = "unborn"
  /\ \A k \in 1..MaxProcs :
        pst'[k] \in {"booting", "up"} => pst[k] \in {"booting", "up"}

(* With the workers and the table unchanged, such a step keeps IInv. *)
LEMMA ProcsCalmerIInv ==
  ASSUME IInv, ProcsCalmer, UNCHANGED <<table, loaded, vmms, pname, nprocs>>
  PROVE  IInv'
  <1>1. TypeOK'
    BY DEF IInv, TypeOK, ProcsCalmer
  <1>2. Unloaded' /\ TableUnique' /\ RowlessIdle' /\ ProcsStarted'
    BY DEF IInv, Unloaded, TableUnique, RowlessIdle, ProcsStarted, Rows
  <1>3. Unborn'
    BY DEF IInv, Unborn, ProcsCalmer
  <1>4. WorkerMatchesRow'
    BY DEF IInv, WorkerMatchesRow, Rows
  <1>5. NoOrphanVmm'
    <2> SUFFICES ASSUME NEW k \in 1..nprocs, pst'[k] \in {"booting", "up"}
                 PROVE  \E i \in DOMAIN vmms : vmms[i].proc = k
                                              /\ table[i] = pname[k]
      BY DEF NoOrphanVmm
    <2>1. k \in 1..MaxProcs
      BY BoundsNat DEF IInv, TypeOK
    <2>2. pst[k] \in {"booting", "up"}
      BY <2>1 DEF ProcsCalmer
    <2>3. QED
      BY <2>2 DEF IInv, NoOrphanVmm
  <1>6. QED
    BY <1>1, <1>2, <1>3, <1>4, <1>5 DEF IInv

(* SIGTERM to a started process is such a step. *)
LEMMA TerminateCalmer ==
  ASSUME TypeOK, NEW p \in 1..MaxProcs, pst[p] # "unborn", pst' = Terminate(p)
  PROVE  ProcsCalmer
  BY DEF TypeOK, Terminate, ProcsCalmer, ProcStates

LEMMA BootIInv ==
  ASSUME IInv, NEW k \in 1..MaxProcs, Boot(k)
  PROVE  IInv'
  <1>1. ProcsCalmer
    BY DEF Boot, IInv, TypeOK, ProcsCalmer, ProcStates
  <1>2. QED
    BY <1>1, ProcsCalmerIInv DEF Boot

LEMMA ExitIInv ==
  ASSUME IInv, NEW k \in 1..MaxProcs, Exit(k)
  PROVE  IInv'
  <1>1. ProcsCalmer
    BY DEF Exit, IInv, TypeOK, ProcsCalmer, ProcStates
  <1>2. QED
    BY <1>1, ProcsCalmerIInv DEF Exit

LEMMA DieIInv ==
  ASSUME IInv, NEW k \in 1..MaxProcs, Die(k)
  PROVE  IInv'
  <1>1. ProcsCalmer
    BY DEF Die, IInv, TypeOK, ProcsCalmer, ProcStates
  <1>2. QED
    BY <1>1, ProcsCalmerIInv DEF Die
-----------------------------------------------------------------------------
(***************************************************************************)
(* Routes that change one worker's threads.                                *)
(***************************************************************************)

(* A step that leaves pst alone is a ProcsCalmer step. *)
LEMMA PstSame ==
  ASSUME TypeOK, pst' = pst
  PROVE  ProcsCalmer
  BY DEF TypeOK, ProcsCalmer

(* get_vmm(i), then the worker of i is replaced by one with the same      *)
(* process and name, possibly with a SIGTERM: IInv is kept.               *)
LEMMA WorkerStep ==
  ASSUME IInv, NEW i \in Ids, NEW w \in Worker,
         w.proc = GetVmm(table, i)[i].proc, w.name = GetVmm(table, i)[i].name,
         vmms' = [GetVmm(table, i) EXCEPT ![i] = w], loaded' = TRUE,
         UNCHANGED <<table, pname, nprocs>>, ProcsCalmer
  PROVE  IInv'
  <1> DEFINE g == GetVmm(table, i)
  <1>1. WorkersOK(g) /\ i \in DOMAIN g
    BY GetVmmOK
  <1>2. /\ DOMAIN vmms' = DOMAIN g
        /\ \A j \in DOMAIN g : /\ vmms'[j] \in Worker
                               /\ vmms'[j].proc = g[j].proc
                               /\ vmms'[j].name = g[j].name
    BY <1>1 DEF WorkersOK
  <1>3. TypeOK'
    BY <1>1, <1>2 DEF IInv, TypeOK, ProcsCalmer, WorkersOK
  <1>4. Unborn' /\ TableUnique'
    BY DEF IInv, Unborn, ProcsCalmer, TableUnique, Rows
  <1>5. /\ DOMAIN vmms' \subseteq Ids
        /\ \A j \in DOMAIN vmms' : vmms'[j] \in Worker
        /\ \A j \in DOMAIN vmms' : table'[j] = NoName => vmms'[j].proc = 0
        /\ \A j \in DOMAIN vmms' : vmms'[j].proc <= nprocs'
        /\ \A r \in Rows(table') : r \in DOMAIN vmms'
                                   /\ vmms'[r].name = table'[r]
    BY <1>1, <1>2 DEF WorkersOK, Rows
  <1>6. \A k \in 1..nprocs' : pst'[k] \in {"booting", "up"} =>
           \E j \in DOMAIN vmms' : vmms'[j].proc = k /\ table'[j] = pname'[k]
    <2> SUFFICES ASSUME NEW k \in 1..nprocs, pst'[k] \in {"booting", "up"}
                 PROVE  \E j \in DOMAIN vmms' : vmms'[j].proc = k
                                               /\ table[j] = pname[k]
      OBVIOUS
    <2>1. pst[k] \in {"booting", "up"}
      BY BoundsNat DEF IInv, TypeOK, ProcsCalmer
    <2>2. PICK j \in DOMAIN g : g[j].proc = k /\ table[j] = pname[k]
      BY <1>1, <2>1 DEF WorkersOK
    <2>3. QED
      BY <1>2, <2>2
  <1>7. WorkersOK(vmms)'
    BY <1>5, <1>6 DEF WorkersOK
  <1>8. QED
    BY <1>3, <1>4, <1>7, WorkersOKIInv

LEMMA ViewConsoleIInv ==
  ASSUME IInv, NEW i \in Ids, ViewConsole(i)
  PROVE  IInv'
  <1> DEFINE g == GetVmm(table, i)
             w == [g[i] EXCEPT !.tx = IF @ = "none" THEN "connecting" ELSE @,
                               !.rx = IF @ = "none" THEN "connecting" ELSE @]
  <1>1. WorkersOK(g) /\ i \in DOMAIN g
    BY GetVmmOK
  <1>2. w \in Worker /\ w.proc = g[i].proc /\ w.name = g[i].name
    <2>1. g[i] \in Worker
      BY <1>1 DEF WorkersOK
    <2>2. QED
      BY <2>1 DEF Worker, ThreadStates
  <1>3. vmms' = [g EXCEPT ![i] = w]
    BY <1>1 DEF ViewConsole
  <1>4. ProcsCalmer
    BY PstSame DEF ViewConsole, IInv
  <1>5. QED
    BY <1>2, <1>3, <1>4, WorkerStep DEF ViewConsole

LEMMA ViewVideoIInv ==
  ASSUME IInv, NEW i \in Ids, ViewVideo(i)
  PROVE  IInv'
  <1> DEFINE g == GetVmm(table, i)
             w == [g[i] EXCEPT !.video = TRUE]
  <1>1. WorkersOK(g) /\ i \in DOMAIN g
    BY GetVmmOK
  <1>2. w \in Worker /\ w.proc = g[i].proc /\ w.name = g[i].name
    <2>1. g[i] \in Worker
      BY <1>1 DEF WorkersOK
    <2>2. QED
      BY <2>1 DEF Worker
  <1>3. vmms' = [g EXCEPT ![i] = w]
    BY <1>1 DEF ViewVideo
  <1>4. ProcsCalmer
    BY PstSame DEF ViewVideo, IInv
  <1>5. QED
    BY <1>2, <1>3, <1>4, WorkerStep DEF ViewVideo

LEMMA StopIInv ==
  ASSUME IInv, NEW i \in Ids, Stop(i)
  PROVE  IInv'
  <1> DEFINE g == GetVmm(table, i)
             w == StopWorker(g[i])
             p == g[i].proc
  <1>1. WorkersOK(g) /\ i \in DOMAIN g
    BY GetVmmOK
  <1>2. w \in Worker /\ w.proc = g[i].proc /\ w.name = g[i].name
    <2>1. g[i] \in Worker
      BY <1>1 DEF WorkersOK
    <2>2. QED
      BY <2>1 DEF Worker, StopWorker, ThreadStates
  <1>3. vmms' = [g EXCEPT ![i] = w]
    BY DEF Stop
  <1>4. p \in 1..nprocs
    BY <1>1, BoundsNat DEF Stop, Stopped, WorkersOK, Worker, IInv, TypeOK
  <1>5. p \in 1..MaxProcs /\ pst[p] # "unborn"
    BY <1>4, BoundsNat DEF IInv, Unborn, TypeOK
  <1>6. ProcsCalmer
    BY <1>5, TerminateCalmer DEF Stop, IInv
  <1>7. QED
    BY <1>2, <1>3, <1>6, WorkerStep DEF Stop
-----------------------------------------------------------------------------
(***************************************************************************)
(* The console threads change the thread attributes of a worker in vmms.   *)
(***************************************************************************)
LEMMA ThreadStep ==
  ASSUME IInv, NEW i \in DOMAIN vmms, NEW w \in Worker,
         w.proc = vmms[i].proc, w.name = vmms[i].name,
         vmms' = [vmms EXCEPT ![i] = w],
         UNCHANGED <<table, loaded, pst, pname, nprocs>>
  PROVE  IInv'
  <1>1. loaded' = TRUE
    BY DEF IInv, Unloaded
  <1>2. DOMAIN vmms' = DOMAIN vmms /\ DOMAIN vmms \subseteq Ids
    BY DEF IInv, TypeOK
  <1>3. \A j \in DOMAIN vmms' : vmms'[j] \in Worker
    BY DEF IInv, TypeOK
  <1>4. \A j \in DOMAIN vmms : /\ vmms'[j].proc = vmms[j].proc
                              /\ vmms'[j].name = vmms[j].name
    OBVIOUS
  <1>5. QED
    BY <1>1, <1>2, <1>3, <1>4, WorkersGrow

LEMMA TxConnectIInv ==
  ASSUME IInv, NEW i \in Ids, TxConnect(i)
  PROVE  IInv'
  <1> DEFINE L == Listening(vmms[i])
             w == [vmms[i] EXCEPT !.tx = IF L THEN "attached" ELSE "dead",
                                  !.txp = IF L THEN vmms[i].proc ELSE @]
  <1>1. i \in DOMAIN vmms /\ vmms[i] \in Worker
    BY DEF TxConnect, IInv, TypeOK
  <1>2. w \in Worker /\ w.proc = vmms[i].proc /\ w.name = vmms[i].name
    BY <1>1 DEF Worker, ThreadStates
  <1>3. /\ vmms' = [vmms EXCEPT ![i] = w]
        /\ UNCHANGED <<table, loaded, pst, pname, nprocs>>
    BY DEF TxConnect
  <1>4. QED
    BY <1>1, <1>2, <1>3, ThreadStep

LEMMA TxEofIInv ==
  ASSUME IInv, NEW i \in Ids, TxEof(i)
  PROVE  IInv'
  <1> DEFINE w == [vmms[i] EXCEPT !.tx = "dead"]
  <1>1. i \in DOMAIN vmms /\ vmms[i] \in Worker
    BY DEF TxEof, IInv, TypeOK
  <1>2. w \in Worker /\ w.proc = vmms[i].proc /\ w.name = vmms[i].name
    BY <1>1 DEF Worker, ThreadStates
  <1>3. QED
    BY <1>1, <1>2, ThreadStep DEF TxEof

LEMMA RxConnectIInv ==
  ASSUME IInv, NEW i \in Ids, RxConnect(i)
  PROVE  IInv'
  <1> DEFINE w == [vmms[i] EXCEPT
                     !.rx = IF Listening(vmms[i]) THEN "attached" ELSE "dead"]
  <1>1. i \in DOMAIN vmms /\ vmms[i] \in Worker
    BY DEF RxConnect, IInv, TypeOK
  <1>2. w \in Worker /\ w.proc = vmms[i].proc /\ w.name = vmms[i].name
    BY <1>1 DEF Worker, ThreadStates
  <1>3. QED
    BY <1>1, <1>2, ThreadStep DEF RxConnect

LEMMA RxBrokenIInv ==
  ASSUME IInv, NEW i \in Ids, RxBroken(i)
  PROVE  IInv'
  <1> DEFINE w == [vmms[i] EXCEPT !.rx = "dead"]
  <1>1. i \in DOMAIN vmms /\ vmms[i] \in Worker
    BY DEF RxBroken, IInv, TypeOK
  <1>2. w \in Worker /\ w.proc = vmms[i].proc /\ w.name = vmms[i].name
    BY <1>1 DEF Worker, ThreadStates
  <1>3. QED
    BY <1>1, <1>2, ThreadStep DEF RxBroken
-----------------------------------------------------------------------------
(***************************************************************************)
(* /start: the new process takes the unborn index nprocs + 1, the row's   *)
(* worker points at it. Every other running process keeps its witness: it *)
(* is not the worker of i, whose process has exited or never was.          *)
(***************************************************************************)
LEMMA StartIInv ==
  ASSUME IInv, NEW i \in Ids, Start(i)
  PROVE  IInv'
  <1> DEFINE g == GetVmm(table, i)
             k == nprocs + 1
  <1>1. WorkersOK(g) /\ i \in DOMAIN g
    BY GetVmmOK
  <1>2. /\ table[i] # NoName /\ Stopped(g[i]) /\ nprocs < MaxProcs
        /\ pst' = [pst EXCEPT ![k] = "booting"]
        /\ pname' = [pname EXCEPT ![k] = g[i].name]
        /\ nprocs' = k
        /\ vmms' = [g EXCEPT ![i].proc = k]
        /\ loaded' = TRUE /\ table' = table
    BY DEF Start
  <1>3. g[i].name = table[i] /\ g[i] \in Worker
    BY <1>1, <1>2 DEF WorkersOK, Rows
  <1>4. k \in 1..MaxProcs /\ nprocs \in Nat
    BY <1>2, BoundsNat DEF IInv, TypeOK
  <1>5. g[i].proc = 0 \/ pst[g[i].proc] = "exited"
    BY <1>2 DEF Stopped
  <1>6. /\ DOMAIN vmms' = DOMAIN g
        /\ vmms'[i] = [g[i] EXCEPT !.proc = k]
        /\ \A j \in DOMAIN g \ {i} : vmms'[j] = g[j]
    BY <1>1, <1>2
  <1>7. TypeOK'
    <2>1. \A j \in DOMAIN vmms' : vmms'[j] \in Worker
      BY <1>1, <1>3, <1>4, <1>6 DEF WorkersOK, Worker
    <2>2. QED
      BY <1>1, <1>2, <1>3, <1>4, <1>6, <2>1 DEF IInv, TypeOK, WorkersOK,
         ProcStates
  <1>8. Unborn'
    BY <1>2, <1>4 DEF IInv, Unborn, TypeOK
  <1>9. TableUnique'
    BY <1>2 DEF IInv, TableUnique, Rows
  <1>10. /\ DOMAIN vmms' \subseteq Ids
         /\ \A j \in DOMAIN vmms' : table'[j] = NoName => vmms'[j].proc = 0
         /\ \A j \in DOMAIN vmms' : vmms'[j].proc <= nprocs'
         /\ \A r \in Rows(table') : r \in DOMAIN vmms'
                                    /\ vmms'[r].name = table'[r]
    BY <1>1, <1>2, <1>3, <1>4, <1>6 DEF WorkersOK, Worker
  <1>11. \A m \in 1..nprocs' : pst'[m] \in {"booting", "up"} =>
           \E j \in DOMAIN vmms' : vmms'[j].proc = m /\ table'[j] = pname'[m]
    <2> SUFFICES ASSUME NEW m \in 1..k, pst'[m] \in {"booting", "up"}
                 PROVE  \E j \in DOMAIN vmms' : vmms'[j].proc = m
                                               /\ table'[j] = pname'[m]
      BY <1>2
    <2>1. CASE m = k
      BY <2>1, <1>1, <1>2, <1>3, <1>6, <1>4 DEF IInv, TypeOK
    <2>2. CASE m # k
      <3>1. m \in 1..nprocs /\ pst[m] \in {"booting", "up"}
            /\ pname'[m] = pname[m]
        BY <2>2, <1>2, <1>4 DEF IInv, TypeOK
      <3>2. PICK j \in DOMAIN g : g[j].proc = m /\ table[j] = pname[m]
        BY <3>1, <1>1 DEF WorkersOK
      <3>3. j # i
        BY <3>1, <3>2, <1>5
      <3>4. QED
        BY <3>1, <3>2, <3>3, <1>2, <1>6
    <2>3. QED
      BY <2>1, <2>2
  <1>12. WorkersOK(vmms)'
    BY <1>7, <1>10, <1>11 DEF WorkersOK, TypeOK
  <1>13. QED
    BY <1>2, <1>7, <1>8, <1>9, <1>12, WorkersOKIInv
-----------------------------------------------------------------------------
(***************************************************************************)
(* /delete: the row and the worker of i go, and the worker's process, if  *)
(* it runs, is terminated first. A process still running afterwards is    *)
(* not that one, so its witness is another worker, which stays.           *)
(***************************************************************************)
LEMMA DeleteIInv ==
  ASSUME IInv, NEW i \in Ids, Delete(i)
  PROVE  IInv'
  <1> DEFINE g == GetVmm(table, i)
             w == g[i]
  <1>1. WorkersOK(g) /\ i \in DOMAIN g
    BY GetVmmOK
  <1>2. /\ table[i] # NoName
        /\ pst' = IF Stopped(w) THEN pst ELSE Terminate(w.proc)
        /\ vmms' = [j \in DOMAIN g \ {i} |-> g[j]]
        /\ table' = [table EXCEPT ![i] = NoName]
        /\ loaded' = TRUE /\ UNCHANGED <<pname, nprocs>>
    BY DEF Delete, Restrict
  <1>3. w \in Worker /\ w.proc <= nprocs
    BY <1>1 DEF WorkersOK
  <1>4. ProcsCalmer
    <2>1. CASE Stopped(w)
      BY <2>1, <1>2, PstSame DEF IInv
    <2>2. CASE ~Stopped(w)
      <3>1. w.proc \in 1..MaxProcs /\ pst[w.proc] # "unborn"
        BY <2>2, <1>3, BoundsNat DEF Stopped, Worker, IInv, Unborn, TypeOK
      <3>2. QED
        BY <2>2, <3>1, <1>2, TerminateCalmer DEF IInv
    <2>3. QED
      BY <2>1, <2>2
  <1>5. \A m \in 1..MaxProcs : pst'[m] \in {"booting", "up"} => w.proc # m
    <2>1. CASE Stopped(w)
      BY <2>1, <1>2 DEF Stopped
    <2>2. CASE ~Stopped(w)
      BY <2>2, <1>2 DEF Stopped, Terminate, IInv, TypeOK
    <2>3. QED
      BY <2>1, <2>2
  <1>6. TypeOK'
    BY <1>1, <1>2, <1>4 DEF IInv, TypeOK, ProcsCalmer, WorkersOK
  <1>7. Unborn' /\ TableUnique'
    BY <1>2, <1>4 DEF IInv, Unborn, ProcsCalmer, TableUnique, Rows
  <1>8. /\ DOMAIN vmms' \subseteq Ids
        /\ \A j \in DOMAIN vmms' : table'[j] = NoName => vmms'[j].proc = 0
        /\ \A j \in DOMAIN vmms' : vmms'[j].proc <= nprocs'
        /\ \A r \in Rows(table') : r \in DOMAIN vmms'
                                   /\ vmms'[r].name = table'[r]
    <2>1. DOMAIN vmms' = DOMAIN g \ {i} /\ \A j \in DOMAIN vmms' : vmms'[j] = g[j]
      BY <1>2
    <2>2. DOMAIN vmms' \subseteq Ids
      BY <2>1, <1>1 DEF WorkersOK
    <2>3. \A j \in DOMAIN vmms' : table'[j] = NoName => vmms'[j].proc = 0
      BY <2>1, <1>1, <1>2 DEF WorkersOK
    <2>4. \A j \in DOMAIN vmms' : vmms'[j].proc <= nprocs'
      BY <2>1, <1>1, <1>2 DEF WorkersOK
    <2>5. \A r \in Rows(table') : r \in DOMAIN vmms'
                                  /\ vmms'[r].name = table'[r]
      <3> SUFFICES ASSUME NEW r \in Rows(table')
                   PROVE  r \in DOMAIN vmms' /\ vmms'[r].name = table'[r]
        OBVIOUS
      <3>1. r # i /\ r \in Rows(table) /\ table'[r] = table[r]
        BY <1>2 DEF Rows, IInv, TypeOK
      <3>2. QED
        BY <3>1, <2>1, <1>1 DEF WorkersOK
    <2>6. QED
      BY <2>2, <2>3, <2>4, <2>5
  <1>9. \A m \in 1..nprocs' : pst'[m] \in {"booting", "up"} =>
           \E j \in DOMAIN vmms' : vmms'[j].proc = m /\ table'[j] = pname'[m]
    <2> SUFFICES ASSUME NEW m \in 1..nprocs, pst'[m] \in {"booting", "up"}
                 PROVE  \E j \in DOMAIN vmms' : vmms'[j].proc = m
                                               /\ table'[j] = pname[m]
      BY <1>2
    <2>1. m \in 1..MaxProcs
      BY BoundsNat DEF IInv, TypeOK
    <2>2. pst[m] \in {"booting", "up"} /\ w.proc # m
      BY <2>1, <1>4, <1>5 DEF ProcsCalmer
    <2>3. PICK j \in DOMAIN g : g[j].proc = m /\ table[j] = pname[m]
      BY <2>2, <1>1 DEF WorkersOK
    <2>4. QED
      BY <2>2, <2>3, <1>2
  <1>10. WorkersOK(vmms)'
    BY <1>6, <1>8, <1>9 DEF WorkersOK, TypeOK
  <1>11. QED
    BY <1>2, <1>6, <1>7, <1>10, WorkersOKIInv
-----------------------------------------------------------------------------
(***************************************************************************)
(* /new: the row is inserted at a free id, get_vmm loads the table with   *)
(* it, and the worker of i is named. The worker of i, if there was one,   *)
(* had no row and so no process: no running process names it as witness.  *)
(***************************************************************************)
LEMMA NewIInv ==
  ASSUME IInv, NEW i \in Ids, NEW n \in Names, New(i, n)
  PROVE  IInv'
  <1> DEFINE G == GetVmm(table', i)
  <1>1. /\ table[i] = NoName /\ \A j \in Ids : table[j] # n
        /\ table' = [table EXCEPT ![i] = n]
        /\ table' \in [Ids -> Names \cup {NoName}]
        /\ vmms' = [G EXCEPT ![i].name = n]
        /\ loaded' = TRUE /\ pst' = pst /\ pname' = pname /\ nprocs' = nprocs
    BY DEF New, IInv, TypeOK
  <1>2. TypeOK /\ (~loaded => DOMAIN vmms = {})
    BY DEF IInv, Unloaded
  <1>3. pst' = pst /\ pname' = pname /\ nprocs' = nprocs /\ nprocs \in Nat
    BY <1>1, BoundsNat DEF IInv, TypeOK
  <1>4. /\ DOMAIN G = (IF loaded THEN DOMAIN vmms ELSE Rows(table')) \cup {i}
        /\ \A j \in DOMAIN vmms : G[j] = vmms[j]
        /\ \A j \in DOMAIN G : G[j] \in Worker
        /\ \A j \in DOMAIN G \ DOMAIN vmms : G[j].proc = 0
    <2>1. PICK tbl \in [Ids -> Names \cup {NoName}] : tbl = table'
      BY <1>1
    <2>2. LET g == GetVmm(tbl, i) IN
          /\ DOMAIN g = (IF loaded THEN DOMAIN vmms ELSE Rows(tbl)) \cup {i}
          /\ \A j \in DOMAIN vmms : g[j] = vmms[j]
          /\ \A j \in DOMAIN g : g[j] \in Worker
          /\ \A j \in DOMAIN g \ DOMAIN vmms : g[j].proc = 0
          /\ ~loaded => \A r \in Rows(tbl) : g[r].name = tbl[r]
      BY <1>2, GetVmmFacts
    <2>3. QED
      BY <2>1, <2>2
  <1>5. G[i].proc = 0
    BY <1>1, <1>4 DEF IInv, RowlessIdle
  <1>6. /\ DOMAIN vmms' = DOMAIN G /\ i \in DOMAIN G
        /\ vmms'[i] = [G[i] EXCEPT !.name = n]
        /\ \A j \in DOMAIN G \ {i} : vmms'[j] = G[j]
    BY <1>1, <1>4
  <1>7. DOMAIN G \subseteq Ids
    BY <1>2, <1>4 DEF TypeOK, Rows
  <1>8. vmms'[i].proc = 0 /\ vmms'[i].name = n
    <2>1. G[i] \in Worker
      BY <1>4, <1>6
    <2>2. QED
      BY <2>1, <1>5, <1>6 DEF Worker
  <1>9. \A j \in DOMAIN vmms' \ {i} :
            \/ j \in DOMAIN vmms /\ vmms'[j] = vmms[j]
            \/ j \notin DOMAIN vmms /\ vmms'[j].proc = 0
    BY <1>4, <1>6
  <1>10. TypeOK'
    <2>1. \A j \in DOMAIN vmms' : vmms'[j] \in Worker
      BY <1>4, <1>6 DEF Worker
    <2>2. QED
      BY <1>1, <1>2, <1>6, <1>7, <2>1 DEF TypeOK
  <1>11. Unborn' /\ TableUnique'
    BY <1>1 DEF IInv, Unborn, TableUnique, Rows, TypeOK
  <1>12. \A j \in DOMAIN vmms' : table'[j] = NoName => vmms'[j].proc = 0
    <2> SUFFICES ASSUME NEW j \in DOMAIN vmms', j # i, table'[j] = NoName
                 PROVE  vmms'[j].proc = 0
      BY <1>1, <1>8
    <2>1. table[j] = NoName
      BY <1>1, <1>6, <1>7
    <2>2. QED
      BY <2>1, <1>9 DEF IInv, RowlessIdle
  <1>13. \A j \in DOMAIN vmms' : vmms'[j].proc <= nprocs'
    <2> SUFFICES ASSUME NEW j \in DOMAIN vmms', j # i
                 PROVE  vmms'[j].proc <= nprocs
      BY <1>3, <1>8
    <2>1. nprocs \in Nat
      BY BoundsNat DEF IInv, TypeOK
    <2>2. QED
      BY <2>1, <1>9 DEF IInv, ProcsStarted
  <1>14. \A r \in Rows(table') : r \in DOMAIN vmms'
                                 /\ vmms'[r].name = table'[r]
    <2> SUFFICES ASSUME NEW r \in Rows(table')
                 PROVE  r \in DOMAIN vmms' /\ vmms'[r].name = table'[r]
      OBVIOUS
    <2>1. CASE r = i
      BY <2>1, <1>1, <1>6, <1>8 DEF IInv, TypeOK
    <2>2. CASE r # i
      <3>1. r \in Rows(table) /\ table'[r] = table[r]
        BY <2>2, <1>1 DEF Rows, TypeOK, IInv
      <3>2. loaded
        BY <3>1 DEF IInv, Unloaded
      <3>3. QED
        BY <2>2, <3>1, <3>2, <1>4, <1>6 DEF IInv, WorkerMatchesRow
    <2>3. QED
      BY <2>1, <2>2
  <1>15. \A m \in 1..nprocs' : pst'[m] \in {"booting", "up"} =>
           \E j \in DOMAIN vmms' : vmms'[j].proc = m /\ table'[j] = pname'[m]
    <2> SUFFICES ASSUME NEW m \in 1..nprocs, pst[m] \in {"booting", "up"}
                 PROVE  \E j \in DOMAIN vmms' : vmms'[j].proc = m
                                               /\ table'[j] = pname[m]
      BY <1>3
    <2>1. PICK j \in DOMAIN vmms : vmms[j].proc = m /\ table[j] = pname[m]
      BY DEF IInv, NoOrphanVmm
    <2>2. loaded /\ j # i
      BY <2>1, <1>1 DEF IInv, Unloaded, RowlessIdle
    <2>3. j \in DOMAIN G /\ vmms'[j] = vmms[j] /\ table'[j] = table[j]
      BY <2>1, <2>2, <1>1, <1>4, <1>6 DEF IInv, TypeOK
    <2>4. QED
      BY <2>1, <2>3, <1>6
  <1>16. WorkersOK(vmms)'
    BY <1>10, <1>12, <1>13, <1>14, <1>15 DEF WorkersOK, TypeOK
  <1>17. QED
    BY <1>1, <1>10, <1>11, <1>16, WorkersOKIInv
-----------------------------------------------------------------------------
(* Every step of the manager, the console threads and the processes, and  *)
(* every stutter, keeps IInv.                                              *)
LEMMA NextIInv == IInv /\ [Next]_vars => IInv'
  <1> SUFFICES ASSUME IInv, [Next]_vars PROVE IInv'
    OBVIOUS
  <1>1. CASE UNCHANGED vars
    <2>1. TypeOK' /\ Unloaded' /\ Unborn' /\ TableUnique'
      BY <1>1 DEF vars, IInv, TypeOK, Unloaded, Unborn, TableUnique, Rows
    <2>2. RowlessIdle' /\ ProcsStarted' /\ WorkerMatchesRow' /\ NoOrphanVmm'
      BY <1>1 DEF vars, IInv, RowlessIdle, ProcsStarted, WorkerMatchesRow,
                  NoOrphanVmm, Rows
    <2>3. QED
      BY <2>1, <2>2 DEF IInv
  <1>2. CASE \E i \in Ids :
               \/ Touch(i) \/ Delete(i) \/ Start(i) \/ Stop(i)
               \/ ViewConsole(i) \/ ViewVideo(i)
               \/ TxConnect(i) \/ TxEof(i) \/ RxConnect(i) \/ RxBroken(i)
               \/ \E n \in Names : New(i, n)
    <2>1. PICK i \in Ids :
               \/ Touch(i) \/ Delete(i) \/ Start(i) \/ Stop(i)
               \/ ViewConsole(i) \/ ViewVideo(i)
               \/ TxConnect(i) \/ TxEof(i) \/ RxConnect(i) \/ RxBroken(i)
               \/ \E n \in Names : New(i, n)
      BY <1>2
    <2>2. QED
      BY <2>1, TouchIInv, DeleteIInv, StartIInv, StopIInv, ViewConsoleIInv,
         ViewVideoIInv, TxConnectIInv, TxEofIInv, RxConnectIInv,
         RxBrokenIInv, NewIInv, Zenon
  <1>3. CASE \E k \in 1..MaxProcs : Boot(k) \/ Exit(k) \/ Die(k)
    BY <1>3, BootIInv, ExitIInv, DieIInv, Zenon
  <1>4. QED
    BY <1>1, <1>2, <1>3 DEF Next

(* IInv holds in every reachable state. *)
THEOREM IInvHolds == Spec => []IInv
  BY InitIInv, NextIInv, PTL DEF Spec

(* Two running processes have different VM names: each has a worker whose *)
(* row carries its name, the workers differ (their processes do), both    *)
(* are rows (a rowless worker has no process), and rows have unique names. *)
LEMMA IInvOneVmm == IInv => OneVmmPerVm
  <1> SUFFICES ASSUME IInv, NEW k \in 1..nprocs, NEW m \in 1..nprocs, k # m,
                      pst[k] \in {"booting", "up"}, pst[m] \in {"booting", "up"}
               PROVE  pname[k] # pname[m]
    BY DEF OneVmmPerVm
  <1>1. PICK i \in DOMAIN vmms : vmms[i].proc = k /\ table[i] = pname[k]
    BY DEF IInv, NoOrphanVmm
  <1>2. PICK j \in DOMAIN vmms : vmms[j].proc = m /\ table[j] = pname[m]
    BY DEF IInv, NoOrphanVmm
  <1>3. i # j /\ table[i] # NoName /\ table[j] # NoName
    BY <1>1, <1>2 DEF IInv, RowlessIdle
  <1>4. i \in Rows(table) /\ j \in Rows(table)
    BY <1>3 DEF IInv, TypeOK, Rows
  <1>5. QED
    BY <1>1, <1>2, <1>3, <1>4 DEF IInv, TableUnique

(* The /delete hazard of app.py: no VMM is left running without a worker *)
(* whose row names it, in every reachable state, for any ids, names,     *)
(* VM_LIMIT and number of processes.                                     *)
THEOREM NoOrphan == Spec => []NoOrphanVmm
  <1>1. IInv => NoOrphanVmm
    BY DEF IInv
  <1>2. QED
    BY <1>1, IInvHolds, PTL

(* /start, /stop, /delete and /new never let two VMMs run for one VM name. *)
THEOREM OneVmm == Spec => []OneVmmPerVm
  BY IInvOneVmm, IInvHolds, PTL

(* Once vmms is loaded every row has a worker carrying its name. *)
THEOREM WorkersMatchRows == Spec => []WorkerMatchesRow
  <1>1. IInv => WorkerMatchesRow
    BY DEF IInv
  <1>2. QED
    BY <1>1, IInvHolds, PTL

(* The manager's state is always well typed. *)
THEOREM WebTypeCorrect == Spec => []TypeOK
  <1>1. IInv => TypeOK
    BY DEF IInv
  <1>2. QED
    BY <1>1, IInvHolds, PTL
====
