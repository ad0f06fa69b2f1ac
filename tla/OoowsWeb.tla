------------------------------ MODULE OoowsWeb ------------------------------
(***************************************************************************)
(* The VM manager of web/app.py and web/vmm.py.                            *)
(*                                                                         *)
(* The app runs under eventlet: one OS thread, green threads that switch   *)
(* only at green I/O. sqlite3 and file operations are not green, so each   *)
(* route and socket.io handler runs to completion as one step. The         *)
(* console threads (console.consoleTx/consoleRx, started by                *)
(* start_background_task) switch at their socket calls, and the VMM        *)
(* processes run beside the app: both are actions of their own.            *)
(*                                                                         *)
(* table is the vms table. vmms is the module's dict of VmmWorkers, or     *)
(* None until get_vmm first loads it from the table (loaded = FALSE). A    *)
(* worker is a record of the attributes the code sets; a VMM process is an *)
(* index into pst (its state) and pname (the VM name it was started for).  *)
(***************************************************************************)
EXTENDS Naturals, FiniteSets, Functions

CONSTANTS
  Ids,       \* the vms.id values sqlite may hand out
  Names,     \* valid VM names (alphanumeric, shorter than 32)
  NoName,    \* a model value: VmmWorker.name is None, or no row has this id
  VM_LIMIT,  \* the limit of /new (3)
  MaxProcs   \* bound on the VMM processes Popen starts

ASSUME WebAssumption ==
  /\ NoName \notin Names
  /\ VM_LIMIT \in Nat
  /\ MaxProcs \in Nat

VARIABLES
  table,    \* table[i]: the name of row i, or NoName
  loaded,   \* the global vmms is not None
  vmms,     \* the VmmWorkers, by vm id
  pst,      \* pst[k]: state of VMM process k
  pname,    \* pname[k]: the VM it runs
  nprocs    \* processes started so far

vars == <<table, loaded, vmms, pst, pname, nprocs>>
-----------------------------------------------------------------------------
(* A process is "booting" until its device processes have bound the       *)
(* console sockets, "up" after, "terminating" once SIGTERM was sent and   *)
(* "exited" when poll() returns its status.                               *)
ProcStates == {"booting", "up", "terminating", "exited"}

(* A console thread: None, started and not yet connected, reading or      *)
(* sending on the VM's socket, or returned (EOF, or an exception).        *)
ThreadStates == {"none", "connecting", "attached", "dead"}

(* consoleTxThread / consoleRxThread / videoThread, the process (0 is     *)
(* None) and the process the tx thread is connected to.                   *)
Worker == [name : Names \cup {NoName}, proc : 0..MaxProcs,
           tx : ThreadStates, txp : 0..MaxProcs, rx : ThreadStates,
           video : BOOLEAN]

(* VmmWorker(name): all IoThreads None, no process. *)
NewWorker(n) == [name |-> n, proc |-> 0, tx |-> "none", txp |-> 0,
                 rx |-> "none", video |-> FALSE]

Rows(tbl) == {i \in Ids : tbl[i] # NoName}

(* get_vmm(vmid) over the table tbl: init_vmms makes a named worker per   *)
(* row if vmms is None, then a nameless worker is added for an unknown id. *)
GetVmm(tbl, i) ==
  LET base == IF loaded THEN vmms ELSE [j \in Rows(tbl) |-> NewWorker(tbl[j])]
  IN  [j \in DOMAIN base \cup {i} |->
         IF j \in DOMAIN base THEN base[j] ELSE NewWorker(NoName)]

(* VmmWorker.stopped: no process, or poll() has a return code. *)
Stopped(w) == IF w.proc = 0 THEN TRUE ELSE pst[w.proc] = "exited"

(* Popen.terminate: SIGTERM; a process that has exited is left alone. *)
Terminate(p) == [pst EXCEPT ![p] = IF @ = "exited" THEN @ ELSE "terminating"]

(* VmmWorker.stop: the IoThreads are forgotten (set to None) and None is  *)
(* put on the rx queue, which makes consoleRx return.                     *)
StopWorker(w) == [w EXCEPT !.video = FALSE, !.tx = "none", !.rx = "none"]

TypeOK ==
  /\ table \in [Ids -> Names \cup {NoName}]
  /\ loaded \in BOOLEAN
  /\ DOMAIN vmms \subseteq Ids
  /\ \A i \in DOMAIN vmms : vmms[i] \in Worker
  /\ pst \in [1..MaxProcs -> ProcStates \cup {"unborn"}]
  /\ pname \in [1..MaxProcs -> Names \cup {NoName}]
  /\ nprocs \in 0..MaxProcs
-----------------------------------------------------------------------------
Init ==
  /\ table = [i \in Ids |-> NoName]
  /\ loaded = FALSE
  /\ vmms = [i \in {} |-> NewWorker(NoName)]
  /\ pst = [k \in 1..MaxProcs |-> "unborn"]
  /\ pname = [k \in 1..MaxProcs |-> NoName]
  /\ nprocs = 0

(* A handler whose only effect is get_vmm's: index, /console and /view,   *)
(* /start of a running VM, /stop of a stopped one, the console_rx event   *)
(* (the data it queues is abstracted), and view_console or view_video for *)
(* an id without a name (the assert fails, or video returns None).        *)
Touch(i) ==
  /\ loaded' = TRUE
  /\ vmms' = GetVmm(table, i)
  /\ UNCHANGED <<table, pst, pname, nprocs>>

(* Mutant: /new without vmm.new(vm['name'], diskpath). *)
NewNoName(i, n) ==
  /\ Cardinality(Rows(table)) < VM_LIMIT
  /\ \A j \in Ids : table[j] # n
  /\ table[i] = NoName
  /\ table' = [table EXCEPT ![i] = n]
  /\ loaded' = TRUE
  /\ vmms' = GetVmm(table', i)
  /\ UNCHANGED <<pst, pname, nprocs>>

(* Mutant: /new without the "VM with name already exists" check. *)
NewNoUniqueCheck(i, n) ==
  /\ Cardinality(Rows(table)) < VM_LIMIT
  /\ table[i] = NoName
  /\ table' = [table EXCEPT ![i] = n]
  /\ loaded' = TRUE
  /\ vmms' = [GetVmm(table', i) EXCEPT ![i].name = n]
  /\ UNCHANGED <<pst, pname, nprocs>>

(* /new: the limit and the unique name are checked, the row is inserted   *)
(* (sqlite picks a free id), then get_vmm, which loads the table with the *)
(* new row, and vmm.new(name) names the worker. Rejected requests change  *)
(* nothing.                                                               *)
New(i, n) ==
  /\ Cardinality(Rows(table)) < VM_LIMIT
  /\ \A j \in Ids : table[j] # n
  /\ table[i] = NoName
  /\ table' = [table EXCEPT ![i] = n]
  /\ loaded' = TRUE
  /\ vmms' = [GetVmm(table', i) EXCEPT ![i].name = n]
  /\ UNCHANGED <<pst, pname, nprocs>>

(* Mutant: /delete that sets vmms[id] = None instead of deleting it. *)
DeleteKeepsNone(i) ==
  LET w == GetVmm(table, i)[i] IN
  /\ table[i] # NoName
  /\ pst' = IF Stopped(w) THEN pst ELSE Terminate(w.proc)
  /\ vmms' = [GetVmm(table, i) EXCEPT ![i] = NoName]
  /\ table' = [table EXCEPT ![i] = NoName]
  /\ loaded' = TRUE
  /\ UNCHANGED <<pname, nprocs>>

(* Mutant: /delete without the stop of a running VM. *)
DeleteNoStop(i) ==
  /\ table[i] # NoName
  /\ vmms' = Restrict(GetVmm(table, i), DOMAIN GetVmm(table, i) \ {i})
  /\ table' = [table EXCEPT ![i] = NoName]
  /\ loaded' = TRUE
  /\ UNCHANGED <<pst, pname, nprocs>>

(* /delete: get_vmm, stop if running, rmtree, del vmms[id], delete row. *)
Delete(i) ==
  LET w == GetVmm(table, i)[i] IN
  /\ table[i] # NoName
  /\ pst' = IF Stopped(w) THEN pst ELSE Terminate(w.proc)
  /\ vmms' = Restrict(GetVmm(table, i), DOMAIN GetVmm(table, i) \ {i})
  /\ table' = [table EXCEPT ![i] = NoName]
  /\ loaded' = TRUE
  /\ UNCHANGED <<pname, nprocs>>

(* /start of a stopped VM: Popen of the VMM on the worker's name. *)
Start(i) ==
  LET b == GetVmm(table, i)
      k == nprocs + 1
  IN
  /\ table[i] # NoName
  /\ Stopped(b[i])
  /\ nprocs < MaxProcs
  /\ pst' = [pst EXCEPT ![k] = "booting"]
  /\ pname' = [pname EXCEPT ![k] = b[i].name]
  /\ nprocs' = k
  /\ vmms' = [b EXCEPT ![i].proc = k]
  /\ loaded' = TRUE
  /\ UNCHANGED table

(* /stop of a running VM: terminate and VmmWorker.stop. *)
Stop(i) ==
  LET b == GetVmm(table, i) IN
  /\ table[i] # NoName
  /\ ~Stopped(b[i])
  /\ pst' = Terminate(b[i].proc)
  /\ vmms' = [b EXCEPT ![i] = StopWorker(@)]
  /\ loaded' = TRUE
  /\ UNCHANGED <<table, pname, nprocs>>

(* The view_console event: VmmWorker.console starts consoleTx and         *)
(* consoleRx unless their thread attribute is already set. Nothing checks *)
(* that the VM runs.                                                      *)
ViewConsole(i) ==
  LET b == GetVmm(table, i) IN
  /\ b[i].name # NoName
  /\ vmms' = [b EXCEPT
                ![i].tx = IF @ = "none" THEN "connecting" ELSE @,
                ![i].rx = IF @ = "none" THEN "connecting" ELSE @]
  /\ loaded' = TRUE
  /\ UNCHANGED <<table, pst, pname, nprocs>>

(* The view_video event: start video.serve once per worker with a name   *)
(* (a second request only refreshes the client).                         *)
ViewVideo(i) ==
  LET b == GetVmm(table, i) IN
  /\ b[i].name # NoName
  /\ ~b[i].video
  /\ vmms' = [b EXCEPT ![i].video = TRUE]
  /\ loaded' = TRUE
  /\ UNCHANGED <<table, pst, pname, nprocs>>
-----------------------------------------------------------------------------
(***************************************************************************)
(* The console threads of web/console.py.                                  *)
(***************************************************************************)

(* The VM's console socket accepts: the worker's process has bound it. *)
Listening(w) == w.proc # 0 /\ pst[w.proc] = "up"

(* consoleTx: sock.connect(com-1-tx); it raises if nothing listens, and  *)
(* the green thread ends.                                                 *)
TxConnect(i) ==
  /\ i \in DOMAIN vmms
  /\ vmms[i].tx = "connecting"
  /\ vmms' = [vmms EXCEPT
                ![i].tx = IF Listening(vmms[i]) THEN "attached" ELSE "dead",
                ![i].txp = IF Listening(vmms[i]) THEN vmms[i].proc ELSE @]
  /\ UNCHANGED <<table, loaded, pst, pname, nprocs>>

(* consoleTx: recv returns b"" once the VM's process is gone; it returns. *)
TxEof(i) ==
  /\ i \in DOMAIN vmms
  /\ vmms[i].tx = "attached"
  /\ pst[vmms[i].txp] = "exited"
  /\ vmms' = [vmms EXCEPT ![i].tx = "dead"]
  /\ UNCHANGED <<table, loaded, pst, pname, nprocs>>

(* consoleRx: sock.connect(com-1-rx), raising if nothing listens. *)
RxConnect(i) ==
  /\ i \in DOMAIN vmms
  /\ vmms[i].rx = "connecting"
  /\ vmms' = [vmms EXCEPT
                ![i].rx = IF Listening(vmms[i]) THEN "attached" ELSE "dead"]
  /\ UNCHANGED <<table, loaded, pst, pname, nprocs>>

(* consoleRx: sock.send of queued data raises once the process is gone. *)
RxBroken(i) ==
  /\ i \in DOMAIN vmms
  /\ vmms[i].rx = "attached"
  /\ vmms[i].proc # 0
  /\ pst[vmms[i].proc] = "exited"
  /\ vmms' = [vmms EXCEPT ![i].rx = "dead"]
  /\ UNCHANGED <<table, loaded, pst, pname, nprocs>>
-----------------------------------------------------------------------------
(***************************************************************************)
(* The VMM processes.                                                      *)
(***************************************************************************)

(* The devices bind com-<n>-rx and com-<n>-tx. *)
Boot(k) ==
  /\ pst[k] = "booting"
  /\ pst' = [pst EXCEPT ![k] = "up"]
  /\ UNCHANGED <<table, loaded, vmms, pname, nprocs>>

(* The guest powers off, or the VMM fails, on its own. *)
Exit(k) ==
  /\ pst[k] \in {"booting", "up"}
  /\ pst' = [pst EXCEPT ![k] = "exited"]
  /\ UNCHANGED <<table, loaded, vmms, pname, nprocs>>

(* SIGTERM takes effect. *)
Die(k) ==
  /\ pst[k] = "terminating"
  /\ pst' = [pst EXCEPT ![k] = "exited"]
  /\ UNCHANGED <<table, loaded, vmms, pname, nprocs>>
-----------------------------------------------------------------------------
Next ==
  \/ \E i \in Ids :
       \/ Touch(i) \/ Delete(i) \/ Start(i) \/ Stop(i)
       \/ ViewConsole(i) \/ ViewVideo(i)
       \/ TxConnect(i) \/ TxEof(i) \/ RxConnect(i) \/ RxBroken(i)
       \/ \E n \in Names : New(i, n)
  \/ \E k \in 1..MaxProcs : Boot(k) \/ Exit(k) \/ Die(k)

Spec == Init /\ [][Next]_vars
-----------------------------------------------------------------------------
(***************************************************************************)
(* Properties.                                                             *)
(***************************************************************************)

(* A process that has not been told to stop belongs to a VM the manager   *)
(* still knows: /delete never drops the handle of a running VMM, so no    *)
(* VMM is left running that no route can stop.                            *)
NoOrphanVmm ==
  \A k \in 1..nprocs :
    pst[k] \in {"booting", "up"} =>
      \E i \in DOMAIN vmms : vmms[i].proc = k /\ table[i] = pname[k]

(* At most one VMM runs per VM name: /start, /stop and /delete followed   *)
(* by /new never let two VMMs share a VM directory and its sockets.       *)
OneVmmPerVm ==
  \A k, m \in 1..nprocs :
    (k # m /\ pst[k] \in {"booting", "up"} /\ pst[m] \in {"booting", "up"})
      => pname[k] # pname[m]

(* Once vmms is loaded, every row has a worker with the row's name,       *)
(* however the worker came to exist (init_vmms, /new, or a socket event   *)
(* for an id no row had yet).                                             *)
WorkerMatchesRow ==
  loaded =>
    \A i \in Rows(table) : i \in DOMAIN vmms /\ vmms[i].name = table[i]

(* A console thread the worker of an up VM keeps is connected, or about  *)
(* to connect, to that VM's current process: view_console then streams   *)
(* the running VM, and never leaves the console dead for good.            *)
ConsoleFollowsVm ==
  \A i \in DOMAIN vmms :
    (Listening(vmms[i]) /\ vmms[i].tx # "none")
      => \/ vmms[i].tx = "connecting"
         \/ vmms[i].tx = "attached" /\ vmms[i].txp = vmms[i].proc
====
