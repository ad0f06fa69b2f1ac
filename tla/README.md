# Formal models of the ooows devices and web manager

This directory holds TLA+ models of the Python parts of ooows:
- the emulated devices the VMM talks to;
- the guest-memory layer they share;
- the web front end that starts VMs and bridges the serial console.

The models are checked with TLC on small instances. The main safety results are proved with TLAPS for every instance.

## The system and its parts

| Part | Source | What it does |
|---|---|---|
| Serial device | `src/devices-bin/ooowsserial.py` | Runs one `HandleIO` thread per vCPU channel. Each port-I/O request to COM1 (0x3F8) or COM2 (0x2F8) is served under one controller `Lock`. A read (`RxCom`) takes one byte from the port's inbound `Queue(128)`. A write (`TxCom`) puts the 1, 2 or 4 bytes of the value on the outbound `Queue(128)`, one `put` at a time. Each port has two daemon bridge threads. `_RxHandler` accepts a peer on `com-N-rx`, moves its bytes into the inbound queue and, when the peer hangs up, puts the empty string on the *outbound* queue. `_TxHandler` accepts a peer on `com-N-tx` and sends it the outbound bytes. On the empty string it closes that peer and accepts again. |
| Disk device | `src/devices-bin/ooowsdisk.py` | One request loop. Ports 0x90–0x93 are registers: sector, destAddr, sectorSize, sectorCount. 0x94 (DO_READ) copies `sectorSize*sectorCount` bytes of the backing file at `sectorSize*sector` into guest memory at destAddr. 0x95 (DO_WRITE) copies guest memory into the file when `off + size < filesize`, then raises the disk IRQ. |
| Memory manager | `src/devices-bin/pyutils/memorymanager.py` | Guest memory is a list of `mmap`ped ranges. Read and write go to the first range that holds the start address. A read slice is clipped at the end of that range. A write that does not fit raises `IndexError`. A miss returns -1. |
| Web console bridge | `src/web/console.py` | `consoleRx` connects to `com-1-rx` and sends what the browser types. `consoleTx` connects to `com-1-tx` and forwards bytes to the browser until end-of-file. |
| Web VM manager | `src/web/app.py`, `src/web/vmm.py` | Flask routes that create (at most 3), start, stop and delete VMs, and a `VmmWorker` per VM that owns the VMM process and the console threads. |
| Debug serial device | `src/devices-bin/ooowsserial-debug.py` | The same controller with both COM registers bridged to the process's stdin and stdout: `RxCom` does a blocking `os.read(stdin, 1)` and `TxCom` one `os.write(stdout, ...)` per byte, both under the controller lock. |
| Video bridge | `src/web-p9/video.py` | `videoTx` receives one notification byte per VGA update from the VMM (`t` text, `v` video) and emits a rendering of the shared-memory buffer: `parseTextMem` turns each 16-bit cell into character and colours, `parseVideoMem` prefixes the pixels with a BMP header. `refresh` renders the mode recorded in `vga-notifs-cache`. |
| Others | `devices/broadcooom/assembler.py`, `boot/disk_creator.py`, `web-p9/init-db.py`, `deploy-check.py`, `test-*-dev.py` | A firmware assembler, the disk-image builder, database setup and test clients. |

The VMM itself (C, not in `src/`) starts each device process. It hands it file descriptors for its vCPU channels, guest RAM and the PIC, and forwards port I/O as 28-byte request frames. The serial device's sockets are the console's endpoints.

## Modules

- **`MemoryManager.tla`**: the memory layer as operators over a sequence of regions `[start, size]` and their contents.
  - `Route` picks the first region holding an address, as the `for` loops do.
  - `RangeRead` is the clipped slice.
  - `RangeWriteFits`, `RangeWrite` and `MemWriteOutcome` give the three outcomes of `write`: ok, IndexError and miss.
- **`OoowsDisk.tla`**: the disk controller.
  - Variables: the four registers, the file contents, the contents of each memory range, the IRQ count, the request count and the last request served.
  - Actions:
    - `Handshake`;
    - `BadRequest`: an MMIO frame raises `NameError` and an unknown frame makes the loop return; both end the process;
    - `IoPortRead(port)`;
    - `SetRegister(port, v)`;
    - `DoRead`;
    - `DoWrite`.
  - A byte is a value that names its origin: `FileByte(j)`, `MemByte(r, j)` or the `Zero` that fills a hole. This lets a property say where every copied byte came from.
  - `FileRead` and `FileWrite` model `seek`+`read` (clipped at end of file) and `seek`+`write` (overwrite, extend, zero-fill).
- **`OoowsSerial.tla`**: the serial device.
  - Dispatch threads:
    - `pc[c]` is the position of vCPU thread `c` in `HandleIO`: idle, waiting for the lock, in `RxCom`, in `TxCom`, or exited.
    - `lock` is the owner of the controller lock.
    - `txi[c]` counts the bytes of the current write already put.
  - Queues and peers:
    - `rxq` and `txq` are the two queues of each port.
    - `rxConn`, `rxPipe` and `nsent` model the rx socket and its peer.
    - `txConn` models the tx socket, its peer and whether `_TxHandler` is alive.
  - History variables, which the code never reads:
    - `rxRead`: the bytes guests read;
    - `txLog`: the bytes `TxCom` put;
    - `txOut`: what tx peers received.
  - Actions:

    | Action | Code |
    |---|---|
    | `ReadRequest`, `BadRequest` | `ReadIoRequest` and `HandleIO` |
    | `RxInvalid` | a read wider than a byte: `RxCom` returns 0 under the lock |
    | `RxAcquire`, `RxCom` | `IoPortRead` with a blocking `get` |
    | `TxAcquire`, `TxCom` | `IoPortWrite`; one `put` per step, blocking while the queue is full, with the lock released after the last byte |
    | `RxAccept`, `RxPeerSend`, `RxPeerClose` | the rx peer |
    | `RxRecv`, `RxEof` | `_RxHandler` |
    | `TxAccept`, `TxPeerClose` | the tx peer |
    | `TxSend`, `TxClose` | `_TxHandler`; a send to a peer that hung up raises `BrokenPipeError` and the daemon thread dies |

  - Data is abstract:
    - an outbound byte is `Byte(c, k, i, n)`, byte `i` of the `n`-byte write number `k` of vCPU `c`;
    - an inbound byte is its position in the stream sent on the port.
  - `Spec` lets any peer connect and hang up. `ConsoleSpec` restricts the tx peer to `consoleTx` of `web/console.py`, which never hangs up first and reconnects whenever the port listens.
- **`OoowsWeb.tla`**: the VM manager.
  - Atomicity: under eventlet the app is one OS thread whose green threads switch only at green I/O. sqlite3 and file calls do not yield, so each route and socket.io handler is one atomic action.
  - Variables:
    - `table` is the vms table;
    - `loaded` and `vmms` are the global dict of workers, which is None until `get_vmm` first calls `init_vmms`;
    - a worker is a record of the `VmmWorker` attributes: name, process, `consoleTxThread`, `consoleRxThread`, `videoThread`;
    - VMM processes are indices with a state `pst` and the VM name `pname`.
  - `GetVmm` is `get_vmm` with its side effects: the lazy load, and a nameless worker for an unknown id.
  - Actions:
    - `Touch`: any handler whose only effect is `get_vmm`'s;
    - the routes and events `New`, `Delete`, `Start`, `Stop`, `ViewConsole`, `ViewVideo`;
    - the console green threads `TxConnect`, `TxEof`, `RxConnect`, `RxBroken`;
    - the VMM process: `Boot` (its devices bind the console sockets), `Exit` (on its own) and `Die` (after SIGTERM).
- **`SerialDevice.tla`**: the abstract serial controller, what both serial devices promise the guest (spec 4.3, 5). `served[c]` counts the requests of channel `c`, `alive[c]` says whether its loop runs. `rxRead[l]` and `txLog[l]` are the inbound bytes returned and the outbound bytes written on stream `l`. Each request is one step: `Serve` (a wide read), `Read` (the next byte of the stream), `Write` (all bytes of the value at once) or `Halt`.
- **`SerialRefinement.tla`**: the refinement mapping from `OoowsSerial` to `SerialDevice`. A request counts as served once its thread is back in the loop. A write in progress is hidden from `txLog` until its last byte is put, which is the step that releases the lock. Each COM port is its own stream. `rxRead` maps to itself, and `RxInOrder` makes it the prefix `1..n` the abstract `Read` builds.
- **`OoowsSerialDebug.tla`**: the debug serial device.
  - Variables: `pc`, `lock`, `req`, `nreq` and `txi` as in `OoowsSerial`; stdin as `inSent`, `inEof` and `inRead`; stdout as `outOpen` and `out`.
  - Actions: `Handshake` (`DeviceHandshake`, `main`), `ReadRequest`, `BadRequest`, `RxInvalid`, `Acquire`, `RxCom`, `TxCom` (one `os.write` per step, with the lock released after the last byte).
  - The two exceptions: `RxEof` (`struct.unpack` of the empty read at EOF) and `TxBroken` (`BrokenPipeError`). Each ends the thread inside the critical section, so the lock is never released.
  - The environment: `StdinByte`, `StdinEof`, `StdoutClose`.
  - The same `SerialDevice` instance, with both ports on one stream, is the property `ImplementsSerialDevice`.
- **`OoowsVideo.tla`**: the video bridge.
  - `Decode` is the body of `parseTextMem`'s loop on one cell. The cell is read as a signed short, and Python's `&` and `>>` become `%` and floor division.
  - `ParseTextMem` and `ParseVideoMem` are the two renderings.
  - `RecvText`, `RecvVideo`, `RecvOther` and `RecvEof` are the four branches of `videoTx`'s loop. `Refresh` is `refresh`.
  - The VMM is the environment: `VmmPutCell`, `VmmPutPixel`, `VmmNotify` (the cache file, then the byte) and `VmmClose`.
- **`OoowsSerialProofs.tla`**, **`OoowsDiskProofs.tla`**: the TLAPS proofs about `OoowsSerial` and `OoowsDisk`.
- **`OoowsWebProofs.tla`**: the TLAPS proofs about `OoowsWeb`.
- **`OoowsVideoProofs.tla`**, **`OoowsSerialDebugProofs.tla`**: the TLAPS proofs about `OoowsVideo` and `OoowsSerialDebug`, including the debug device's refinement of `SerialDevice`.
- **`MC_OoowsSerial.tla`** (which extends `SerialRefinement`), **`MC_OoowsSerialDebug.tla`**, **`MC_OoowsVideo.tla`**, **`MC_OoowsDisk.tla`**, **`MC_OoowsWeb.tla`**: the model values and the constant definitions for TLC.

## Runs

| Run | cfg | Expect | Checks |
|---|---|---|---|
| serial_safety | `MC_OoowsSerial_safety.cfg` | pass | `TypeOK`, `RxInOrder`, `TxWritesContiguous` |
| serial_write_liveness | `MC_OoowsSerial_live.cfg` | pass | `WriteCompletes`, `ImplementsSerialDevice` under `ConsoleSpec` |
| serial_tx_reaccept | `MC_OoowsSerial_reaccept.cfg` | violation | `TxReaccepts` |
| serial_write_split | `MC_OoowsSerial_split.cfg` | violation | `TxWriteNotSplit` |
| debug_refinement | `MC_OoowsSerialDebug.cfg` | pass | `TypeOK`, `ImplementsSerialDevice` |
| debug_lock_held | `MC_OoowsSerialDebug_lock.cfg` | violation | `LockOwnerAlive` |
| disk_safety | `MC_OoowsDisk.cfg` | pass | `TypeOK`, `DiskSizeFixed`, `DoReadCopiesFile`, `DoWriteStoresRam` |
| disk_last_sector | `MC_OoowsDisk_lastsector.cfg` | violation | `InBoundsWriteStored` |
| disk_partial_copy | `MC_OoowsDisk_whole.cfg` | violation | `DoWriteCopiesGuest` |
| video_display | `MC_OoowsVideo.cfg` | pass | `TypeOK`, `DisplayCurrent` |
| web_safety | `MC_OoowsWeb.cfg` | pass | `TypeOK`, `NoOrphanVmm`, `OneVmmPerVm`, `WorkerMatchesRow` |
| web_console_stale | `MC_OoowsWeb_console.cfg` | violation | `ConsoleFollowsVm` |

What the properties say:
- **`RxInOrder`**: what guests read, what is queued and what is still in the socket are exactly the bytes the rx peers sent, in order. It is broken by a wide read that consumes a byte.
- **`TxWritesContiguous`**: on each port's outbound queue, the bytes of one 2-byte write are never separated by another vCPU's bytes. It is broken by dropping the lock.
- **`WriteCompletes`**: a `TxCom` blocked on a full queue always finishes while a console is attached.
- **`DiskSizeFixed`**: no DO_WRITE grows the file, so the `filesize` cached at start-up is never stale.
- **`DoReadCopiesFile`** (an action property): guest memory changes only in a DO_READ step, only in the range holding destAddr, only inside `[destAddr, destAddr+size)`, and each new byte is the file byte at the matching offset.
- **`ImplementsSerialDevice`** (both serial devices): every behaviour is a behaviour of `SerialDevice`. For the debug device this holds whatever stdin and stdout do. For `OoowsSerial` it is checked under `ConsoleSpec` only: the tx peer is `consoleTx`, which never hangs up first, so a tx handler ended by BrokenPipe (`TxReaccept`) is outside what it covers. Each request is served in one step, each byte read is the next byte of its stream, and the bytes of a write appear together. It is broken by an `RxCom` that peeks at the queue without taking the byte, and by a debug `IoPortRead` that does not take the lock.
- **`DoWriteStoresRam`** (an action property): the backing file changes only at `[sector*sectorSize, sector*sectorSize+size)`, only from a destAddr some RAM range holds, and each changed byte is the guest byte at the same distance from destAddr, in the range that holds destAddr. A DO_WRITE miss therefore leaves the file alone: `handle.write(-1)` raises before anything is written. A read that `ram.read` clips at the end of its range writes only the clipped bytes. The property is broken by a write that forgets the `seek`.
- **`DisplayCurrent`**: once `videoTx` has received every notification and the VMM has written nothing since its last one, the browser shows the current buffer of the current mode, whatever the order of writes, notifications and `refresh` calls. It is broken by a video notification rendered from the text buffer. `OoowsVideo`'s `TypeOK` says no rendered character is NUL, which is broken by dropping the null-to-space replacement.

- **`NoOrphanVmm`**: every VMM process not yet told to stop is the process of a worker whose row names its VM. It is broken by a `/delete` without `stop`.
- **`OneVmmPerVm`**: no two running VMMs share a VM name. It is broken by `/new` without the unique-name check.
- **`WorkerMatchesRow`**: once `vmms` is loaded, every row has a worker with its name. That includes a worker first created nameless by a socket event for an id no row had yet. It is broken by `/new` without `vmm.new`.

### Findings (the violation runs)

1. **`TxReaccepts`** (`ooowsserial.py:87`). When a tx peer hangs up first, the next `conn.send` raises `BrokenPipeError` and `_TxHandler` dies. If nothing is queued, it blocks in `get()` instead. Either way the port never accepts a new console. The comment at line 89 says the handler prepares to accept a new connection, but only an rx-side hang-up does that.
2. **`TxWriteNotSplit`** (`ooowsserial.py:72`). `_RxHandler` puts the empty-string sentinel outside the controller lock. It can land between two bytes of one guest write, so the console is cut off mid-value and the rest goes to the next console.
3. **`InBoundsWriteStored`** (`ooowsdisk.py:91`). The bounds check `off + size < filesize` is strict. A write of the last sector of the disk is dropped, although the comment says only writes outside the disk are invalid, and the IRQ still reports completion.
4. **`DoWriteCopiesGuest`** (`memorymanager.py:15`, `ooowsdisk.py:94`). `MemoryManager.read` routes by the start address and clips at the end of that range. A DO_WRITE from a buffer that crosses into the next range therefore writes a short, wrong sector.
5. **`ConsoleFollowsVm`** (`vmm.py:88`). `VmmWorker.console` starts `consoleTx` only while `consoleTxThread` is None, and only `stop()` resets it. A console thread that has ended stays recorded. Its connect may have been refused because the VM was still booting: TLC's shortest trace is touch, /new, then view_console while no VM process runs; the console thread's connect is refused, it ends, and a later start never re-attaches it. Or it read EOF when the VM exited on its own, and the VM was then started again without `stop()`. Either way the running VM never gets a console until `/stop`.
6. **`LockOwnerAlive`** (`ooowsserial-debug.py:45`). At stdin EOF `os.read` returns `b''` and `struct.unpack("B", b'')` raises between `_lock.acquire()` and `_lock.release()`. The thread ends holding the lock, and every other vCPU thread hangs on its next port access. Spec 4.4 says an exception ends that loop only. The trace: handshake, a read request, acquire, stdin closed, the read. A `BrokenPipeError` on stdout (line 56) does the same.

Observations the models reach that no run states as a property:
- **A read blocks both ports** (`ooowsserial.py:114`). `RxCom` waits in `rxq.get()` holding the one controller lock. Spec 4.3 says a read blocks the calling dispatch thread. In the model, while no byte arrives on COM1, a vCPU's write to COM2 waits in `lock` forever. The spec does not say whether the other port may proceed.
- **A DO_READ miss is not fatal** (`ooowsdisk.py:83`). DO_READ drops the -1 that `MemoryManager.write` returns when destAddr is in no RAM range, leaves guest memory alone and answers the port write as if the read had been done; it raises no IRQ on any path. Spec 3 says callers must treat a miss as fatal. DO_WRITE does stop on a miss, and `DoWriteStoresRam` checks that nothing reaches the file first.
- **A blink attribute ends the video bridge** (`video.py:65`, `:72`). `parseTextMem` reads each cell with `struct.unpack("h")`, which is signed. For an attribute byte of 0x80 or more, `abytes` is negative and `bcolor = abytes >> 4` is between -8 and -1; for 0x8F, `bcolor` is -8. `bcolor_map` has only the keys 0..15, so the `KeyError` ends `videoTx`, and the screen is never updated again. In `OoowsVideo`, `RecvText` takes the thread to `crashed`. `DisplayCurrent` is stated for a running thread.
- **The image builder's edges** (`boot/disk_creator.py:17`, `:20`). The kernel-sector count is one byte, so a kernel of more than 255 sectors makes the build raise. A kernel that is already a multiple of 512 bytes gets a whole extra zero sector.

### Bounds and why they are enough

**Serial runs:**
- 2 vCPUs, one COM line, queues of capacity 1–2, access sizes {1, 2}, 2 requests per vCPU, 1 byte sent by the rx peers in total (`MaxSend` bounds all connections of a port together) and up to 2 connections.
- Capacity 2 is enough to fill the outbound queue while a 2-byte write is in progress. That is the case in which `TxCom` blocks holding the lock and in which the sentinel can fall between two bytes.
- Two vCPUs are the least that can interleave.
- The writes of width 4 follow the same code path as width 2 (the loop of `TxCom`). Their contiguity is covered by the proof, which holds for all widths.
- The two ports share nothing but the lock, so the runs use one. {1, 2} doubles the state space without a new behaviour: the lock is still exercised by two vCPUs on one port.
- Symmetry over the vCPUs is sound because nothing in the model distinguishes them.

**Disk runs:**
- A 4-byte file and two 2-byte memory ranges.
- Register values {0, 1, 2, 4}.
- 5–7 requests.
- These bounds reach the last-sector boundary (`off + size = filesize`), a buffer that crosses a range boundary, DO_READ past the end of a range (IndexError) and a miss.

**Refinement:**
- `ImplementsSerialDevice` for `OoowsSerial` is checked in the liveness run, under `ConsoleSpec`: 2 vCPUs, one COM line, sizes {1, 2}, a queue of capacity 1 (so every 2-byte write blocks between its bytes) and two rx connections.
- `debug_refinement`: sizes {1, 2, 4}, 2 requests per vCPU, 2 stdin bytes, and stdout closing at any point.
- Neither refinement run uses symmetry.

**Video runs:**
- 2 text cells and 1 pixel byte.
- Characters NUL and `A`, and attributes 0x07 and 0x8F.
- 3 writes and up to 2 notifications in flight, which is enough for a notification to be overtaken by a mode switch.

**Web runs:**
- Three ids and two names, so that an id can be free when another is deleted and a name can be reused.
- The code's `VM_LIMIT = 3`.
- Three VMM starts: enough for start, stop, start again, and a start of a second VM.
- Symmetry over ids and names is sound, because the model compares them only for equality.

### Fairness

`Fairness` is weak fairness on each dispatch thread once it has a request (`pc[c] # "idle"`) and on each bridge thread. They are OS threads that keep running while they can. The peers, and the VMM that sends requests, are the environment and get no fairness. `ConsoleSpec` adds weak fairness on `TxAccept`: `consoleTx` is started whenever the console view is opened and connects right away.

### Mutants

Each property of a passing run fails under a plausible bug in the code it is about:
- `TxComLate`: the `TxCom` loop runs one byte too far;
- `RxInvalidConsumes`: a wide read that consumes a byte;
- `TxAcquireNoLock`: `IoPortWrite` without `acquire`;
- `TxCloseNoBreak`: `close` without `break`;
- `DoWriteIrqTwice`: the IRQ asserted twice;
- `DoWriteUnchecked`: DO_WRITE without the bounds check;
- `FileReadNoSeek`: a read without the `seek`;
- `DeleteKeepsNone`: `vmms[id] = None` instead of `del`;
- `DeleteNoStop`: `/delete` without `stop`;
- `NewNoUniqueCheck`: `/new` without the name check;
- `NewNoName`: `/new` without `vmm.new`;
- `RxComPeek`: `RxCom` that does not take the byte from the queue;
- `TxComExtra`, `AcquireUnguarded`: the debug `TxCom` one byte too far, and the debug `IoPortRead` without the lock;
- `FileWriteNoSeek`: a DO_WRITE whose `handle.write` lands at the start of the file, the `seek` forgotten;
- `RecvNoSpace`, `RecvVideoAsText`: text rendered with NUL characters, and a video update rendered as text.

## Proofs

Theorems are in their own modules (`*Proofs.tla`), which extend the model and `TLAPS`. No module with a theorem reaches a `RECURSIVE` operator.

`OoowsSerialProofs.tla` proves, for every value of the constants allowed by `SerialAssumption`:

- **`TypeCorrect`**: `Spec => []TypeOK`.
  - `TypeOK` alone is not inductive. `TxCom` needs to know that its request number is in `1..MaxReq` and that `txi` is below the write's width, or the byte it puts would not be in `Items`.
  - The inductive invariant is `TypeInv == TypeOK /\ WriterState`. `WriterState` says that a thread past `ReadRequest` has `nreq[c] \in 1..MaxReq` and that a thread in `TxCom` has `txi[c] < TxWidth(req[c].size)`.
- **`WritesContiguous`**: `Spec => []TxWritesContiguous`. The inductive invariant `ContigInv` conjoins `TypeInv` with two more facts:
  - `LockInv`: a thread is in `RxCom` or `TxCom` exactly when it holds the lock.
  - `LogTail`: the last byte of each port's log is the previous byte of the write in progress on that port, if there is one. Otherwise it ends a write.

  With these, a `TxCom` step appends the next byte of the write that already ends the log (`ContigStep`), and a new write starts only after the previous one ended. The lemma `ContiguousAppend` states once when appending to a contiguous sequence keeps it contiguous.

- **`InboundInOrder`**: `Spec => []RxInOrder`. `RxInOrder` is inductive given `TypeInv`. Each rx step does one of three things:
  - moves the head of `rxq` to the end of `rxRead` (`RxCom`);
  - moves the head of `rxPipe` to the end of `rxq` (`RxRecv`);
  - appends the next count to `rxPipe` (`RxPeerSend`).

  Every other action leaves the four variables alone. The lemmas `ShiftFirst`, `ShiftSecond`, `AppendLast` and `CountUp` show that the concatenation is unchanged, or grows by `nsent + 1`, respectively. They rest on `HeadTailConcat`: a nonempty sequence is its head followed by its tail.

These invariants were checked with TLC as invariants of the safety instance before they were proved.

`OoowsDiskProofs.tla` proves, for every region layout and every set of register values allowed by `DiskAssumption`:

- **`DiskTypeCorrect`**: `Spec => []TypeOK`.
- **`DiskSizeNeverStale`**: `Spec => []DiskSizeFixed`.

Both follow from `IInv == TypeOK /\ DiskSizeFixed /\ irqs <= nreq`, with one lemma per action. The supporting lemmas:
- `RouteFacts`: `Route` returns 0 or the index of a region that holds the address. `Route` is a least-element choice, and its existence comes from the well-foundedness of `<` on `Nat` (`WFMin`).
- `MemReadFacts`, `MemWriteFacts` and `FileWriteFacts`: the three memory and file operations keep their results in the byte set, and the lengths `DiskSizeFixed` needs. DO_WRITE extends the file only when its bounds check `off + size < filesize` has failed, and then it writes nothing.

`OoowsWebProofs.tla` proves, for every value of the constants allowed by `WebAssumption` (any sets of ids and names, any `VM_LIMIT` and any bound on the processes):

- **`NoOrphan`**: `Spec => []NoOrphanVmm`.
- **`OneVmm`**: `Spec => []OneVmmPerVm`.
- **`WorkersMatchRows`**: `Spec => []WorkerMatchesRow`.
- **`WebTypeCorrect`**: `Spec => []TypeOK`.

All four follow from `IInvHolds`, which proves `Spec => []IInv`. `NoOrphanVmm` is not inductive alone, and `IInv` adds what each route relies on:

- `Unloaded`: until `vmms` is loaded there are no rows, no workers and no processes.
- `Unborn`: the indices above `nprocs` are exactly the unborn ones, so `/start` takes a fresh one.
- `TableUnique`: row names are unique, which is the check of `/new`.
- `RowlessIdle`: a worker for an id without a row has no process. So `/new` may rename it without dropping a running VMM's witness.
- `ProcsStarted`: workers point only at started processes. So `/stop` and `/delete` terminate a born process.
- `WorkerMatchesRow` and `NoOrphanVmm` themselves.

The proof follows these steps:

- `GetVmmOK` shows that `get_vmm`'s result satisfies `WorkersOK`, the worker half of `IInv` stated of any dict.
- There is one lemma per action.
  - `/start`: the worker of i is stopped, so it witnesses no running process, and its process may be replaced.
  - `/delete`: the process it terminates is the only one whose witness disappears.
  - `/new`: the id it takes has no row, so by `RowlessIdle` its worker has no process.
  - The console threads and the view events change only thread attributes (`WorkersGrow`, `ThreadStep`, `WorkerStep`).
  - The process steps never make a process run (`ProcsCalmer`).
- `OneVmmPerVm` then follows from `IInv`. Two running processes have distinct witness workers, both are rows (`RowlessIdle`), and row names are unique.

`IInv` was checked with TLC as an invariant of the web instance before it was proved.

`OoowsVideoProofs.tla` proves, for every buffer size and set of byte values allowed by `VideoAssumption`:

- **`VideoTypeCorrect`**: `Spec => []TypeOK`. The step lemma `TypeStep` names the messages the bridge may show as one set, `ShownOK`, so that a step leaving `shown` alone never expands it. It rests on three lemmas about the renderers:
  - `DecodeType`: a cell whose colour lookups succeed decodes to a non-null character and two colour keys. The null-to-space replacement removes the 0.
  - `TextMsgType` and `VideoMsgType`: the whole message has the type the browser side expects.
- **`DisplayCurrentHolds`**: `Spec => []DisplayCurrent`. `DisplayCurrent` is not inductive. A state with an empty socket and a stale display is unreachable only because of what the socket held before. The inductive invariant `IInv` has three conjuncts:
  - `TypeOK`;
  - `LastModeCached`: the last mode byte (`t` or `v`) still in the socket is the mode in the cache file. `VmmNotify` writes the file before it sends the byte.
  - `ShownCurrent`: once no mode byte is pending and nothing has been written since the last one, the browser shows the current mode's buffer.

  When videoTx receives the last pending mode byte, `LastModeCached` says it is the cache file's mode, so what it renders is what `DisplayCurrent` asks for. The lemmas `TailLastMode`, `HeadLastMode`, `TailPending`, `AppendOther` and `AppendMode` state what `recv(1)` (`Tail`) and a send (`Append`) do to the pending mode bytes and to the last of them.

`OoowsSerialDebugProofs.tla` proves, for every set of vCPUs, ports and size codes and every bound allowed by `DebugAssumption`:

- **`DebugInvariant`**: `Spec => []RInv`. `RInv` states what the controller lock protects:
  - `LockOwned`: a thread inside `RxCom` or `TxCom`, or one that died with a value partly written, owns the lock.
  - `TailIsWrite`: the bytes of the write under way, or of the one cut short, are the last bytes of stdout, in order.
  - `NoThreadYet`, `InFlightCounted` and `TxiClear`: how `pc`, `nreq` and `txi` agree.
  - The step lemma's hardest case, a `TxCom` byte that is not the last, is the lemma `TxComTail`. The byte appended to stdout is the next byte of the same write, so the bytes of that write still end stdout.
- **`DebugTypeCorrect`**: `Spec => []TypeOK`. `TypeOK` is not inductive alone. A `TxCom` byte is in `Items` only because of `InFlightCounted` and the width bound of `TailIsWrite`.
- **`DebugRefinement`**: `Spec => ImplementsSerialDevice`, the refinement that the run `debug_refinement` checks on two vCPUs.
  - `RefInit`: the initial state maps to `SerialDevice`'s.
  - `RefStep`: every step maps to a `SerialDevice` step or a stutter.
    - `ReadRequest`, `Acquire`, a `TxCom` that is not the last byte, and the environment are stutters.
    - `RxInvalid` is `Serve`.
    - `RxCom` is `Read`.
    - The last `TxCom` is `Write`.
    - `BadRequest`, `RxEof` and `TxBroken` are `Halt`.
  - `PendingIsCut`: by `LockOwned`, at most one write is cut short, so the `CHOOSE` in `Pending` names it.
  - `TxLogSame`: steps that neither cut nor resume a write leave the mapped stream alone.
  - `CompleteWrite`: the bytes already on stdout and the last one are exactly `WriteBytes` of the request.

`IInv` and `RInv` were checked with TLC as invariants of `MC_OoowsVideo.cfg` and of both debug configurations (264,740 states) before they were proved.

Out of the prover's reach, and checked by TLC only:
- the liveness property `WriteCompletes`, which needs fairness and ENABLED;
- the refinement `ImplementsSerialDevice` of `OoowsSerial`, whose proof needs `RxInOrder`, which is now proved, and a step-by-step simulation over the socket queues not yet written (the same simulation is proved for the debug device);
- the disk's action properties `DoReadCopiesFile` and `DoWriteStoresRam`, which are not yet proved;
- `LockOwnerAlive`, which is violated (finding 6);
- `ConsoleFollowsVm`, which is violated (finding 5).

## Not modelled

- **Web app restart**: whether VMM processes outlive the app is up to the service manager, which is not in the repository.
- **Web manager data**: the file system (VM directories, uploaded disks), the console data and name validation are abstracted.
- **Assembler** (`devices/broadcooom/assembler.py`): a build-time compiler for a network-processor target. It is a lark grammar plus encoders for 47 opcodes into bit fields. Spec §1 puts it out of scope, and it shares no state with the devices. Modelling it would mean transliterating its encoding tables.
- **Video bridge data**: the ANSI escape strings and the hex encoding of the BMP are left out, and only the colour indices are kept. `videoHandler` is an asyncio wrapper that nothing calls. Reads of shared memory are atomic in the model. A torn read can show a mix of two buffers until the next notification, and `DisplayCurrent` is stated at quiescence.
- **Disk image creator** (`boot/disk_creator.py`): a one-shot build script on two input lengths, with no concurrency. Its two edges are listed under the observations above.
- **Database initialisation** (`web-p9/init-db.py`): `mkdir`, then `app.init_db`, which `OoowsWeb`'s `Init` stands for.
- **Deployment checks and test clients**: scripts that drive a running system from outside.
- **Serial device start-up** (`DeviceHandshake`, socket setup), **writes to unknown serial or disk ports**, and **direction codes other than read/write**: each of these is a no-op apart from the response.

## Plan

1. Compose the console threads with `OoowsSerial`'s tx side.
2. Prove the refinement `SerialRefinement` with TLAPS, from `RxInOrder` and `LockInv`.
3. Prove `DoReadCopiesFile` as an action property from `IInv`.
4. Carry the debug device's refinement proof (`RInv`, `PendingIsCut`, `CompleteWrite`) over to `SerialRefinement`, where the lock protects two socket queues per port instead of one stdout.
