# MiniAutosar storage stack: a TLA+ development

MiniAutosar is an EEPROM emulation in two layers for a small controller:
`MiniNvm` manages blocks with RAM buffers, dirty flags and a queue of requests;
`MiniFee` keeps the blocks as a log of records in flash; a flash driver `Fls`,
reached through the forwarding layer `MiniFlsIf`, executes one job at a time.
Everything is asynchronous and single-threaded: a call only registers a request,
and three main functions, called for ever in a cycle
(`MiniFlsIf_MainFunction`, `MiniFee_MainFunction`, `MiniNvm_MainFunction`), move
each layer one step. All the hard behaviour comes from that: a job is a chain of
dozens of steps, and between any two of them the caller may submit or cancel, the
controller may be reset, or the power may fail with a page half programmed.

This directory holds the models of that stack, the TLC runs that check them on small
instances, and machine-checked proofs. `PROJECT.json` lists them all with the
source lines each definition stands for.

## 1. Inventory

| component | state | operations | status |
|---|---|---|---|
| `MiniFee` (`Codes/Memory/MiniFee`) | one job (`state`, `status`, block, callback cursors), the directory of the active cluster (`dirValid`, `dirIndex`, `dirGen`, `headerEnd`, `dirOffset[]`), the search for the active cluster, a migration, four buffers | `Init Read Write ReadAll WriteAll Cancel MainFunction` (11 states, 17 sub-states of `ProcessFindAddr`) | modelled |
| `Fls` (`Codes/Port/Fls.c`) | the medium; the registered job with its buffer *pointer*; status and result | `Init Read Write Erase MainFunction` | modelled |
| `MiniFlsIf` | none | forwards each call to `Fls` | modelled (as `Fls`) |
| MiniFee configuration | block and cluster tables | none | modelled (constants) |
| `MiniNvm` (`Codes/Memory/MiniNvm`) | queue, current job, one shared `DataBuf`, RAM buffer, dirty flag and result of each block, overall result | `Init DeInit ReadBlock WriteBlock ReadAll WriteAll CancelJobs ReadRam WriteRam MainFunction` | modelled |
| MiniNvm configuration | descriptor table, queue size | `MiniNvm_ValidateConfig` | modelled (constants, and the check at each `Init`) |
| self test (`Codes/Test`) | a report | the cycle of the three main functions, test cases | the cycle only |
| `Common`, platform headers | none | byte loops, types | modelled where used / nothing to model |
| `main.c`, build files | none | runs the self test, prints its report | nothing to model |

**Interaction.** `MiniNvm` calls `MiniFee_Read/Write/ReadAll/WriteAll/Cancel` and
polls `MiniFee_GetStatus`; `MiniFee` calls back into `MiniNvm` to deliver each block
of a `ReadAll` and to ask, block by block and several times, for the data of a
`WriteAll`. `MiniFee` calls `Fls_Read/Write/Erase` through `MiniFlsIf` and polls its
status and result. `Fls` stores a pointer to MiniFee's buffer and dereferences it
later: buffers are shared state of the two.

**What is hard, and the properties that make each part correct.**

- *Fls*: the job runs after the call that registered it returned. The
  buffer behind the pointer must be the one meant, whole, when it runs; a cell must be
  programmed once per erasure; a job must stay on the medium.
- *MiniFee*: (a) the directory in RAM is trusted across jobs, so it must be what a scan
  would rebuild, after any sequence of jobs, cancellations and resets; (b) a
  cancelled job leaves its flash job running into the next one; (c) a reset or loss of
  power at any step of append, migration or activation must keep what was durable;
  (d) room is computed with unsigned arithmetic before the job, the records are
  written after; (e) cluster selection by generation must be unambiguous; (f) each job
  ends and says truly whether it succeeded.
- *MiniNvm*: the queue and its answers; the shared `DataBuf` between the time a request
  is queued and the time its data is in flash; RAM, dirty flag and flash of a block
  must agree about what is saved; its callbacks must keep the stability MiniFee asks for.
- *The stack*: a cancellation, deinitialization or restart goes through layers that are each
  in the middle of something; what MiniNvm takes for the answer to its job must be one, and
  what is read must be what was written, whatever migrations lie between.

`hazards` in `PROJECT.json` lists each of these at the line where it bites.

## 2. Modules

| module | role |
|---|---|
| `FeeFormat` | block table, cluster table, cells: what is stored in flash |
| `Fls` | the driver, its medium, the medium's faults |
| `MiniFee` | the state machine of `MiniFee.c`, one action per API call and per (sub-)state; extends `Fls` |
| `BlockStore` | abstract specification: what MiniFee promises |
| `FeeSafety` | invariants, action and liveness properties of MiniFee |
| `FeeStore` | what the flash holds, followed along the steps of MiniFee; refinement mapping to `BlockStore` |
| `MCFee` | bounded caller and environment of MiniFee |
| `MiniNvm` | queue, results, dirty flags and main function of `MiniNvm.c`: a component that sees only the status of the layer below and the memory it shares with it |
| `RequestQueue` | abstract specification: what MiniNvm promises about requests |
| `NvmSafety` | properties of MiniNvm |
| `NvmOnStore` | composition of `MiniNvm` with `BlockStore`; refinement mapping to `RequestQueue` |
| `MCNvm` | bounded caller, history variables |
| `Stack` | composition of `MiniNvm` with the full `MiniFee` and `Fls`; refinement mapping to `NvmOnStore` |
| `MCStack` | bounded caller of the stack, who keeps the rules for buffers or does not; what a read may find |
| `MiniFeeProof` | inductive invariant and theorems of `MiniFee` |
| `FeeLog` | inductive invariant of `MiniFee` about the contents of the flash, for flash that does not fail; `MCFeeLog` joins it to `MCFee` |
| `LogProof` | lemmas about the recursive functions of the models: sums over blocks, the log of a cluster |
| `FeeLogProof`, `FeeLogSteps`, `FeeLogTheorems` | every step keeps the invariant of `FeeLog`; the theorems that follow |
| `NvmProof` | inductive invariant and theorems of `MiniNvm` above the abstract store |
| `NvmTheorems` | `MiniNvm` above the abstract store implements `RequestQueue`; its jobs for all blocks load and save what they say |
| `StackProof` | inductive invariant and theorems of the whole stack |

### State and actions against the code

`MiniFee_Context` is grouped by purpose: `job` (`jobType`, `blockNumber`, the
cursors `allNextBlock`, `scanPhase`, ...), `dir` (the directory), `find`
(`ProcessFindAddr`), `mig` (migration and header writing). `mem` holds the
buffers (`clusterHdrBuf`, `scanHdrBuf`, `jobBuf`, `writeHdrBuf`), a
function from buffer names to cells, since `Fls` keeps pointers into them; `dataBuf`,
`ram` and `dirty` are the caller's memory. `dir.offset[b] = NoRecord` and
`dir.gen = NoGen` are the marks `0xFFFFFFFF`.

`MiniFee_MainFunction` runs one `case` per call, so each `case` of its `switch` is an
action, and each `case` of `ProcessFindAddr` another (the three outcomes of `DECIDE`
are three). `MiniFee_Read(b)` etc. are the API functions; `CallRead`, `CallWrite`,
`CallReadAll`, `CallWriteAll` join them with the caller's side (which buffer
it passes, which blocks its callback answers for). `Driver` is one
`Fls_MainFunction` at the end of the job's latency, `DriverFails` a job ending with
`MEMIF_JOB_FAILED`. `MiniFee_Init` is what the function does; `Reset` is a restart of
the program, which also zeroes the caller's memory; `PowerLoss` is a restart with the flash job
in flight done in part.

The modules compose like this (arrows are refinements that TLC checks; `NvmOnStore ---> RequestQueue` is also a theorem):

```
  MiniNvm + BlockStore = NvmOnStore  --->  RequestQueue     (nvm_requests)
     |          ^            ^
     |          |            |
     |       FeeStore        |
     |      (fee_jobs)       | (stack)
     |          |            |
  MiniNvm + MiniFee + Fls = Stack
```

`BlockStore` is used twice: `FeeStore` shows that `MiniFee` implements it, and
`NvmOnStore` takes its actions as the layer below. `MiniFee` implements it for callers that
obey `MiniFee.h` and leave their buffers alone while it is BUSY. `MiniNvm` does
not always: `DataBuf` and the RAM buffers change during a job. So `left` says which
blocks are not yet stored or delivered, and what counts is the content of the buffer at
that moment; a block counts once. That is less than the full `MiniFee` may do to such a
caller (it copies a buffer, and may ask for it more than once): so `stack` checks
`Stack => NvmOnStore` for a careful caller, and `stack_overrun` shows what happens to another.

A *careful caller* (`Careful = TRUE` in `MCStack`) keeps two rules: R1, while a job for all
blocks is pending it leaves RAM buffers and dirty flags alone (`WriteRam`, and `DeInit`, which
clears the flags the `WriteAll` callback is asked for); R2, it calls `WriteBlock` only when nothing is pending, because
all requests share one `DataBuf`. R1 is what `MiniFee.h:116` demands of the callback; R2 is not written
anywhere: finding 4 is what breaks without it.

`MiniNvm` keeps the names of the code: each API function that changes state is an
action, `StartCurrent`, `HandleCurrentResult`, `FinishReadAll` and `FinishWriteAll` are the branches of
`MiniNvm_MainFunction`, with `Finished` their common guard. `current` is `CurrentValid`,
`CurrentOperation` and `CurrentBlockId`; `queue`, `head`, `tail`, `count` the ring;
`target[b]` the place the caller of a read points to. Blocks have their MiniFee numbers
(MiniNvm's less one). A refused call is a step only if it changes something:
`MiniNvm_WriteBlockRefused`, which leaves the block dirty. An accepted call that changes nothing,
`MiniNvm_WriteBlockSame`, is there because the caller believes the data saved. Actions that call
MiniFee say in `MiniNvm` what MiniNvm does, and are joined with the callee under their short names
(`ReadAll`, `WriteAll`, `StartNext`, `CancelJobs`, `Init` or `Start`, `DeInit`) in `NvmOnStore` and `Stack`.

In `Stack` the callbacks need no interface: `Offered`, the blocks for which `MiniNvm_WriteAllCallback`
returns a pointer, are the blocks with `dirty[b]`, which MiniFee's `Target` tests; and its reads and writes of `dataBuf` and `ram` are
those of MiniNvm's memory.

The interleaving is free: caller, the layers and the driver step in any order. The fixed cycle
of the self test's polling loops, for any number of latency cycles, is one of these orders.

### Abstractions

- *Cells, not bytes.* A header is one cell, the aligned data of block `b` is
  `DataCells[b]` cells. The code reads and writes whole headers and whole records
  only. CRC-8 and magic become the kind of the cell: a torn cell or a data cell never passes for
  a header. (With real bytes eight zero bytes are a valid header of block 0 with length 0; the scan
  looks at payload as a header only if it is misaligned, which
  `DirectoryFaithful` and `WithinOneCluster` exclude in the fault-free runs.)
- *Programming* is `Programmable`: an erased cell takes anything, any cell takes itself
  or zeros; other changes are the simulation's program violation.
- *An interrupted program or erase* leaves any prefix done and one torn cell.
- *Generations* are taken modulo `GenMod` when stored, as three bytes; no run is long enough to wrap.
- *Requests with invalid arguments*, null pointers and requests while BUSY are refused
  without effect by the code and are no steps of the model.
- *Headers of blocks outside the table* (a medium written by another configuration) are not modelled.
- The *latency counter* of the driver is the freedom of when `Driver` runs; the
  statistics counters are left out.
- *A caller of MiniNvm* writes blocks of one repeated value, may call anything at any moment and does
  not write through the pointer of `MiniNvm_GetRamBuffer`. The descriptor tables of the runs are ones that
  `MiniNvm_ValidateConfig` accepts; with another one the module stays out of service, as after `DeInit`.
- *`MiniNvm_Init`* may find the memory as it is (called again) or zero (a start of the program). In
  `Stack` both start MiniFee on the medium as it is.
- `Init` is the state after the first `MiniFee_Init`; before it nothing is accepted.
- `scanTargetFound`, always set by the time it is tested, is left out; the tests of `find.err` in the readers are kept, although no path
  of this model reaches them with an error from a read.
- `uint8` truncation of block numbers in callbacks needs more than 256 blocks and is not modelled.

## 3. Runs

The runs of MiniFee use two clusters, as the shipped configuration has, and two blocks of
one and two data cells, so that offsets of different records differ. A cluster has
seven cells: its header, one record of each block (2 + 3 cells) and one
cell to spare. That is the smallest cluster in which migration is possible, and a
third record always forces one; with three jobs a cluster is reused after an
erasure (write all, write, write: two migrations), which is where stale directories, stale generations and missing erasures would show. Values are zero (the value of a
block never written) and one other; two are enough to tell old from new,
because a job writes one payload and the properties compare positions.
The caller's and the environment's steps are bounded by budgets
(`MaxJobs`, `MaxCancels`, `MaxResets`, `MaxLosses`, `MaxFaults`), everything else by the code itself.
`CHECK_DEADLOCK FALSE` is there because the budgets run out; that every job ends
is `fee_live`.

| run | bounds | shows |
|---|---|---|
| `fee_jobs` | 3 jobs, 2 cancellations, 1 reset | type correctness; the trusted directory is what a scan finds (`DirectoryFaithful`); one program per erase; distinct generations; no record leaves its cluster; nobody changes the source of a write in flight; a job fails only by cancellation or because the flash still works for a cancelled one; the whole is a refinement of `BlockStore` |
| `fee_loss` | 3 jobs, 2 losses of power | whatever is torn, a block not being written keeps its content; one being written has the old content, the new one, or the front of the new one (`LossLeavesOldOrNew`: CRC-8 covers headers only); generations stay distinct; `LogInv`, the inductive invariant of the proofs, and the assumptions that go with it |
| `fee_live` | 2 jobs, 1 cancellation, 1 loss, 1 failing flash job | every accepted job ends |
| `fee_gap` | 3 jobs, 1 failing flash job | **violation** `OkMeansDurable` |
| `fee_failed_migration` | 3 jobs, 1 failing flash job | **violation** `MigrationFallsBack` |
| `fee_small_cluster` | clusters of 5 cells | **violation** `CapacityFailureReported` |
| `nvm_requests` | 3 blocks, the last one empty, ring of 2, 3 calls, 1 cancellation, `Init` or `DeInit` | PENDING exactly while a request waits; MiniFee busy only with the current job; a `ReadAll` that ends OK has loaded what is stored; a `WriteAll` clears the flags of saved blocks only (those nobody wrote to meanwhile); the ring is a FIFO queue (`RequestQueue`); each request is answered |
| `nvm_snapshot` | 2 blocks, 2 calls | **violation** `SnapshotStored` |
| `nvm_bulk` | 1 block, 3 calls | **violation** `ClearsOnlySaved` |
| `nvm_clean` | 1 block, 2 calls | **violation** `CleanMeansStored` |
| `stack` | careful caller, 3 calls, 1 cancellation, `Init`, `DeInit` or restart, blank or nearly full medium | MiniNvm above the full MiniFee is a refinement of MiniNvm above `BlockStore`; a read that ends OK delivers the data of the last write that ended OK or of a later one that did not, and what one read delivered the next delivers too (`ReadsWhatWasWritten`); MiniFee is busy only with the current job; no record leaves its cluster |
| `stack_overrun` | careless caller, 3 calls, nearly full medium | **violation** `WithinOneCluster` |

The runs of MiniNvm have blocks of one cell. Three blocks and a ring of two let the
ring wrap and be full, with a third request current; three calls fill it, and let a bulk job
follow single ones and be written to while it runs. The request of the empty block is the one that MiniFee answers without a job.

The runs of the stack have the tables of the MiniFee runs. The medium `Worn`, on which block 0 was written
twice, has room for one more record of block 0 and no other, so three calls reach append, migration and a read after
either, with the stop anywhere in them; `Blank` adds the activation of the first cluster. Larger budgets
(four calls; two stops) were run once and pass too (217 s and 165 s), and add no new kind of step.

`BlockStore` says: each block has one durable content; a write job replaces the
content of its blocks, block by block; it ends OK only when all of them are
replaced; a read only when the caller's buffer holds the durable content; a reset
takes nothing back; a job may fail at any time. The mapping takes as `store` what a reader with nothing but
the medium would find (`Recovered(flash)` in `FeeSafety`). `late` is what the store becomes when the flash job a cancelled job left behind has run.

**Fairness** (`MCLiveSpec`): weak fairness of `MiniFee_MainFunction` and of `Driver`.
The main loop calls both main functions for ever, and nothing disables them for
good while a job is in progress. For MiniNvm it is weak fairness of
`MiniNvm_MainFunction` and of the steps that MiniFee takes by itself (`FeeWorks`), for the
same reason; that MiniFee's jobs end is what `fee_live` shows. No fairness is assumed of the
caller, of cancellations or of faults. Liveness of the stack as one model is not checked: it is the
conclusion of `nvm_requests` (requests are answered if the layer below ends its jobs), `fee_live` (it does) and
the refinement of `stack`.

**Mutants.** Each property of each passing run has a mutated definition (named
`<definition>_<what>` and marked "Mutant" beside it) under which
TLC finds it violated, with the run's own configuration.

### Findings

1. `fee_gap`: `HandleWriteMainLoopProc` advances `headerEnd` and `dirOffset` before the
   flash write starts; if that fails they stay. The next record goes behind the hole,
   is reported OK, and a scan after a restart stops at the hole.
2. `fee_failed_migration`: the migration points `dirOffset[]` into the
   destination record by record with `dirValid` still set; a failure on the way leaves
   a trusted directory of two clusters.
3. `fee_small_cluster`: when the destination is too small the single write
   ignores `findResultErr`, appends to the full cluster (over its end) and reports OK.
4. `nvm_snapshot`: all queued writes share one `DataBuf`, filled when they are queued; of
   two writes queued together the first stores the data of the second and ends OK.
5. `nvm_bulk`: `MiniNvm_WriteRam` works during any job. The end of a write, of one block or of all,
   clears the dirty flag also of a block changed after its data was taken: that change is never saved.
6. `nvm_clean`: `WriteBlock` compares with the RAM buffer but does not write to it. Write new data, then the old data again:
   the second write is answered E_OK and dropped, flash keeps the new data, nothing is dirty.
   The same gap makes the retry of `MiniNvm.c:389` (a failed write leaves the block dirty "便于后续重试", for a later retry) save the RAM
   buffer, which never held the data of the failed or refused (`:639`) write.
7. `stack_overrun`: during a `WriteAll` for one block on a nearly full cluster `WriteRam` makes another one dirty: MiniFee
   appends its record too, without room, into the neighbouring cluster.

Seen while modelling, and without a run of their own:

- The CRC covers the header of a record only and header and data are one flash job, so a
  record torn within its data is delivered with status OK (`MiniFee.c:1108`; the header comment of the state says
  verify and copy). `LossLeavesOldOrNew` has this case as its third one.
- `MiniFee_WriteAll` writes a record for a block of length 0 (`MiniFee.c:1414`), which `MiniFee_Cfg.h:79` says takes no
  storage; every later migration and `ReadAll` then asks the driver for 0 bytes and fails. The shipped tables have no such block.
- `MiniNvm.h:110` says `MiniNvm_CancelJobs` returns E_NOT_OK if there is nothing to cancel; it returns E_OK (`MiniNvm.c:800`).
- A read or write of an empty block is answered with the result of an earlier job of MiniFee, as it starts none; the shipped tables have no such block.

## 4. Proofs

`MiniFeeProof` proves, for all block and cluster tables, sizes and values allowed by
the assumptions, and with cancellations, resets, losses of power and failing
flash jobs at any time:

| theorem | says |
|---|---|
| `TypeCorrect` | `[]TypeOK`: values keep their types, every index stays in its table |
| `DriverInBounds` | `[]OpInBounds`: a registered job stays on the medium and inside the buffer its pointer leads into, each with its own length (`BufEnd`: the header buffers one header, `jobBuf.blockDataBuf` the data of a record, `jobBuf.writeBuf` header and data) |
| `DriverBusyForWaiter` | `[]DriverBusyOnlyForWaiter`: the driver is busy only for a waiting MiniFee, or for a cancelled job, and then MiniFee gets no further than a first request that is refused |
| `WriteSourceIsStable` | `WriteSourceStable`: nobody changes the cells a registered write has yet to read |

Assumptions: `BlockAssumption`, `ClusterAssumption`, `ValueAssumption`,
`FlashAssumption`, `FeeAssumption`; TLC evaluates them in each run. Nothing is assumed about clusters fitting the
medium: a job that does not fit is refused by `Accepts`, which is why bounds hold
without it.

The inductive invariant `FeeInv` is `TypeOK` with four parts that it needs:

- `FlsOK`: the driver is BUSY exactly if a job is registered, and that job is in bounds;
- `CursorOK`: the cursors that index the tables are in range in the sub-states that use
  them, though their type allows one past the end;
- `RestWhenNotBusy`: MiniFee rests in `IDLE` exactly while it is not BUSY;
- `DriverBusyOnlyForWaiter`: needed because otherwise `Init`, `Cancel` or a
  new job could leave a flash job whose buffer the next job packs.

The heart of the argument is `Cancel`: it does not stop the driver, but it
invalidates the directory. So the next job starts at sub-state `START` with
cluster 0, whose header it asks the driver to read. If the driver is still busy the
request is refused and the job ends with an error before it has
changed a buffer or trusted an offset; if not, the orphaned job is over. From
`DriverBusyOnlyForWaiter` follows that the actions that write into `mem` run while no
write is registered: `WriteSourceStable`.

`NvmProof` proves, of `NvmSpec` (`NvmOnStore`: `MiniNvm` above the promise of `BlockStore`),
for every block table, every size of the ring and any order of calls, main functions,
cancellations, initializations and deinitializations:

| theorem | says |
|---|---|
| `NvmTypeCorrect` | `[]NvmTypeOK`: values keep their types, every index stays in its array |
| `OneAnswerEach` | `[]PendingIffWaiting`: a block is PENDING exactly while one request of it waits or is current, never two |
| `StatusIsOfCurrent` | `[]FeeServesCurrent`: while in service, MiniFee is busy only with the current job |

Assumptions: `BlockAssumption`, `ClusterAssumption`, `ValueAssumption`,
`QueueAssumption`. The block descriptors need no assumption: what
`ValidateConfig` says only decides whether the module comes into service.

The inductive invariant `NvmInv` is the two properties, the types, and what they need:

- `TailBehind`: the tail is `count` places behind the head, so a new request lands on a
  slot not in use (`EnqueuePending`);
- `PendingIff`: `PendingIffWaiting` with the slots in use told by comparing indices;
  lemma `QueuedSlots` shows that the two agree, so that only it reasons about remainders;
- `BulkAlone`: while a job for all blocks is current the ring is empty. A finished
  `ReadAll` answers every block, so a request that waited behind it would lose its PENDING;
- `StoreOK`: what the layer below keeps is of its type.

`NvmTheorems` builds on it:

| theorem | says |
|---|---|
| `QueueIsImplemented` | `NvmSpec => ImplementsRequestQueue`: requests are served one at a time in the order they were accepted, and each is answered once |
| `ReadAllLoads` | `NvmSpec => BulkReadLoads`: a `ReadAll` that ends OK has loaded what is stored into every buffer not dirty |
| `WriteAllSaves` | `MCSpec => BulkWriteSaves`, for all budgets: a `WriteAll` that ends OK clears the flags of saved blocks only, unless they were written to during the job |

- `QueueIsImplemented` reads the ring from its head on as a sequence (`Waiting`). Lemma `WaitingIs` tells its places without
  a remainder (`Place`); with `TailBehind` a request enqueued is one appended, and one lemma for each kind of call, start,
  end, cancellation and initialization shows it to be the step of `RequestQueue`, or none.
- `ReadAllLoads` needs `Loading`: while a `ReadAll` is current, a block that is not left to deliver is loaded, unless dirty. A flash job
  of a cancelled write may land meanwhile; then the store changes and what it changed is left again.
- `WriteAllSaves` needs `Saving`, the same for the blocks to be stored. It speaks of `touched`, a history variable of `MCNvm`,
  so it is a theorem about `MCSpec`: `BoundedStep` shows that its steps are those of `NvmNext`, and the budgets are any naturals.

### The stack (`StackProof`)

For any tables, ring and contents of the medium at the first start, and a caller who may do anything at any moment (`StackSpec`, not
the careful caller of `stack`):

| theorem | says |
|---|---|
| `StackServes` | `[]StackServesCurrent`: while MiniNvm is in service the full MiniFee is busy only with its current job |
| `StackInBounds` | `[](TypeOK /\ OpInBounds /\ DriverBusyOnlyForWaiter)`: no misuse of the buffers takes MiniFee or the driver out of their tables |

The invariant `StackInv` is `FeeInv`, which does not mind what is in the caller's memory as long as it is cells (`MemoryOK`,
`JobTaken`); the types of the ring (`RingOK`); and `Serves`. The argument: `MiniFee_MainFunction` keeps the job while it is busy and
never becomes busy by itself (`MainKeepsJob`, from `RestWhenNotBusy`); `CancelJobs` and `Init` stop MiniFee if it is busy; so MiniNvm, when it
has no current job, finds MiniFee free, and every job it submits is taken. Finding 7 is not in contradiction: the job that a careless caller
drives over the end of a cluster stays on the medium.

### The log (`FeeLogTheorems`)

About what is *in* the flash, `FeeLogTheorems` proves, for every block table, every cluster table that
has room for it, and every interleaving of jobs, cancellations, restarts and losses of power with any
prefix of the flash job done:

| theorem | says |
|---|---|
| `LogInvariant` | `[]LogInv`, the inductive invariant below |
| `DirectoryIsFaithful` | `[]DirectoryFaithful`: a directory that is trusted at rest names the newest cluster and the records a scan would find |
| `ProgramsErased` | `[]OneProgramPerErase`: no cell is programmed twice between two erasures |
| `GenerationsAreDistinct` | `[]GenerationsDistinct`: the choice of the active cluster is never ambiguous |
| `JobsWithinCluster` | `[]WithinOneCluster`: no flash job crosses the end of a cluster: the space counted once, before a job, is enough for all it writes |
| `FailsForAReason` | `NoSpuriousFailure`: a job fails only by cancellation, or because its first request finds the driver at a cancelled job |

All have the form `SoundSpec /\ []InLife => ...`:

- `SoundSpec` is `Spec` without `DriverFails`. Power may fail at any time and tear cells, but a flash job that is
  not cut short does what it was asked to. Without that the theorems are false: findings 1 and 2 are
  the counterexamples.
- `[]InLife`: the generation stays below the last one that three bytes can hold. After it the header carries 0 and
  the old cluster wins; a device does not endure that many erasures.
- `RoomAssumption`: the clusters are apart, on sector boundaries and on the medium, each has room for a record of
  each block (else finding 3), and no block of the table is empty (else `WriteAll` writes a record that no
  migration can read). The shipped tables are so.
- `CellAssumption`: an erased and a torn cell are no headers. This is the abstraction of section 2, not a fact
  about CRC-8.

TLC evaluates both assumptions in `fee_loss`, and checks `LogInv` there; once it also did with a cancellation and a restart
on top, with `OneProgramPerErase` and `DirectoryFaithful`.

`DirectoryFaithful` speaks of a job at rest, so it says nothing about the way there. `LogInv` says for each of the
11 states and 17 sub-states what is known about the medium, the directory and the flash job in flight:

- `FlashOK`: clusters with a header have distinct positive generations, and behind the log of each is either
  damage or nothing at all (`ClusterOK`). A loss of power keeps it, whatever it tears: lemma by lemma, the log is what it was,
  or has one more record, or ends in damage.
- `FlightOK`: a flash job in flight is one of four: a read within a cluster, the erasure of a cluster, a record at the end of a
  log, or a header with a generation above all others for a cluster that has none.
- `Trusted`, `Reading`, `Appending`: a valid directory describes the medium, and so does that of a job that
  is about to read or append; the latter has room for the records still to come (`HasRoom`).
- `Looking`, `Scanning`: the search has found the newest of the clusters it looked at; the scan has in the directory the last record
  of each block before `scanOff`, and the buffer holds the header at that place.
- `Fresh`, `Migrating`: the destination has no header and holds the copies made so far, room remains for the
  others, and its header raises the generation. Until it is written the source still is the active cluster.
- `Underway`, `NoFault`: where a job goes on is a matter of its kind; nothing but its first request fails.

A flash job is a step of its own, and MiniFee moves the directory before the driver has run. So most parts speak of
`Executed`, the medium once the flash job in flight is over, and of `Cont`, the state MiniFee goes on in after its wait: then the
step of the driver changes neither, and a step of MiniFee that registers a job is a step in one go. `Cancel` is where `Executed`
and the directory part: it drops the trust, and `FlightOK` is all that is left of the cancelled job.

The log is a recursive function over the offsets, and `TotalOf` one over sets of blocks. `LogProof` has what is needed
of them as lemmas (a record appended extends the log by itself and changes the last record of one block;
cells behind the end do not matter; the sum over a subset is no more), proved by taking the least
counterexample, with `WFMin` of the library: the induction rules themselves take an operator and cannot be used.

### Only model-checked

- `UntouchedBlocksSurvive`, `LossLeavesOldOrNew`: they compare contents, before and after a step; `LogInv` is about the places of records and not what is in them.
- `ImplementsStore`, `ImplementsNvmOnStore`, `ReadsWhatWasWritten`: refinements, and what they say of data.
- `JobTerminates`, `EveryRequestAnswered`: liveness is outside the logic of the provers used here.

## 5. Not modelled

- The driver's latency counter and statistics, console output, and the test cases: no state of the stack.
- A loss of power under the whole stack: it is the loss of power under MiniFee (`fee_loss`) followed by a start of MiniNvm, which
  keeps nothing of its own over it.
- Failing flash jobs under the whole stack: `fee_gap` and `fee_failed_migration` show that MiniFee does not keep the promise
  of `BlockStore` then, so there is nothing to compose.
- Writes through the pointer of `MiniNvm_GetRamBuffer`: as those of `WriteRam`, without the dirty flag.
- Wrapping of the generation after 2^24 activations, and more than 256 blocks: the device and the shipped tables reach neither.

## 6. Plan

Done in this order: `FeeFormat`, `Fls`, `MiniFee`, `BlockStore`, `FeeSafety`, `MCFee`,
`MiniFeeProof`, `MiniNvm`, `RequestQueue`, `NvmSafety`, `MCNvm`, `FeeStore`, `NvmOnStore`, `Stack`, `MCStack`, `NvmProof`,
`FeeLog`, `LogProof`, `FeeLogProof`, `FeeLogSteps`, `FeeLogTheorems`, `NvmTheorems`, `StackProof`. Next:

1. `UntouchedBlocksSurvive` from `LogInv`, strengthened by what the copies of a migration and the records in flight contain.
2. From the same, `ImplementsStore` as a theorem.
