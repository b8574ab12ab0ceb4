# TLA+ models of the Sprite kernel sources

This directory holds TLA+ models of the C sources under `src/CVSROOT/kernel/`, the
TLC configurations that check them, and `PROJECT.json`. `PROJECT.json` lists:

- the components of the system and what models each one;
- the runs;
- the mutants that show each checked property can fail;
- the map from every model definition to the source lines it translates;
- the findings and the hazards.

## The system

`spec.md` names four cores. All four are modelled, stream migration in part. The RAID driver's request initiation and the stack layout of exec are modelled as well.

| Part | Source | What it does |
|---|---|---|
| Recovery monitor (peer registry) | `recov/recovery.c` | Keeps one `RecovHostState` per peer in a hash table: the ALIVE/DEAD state, the boot time stamp, and the flags `RECOV_CRASH_CALLBACKS`, `RECOV_HOST_PINGING` and `RECOV_REBOOT_CALLBACKS`. Each flag marks a task queued with `Proc_CallFunc`. Every procedure runs under the monitor lock. |
| RPC client channel pool | `rpc/rpcCall.c` | `Rpc_Call` takes a channel with `RpcChanAlloc` and returns it with `RpcChanFree`, both under `rpcMutex`. A process that finds no free channel sleeps on `freeChannels`. Between the two, without the lock, `RpcSetup` fills the channel's request header and takes the next transaction ID from the global `rpcID`. The receive interrupt runs `RpcChanClose` to acknowledge a server's CLOSE request on an idle channel. |
| LFS segment usage | `lfs/lfsSegUsage.c` | One entry per segment: live bytes, CLEAN/DIRTY flags, and links on the clean or dirty list. The checkpoint record holds the list headers, the counters, `freeBlocks`, the dirty level and the current segment. The segment writer, the cleaner and file deletion call it. The checkpoint code saves it and `SegUsageAttach` restores it. |
| RAID request initiation | `raid/devRaidInitiate.c` | `Raid_InitiateStripeIOs` cuts a block request into stripe I/Os. Each one locks its stripe and runs a chain of procedures. Each procedure builds a list of component requests, issues it with `Raid_InitiateIORequests` and names the procedure to run when all of them are done. Components complete at interrupt level in `blockIODoneProc`; the last one queues the next procedure with `Proc_CallFunc`. A failed component starts a recovery procedure (read-modify-write, reconstruct write, split write, reconstruct read). |
| Process exec | `proc/procExec.c` | `DoExec` copies the arguments and environment of a new program into kernel lists, with an interpreter file's `#!` program and argument put before the user's arguments. It then copies the strings onto the new user stack below `mach_MaxUserStackAddr`, with `argc`, `argv` and `envp` below them, and starts the process at that stack pointer. |
| Stream migration | `fs/fsTopMigrate.c` | A process that migrates packs its streams (`Fs_EncapFileState`, `Fs_EncapStream`). The target host rebuilds each one in `Fs_DeencapStream`: it finds or adds the stream in its handle table, calls the I/O server with `FS_MIGRATE` (`FsNotifyOfMigration` / `Fs_RpcMigrateStream`), and creates the I/O handle with `migEnd` if the stream was new there. The I/O server moves its use counts (`FsMigrateUseCounts`) and its client list (`FsIOClientMigrate`). The rest of the process's file state travels in one buffer: `Fs_InitiateMigration` sizes it, `Fs_EncapFileState` fills it, and `Fs_DeencapFileState` reads it on the target. |

How the parts interact:

- The RPC client reports every reply and every timeout to the recovery monitor. `Rpc_Call` calls `Recov_HostAlive(server, bootID, TRUE)` or `Recov_HostDead`.
- Server processes call `Recov_HostAlive(client, bootID, FALSE)` on each request. They block while crash call-backs run.
- The recovery monitor's tasks ping peers through `Rpc_Call`, and so does the ping daemon `Recov_Proc` (`recovProc.c`) for the hosts on its ping list.
- The RAID driver is independent of the other parts: its completions come from the disk driver and its call-backs run through `Proc_CallFunc`.
- Exec is independent of the other parts as modelled: its file and VM calls are abstracted to inputs and one failure.
- LFS and stream migration are independent of the other two and of each other: the FS_MIGRATE call runs over `Rpc_Call`, whose channel pool `RpcChannels` models on its own.

## Modules

### `Recovery.tla`: `recovery.c` and the recovery side of `Rpc_Call`

**State.**

| Variable | What it holds |
|---|---|
| `host[h]` | The entry for peer `h`: whether it exists, its flags `st`, `bootID`, and `recent` (traffic in the last ten seconds). |
| `srv[s]` | A server process blocked in `Sync_Wait(&hostPtr->recovery)`, and whether it has been woken. |
| `waiter[w]` | A process in `WaitForHostInt`. |
| `peerUp`, `peerBoot` | The peer machines. |
| `fault` | Set by a NIL dereference, which panics the kernel. |

Each entry also counts its queued `Proc_CallFunc` tasks:

- `crash` counts queued `RecovCrashCallBacks` tasks.
- `reboot` counts queued `RecovRebootCallBacks` tasks.
- `ping` counts queued `CheckHost` tasks.
- `rbRun` is set while the reboot call-back loop runs outside the lock.

Two history fields feed the properties:

- `owed` means a revival is still waiting for its reboot call-backs.
- `clientState` holds the bits of `Recov_SetClientState`.

**Actions.** Each action is one lock section of a procedure.

| Action | What it models |
|---|---|
| `ClientRpcDone` | `Rpc_Call`'s report to the recovery monitor. |
| `HostAliveSync`, `HostAliveResume` | The synchronous `Recov_HostAlive`, before and after its wait. |
| `RecovCrashCallBacks` | The crash call-backs, with `MarkRecoveryComplete`. |
| `RecovRebootCallBacks`, `CallBacksDone` | The reboot-call-back ping, and the end of its loop. |
| `CheckHost` | The `CheckHost` ping task, with `StopPinging`. |
| `IsHostDown` | `Recov_IsHostDown`. |
| `WaitForHost`, `WaitInterrupted` | `Recov_WaitForHost`, and its wait ending on a signal. |
| `Recov_Pending` | As named. |
| `Recov_SetClientState`, `Recov_ClearClientState` | As named. |
| `LocalReboot` | `Recov_Init` after a panic. |

The environment has three more actions:

- `Tick`: ten seconds pass without traffic from a peer.
- `PeerCrash` and `PeerReboot`: a peer machine crashes, or boots with a new boot time stamp.

**Shared operators.** `AliveEnter`, `AliveSwitch`, `Recov_HostDead` and `GetHostState` are operators on one entry. The actions reuse them, as the C procedures call each other.

### `RecovPing.tla`: the ping daemon of `recovProc.c`

`RecovPing` extends `Recovery` with the ping list, and `MCRecovery` checks the two together.

- `pingList` is `recovPingList` in list order, each entry a `spriteID` and its `active` bit.
- `numHostsPinged` is `recov_Stats.numHostsPinged`.
- `pingPtr` is `Recov_Proc`'s `pingPtr`: `NilPtr` while the process sleeps in `Sync_WaitTime`, the position of an entry, or `HeaderPtr`, the list header.

| Definition | Code |
|---|---|
| `InitPing`, `PingReboot` | `RecovPingInit`, at boot and at the reboot after a panic. |
| `RecovAddHostToPing` | As named: re-activate the entry, or append a new one at the rear. Its callers are not in the repository, so any host may be added at any time. |
| `FirstHostToCheck` | The return of `Sync_WaitTime`, then `FirstHostToCheck`. |
| `RecovProcVisit` | One turn of the loop: `RecovCheckHost`, then `Rpc_Ping`, which acts on the host table as `PingEffect` of `Recovery`, or `Deactivate`. Then `NextHostToCheck`. |
| `NextHostToCheck`, `Deactivate` | As named. |

**Two assumptions.**

- `list.h` is not in the repository. Sprite's lists are circular with a header: `List_First` of an empty list and `List_Next` of the last entry are the header, and `List_IsAtEnd(list, p)` tests `p` against the header. The walk therefore ends with the header read as a `RecovPing`. The model visits it with any check result, and a ping to it reaches no host of the table.
- `RecovCheckHost` is not in the repository either. `CheckResults` follows the comment in `Recov_Proc`: ping without recent traffic, suppress with it, and deactivate when no reboot call-backs are registered, which the model does not track.

**Code details the model keeps.**

- `Recov_Proc` passes `Deactivate` the entry pointer, not its `spriteID` (`recovProc.c:133`). The model calls it with `PtrValue`, which no `spriteID` equals, so no entry is ever deactivated.
- `Recov_Proc` does not test `active`: inactive entries are checked and pinged too.

**Merged step.** The unlocked check of an entry and the locked `NextHostToCheck` after it are one step. The check touches only the host table and `RecovAddHostToPing` only the list, so the two commute.

### `RpcChannels.tla`: the channel pool of `rpcCall.c`, built without `NEG_ACK`

**State.**

| Variable | What it holds |
|---|---|
| `chan[c]` | `CHAN_BUSY` and `serverID` of channel `c`. |
| `numFree` | `numFreeChannels`. |
| `proc[p]` | Where process `p` is in `Rpc_Call`: `idle`, `alloc`, `wait` (in `Sync_MasterWait`) or `call`. |
| `close[c]` | The progress of an interrupt-level `RpcChanClose` on channel `c`. |

**Actions.**

- `RpcChanAlloc` and `RpcChanFree` each hold the master lock throughout, so each is one action.
- `ChooseChannel` is the table scan.
- `RpcChanClose` is three actions:
  1. `RpcChanCloseTest`: the unlocked test of `CHAN_BUSY`;
  2. `RpcChanCloseReserve`: the locked re-test that marks the channel busy;
  3. `RpcChanCloseRelease`: after the ack is sent, the locked release.

**Refinement.** `ChannelPool.tla` is the abstract specification of the pool, written from `spec.md` (the channel entity, the allocation policy and close/ack). Each channel is free or owned by one task: a calling process, or the close handler sending an ack. A process asks for a channel to a server and is given a free one the policy allows: one last used with that server, else a never used one, else any free one. Only the owner returns a channel. The close handler reserves only an idle channel that has been used. `RpcChannels` instantiates it as `CP`:

- `owner[c]` is mapped from `CHAN_BUSY`, the close phase and the process in `call` on `c` (`PoolOwner`);
- `peer[c]` is mapped from `serverID`;
- `want[p]` is the server of a process in the allocation loop or waiting on `freeChannels`.

`ImplementsChannelPool == CP!Spec` is a PROPERTY of `rpc_channels`. `Rpc_Call` is a `Request`, a successful `RpcChanAlloc` is an `Acquire`, and `RpcChanFree` is a `Release`. The locked halves of `RpcChanClose` are `AckReserve` and `AckRelease`. Waiting, waking and the unlocked test are stuttering steps.

### `RpcNegAck.tla`: the channel pool of `rpcCall.c`, built with `NEG_ACK`

`RpcNegAck` extends `RpcChannels` and keeps its `RpcChanFree` and `RpcChanClose`. It adds `serverAllocState`, a table of `TableSize` congested servers (`unhappy`): each slot holds a server and whether its `channelStateInterval` is still running.

| Definition | What it models |
|---|---|
| `SetAllocState`, `SlotOf`, `Congested` | `RpcSetChannelAllocState` and `RpcGetChannelAllocState`, and the interval test in `RpcChanAlloc`. A full table records nothing. |
| `CongestedScan`, `FallChoice`, `AllocScan`, `RpcChanAllocNA` | `RpcChanAlloc` for a congested server. It takes a free channel of the server only if no earlier channel of the server is busy, and falls back to an unused or another server's channel. The jump to `found` uses `chanPtr`, where the scan left it. |
| `SpinAgain` | `goto waitForBusyChannel`: the process rescans with `rpcMutex` held (`Spinning`), and every other `rpcMutex` step waits. |
| `RpcCallNack` | `Rpc_Call` after `RPC_NACK_ERROR`: it frees the channel, marks the server congested and allocates again. |
| `IntervalEnds` | The server's `channelStateInterval` runs out. |

### `RpcIds.tla`: transaction IDs in `RpcSetup`

`RpcIds` extends `RpcChannels` with `RpcSetup`, which `Rpc_Call` runs between `RpcChanAlloc` and `RpcChanFree` without holding `rpcMutex`. `RpcSetup` takes the request's ID with `rpcHdrPtr->ID = rpcID++`. On a multiprocessor build (`NUM_PROCESSORS` > 1, as `mainInit.c` starts for SPUR) two processors can run it at once. The same interleaving arises on one processor under the preemptive kernel that `spec.md` section 5 describes. That is a data race, and the model gives it the outcomes a compiled load, add and store can have: a load step and a store step per process, interleaved in any order.

| Definition | What it models |
|---|---|
| `rpcID`, `hdrID[c]` | The global counter (initially 1) and `requestRpcHdr.ID` of each channel (0 from `Rpc_Init`). |
| `SetupLoad`, `SetupStore` (`setup[p]`, `idReg[p]`) | The two halves of the increment: the load into a register, then the store of the loaded value into the header and of the value plus one into `rpcID`. |
| `ChanFreeAfterCall` | `RpcChanFree`, which `Rpc_Call` reaches only after `RpcSetup` and `RpcDoCall`. |

The other fields `RpcSetup` fills (flags, hosts, command, sizes, timeout constants, buffer specs, reception counters) are data that no property reads, and are left out.

### `LfsSegUsage.tla`: `lfsSegUsage.c`

**State.** A usage state is a record `[a, cp, bad]`:

- `a` is the entry array.
- `cp` is the checkpoint record.
- `bad` records a kernel panic or a wild array index.

The module has two variables:

- `usage` is the in-memory usage state.
- `disk` is the usage state of the last checkpoint.

**Operators.** Each procedure of the file is an operator from usage state to usage state, so an action is the whole call:

- `RemoveFromList` and `AddToList` translate the link code line by line.
- `LfsSetSegUsage` splits into `MarkClean` (the `activeBytes == 0` path) and `SetActive`.
- `LfsSegUsageFreeBlocks` and `LfsSetDirtyLevel` are folds over their loops.
- `LfsGetSegsToClean` is a recursive walk of the dirty list.

**Actions.**

| Action | The call it models |
|---|---|
| `FreeBlocks` | A file's blocks freed. |
| `GetCleanSeg` | The segment writer asking for a new segment. |
| `CleanSegment` | The cleaner marking a returned segment clean. |
| `SetDirtyLevel` | A new dirty level. |
| `Checkpoint` | `SegUsageCheckpoint` and `SegUsageWriteDone`. |
| `CrashAttach` | A crash followed by `SegUsageAttach`. |

**Refinement.** `CleanFifo.tla` is the abstract specification of the clean list: a queue without repetitions, with `Put` at the back, `Take` from the front, `Save` at a checkpoint and `Restore` at a crash. `LfsSegUsage` instantiates it as `CF`, mapping `q` to the walk of the in-memory clean list from its header (`CleanQueue(usage)`) and `saved` to the walk of the checkpointed list (`CleanQueue(disk)`). `CleanListIsFifo == CF!Spec` is checked as a PROPERTY of the `lfs_usage` run. Every step of the detailed module is then a step of the queue or leaves it unchanged: `MarkClean` appends, `LfsGetCleanSeg` removes the head, and no other procedure touches the clean list.

`LfsBytesToBlocks` is a macro from a header that is not in the repository. It is modelled as rounding down.

### `StreamMigration.tla`: `fsTopMigrate.c`

Processes `Procs` share one stream, opened on `Home`, and migrate among `Hosts`. `StreamFlags` says whether the stream is open for writing or execution.

**State.**

| Variable | What it holds |
|---|---|
| `loc[p]`, `pc[p]` | The host of process `p` and its step: `run`, `sent` (encapsulated), `added` (stream found or added on the target), `served` (the I/O server answered), `failed`. |
| `env[p]` | The encapsulated stream `Fs_EncapStream` packs (source host, flags with `FS_NEW_STREAM`), plus the target's `foundClient` and `foundStream` and the server's reply. |
| `lstr[h]` | Whether host `h` has the stream in its handle table, whether `h` is on that stream's client list, and whether it has an I/O handle (`ioHandlePtr`). |
| `shadow[h]` | The server's count of references from host `h` (the `FsStreamMigClient` bookkeeping). |
| `use`, `ioClients` | The I/O handle's `ref`, `write` and `exec` counts, and its client list. |
| `moves` | The number of migrations, bounded in the MC module. |

**Actions.**

| Action | What it models |
|---|---|
| `EncapFileState` | `Fs_EncapFileState`'s stream loop with `Fs_EncapStream`. `Fs_EncapStream` reads `ioHandlePtr->fileID`, so a stream without an I/O handle cannot be packed (the read faults). The slot is set to `NIL`. |
| `OriginRelease` | The origin drops its stream once no process there holds it. The release is done by `FsStreamMigClient`, which is not in the repository, so this is modelled from `spec.md` section 4.3. |
| `DeencapSelf` | `Fs_DeencapStream` when the stream comes back to the host it left. |
| `DeencapAddClient` | The first lock section of `Fs_DeencapStream`: `FsStreamAddClient` with `foundStream` and `foundClient`, and the `FS_NEW_STREAM` flag (from `foundClient`). |
| `Fs_RpcMigrateStream` | The I/O server's side: `clientVerify` (or `FS_STALE_HANDLE`), `FsMigrateUseCounts`, `FsIOClientMigrate`. |
| `DeencapReply` / `DeencapFinish` | The reply reaching the target: `migEnd` if the host was not a client and the call succeeded, or the release on failure. The release disposes of the stream if `foundStream` was false. |
| `DeencapMigEndFails` | `migEnd` fails after the server accepted the call (`fsTopMigrate.c:260`). The target takes the failure path, and nothing tells the server. Enabled by `MigEndMayFail`, since the `migEnd` routines are not in the repository. |

Each process's steps are separate actions, so the `FS_MIGRATE` requests of different targets reach the server in any order, as the RPC layer allows.

### `MigEncap.tla`: the file-state buffer of `fsTopMigrate.c`

A byte of the buffer is `<<v, k>>`, byte `k` of value `v`. A field read at the wrong offset or with the wrong width therefore reads as garbage (`Pad`). `FileStates` holds every `Fs_ProcessState` within the bounds: group IDs, permissions, per-stream flag bytes, stream slots (empty or holding an encapsulated stream), the cwd prefix and the cwd's `FsMigInfo`.

| Definition | What it models |
|---|---|
| `InitiateMigrationSize` | `infoPtr->size` from `Fs_InitiateMigration`. |
| `FsEncap` | The bytes `Fs_EncapFileState` writes, field by field. An empty slot gets `NIL` and a zeroed `FsMigInfo`. |
| `FsDeencap`, `DeencapFlagsLen` | `Fs_DeencapFileState`'s pointer walk. The cwd name is read up to its `NUL`. A slot's `FsMigInfo` goes to the slot its index names. |
| `InitiateMigration`, `EncapFileState`, `DeencapFileState` | The three routines as steps of one migration (`phase`). The target reads the first `size` bytes (`Transfer`). |
| `Resume` | The process runs on the target with the state it received, and may migrate again. |

### `ExecStack.tla`: `DoExec` in `procExec.c`

A string is its length. An exec call is a record: the user's `argv` and `envp` (lengths, or `NoArray` for a NIL array), `extra` (`extraArgs`: 0 for an a.out, 1 or 2 for an interpreter file) and the lengths of the interpreter argument and the file name. `Sun4` selects the build.

| Definition | What it models |
|---|---|
| `RealLength` | The inner loop that measures a string up to its `NUL` or the accessible length, plus one. |
| `ArgStrings` | The argument loop: argv[0], then the interpreter argument and the file name, then the rest; a NIL array gives only the extras; an empty argv stops the loop at once. |
| `EnvStrings` | The environment loop. |
| `Reserve` | The room each string takes while copying in: rounded to 4, or to 8 on sun4. |
| `Step`, `Layout` | The copy-out loops, which step by the 4-rounded length in both builds; `copyLength` for `argc`, `argv` and `envp`; and the sun4 adjustment by `realLength`. |
| `LastRealLength` | `realLength` after the loops: the last string's length, or any value in `Garbage` when there was no string. |
| `DoExec`, `ExecError` | `DoExec` reaching `Mach_ExecUserProc`, or failing to `execError` (open, a.out header, interpreter, inaccessible string, `SetupVM`). |
| `Mach_ExecUserProc` | The sun4 `Mach_ExecUserProc`: it makes the computed pointer the new process's frame pointer, unchanged. On SPARC an unaligned address traps, and `MachHandleWeirdoInstruction` answers with `SIG_ADDR_FAULT` in user mode and a panic in kernel mode. |

### `RaidInitiate.tla`: `devRaidInitiate.c`

A RAID-5 array of `NData` data columns and a parity column (column `NData`), `SPU` sectors per stripe unit and `NStripes` stripes. Each sector of a disk is one bit, so parity is computed by XOR and reconstruction really recomputes data. Byte offsets are counted in sectors.

**State.**

| Variable | What it holds |
|---|---|
| `disk[c][s][k]` | Bit `k` of column `c`'s unit in stripe `s`. |
| `failed` | The columns `Raid_FailDisk` has failed. `Init` starts with none or one, since the driver runs degraded. |
| `lock[s]` | The stripe lock: the exclusive flag and the reader count. |
| `io[cl]` | Client `cl`'s `RaidIOControl`: range, `numIO`, first status, amount, the units still out (simple arrays). |
| `sio[cl][s]` | Its `RaidStripeIOControl` for stripe `s`: the phase, the recovery procedure, the range, the request list with each request's state and buffer, and the current batch of `Raid_InitiateIORequests` (its call-back, loop index, `numIO`, failures). |
| `queued` | The stripe I/Os whose `nonInterruptLevelCallBackProc` is queued. |
| `pc[cl]` | `idle`, `loop` (in the split loop), `lock` (in `InitiateSingleStripeIO`), `wait`. |
| `faults` | Component errors so far, at most `MaxFaults`. |
| `mem`, `staleRead`, `nreq`, `ndone`, `last` | History variables for the properties: the last value written to each data sector, whether a successful read returned anything else, and the requests issued and completed. |

**Actions and operators.** The procedures of a chain call each other synchronously in the code, so they are operators on a stripe-I/O record, each ending in a new batch (`StartBatch`) or in `stripeIODoneProc` (`Finish`). `InitiateReadModifyWrite`, `InitiateReconstructWrite`, `InitiateSplitStripeWrite` and `CallRecover` are `RECURSIVE`, as their recovery procedures call one another. The actions:

| Action | What it models |
|---|---|
| `StartStripeIO`, `StripeLoop`, `StripeLoopEnd` | `Raid_InitiateStripeIOs`: the counter that starts at 1, one count per stripe I/O, and the final count-down that may run the doneProc. |
| `LockStripe` | `InitiateSingleStripeIO`: takes the lock (waits while it is held) and runs `InitiateStripeRead` or `InitiateStripeWrite`. |
| `IssueStep`, `BatchEnd` | The loop of `Raid_InitiateIORequests` and its end, where the issuing process runs the doneProc if every component has completed. |
| `DiskDone` | `blockIODoneProc` at interrupt level: success or failure, `Raid_FailDisk` on a failed write, and the `Proc_CallFunc` of the last completion. |
| `CallBack` | `nonInterruptLevelCallBackProc`: the next procedure of the chain in a kernel process. |
| `StartSimpleIO`, `SimpleLoop`, `SimpleLoopEnd`, `SimpleDone` | `Raid_InitiateSimpleStripeIOs` and `simpleStripeIODoneProc`. |

While a chain runs in the client's own process (`ClientBusy`), the split loop does not go on, as the call has not returned.

## Runs

The table lists what each run checks and what it shows. Where a run ends in a violation, `PROJECT.json` says what the finding means.

| Run | Config | Result | What it shows |
|---|---|---|---|
| recovery | `MCRecovery.cfg` | pass | The flags match the queued tasks (`TasksMatchFlags`). A server blocked on `recovery` is always either owed a wakeup or woken (`RecoveryWaitersHaveCause`), and every crash phase ends (`CrashPhaseCompletes`). The ping daemon walks its list and pings the peer meanwhile, and every walk returns to its wait (`ScanEnds`), though entries are appended behind it. |
| recovery_reboot_not_lost | `MCRecovery_RebootCallbacksNotLost.cfg` | violation | A crash and revival while the reboot call-back loop runs schedule no reboot call-backs for the new incarnation. |
| rpc_channels | `MCRpcChannels.cfg` | pass | Every busy channel has exactly one holder, including through the unlocked test in `RpcChanClose`. `numFreeChannels` is exact. The pool implements `ChannelPool` (`ImplementsChannelPool`): a process gets only a free channel, and the one the allocation policy prefers; only its owner frees it; the close handler reserves only idle channels. |
| rpc_lost_wakeup | `MCRpcChannels_WaiterWokenWhenChannelFree.cfg` | violation | `RpcChanClose` frees a channel without broadcasting `freeChannels`, and `RpcChanFree` broadcasts only when the count rises from 0 to 1. Under the fairness below, two processes sleep forever on `freeChannels` while other calls and closes cycle with one or two channels free (`WaiterWokenWhenChannelFree`). |
| rpc_id_order | `MCRpcIds_ChannelIDsIncrease.cfg` | violation | Two processes run `RpcSetup`'s unlocked `rpcID++` at once. One loads `rpcID`, the other completes calls meanwhile, and the first one's store sets `rpcID` back. A channel's next request then carries an ID no larger than its previous one (`ChannelIDsIncrease`), although `spec.md` and the comment at `rpcCall.c:54` say the IDs increase. |
| lfs_usage | `MCLfsSegUsage.cfg` | pass | Both lists stay well formed (a recursive walk against the flags and the back links). The counters are exact. CLEAN means exactly 0 live bytes. Every segment at or below the dirty level is dirty. The clean list implements `CleanFifo` (`CleanListIsFifo`). |
| exec_stack_align | `MCExecStack_ExecStackAligned.cfg` | violation | On sun4 the stack pointer of a new process is 4 mod 8 whenever `argc + envc` is even, although the copy-in loops round every string to 8 "requiring the user stack pointer to be double-word aligned". |
| migration | `MCStreamMigration.cfg` | pass | Three processes make up to three migrations, and `migEnd` may fail. In every interleaving a local stream's client entry and I/O handle exist only under the stream object, and every action is reached. No use-count property holds here; `migration_usecounts` shows why. |
| mig_encap | `MCMigEncap.cfg` | pass | For each of 6216 file states, migrated again and again, the buffer is exactly `infoPtr->size` bytes (`EncapSizeExact`). The target rebuilds the same file state from the bytes sent (`EncapRoundTrip`). |
| raid | `MCRaidInitiate.cfg` | pass | Each batch's doneProc runs only after all its components and exactly once, also when components complete while the batch is still being issued. Parity keeps every sector that is not being written recoverable through every recovery procedure and one disk failure (`ParityRecoverable`). A successful read returns the last write, also when its unit is rebuilt. A request reported successful transferred all it asked for. Every request completes (`EveryRequestCompletes`). |
| migration_unusable | `MCStreamMigration_MigratedStreamUsable.cfg` | violation | Two processes migrate to one host. The second finds the stream the first added, skips `migEnd` and resumes before the first's reply: its stream has no I/O handle. |
| migration_usecounts | `MCStreamMigration_UseCountsMatch.cfg` | violation | Three migrations, with `migEnd` never failing. Two processes move to h2. The one flagged new is served first, moves back to h1, and that call is served before the other's. The server then counts h2's last reference gone and drops it from the client list, and serves the other call as not new. Every process runs, on h1 and h2, with `ref` = 1 (`UseCountsMatch`). |

Each property of a passing run has a mutant in `PROJECT.json`. The mutant is a plausible bug in the mapped definition, and TLC finds the property violated when it replaces that definition:

- a dropped guard;
- a dropped end-of-list test;
- a swapped preference order;
- a missing counter update;
- a partial reset of the origin's stream;
- a missing tail update;
- a missing floor;
- `<` for `<=`;
- a size computed without the `NUL`;
- a skip over the flag bytes without their padding.

## Bounds

**Recovery.** One peer, one server process, one waiting process, one client-state bit, and boot time stamps up to 3. `MaxCrashTasks` = 2 caps the crash-task count, which the bug above lets grow. Why one of each is enough:

- Every property is about one host.
- The races are between the kinds of actors: client replies, a server, the call-back tasks and a waiter. They are not between two actors of the same kind.
- Three incarnations allow a crash during the reboot call-backs of an earlier crash.
- With one host the ping list holds at most one entry. The walk still meets the cases that matter: the empty list (only the header), and an entry appended while the walk is at the header.

**RPC.** Three processes, two servers and two channels. With three processes and two channels the pool can be empty while a third process waits, and a channel can be reused for the other server. Processes and servers are symmetric, so the run uses symmetry.

**LFS.**

- `lfs_usage` has three segments of four bytes, with blocks of two bytes. Two segments can then be dirty at once while the third is the head of the log, and removing the tail of a two-element list is reached. `MinFreeBlocks` = -2 stops the downward drift of `freeBlocks`. Crashes restore the checkpoint of the freshly made file system (`FreshDisk`), because a checkpoint of every state squares the state space.
- The dirty levels 1 and 2 are both below a full segment.

**Migration.** Three hosts, three processes and one writable stream. Three processes let two of them migrate to the same host while a third keeps the origin in use. `MaxMoves` = 3: two migrations to one host reach `foundClient`, a process migrating back to its origin reaches `DeencapSelf`, and a third migration lets one process move on while another's request is still on its way to the server. That third migration is what the use-count violation needs. With four migrations the same reordering also makes `clientVerify` refuse a later move from h2 with `FS_STALE_HANDLE`. The two non-home hosts are symmetric. The passing run checks deadlock off: once every process has failed, or runs on a stream left without an I/O handle, the model stops, as the code does.

**NEG_ACK.** Two processes, two servers, two channels and one slot of `serverAllocState`. One process holds the last channel for server B while the other is nacked by server A. Its retry then scans with a free channel of A before a busy one. One slot also reaches the full table for the other server.

**RPC IDs.** Two processes, two servers and two channels, and `rpcID` up to `MaxID` = 4 (a state constraint). The violation needs a stale load by one process while the other completes two setups, on two channels at once; the trace has 19 steps.

**Migration buffer.** Up to two groups, up to three stream slots (each empty or holding one of two streams, each slot with one of two flag bytes), and cwd prefixes of 0 to 3 characters. Ints are 4 bytes and `Byte_AlignAddr` rounds to 4. The flag bytes are therefore padded by 3, 2 or 1 bytes, and the cwd name and its `NUL` by every amount from 0 to 3. Two distinct streams tell a slot from its neighbour. That gives 6216 file states.

**Exec.** Up to two arguments and one environment string, each of 0 to 2 characters, or NIL arrays; a.out and interpreter files with and without an interpreter argument; the sun4 build; and a page-aligned `mach_MaxUserStackAddr` of 4096. `realLength` read uninitialized may be anything in 0..8, which covers every residue mod 8. The violation needs only an even number of strings.

**RAID.** Three data columns, two sectors per unit and two stripes (12 data sectors), one client issuing two requests, one I/O error per behaviour, and an array that may start degraded. The shapes `<<1,2>>`, `<<1,3>>`, `<<1,4>>` and `<<5,7>>` take each path of `InitiateStripeWrite`: read-modify-write of one sector and of whole units, reconstruct write, the split write after a failure of a partial unit, and a request across the stripe boundary. Two requests let a read follow a write. Writes carry one pattern `<<1, 0>>`, which differs from the zeroed disks. A second client or a second pattern puts the run past the time budget, so stripe-lock contention between clients is not checked. Requests lock stripes in increasing order, so the contention cannot form a cycle of waits.

## Fairness

**Recovery.**

- `RecovCrashCallBacks` and `CallBacksDone` are weakly fair. `Proc_CallFunc` runs queued tasks in kernel server processes, and a call-back loop returns.
- `HostAliveResume` is weakly fair. A process made runnable by `Sync_Broadcast` is eventually scheduled.
- `LocalReboot` is weakly fair. A panicked machine reboots.
- `RecovProcVisit` is weakly fair. `Recov_Proc` is a kernel process, and a walk it has begun takes no wait. `FirstHostToCheck` has no fairness, because `ScanEnds` is about a walk once it has begun.
- There is no fairness on peers, clients or pings: a peer may stay down forever.

**RPC.** `RpcChanAlloc`, `RpcChanFree` and both locked halves of `RpcChanClose` are weakly fair. A call's timeout bounds how long a process holds a channel. The counterexample to `WaiterWokenWhenChannelFree` is fair: every process that can step does, and the waiters are never enabled, because nothing wakes them.

**LFS.** The passing LFS runs check only safety properties and the refinement, whose specification has no fairness.

**RAID.** For each client, weak fairness of all the kernel's steps for its request (`SystemStep`): the disk completes every request it was given, with success or error; `Proc_CallFunc` runs queued calls; the issuing process is scheduled. The fairness is written as `[]<>~CanStep(cl) \/ []<><<SystemStep(cl)>>_vars`, which is `WF_vars(SystemStep(cl))` with `CanStep(cl)` in place of `ENABLED`. `CanStep` is the disjunction of the actions' guards. Every action's effect is a total function of the state, so the two are the same. TLC evaluates `ENABLED` of the chains by re-evaluating their `LET` definitions at each use, which made the run hang.

**NEG_ACK, RPC IDs, migration buffer, exec.** No fairness: the properties are safety properties. `mig_encap` never stops, because a migrated process may migrate again.

**Migration.** No fairness: the properties are safety properties, and a migration may be delayed without end by its RPC.

## Not modelled, and the plan

**Not yet modelled, planned for later sittings:**

- RAID: a second client (stripe-lock contention), and `Raid_BeginUse`/`Raid_EndUse` with the read after free at `devRaidInitiate.c:1051`;
- LFS descriptors (`lfsDesc.c`). `spec.md` leaves the descriptor cache out of its cores. The status overwriting in `Lfs_FileDescTrunc` (line 284), where the status of `LfsFile_TruncIndex` is lost, is the one hazard there. It was dropped from `PROJECT.json`'s list to keep that list at its limit;
- the `NEG_ACK` spin at `rpcCall.c:544` as a bounded-waiting property (the model has the spin, but no run is left for the `NEG_ACK` build);
- RPC timeouts in `FsNotifyOfMigration` (a timeout after the server acted), and `Fs_DeencapFileState`'s failure when the cwd prefix cannot be opened.

**Runs retired**, to make room within the run budget:

- `recovery_crash_unique` (a second `RecovCrashCallBacks` queued while the first is pending), for the RAID run: `CrashCallbacksUnique` is still defined in `Recovery.tla`, and the hazard in `PROJECT.json` explains it.

- `lfs_crash` (checkpoints of every state with two segments): `lfs_usage` still crashes back to the fresh checkpoint, and `CleanListIsFifo` covers the restore.
- `recovery_heard_known` (a host created by `Recov_SetClientState` stays UNKNOWN): the hazard stays in `PROJECT.json` with a note.
- `lfs_head_clean` (the head of the log can be cleaned): whether the cleaner skips the current segment is decided outside this repository. Its hazard (`lfsSegUsage.c:207`) was dropped from `PROJECT.json` for the `rpcID` race, to keep the list at its limit.
- `recovery_wait_returns` (`Recov_WaitForHost` returns only on a signal, as nothing broadcasts `hostPtr->alive`), for `rpc_negack_owner`. `WaitForHostReturns` is still defined in `Recovery.tla`. A search of `recovery.c` for a broadcast of `alive` shows it.
- `rpc_negack_owner`, for `rpc_id_order`. `NEG_ACK` is defined nowhere in the repository, so the default build does not contain its code. In that build, `goto found` after the congestion scan uses `chanPtr`, where the scan stopped, not `firstFreeMatch` (`rpcCall.c:541`). A process retrying after a negative ack then takes a channel another process holds. `MCRpcNegAck_ExclusiveOwnership.cfg` is kept and still finds `ExclusiveOwnership` violated.
- `lfs_clean_credit`, for `exec_stack_align`. `LfsSetSegUsage(seg, 0)` stores `activeBytes = 0` before it computes `freeBlocks += LfsBytesToBlocks(s->activeBytes + blockSize/2)` (`lfsSegUsage.c:166`). Cleaning therefore credits nothing, while `LfsGetCleanSeg` debits a full segment. `CleanCreditsFreeBlocks` is still defined in `LfsSegUsage.tla`, and TLC finds it violated in two steps.
- `migration_stale`, for `migration_usecounts`. Its trace had a process pack a stream that had no I/O handle yet, which `Fs_EncapStream` cannot do. With that step excluded, the stale refusal needs four migrations, and it comes from the same reordering as the use-count violation.
- `recovery_nil_entry`, for `mig_encap`. `Recov_IsHostDown(h, TRUE)` for a host never heard from pings it, and on a timeout `StartPinging` dereferences the NIL result of `Hash_LookOnly` (`recovery.c:1045`). `NoNilEntry` is still defined in `Recovery.tla`, and TLC finds it violated in three steps.

**Left out because they are outside TLC's reach or have no concurrency to explore:**

| File | Why |
|---|---|
| `procExec.c`, beyond `DoExec`'s argument and stack layout | file I/O, the a.out header and VM setup, with no concurrency to explore. The failure paths of `SetupInterpret` and `SetupVM` close every stream and delete every new segment, as far as the callers' use of `Vm_FindCode`, `Vm_SegmentNew` and `Vm_SegmentDelete` shows. `Proc_ExecEnv` does not undo `Vm_MakeAccessible` of the argument array when the environment array is inaccessible (line 174); this is a hazard in `PROJECT.json` |
| `machCode.c`, beyond `Mach_ExecUserProc` | SPARC traps, page faults, context switches and register windows: hardware state |
| `mainInit.c` | the boot sequence |
| the headers | declarations only |

**Abstracted:**

- `Recov_Proc`'s exit on `sys_ShuttingDown`: the machine is stopping.
- The `recovProc.c` hazard at line 124 has no run. The header visit and the pointer passed to `Deactivate` are both in the model, but every run is given to a deeper question. A property that the walk checks only listed hosts fails at once, on the first walk of the empty list.

- The trace buffer and the `Recov_Notify` call-back list record data and change no control.
- `rpcID` wraps at 2^32, which an explicit-state run cannot reach. A wrap could only matter if a reply to an old call carried the same ID, 2^32 calls later.
- Block addresses are reduced to the segment that holds them.
- In RAID, the helpers of `devRaidUtil.c` (`Raid_AddDataRangeRequests`, `Raid_AddParityRangeRequest`, `Raid_XorRangeRequests`, the stripe locks, `Raid_MakeIOControl`) are not in the repository. They are modelled by what their callers here rely on, and marked `spec_modelled` in the map. Buffers are the requests' bits; `Raid_ReportRequestError` only logs.
- In `StreamMigration`, the name information, groups, permissions and the cwd only move data and are left out; `MigEncap` models their layout in the buffer. The contents of an `FsMigInfo` are one value per stream. The server's per-host reference count (`FsStreamMigClient`, which decides `closeSrcClient`) is not in the repository; `CloseSrcClient` and the origin's release (`OtherHolders`) are modelled from `spec.md`.
