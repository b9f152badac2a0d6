# CAFS I/O engine: specification, model checking and proofs

CAFS is a file-system format. Its code is an I/O engine in Rust,
`src/Src/FUSE/Linux/x86-64/I-O_Engine` (called E below), two command-line tools built
on it, and Python tools for SMART statistics. What makes the engine hard is small and
sharp: twelve checksummed pointer blocks and two Superblocks must stay recoverable and
truthful while they are being repaired, with power loss at any write. Around that core
lie a formatting tool that destroys whatever it is pointed at, byte-exact reads and
writes over a device that may transfer less than it was asked to, and a mirror whose
place follows from the size the device has at the moment. That is what the modules here
model, check and prove.

## 1. Inventory

| Component | State | Operations | Hard parts | Correct when | Where |
|---|---|---|---|---|---|
| Device (`device.rs`, `fault.rs:3-9`) | contents, volatile cache | read, write, sync | torn and lost writes, failing barriers, bad sectors | a contract, shown to be met by `FaultDevice` | `Medium` |
| Anchor blocks (`anchor.rs`, `layout.rs`) | six slots, each with a block at the head and one at the tail | verify, compare, choose, rebuild | the two sub-blocks of a block fail independently; slot 0 swaps its pointers at the tail | a rebuilt block is what the format would have written | `Anchor`, `Volume` |
| Session (`lib.rs`, `mount.rs`) | `CafsCtx`: cached reports, Superblock and SMART table, mode, options | mount, sync, close | memory outlives changes of the device | memory and device agree where calls depend on it | `Engine` |
| `check.rs` | the call's counters and place | rewrite bad ends, adopt and write back the backup Superblock | interrupted or failing half way | loses nothing, reports only what is durable, gives up only what is lost | `Engine`, `Sessions` |
| `remount.rs` | options | change options | read-only is enforced by a test in each writing call | a read-only session writes nothing | `Engine` |
| `confirm.rs` | the SMART table in memory | count the mount | table at a place read from the disk; a failed write that landed, a failed barrier | no count is lost or taken twice | `Engine` |
| `block_io.rs`, `FileDevice` (`device.rs`) | the transfer under way | read_block, write_block | range, alignment, bounce buffer, short transfers, signals, truncated files | only the bytes asked for change; Ok means done | `BlockIO` |
| `layout.rs` | none | positions | all tail positions follow from the present size | regions apart, on every size | `Layout`, `Resize` |
| `mkfs_cafs` | place in the format | format a file or a device | interruption, repetition, old contents, dropped barrier errors | what is left mounts correctly or not at all | `Mkfs` |
| `safety.rs` | none | is this device safe to overwrite? | probed one by one, before the device is held | nothing in use, and nothing not expendable, is overwritten | `Safety` |
| `cafsctl` | none | anchors, check, read, write | repeated use, a second process | repeated `check --repair` restores the volume | `RepairTool`, `Sessions` |
| `FaultDevice` (`fault.rs`) | cache, durable image, log | write, sync, poke, crash images | off-by-one in replay makes every crash test worthless | its crash images are exactly the outcomes of the contract | `FaultDevice` |
| `smart_handler.py` | none kept | choose a table, score, trend | thresholds, clipping, a scratch table that may be newer | what a recommendation takes | `SmartHandler` |
| `checksum.rs`, `error.rs`, `avg_maker.py`, `check.py`, `cafs-test.sh` | none | pure functions and chores | - | - | not modelled |
| allocator, WAL, FUSE layer | documents only (`Docs/`) | - | - | - | there is no code |

Interaction: a tool opens the device and calls the engine; the engine runs in the caller's
thread and calls the `Device` trait. There are no threads or callbacks. The concurrency is
between the engine and its environment: power loss, kill, signals, failing operations,
damage of the media, the owner's own writes between two calls, other programs that claim,
format, truncate or resize the device, and a second process over the same regular file.

## 2. Modules

| Module | Models | Uses |
|---|---|---|
| `Medium` | the device contract: what is visible and what may survive | |
| `Anchor` | pointer blocks as values: verify, sb_pair, disagree, rebuild | |
| `Volume` | the granules kept, and what a fresh volume holds | `Anchor` |
| `Engine` | one session: every call, and the environment | `Volume`, instance of `Medium` |
| `EngineClaims` | sentences of the documents the code does not bear out | `Engine` |
| `RepairTool` | `cafsctl check --repair` run again and again | `Engine` |
| `Sessions` | the tool over a file that another process has mounted | `Engine`, instance of `RepairTool` |
| `FaultDevice` | the test device, and its refinement of `Medium` | instance of `Medium` |
| `Mkfs` | the format, write by write | `Volume`, instance of `Medium` |
| `Safety` | the guards before it, on a machine that goes on changing | `Mkfs` |
| `BlockIO` | requests of any session, down to single preads and pwrites | |
| `Layout` | byte positions | `Anchor` |
| `Resize` | a volume on a device that grows and shrinks between sessions | `Layout` |
| `SmartHandler` | the judgements of `smart_handler.py`, as operators | |
| `EngineProofs`, `RepairProofs`, `SessionsProofs` | theorems about a session, about its repairs, about two sessions | each the one before, `Engine`, `Sessions` |
| `FaultDeviceProofs`, `MkfsProofs`, `ResizeProofs`, `BlockIOProofs`, `SmartHandlerProofs` | theorems about `FaultDevice`; `Mkfs` and `Safety`; `Layout` and `Resize`; `BlockIO`; `SmartHandler` | the module named |
| `MC*` | instances for TLC | |

**State of the session modules.** `vis[c]` is what a reader sees in granule `c`, `surv[c]`
the *set* of contents `c` may have after a power loss now. A write adds to `surv`, a
barrier reduces it to what is visible, a power cut picks one element for each granule. So
"durable" is `surv[c] = {vis[c]}`, and a property quantified over `surv` speaks about every
crash without taking one. A pointer block is two granules (primary and fallback sub-block,
each with its own magic and checksum in the code), a Superblock two of its eight. `Option`
and `Result` of the code are sets with at most one element.

**Actions.** A call is cut at every device operation that can fail or be interrupted:
`check()` is `CheckStart`, then for each end `RewriteEnd`/`RewriteEndFails` and
`SyncEnd`/`SyncEndFails`, then `SuperblockFine`, `SuperblockUnrecoverable` or
`AdoptBackup`, then `WriteSuperblock` and `SyncSuperblock` or their failures. `pc` is the
place in the call; `todo` the ends left. Bookkeeping after the last end, the new scan
included, is in `NextEnd`, part of the step that leaves the end. `mount` is one step: it
only reads, and no region twice, so an event during it commutes to before or after it.

**Environment.** `PowerLoss` (keeps any outcome `Medium` allows), `Kill` (keeps what was
written), failing writes (any prefix of the granules landed, none and all included: a
`write_at` that reports an error promises nothing about the bytes), failing barriers
(nothing became durable), `Corrupt` (a granule gets contents that do not verify, a
Function Table any of `WildTargets`, a SMART table any count), `BadSector`, and
`WriteBlock` by the owner over the engine's own structures.

**Two sessions.** `Sessions` shares `vis` and `surv` between `Engine`'s session and an
instance of `RepairTool` with variables of its own, and interleaves the two at every
device operation. A power loss takes both, a kill one.

**The format.** `Plan` is the order of the writes and barriers; `at` the place in it.
`Safety` puts `check_target` before it: one step for each probe, then the exclusive open,
while `Claim`, `Release`, `FormatForeign`, `Partition` and `MountPartition` go on until the
device is held. A session of the engine holds a device without appearing in any list, so
only the open sees it.

**Block I/O.** `job[c]` is the transfer of client `c`: `lo..hi-1` the rounded range,
`at` the next byte, `buf` the (bounce) buffer. `Started` and `Refused` are the checks
before the first byte; `Pread`, `Pwrite` move any number of bytes a kernel may move;
`Modify` is the merge in the bounce buffer. There `file` is the byte contents and `end`
where the file ends at the moment, which the code does not look at again.

**Resizing.** `disk` is a function of byte offsets of granules of 1 KiB, pointers hold byte
offsets, and every read and write of the session uses the positions of the present `size`,
so a block may be read where another one, or a part of it, was written.

### Abstractions and assumptions

- A damaged granule never verifies (the code assumes the same, `anchor.rs:83-84`); only
  the Function Table and the SMART table, whose checksums the engine does not test, may
  hold wrong values.
- A granule is written whole or not, as `fault.rs:7-8` has it for its granules. The SMART
  table lies in one: a failed write of it leaves the old count or the new one.
- A barrier that fails leaves the set of possible survivors unchanged.
- Damage strikes between calls (`DamageWhen`); power loss, kill and failures strike anywhere.
- `mount_count` is kept modulo `Wrap` (2^32 in the code, 3 in `two_slots`, 2 elsewhere: wrapping
  happens, and with 3 one ahead is not the same as one behind).
- Left out: `SmartCounters`, times, sequence numbers, logging, `ptr_algo` (only reported),
  the config snapshot and the parity offset (kept, never acted on), and which error code a
  failing call reports.
- `Mkfs`: all Superblocks have equal content (the code's volume id is fixed); truncation of
  a file is one durable step, and no other process has the file open.
- `Safety`: `Signature` is decided by the head of slot 0, the swap mark (which lies in the
  block of slot 1) and whether the front reads as zero, as `detect_signature` does on its
  128 KiB; a probe is one step; O_EXCL is granted to one opener, and on a disk only while
  no partition is claimed.
- `BlockIO`: `pwrite` of at least one byte never returns 0 (`device.rs:114` would try for
  ever); the contents of the buffer are one value per request; which bytes of a failed
  pread landed in the caller's buffer is not kept.
- `Resize`: barriers and power loss are `Engine`'s subject and left out there; all pointer
  checksums are CRC32C.
- `FaultDevice`: writes cover whole granules; poke happens only while nothing is logged,
  as its comment asks; a write over the budget is not a step because it changes nothing.
- `SmartHandler`: floating-point numbers are integers (scores in tenths, z-scores rounded
  down to hundredths), ratios are multiplied out.

## 3. Runs

| Run | Instance | Shows |
|---|---|---|
| `slot_zero` | slot 0, both algorithms, 2 damages, 2 mishaps | `PointersTrue`, `NothingLost`, `RepairedIsDurable` |
| `two_slots` | slots 0 and 4 with Function Table and M-SMART, 2 damages, 1 mishap | `TypeOK`, `SmartCoherent`, `LostIsLost`, `ReadonlyWritesNothing` |
| `repair_tool` | slots 0 and 4, tool repeated, 2 damages, 1 mishap | `CallsReturn`, `EventuallyRestored` (liveness) |
| `sessions` | slot 0, a session and the tool, 2 damages, 1 mishap | `PointersTrue`, `NothingLost`, `EitherRepairedIsDurable` |
| `fault_device` | 2 granules, 2 values, 3 operations, 1 poke | `ImplementsMedium` (refinement), `EveryOutcome`, `Extremes`, `PastIsFixed`, `FaultTypeOK` |
| `mkfs` | slots 0 and 1, six kinds of old contents; files, partitions, disks; 2 mishaps of which 1 a barrier, 2 changes by others | `NeverWhileUsed`, `OnlyExpendable`, `AcceptedAgain`, `NeverStranded`, `FormattedIsDurable`, `CommitOrder`, `MkfsTypeOK` |
| `block_io` | 5 bytes, alignment 3, 2 values, 2 faults, 1 truncation | `NeighboursKept`, `OkMeansServed`, `NeverGrows`, `Reachable`, `CallsEnd` (liveness), `BlockTypeOK` |
| `resize` | 1 MiB, 64 KiB less or 16 KiB more, 2 resizes, 1 damage, 1 mishap | `RepairsRestore`, `BlocksTrue`, `MirrorRebuilt`, `ResizeTypeOK` |
| `claim_repair` | slot 0, 1 damage, no mishap | violation of `CheckLeavesGoodPrimary` |
| `claim_confirm` | slots 0 and 4, 1 damage | violation of `ConfirmSparesSuperblock` |
| `claim_mount` | slots 0 and 4, 1 damage | violation of `MountSurvivesFailedReads` |
| `claim_grow` | 1 MiB grown by 1 KiB, 1 damage | violation of `StructuresStay` |

**The properties of the engine.**

- `PointersTrue`: whatever survives, a pointer block that verifies points where the format
  put its structure. Repairs mix facts of both ends and of an earlier scan; mixing them
  wrongly would give a valid but wrong pointer, which no later check could tell.
- `NothingLost`: only damage loses information. Recoverability is evaluated over every
  crash outcome of the slot at once, before and after each step.
- `RepairedIsDurable`: a reported repair is complete and durable at that step.
  `EitherRepairedIsDurable` says so of two sessions that repair the same ends at once.
- `LostIsLost`: a slot given up cannot be rebuilt from the device, although the decision
  is taken from old reports.
- `ReadonlyWritesNothing`: no call of a read-only session, opened or remounted so, writes:
  not check() or confirm(), nor `write_block`, nor the barrier of `close`, which may only
  make durable what was visible. Nothing is added to what may survive, and a reader sees no
  change. Damage of the media (`MediaDamage`) is left aside, the owner's `WriteBlock` is not.
- `SmartCoherent`: after a confirm() whose write reported no error, the count in memory is
  the one on the device, whether or not the barrier held. A write that failed may have
  landed: then the device is one count ahead of memory, never behind, and the next
  confirm() writes the same count again.
- `EventuallyRestored`: once damage and mishaps end, both ends of every recoverable slot,
  then the Superblock, are restored, if the volume mounts. `CallsReturn`: check() ends.

**Of the test device.** `ImplementsMedium`, `EveryOutcome`: the crash tests run on the
device the models assume, and their crash images are all and only its outcomes.
`Extremes`: the two images it keeps aside are the drop-all and keep-all replays.
`PastIsFixed`: sweeping over prefixes of the log is sweeping over time.

**Of the format.**

- `NeverWhileUsed`: no write reaches a device that anybody else has claimed.
- `OnlyExpendable`: what is destroyed was empty, swap, or CAFS when it was looked at, and
  no disk with partitions, unless others changed it between the first probe and the open.
- `AcceptedAgain`: a device that surely carries a CAFS volume stays one the tool accepts,
  wherever its new format is cut short, also when barriers fail.
- `NeverStranded`: after an interrupted format the volume does not mount, or leads to a
  Superblock or a backup that verifies. `FormattedIsDurable`: "formatted" is printed over
  a durable volume. `CommitOrder`: structures, tail mirror, head, each durable before the
  next. mkfs_cafs drops the errors of its barriers and still prints "formatted"
  (`mkfs_cafs.rs:191`, `204`, `210`), so these three are stated for behaviours in which no
  barrier failed (`BarriersHeld`). Without that condition the same run refutes each of the three (section 5).

**Of block I/O.** `NeighboursKept`: no byte outside a request changes, wherever a bounced
write is cut short, if there is one writer (`Exclusive`). `OkMeansServed`: Ok is returned
over moved bytes only, through short transfers and signals. `NeverGrows`: no request
passes the size read when the device was opened, which the `Device` users rely on
(`bypass.rs:55-65`), also over a file truncated since. `Reachable`: bouncing refuses
nothing but the incomplete block at the end. `CallsEnd`: the loops end.

**Of resizing.** `RepairsRestore`: where the format put something, check() writes nothing
but just that. `MirrorRebuilt`: an undisturbed check() leaves a full mirror at the new end
(`tests/anchors.rs:155`). `BlocksTrue`: no position at the new end makes a block, or a part
of one, pass for one of another slot.

**Bounds.** For the engine one slot of each kind is enough: slot 0 is the only one with a
fallback and a swap, slots 1 to 5 differ in their target alone and are handled by the same
code; slot 4 brings the Function Table, thus the SMART table. The order between two slots
matters in one place (`Due`), which two slots exercise. Two damages reach every
combination of a partly bad head with a partly bad tail; two mishaps give a failed
operation followed by a power loss, or a repair interrupted twice. `Wrap = 3` makes the
counter wrap and tells one ahead from one behind. In `fault_device` three operations hold a barrier between two overlapping
writes. In `mkfs` two mishaps interrupt a format and its repetition, or let a power loss
follow a failed barrier; slot 1 is there because the swap mark lies in its block; two
changes let a claim be released, or a file system be made and mounted. In `block_io` five
bytes with alignment three give an aligned block, an incomplete one, and requests that
start or end inside each; two faults give a signal before a failure or a kill. In `resize`
the sizes leave the old and the new mirror apart in both directions; `ResizeProofs` says
which growths do so, and sections 5 and 6 what happens at the others.

**Fairness.** `RepairTool` has weak fairness of the tool's own steps: the engine is
sequential and does not wait, so a started call goes on unless its process ends; that
somebody runs the tool until it has ended is the assumption under which restoring the
volume can be promised. `BlockIO` has weak fairness of each client's `Transfer`: a call
runs on by itself, while nobody is obliged to make one, and nothing is assumed of signals,
failures and truncation but that there are finitely many. Mishaps and damage are bounded,
so they stop.

## 4. Proofs

TLAPS proves the following for every value of the constants, from the named assumptions
of the modules and the hypotheses given here. Every safety invariant and every action
property of a passing run is stated by a theorem, and so is the refinement of `Medium`.

**`EngineProofs`**, one session.

- `TypeCorrect`, `PointersStayTrue`, `ReadonlyIsReadonly`. `PointersTrue` is not inductive:
  a repair writes what the *cached reports* say. The invariant `IInv` strengthens it:
  `DeviceOK` (types, and what a granule may ever survive with is true, the visible content
  among it), `ReportsOK` (every cached report names its slot, and its pointers are the true
  ones), `SessionOK` (the Superblock places are true places; memory has its types) and
  `BooksOK` (`todo` and the results). The argument has one lemma for each action group:
  reading a true image gives true reports (`VerifyPtrBlock` yields nothing but what its
  granules hold); a block rebuilt from true reports is true, for slot 0 because `SbPrimary`
  and `SbBackup` take each pointer from a place that can only carry that one; a true block
  written, cut or lost leaves a true device. For the read-only property `MayWriteInv` says
  that the writing places of a call are reached only by a session that may write and keeps
  its options until the call ends; `write_block` tests the same condition in its own step.
  So every step of a read-only session but damage is no write, a barrier or a power cut
  (`NoWrite`), and a barrier keeps what is visible (`StaysVisible`).
- `CountsAgree` (`SmartCoherent`): in `SmartInv` device and memory agree (`Agrees`) or the
  device is one ahead (`Ahead`). It is ahead between the write of the table and its
  barrier, and after a write that failed, until the next confirm() writes the count again;
  `Counted`, a confirm() that returned without a failed write, excludes the second.
- `LostForGood` (`LostIsLost`): `KnownInv` says that whatever could still be rebuilt from
  the device is in the cached reports. It is kept because between two scans the device only
  gets worse (`Worse`) except by check()'s own rewrites, and those write what the reports
  said.

**`RepairProofs`**, what its repairs are worth.

- `RepairsAreDurable` (`RepairedIsDurable`). The count is made two steps after the contents
  of the write were chosen. `MendInv` bridges them: at the barrier the end that is due is
  whole, because a block rebuilt from a true report verifies (`RebuiltIsComplete`) and the
  ends are taken in order (`OneIsDue`); likewise for the Superblock before its write and
  before its barrier. Damage strikes between calls only (`DamageWhenAssumption`).
- `OnlyDamageLoses` (`NothingLost`), from the hypothesis `NoWildTable` that damage never
  makes the Function Table name the Superblock as the SMART table; without it the statement
  is false, as `claim_confirm` shows. `SlotSafe` and `SuperblockSafe` quantify over the
  images of a power loss; `SlotSafeIff` and `SuperblockSafeIff` reduce them to what is sure
  of each granule, by looking at the worst image (`Worst`). That needs one checksum
  algorithm for all pointer blocks of a volume, or an old and a new half would not verify
  together: `LossInv` says so of the device and of the cached reports, and that the SMART
  table of a session is not the Superblock. Then every step adds to a granule only sound
  survivors (`DeviceStep`), and what was sure remains so (`SlotKept`, `SuperblockKept`).

**`SessionsProofs`**, two sessions over one file. The steps of the second process are
stated in the words of the first: the operators of the instance `Second` equal those of
`Engine`, and its steps are writes, barriers and failures of the same device.

- `BothWriteTrue` (`PointersTrue`), from `PairInv`, which is `IInv` with the same facts
  about the second session's memory: true reports lead to true blocks, however outdated
  they are.
- `BothKeepEverything` (`NothingLost`) and `EitherIsDurable` (`EitherRepairedIsDurable`),
  both under `NoWildTable`, from `BothInv`. The difficulty is that what one session knows
  between its write and its report (`MendInv`, `Mend2`) must outlast the steps of the
  other. It does because whatever a session writes, a whole block or half of one, is for a
  reader no worse than what it covers (`Visible`): the other's half-written end is still a
  whole end. The one write of the owner that could break this is that of confirm() to a
  wrong table, hence the hypothesis, which the run satisfies (`MCNoTargets`).

**`FaultDeviceProofs`**, for every device size, content and length of the log.

- `FaultTyped`, `BothExtremes`, from `IInv`, whose core is `ImagesInv`: the cache holds the
  newest write of each granule in the log (`Newest`), the durable image the newest before
  the last barrier (`LastSync`).
- `AllOutcomes` (`EveryOutcome`): a crash image at the end of the log holds in each granule
  one of the contents that may survive, and every choice of such contents is a crash image.
- `MediumProvided` (`ImplementsMedium`): initial states map to initial states; write, barrier,
  poke, a new recording and power loss each map to a step of `Medium` or a stutter, under
  the mapping of `surv` to the contents that the log leaves open for each granule.
- `PastStaysFixed` (`PastIsFixed`): what a prefix of the log allows does not depend on what
  is appended to it.

`CrashImage` replays the log by a recursive function. That its value at each prefix is what
the positions of the log say (`Replay`) is argued by the least prefix where it is not,
which the library's `NatLessThanWellFounded` and `WFMin` provide; a rule of induction takes
an operator as parameter and cannot be used here.

**`MkfsProofs`**, for every set of slots, every old content and any number of failures and
of changes by others. `IInv` has four parts.

- `PlanInv`: as long as no barrier failed, what the finished steps of the plan laid down is
  visible, and what precedes a finished barrier is durable. From it `FormatDurable`
  (`FormattedIsDurable`) and `CommitsInOrder` (`CommitOrder`).
- `LeadInv`: whichever half of slot 0 may survive, at the head or swapped at the tail, leads
  to the place of the Superblock or nowhere; it needs no barrier. `ImageInv`: no image a
  power loss may leave mounts without a Superblock or backup that verifies. From them
  `NotStranded` (`NeverStranded`); the case that matters is a repeated format over the
  remains of one that was cut short.
- `ProbeInv`: what the probes passed so far still says of the device, unless somebody
  altered it since. From it and the exclusive open `NeverUsed` (`NeverWhileUsed`) and
  `ExpendableOnly` (`OnlyExpendable`).

`StillAccepted` (`AcceptedAgain`) needs only that whatever a step of a format adds to what
may survive at the head of slot 0 is a pointer block again. `MkfsTyped` is the type invariant.

**`ResizeProofs`**. Of the layout: on every size mkfs accepts all regions lie on the device
(`RegionsOnDevice`) and apart (`RegionsApart`). After a growth of any amount the new mirror
spares every structure (`GrowthSparesStructures`); after one of 16 KiB or more it lies
outside the old device altogether (`LargeGrowthIsApart`). Of a volume on a device whose
size changes:

- `ResizeTyped`, without any hypothesis.
- `BlocksStayTrue` (`BlocksTrue`), if no two sizes the device may have put tail mirrors half
  over each other (`TailsApart`); growing by 1 KiB does, and then the property is false, as
  `claim_grow` shows. `TruthInv`: whatever verifies at any position where a block has been
  or may be is true of that position (`TrueDisk`), and what the session remembers is true
  (`MemoryTrue`). The two rest on each other: a check writes what it remembers, a scan
  remembers what was written.
- `RepairsOnlyRestore` (`RepairsRestore`) and `MirrorIsRebuilt` (`MirrorRebuilt`), if
  moreover no tail mirror lies over a structure (`Clear`; shrinking by less than the end
  region breaks that, section 6). `MirrorInv` adds to `TruthInv` how far an undisturbed
  check() has come (`Progress`).

Both hypotheses are about the sizes alone; TLC evaluates them for the sizes of the run
(`ApartAssumption` in `MCResize`), and `LargeGrowthIsApart` is the case that matters.

**`BlockIOProofs`**: `BlockTypeCorrect`, `DeviceNeverGrows`, `OkServed`, and
`NeighboursAreKept` (under `Exclusive`, the one writer of a block device), for any number
of clients, any size, alignment and number of faults. `TypeInv` adds the shape of a
transfer (`Shape`: the request lies within its rounded range, the range within the device,
`at` within the range); `DataInv` (`Fits`) says that what has been read into the buffer is
what the file holds, that a buffer to be written holds the caller's value in the request
and the file's bytes around it, and that what has been transferred has landed, as long as
nobody else may write and, for the last, nobody truncated the file. `EveryByteReachable`
(`Reachable`) is arithmetic of the rounding.

**`SmartHandlerProofs`**, for every input: with main and backup valid the newest valid
table is believed (`NewestIsBelieved`); `replace_drive` is recommended only without any
valid table, since the penalties sum to 75 points at most (`ReplaceOnlyWithoutTable`); the
emergency flag takes an error ratio over a thousandth, over fifty relocations and no clean
unmount together (`EmergencyTakesAll`); "improving" is never answered
(`TrendNeverImproves`); trend emergencies are degradations (`EmergencyIsDegrading`).

Only model-checked: the liveness properties `CallsReturn`, `EventuallyRestored` and
`CallsEnd`, because they speak of fairness, thus of ENABLED, which the prover does not
support; and the four disagreements, which are counterexamples.

## 5. Where documents and code differ

The first four have a run.

1. `check.rs:132` verifies the Superblock in memory. After a check() in read-only mode
   has adopted the backup, no later writable check() of that session repairs the disk;
   `remount.rs:7-9` advertises just this sequence.
2. `mount.rs:145-156` trusts an unverified Function Table, so one damaged word can send
   confirm() over the Superblock; `confirm.rs:8-9` says it stays untouched.
3. `mount.rs:85` refuses the mount for an unreadable Superblock; E/`README.md:52-56` says
   past the pointer block of LBA0 no failed read aborts it.
4. `layout.rs:206` derives the tail from the present size and no block names its slot. On
   a device grown by 1 KiB the new place of the tail of slot 0 covers the fallback half of
   its old block (which points at the Superblock) and the primary half of slot 1's (which
   points at the Config Snapshot). With the head of slot 0 damaged, the mount takes one for
   the other, and check() writes the Superblock over the Config Snapshot.
   `tests/anchors.rs:166` says of a grown device "Real structures stay where they were";
   that test doubles the device, and of such a growth the sentence is true.
5. Without a run: `mkfs_cafs.rs:191` drops the error of the barrier behind the structures and goes on to
   write pointer blocks; `mkfs_cafs.rs:181-182` refers to step 2 of fs.info section 13.2,
   "Write real structures. `fsync()`." (fs.info:588). `mkfs.cfg` lets a barrier fail, so
   leaving `BarriersHeld` out of `CommitOrder` shows it.
6. Without a run: `check.rs:76` judges cached reports, `check.rs:3-4` says all slots are
   verified; `anchor_slots_lost` counts slot 0 with one end good (`lib.rs:96-97`);
   `anchor_slots_repaired` counts ends, not degraded slots (`lib.rs:94-95`, corrected in a
   comment at `check.rs:124`); a bad fallback makes slot 0 "disagree" (`lib.rs:98-99`);
   E/`README.md:67-71` describes a confirm() that writes Superblock and Parity;
   E/`README.md:64-66` describes a remount from read-only to read-write that
   `remount.rs:79-84` refuses for a session opened read-only.
7. In `smart_handler.py` the branch for an improving trend (line 329) is dead, because
   negative z-scores are cut off before they are weighted (line 321); a scratch table is
   ignored when main or backup is missing, however new it is; and `--type=smart` raises
   when the averages have reads and writes but no error metric (line 180).

## 6. What the models show beside the properties

- Two sessions over one regular file keep pointers and Superblocks safe, but their
  misaligned writes can set each other's bytes back (`NeighboursKept` needs `Exclusive`),
  and two that confirm() lose an increment (`confirm.rs:60`).
- A confirm() whose write fails after it has landed leaves the new count on the device. A
  retry in the same session counts the mount once; a session that ends there has counted it
  although confirm() only logged the failure.
- A format of a *blank* device that is cut short leaves structures without the head of
  slot 0, which the retry takes for foreign data and refuses; `AcceptedAgain` is therefore
  stated for devices that carried CAFS.
- A file gets no check at all, and is truncated before its size argument is looked at.
- What another program puts on the device between a probe and the open is overwritten.
- Shrinking by less than the end region puts the new mirror over live structures, and
  check() then writes it there; `tests/anchors.rs:172` pins this as a known hazard, so
  `resize` has no such size.
- A volume with only its tail left cannot be mounted after the device has grown.
- `clean_unmount_flag` is cleared by confirm() and never set again, so the score of
  `smart_handler.py` counts every volume as uncleanly unmounted.
- `remount()` may return an error after the descriptor's flags have changed
  (`remount.rs:87`).

## 7. Not modelled

`checksum.rs` and `error.rs` (pure functions of bytes and codes; the models keep whether a
block verifies and whether a call fails); `--type=avg`, the displayed error-ratio trend and
the signals layer of `smart_handler.py` (whose inputs the file itself calls placeholders);
`avg_maker.py` (a draft that `smart_handler.py` replaced); `check.py` and `cafs-test.sh`
(chores of the repository); argument parsing and printing of the tools; descriptor flags
and O_DIRECT (they decide how bytes move, not which); the allocator, the WAL and the FUSE
layer (documents without code).

## 8. Open

confirm() in both sessions of `Sessions`, whose lost increment section 6 describes; the
positions of `Resize` that `TailsApart` excludes, where a weaker statement than `BlocksTrue`
may still hold; the barriers left out of `Resize`.

## 9. How to run

`tlc -workers 2 -config slot_zero.cfg MCEngine`, and likewise for the other runs (the
module of each is in `PROJECT.json`); `tlapm EngineProofs.tla` and likewise for the other
proof modules. The longest run (`sessions`) takes about two minutes on two cores, the
proofs a few minutes each.
