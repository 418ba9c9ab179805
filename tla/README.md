# eemount in TLA+

eemount mounts the ROMs of an EmuELEC device below `/storage/roms`, from
systemd mount units (mostly network shares), from external drives and from the
EEROMS partition of the boot drive.  It is one short-lived, single-threaded
program; what makes it hard is everything that moves around it: jobs of the
systemd manager that run on after a call gave up on them, signals that one call
left in the queue for the next, mounts that hide others, allocations and system
calls that fail half way through.  These modules model that program, model-check
it on small instances with TLC, and prove some of it for all instances with
TLAPS.

## 1. The system: inventory

| Part | Source | State | Operations |
|---|---|---|---|
| Entry, order of the whole | `src/src/main.c`, `eemount_routine` (eemount.c:544-565) | none | open the bus, stop smbd, the routine, start smbd, maybe restart EmulationStation |
| Unmounting | `eemount_umount_roms`, `eemount_umount_entry*`, `eemount_find_*`, `eemount_get_table` (eemount.c:15-167, 325-367) | a snapshot of the mount table | read, search, unmount children first, read again |
| Scan of units | `systemd_get_units` (systemd.c:87-224) | array of units, pointer to the root unit | read a directory, omit, append, sort |
| Scan of drives | `drive_get_mounts`, `drive_scan`, `drive_check` (drive.c) | array of drives, each with its systems | delay, retry, read marks, make directories, sort |
| Reload | `systemd_reload` (systemd.c:33-85) | one call's locals; the connection | match, call, wait for `Reloading` true, then false |
| Single unit calls | `systemd_start_stop_unit` (systemd.c:282-352) | one call's locals; the connection | match, call, wait for the one `JobRemoved` |
| Root | `eemount_mount_root`, `eemount_mount_partition_eeroms`, `eemount_mount_dir_update` (eemount.c:169-409) | the mount table | unit, drive or EEROMS; `.update` |
| ports_scripts | `eemount_mount_ports_scripts` (eemount.c:523-541) | none | one overlay mount, its result unused |
| Batch of units | `systemd_start_unit_systems` (systemd.c:354-494) | jobs, counters, `mhelper` | start all, wait for all, record those done |
| Systems | `eemount_mount_systems`, `eemount_mount_drive_systems` (eemount.c:421-521) | `mhelper`, the record of mounted systems | batch, drives, batch |
| Configuration | eeconfig.c | one call's buffer | read `/storage/.config/emuelec/configs/emuelec.conf`, look settings up at four levels |
| Utilities | util.c, sort.c, alloc.c, logging.c | none | conversions, unescaping, mkdir, comparison, free |

**Interactions.**  Everything runs in one thread.  The parts share
(a) the one sd-bus connection and its queue of received messages: each call adds
a match, and whatever arrives is processed by whichever call reads the
connection next; (b) `mhelper`, the only memory of what was mounted; (c) the
kernel's mount table, read as text and addressed by path.  The systemd manager
is the other actor: it runs the jobs, mounts the units, and goes on after the
program stopped listening, since the program cancels nothing.

**What is hard, and what makes each part correct.**

* *Batch of units.*  Reports come in any order, mixed with reports of other
  jobs and with messages that cannot be read; the connection may be lost, a job
  may hang, a unit may be refused in the middle, memory may run out.  Correct
  when: what the record names is mounted; what was mounted is recorded, unless
  the batch gave up on it; its two arrays are never overrun; it returns.
* *Systems.*  Two batches and the drives share a record that may be incomplete.
  Correct when: nothing is recorded twice, nothing is mounted twice but what
  the program lost track of, nested directories are mounted outside in, every
  offer is served.
* *Unit calls and reload.*  Correct when: success is the success of the call's
  own job, a reload is over when the call says so, what an earlier call left
  behind changes no verdict, every call returns.
* *Unmounting.*  The table is a snapshot, an entry is addressed by a path that
  may lead elsewhere.  Correct when: success means nothing is left, only mounts
  at or below `/storage/roms` are touched, failure has a reason and the loop
  ends.
* *Root.*  Correct when: the return value tells whether `/storage/roms` is
  provided, nothing is stacked, EEROMS is the documented partition.
* *Scan of units.*  The array grows and is sorted while a pointer into it is
  kept, and a slot is counted before it is known to be needed.  Correct when:
  every slot counted lies in the array and holds a unit, the units are in order,
  and the root pointer points to the root unit.
* *Scan of drives.*  Drives appear while they are scanned.  Correct when: no
  usable drive that was there is left out but for lack of memory, a drive provides what its mark names,
  a fault at one drive costs no other, the scan ends.
* *Configuration.*  Correct when: the most specific level answers in whatever
  order the lines come, and what the call returns tells how many settings are missing.
* *Unescaping.*  Done in the buffer that is read.  Correct when: it undoes what
  the kernel and systemd did, and the layer counted before is the depth.
* *The whole.*  Correct when: only the root unit's late job can hide what was
  mounted, a cancelled routine has mounted nothing, `/storage/roms` has one
  provider, Samba is started again.

The hazards, each at its line and with the properties that would catch it, are
listed in PROJECT.json; where the code does what it should not, and the properties
of the runs make an exception of it, with the configuration that shows it instead.

## 2. Modules

| Module | Models | Uses |
|---|---|---|
| `Bus` | the manager, its jobs, the connection and its queue (outside `src/`) | |
| `StartUnits` | `systemd_start_unit_systems` | EXTENDS `Bus` |
| `MountSystems` | `eemount_mount_systems` with `eemount_mount_drive_systems` | EXTENDS `StartUnits`, whose steps are its unit calls |
| `Provision` | abstract specification of `MountSystems` | INSTANCEd by it |
| `UnitCalls` | `systemd_start_stop_unit` and `systemd_reload`, in sequence on one connection | EXTENDS `Bus` |
| `UmountRoms` | `eemount_umount_roms` over a kernel mount tree | |
| `MountRoot` | `eemount_mount_root` with EEROMS and `.update` | |
| `Routine` | `main`, `eemount_routine`, `eemount_mount_ports_scripts` | EXTENDS `MountSystems`, whose steps are its mounting of systems |
| `UnitScan` | `systemd_get_units`, `systemd_mount_unit_helper_free` | |
| `DriveScan` | `drive_get_mounts`, `drive_scan`, `drive_helper_free` | |
| `EEConfig` | `eeconfig_get_setting_one`, `eeconfig_get_setting_many` | |
| `Unescape` | the two unescapings of util.c | |
| `MountSystemsProofs`, `RoutineProofs`, `MountRootProofs`, `UnitScanProofs`, `DriveScanProofs`, `UnitCallsProofs`, `UmountRomsProofs` | theorems | EXTEND the modules they are named after; the first has those of `StartUnits` too, and the second EXTENDS it |
| `TextProofs` | theorems | EXTENDS `EEConfig` and `Unescape` |
| `MC*` | constants of the TLC runs | |

Operators named `...Mutant` are wrong forms of the definition that follows
them, of the kind a slip in the code would produce; no specification uses them.
They serve to show that each property can fail: put in the place of the right
definition, each makes TLC report the property it is listed for.

### Bus (external)

`link` is the connection, `rqueue` what it received, `running` the manager's
jobs, `nextJob` their ids, `mtab` the mounts made.  `RemoveJob` ends a job with
a result, mounts on `done`, and emits `JobRemoved`; where something is mounted
already it may mount nothing.  `ForeignJobRemoved` stands for jobs of other
programs; their ids are never ours and all are 0.  `Hangup` loses the
connection and with it, maybe, the queue; `Disconnected` is the last message.
`Emit(message, heard)` puts a signal in the queue if a match is held (`Always`),
maybe if one was just released, for the removal of a match is asynchronous
(`Maybe`), or not (`Never`).  A message has its member and the fields the
program reads; anything the reading call cannot parse counts as unreadable,
as `sd_bus_message_read` makes it.  `StartUnit` is `Accept` or `Reject`; a
rejected call may have started a job all the same, for its answer may be lost
or late.  A unit is ordered after the one its directory lies in, which is what
systemd does for mount units.

### StartUnits

`shelper` is the array of units (the root is an index), `layer` the specifier,
`i` the index of the starting loop, `jobs`, `finished`, `failed` the locals of
the same names, `tick` the index of the waiting loop, `mhelper` the record
(`Null` or systems with `alloc_systems`).  One step starts or skips one unit,
processes one message or ends one round of waiting.  Every return of the code is
there: nothing to start, match refused, a unit refused, the job array
mismatch, the third unreadable message, the last report, the last round, and
the three allocations, which free the record and return NULL.
`RereadDisconnected` is what the code does on a closed connection:
`sd_bus_process` returns a negative number, the loop takes it for a message, and
reads the message it still holds again.  `lost` is a history variable: the
systems whose jobs or records the program gave up on.

### MountSystems and Provision

`phase` says which of the statements of `eemount_mount_systems` is running;
`dhelper` is for each drive, by name, the systems it offers, `d` and `n` the
loop indices.  The unit calls are `Call(layer)` and the steps of `StartUnits`,
so the second batch meets the queue and the jobs the first left.  `Bind`,
`BindFails` (mkdir or mount fails), `Omit` and `BindOutOfMemory` are the
outcomes for one offer.  `Provision` says what all of that promises: systems are
claimed one by one, only mounted ones are claimed, a drive is bound to an
unclaimed system only, claiming it in the same step; out of memory voids all
claims.  The refinement maps `claimed` to the systems in `mhelper`.

What the two scans deliver is assumed of the constants.  `OrderAssumption`: no two
units of a helper provide one system (systemd loads a mount unit under the one
name its path has; a file with another name for the same path is refused), and a
system comes before what lies inside it, which has a higher layer (that is what
counting the dashes and sorting by name give).  `OffersAssumption`: a drive offers
plain names, for lines with a slash are passed over; so none of them lies inside
another, and a unit for one of them is of layer 1.  A line `.` or `..` in a mark is
taken for a name by the code and not told apart here.

### UnitCalls

`script` is a sequence of calls, as `main` and `eemount_routine` make them; one
call reads the queue the one before left.  `verdicts` records what each
returned and why.  The two waiting loops are alike but for what they can read
(`CanRead`) and when they return.  `reload` is the manager's side; a script has at
most one reload, as the routine does (`OneReloadAssumption`).  Reloads by
other programs are not modelled; they would only add `Reloading` messages.

### UmountRoms

`kernel` is a mount tree in table order: an entry has an id, a parent and a
place.  Whether a path leads to an entry is computed as the kernel does:
`Resolved` descends to the visible mount on top, so that an entry below a later
mount is out of reach.  `table` is the program's snapshot, `stack` the recursion
of `eemount_umount_entry_recursive`, including that the outermost call looks for
children in the whole table from index 1 and an inner one from its own entry on.
`excused` records that a table could not be read, a mount was busy, or another
process interfered.  Mount points are compared after they were unescaped; that
the unescaping gives the path back is `RoundTrip` of `Unescape`.  `Visible` is
written as the largest set of mounts that are in nobody's way and stand on one
another, down to `/storage`: a definition without recursion, which can be reasoned
about.  `/storage/roms` is a directory of `/storage` itself (`RomsAssumption`).

### MountRoot

One step per test, system call or try.  `rootJob` is the job of a root unit the
program gave up on, which may mount `/storage/roms` between any two steps.
A device is its disk and the number its name ends with, so that making the last
digit 3 is modelled by what it does.  `fault` records a failure that had no
reason in the state (a system call, an allocation), but for the bind of a drive,
after which the next drives and EEROMS are tried as if it had offered nothing.  The start of the root unit
uses the contract that `UnitCalls` checks: 0 only when the job was done.

### Routine

`stage` is the place in `main` and `eemount_routine`, `verdict` what the routine
returned, `smbd` what was last asked of Samba, `rootBy` a history variable: what
the program took for the provider of `/storage/roms`.  `MountSystems` runs inside
step by step; the root unit's job, where it was given up on, is among its
`running` ones, and `/storage/roms` is the directory of the system `Roms`, `""`, in which
every other one lies; nothing lies around it, and only it around ports_scripts
(`OutermostAssumption`).  Unmounting, the reload, the calls for Samba and
EmulationStation and the provision of the root are steps that do what
`UmountRoms`, `UnitCalls` and `MountRoot` show of them: unmounting succeeds or
cancels the routine, the reload's value is ignored, the root unit is mounted,
refused, or given up on with its job running or not; a drive or EEROMS mounts
`/storage/roms` or fails.  The overlay of ports_scripts is mounted or is not,
and nobody looks.

### UnitScan

The directory is a set of entries that `readdir` returns in any order.  Names are
ranks in the order of `strcmp`.  `units` are the slots counted so far, including
`Unwritten` ones: the code counts an entry before it decides to omit it, and
the next entry goes to the next slot.  `alloc` is the size of the array and
`block` where it lies: `realloc` moves it or does not.  `root` is a block and a
slot.  A read through a pointer into a block that was freed, or of an unwritten
slot, may give anything: sorting puts unwritten slots anywhere, or crashes, and
the root pointer is looked up by the system of any slot there is.  Each failing
allocation frees what the code frees.  A directory that cannot be opened gives
the same result as an empty one.

### DriveScan

`plugged` are the directories below `/var/media`; more may appear in every
step, as they do while the program sleeps between tries.  `must` and `seen` are
what was there when the try began and what it has looked at: `readdir`, which is
assumed not to fail, returns all of the former and some of what came since.
A mark is a sequence of lines, each of a kind: the code passes over the `Ignored`
ones, two of them because it reserves their names, `ports_scripts` and
`emuelecroms` (paths.h:21, 24), and takes the `Provided` ones, the two names the
repository's README reserves among them (14 below).
`Limits` is `retry + 1`: for the largest int both outcomes of the
overflow are there, no try at all or no bound.  `Faults` are failing
`mkdir`, allocations, `opendir`, and a read that fails, which the code takes for
the end of the mark.  What an allocation does that fails depends on where: in
`drive_check` the drive is passed over (`CheckFails`); where the array of drives is
made or grows the scan is abandoned (`OpenMark`); while a mark is read its drive
stays without systems, or `dangling`, with its systems freed and their count left
(`NoMemory`).  `faulty` remembers the drives that were hit, `skipped` those the
present try had no memory to check.  Growing arrays are counted in `alloc` for the
drives and for the systems of each.  What a drive should provide is stated
without an algorithm: its systems ascend, and some one-to-one map takes them to
the lines of the mark that name one (`Lists`); of a drive that a fault has hit,
to some of those lines.

### EEConfig

A file is a sequence of lines with a scope (ROM, platform, global, bare, comment)
and whether the last line ends: the code looks at a line when it meets its line
break.  `ConsiderLine` is one line looked at for one setting, `Consider` the chain
of conditions for it and `found` what the three result pointers point to; `Get`
answers the setting after the last line, with the widths of `int` and `long`, and
the next setting starts over at the first line.  The platform level compares a prefix (see below).  `buffer` tells a pointer nobody
has set from a buffer nobody has filled; both happen when the call to read the
file returns 0 without having read it.  `Absent`, the settings that a file has
at no level, is defined over all lines at once, and `MissingCounted` compares
what the call returns with it; of a file that was not read `FailuresTold` speaks
(11 below).

### Unescape

`text` is the buffer, read at `c` and written `diff` characters before.  First
`Escape` writes a path into it as the kernel does for mountinfo or systemd for a
unit's name, a character a step, outside the program; or a user wrote a name of
his own.  `Begin` counts `layer` in the escaped name, as `systemd_get_units` does,
and each `Turn` is one of the loop.  `Characters` is whatever file names are made
of, with the ones that are escaped or part of an escape among them, and `Byte`
their codes, by which `Unhex` reads two hexadecimal digits in either case as
`util_unhex_char` does.  An escape of a byte that is none of `Characters` gives
`"other"`, and `\x00` the NUL, which ends the name there.  systemd writes the slash,
the dash and the backslash in one way; of each other character it is left open
whether it is escaped or not, which includes every choice systemd makes.

## 3. Runs

Each run ends within about a minute and a half.  `CHECK_DEADLOCK FALSE` is in
each, because the program ends and the manager owes no further step.

| Run | States | Shows |
|---|---|---|
| `StartUnits` | 406k | `IInv` (inductive invariant), `RecordedIsMounted`, `MountedIsRecorded`, `RecordFits`, `JobsFit`, `CallReturns` |
| `MountSystems` | 626k | `RecordedOnce`, `DoubleMountOnlyIfLost`, `NeverCovered`, `OffersServed`, `Finishes`, `ImplementsProvision` |
| `UnitCalls` | 407k | `OwnVerdict`, `ReloadIsOver`, `UnitCallsHear`, `ScriptEnds` |
| `UmountRoms` | 394k | `CleanOnSuccess`, `FailsOnlyOverHidden`, `FailureMakesProgress`, `OnlyRomsUnmounted`, `RunEnds` |
| `MountRoot` | 63k | `RootAsReturned`, `NothingStacked`, `EEROMSAsDocumented`, `UpdateFromEEROMS` |
| `Routine` | 279k | `HiddenOnlyByLateRoot`, `CancelledMountsNothing`, `RootProvidedOnce`, `MainEnds` |
| `UnitScan` | 53k | `SlotsFit`, `ReadyForBatch` |
| `DriveScan` | 746k | `ArraysFit`, `ProvidesItsMark`, `UsableFound`, `ScanEnds` |
| `EEConfig` | 190k | `MostSpecific`, `MissingCounted` |
| `Unescape` | 301k | `RoundTrip`, `LayerIsDepth` |
| `MountSystemsAgain` | violation | `NotMountedAgain` |
| `UnitScanOmitted` | violation | `OnlyUnitsCounted` |

**Disagreements found.**  The first two are runs of the project; the others are
reproduced with the configuration named, in this directory:
`tlc -config MC<name>.cfg MC<module>`.

1. README.md:31 of the repository: "If any system is already mounted, it won't
   be mounted again in the remaining steps".  The only test is whether `mhelper`
   names it.  A batch that gives up (one unit refused is enough, systemd.c:417)
   forgets the jobs that run on; when one ends before the drives are considered,
   the drive is bound over the mount of the unit.
2. systemd.h:86: the count of a helper is the "Count of mount units".  A unit
   that is omitted as reserved, or because there is no system behind the dash,
   was counted before (systemd.c:129, 142-160); its slot is never written, yet
   sorted, handed to the batch, and freed.
3. `MCUnitScanRoot`: systemd.h:81, "The mount unit for roms root".  The pointer
   is taken while the array may still move (systemd.c:162, 131); it is then read
   after the array was freed (195), and equals no unit of the batch (410).
4. `MCUnitCallsReload`: systemd.h:137, `systemd_reload` returns "0 for success,
   1 for failed".  Messages that arrived for an earlier call count as failed
   reads; three of them (`NameAcquired` and two `JobRemoved`) make it return 1
   while the manager reloads.  The caller ignores the value, so units may be
   started while the reload is under way.
5. `MCMountRootThird`: README.md:19, EEROMS is "the 3rd partition on the boot
   drive".  The code replaces the last character of the name, which from
   partition 12 makes 13.  (In the run `MountRoot` the tables have no partition
   numbers of two digits.)
6. eemount.c:217: `eemount_mount_dir_update` is to be called "after EEROMS is
   successfully mounted".  `eemount_mount_partition_eeroms` returns 0 when its
   target is any mount point; a root unit that was given up on and mounts just
   then makes the code bind `.update` from the unit's mount.
   `UpdateFromEEROMS` has this as its one exception.
7. `MCDriveScanMkdir`: drive.h:38, a drive with no systems "should be used as a
   whole".  It also has none when `mkdir` failed for each (drive.c:100).
8. `MCDriveScanMemory`: drive.c:219-221, "we straightly abandon the scan" when
   memory allocation failed.  When it fails in `drive_scan` the systems are
   freed, their count is left, and the drive is returned (276); freeing the
   helper frees them again.  When it fails in `drive_check` (17-20) the drive is
   passed over, and the scan returns the others.
9. `MCDriveScanRetry`: with the largest int for the retries, which every larger
   number in the configuration is turned into, `retry+1` overflows
   (drive.c:215); where it wraps no scan is made.
10. `MCEEConfigPrefix`: eeconfig.c:193 tests `line[len_platform_key == '=']`, the
    first character, so that at the level of a platform every setting whose name
    begins with the one sought is taken for it.
11. `MCEEConfigEmpty`: eeconfig.h:95, "negative for failure in initialization".
    A file that is empty or cannot be read makes `eeconfig_read_config` return 0;
    the settings count as not found, and a pointer nobody has set is freed.
12. `MCUnescapeInvalid`: util.h:45, "0 for success, 1 for failure"; the code
    returns -1, and its caller does not look.
13. `MCRoutineRoms`: eemount.h:203 and main.c:30: 0 is success, "All mount
    successful".  When nobody provides `/storage/roms`, `eemount_mount_root`
    returns 1, which the routine does not take for a failure: the systems are
    mounted on the bare directory and it returns 0.
14. `MCDriveScanReserved`: README.md:34, "reserved names (emuelec, ports_script) are
    ignored", with an example of a mark where they are.  The code ignores
    `ports_scripts` and `emuelecroms` (drive.c:83-90, paths.h:21, 24), as
    doc/MultpleDrives.md:117 says, so that a line `ports_script` or `emuelec`
    makes the drive provide a system of that name.

One more observation that contradicts no document: a system that was mounted over
a mount *inside* it (`nes` over `nes/images`) makes every later run fail, for
the first entry found is one that no path leads to.  `FailureMakesProgress`
excludes such tables and says why; `NeverCovered` shows that the mounting of
systems does not produce them by itself, and `HiddenOnlyByLateRoot` that in the
whole routine only a root unit that was given up on does.

**Bounds.**
`AllocBase` is 2 where the code has 16, so that three systems make the record
grow; `RecordFits` is proved for every base of at least 2.  `Loops` is 1 or 2
rounds where the code waits 100: a round changes nothing but `tick`, and two
tell a round that ends the call from one that does not.  `MaxForeign`,
`MaxLeftover` (at most 2 each) reach the third unreadable message together with
the connection's own.  Three units and two drives with up to three
offers contain a root unit, two layers, a system offered by a unit and by two
drives, one offered twice by one drive, and a drive without offers.  Three calls
in a script let each kind follow each other kind.  Five mounts over five
places contain stacks, nesting of three levels, hiding by the directory, by its
parent and by `/storage/roms`, and a neighbour whose name begins alike.
One mount or unmount by another process may come between any two steps.
Two drives, 20 start tables and five partitions of three disks reach every try
for EEROMS.
`Routine` has no foreign signals and no leftovers (`MaxForeign` and `MaxLeftover`
0), which its parts are checked with, so that the manager and the program can
interleave over a root unit, units of two layers and two drives.
Directories of up to five entries make an array of two slots grow twice, and a
mark with six lines and four systems makes that of a drive grow; `SlotsFit`
and `ArraysFit` are proved for every base.  `IntMax` is 3 and 7 and `LongMax` 8
where only the order of the numbers matters.  Files of three lines out of ten
put any level before, between and after any two others.  Paths of four
characters, of eight that tell the cases apart, contain every pair of neighbours
and some that look like an escape themselves; six names hold escapes of a
digit, of an unknown byte, of the NUL and in upper case, and invalid ones.

**Fairness.**  Weak fairness of the program's steps only, because the program
is a loop that waits at most 0.1 s at a time and always goes on.  The manager
owes nothing: jobs may hang forever.  Foreign signals are bounded
(`MaxForeign`): a manager that sends them faster than they are read could keep
the inner loop of the code busy for ever, and the models do not claim otherwise.
`UmountRoms` bounds interference likewise.  `ScanEnds` assumes it of
the steps of `DriveScan`'s program in which nothing fails, so that no fault is needed
to end the scan, and not of drives being plugged in; `MainEnds` of
`MainProgram` only.  `UnitScan`, `EEConfig` and `Unescape` are loops over their
input; nothing is claimed of their liveness.

## 4. Proofs

For every value of the constants under the modules' assumptions (`AllocBase` at
least 2, a nonzero `Loops`, well-formed helpers):

* `CallInvariant`: `Spec => []IInv` of `StartUnits`.  `RecordedIsMounted` is not
  inductive: the step that records a system knows only that a report with its
  job's id says `done`.  So `IInv` adds `DoneIsMounted` (a queued report `done`
  of one of our jobs is about a mounted system), which in turn needs `SameJob`
  (the manager's job and ours with one id are about one system) when the manager
  emits it, and `FreshIds` (no id is ahead of `nextJob`) when a unit is started,
  since a stale report with the new job's id would break it.  `RecordFits` needs
  `Allocated`: growing by half makes room only for two or more.  `Counting`
  keeps `failed` and `tick` in their types.
* `TypeCorrect`, `OnlyMountedRecorded`, `RecordNeverOverflows` follow.
* `RoutineInvariant` carries `IInv` through `MountSystems`, where a call may begin
  with the queue and jobs of the one before; `RoutineTypeCorrect` and
  `RoutineRecordsMounted` follow.
* `RoutineImplements`: `MSSpec => ImplementsProvision`, step by step: a report
  recorded is `ClaimUnit` (that the system is mounted comes from the invariant)
  or a stutter when the record names it already, `Bind` is `BindDrive`, a job
  that ends is `UnitMounted`, out of memory is `Forget` or a `BindDrive` that
  voids the claims, all else stutters.

* `UnitSlotsFit`, `UnitsReady`: `Spec => []ScanInv` of `UnitScan`, for every
  directory.  `ReadyForBatch` speaks of the end only; while entries are read,
  `LayerTells` (layer 0 is the system of rank 0) and `RootTracked` (the root
  pointer is the slot of that unit, unless the array moved) keep what the search
  after sorting needs, and `Growing` keeps the array at two slots or more, where
  growing by half makes room.  What `qsort` does is a bijection of the slots.
* `JobsFillTheirArray`: `JobsInv` counts: in the starting loop `jobs` has one element
  for each selected unit the loop has passed (the cardinality of `SelectedUpTo`),
  so that with a layer it cannot have more than were counted for the allocation.
* `NothingForgotten`: `MountedIsRecorded` needs an account of where every mount
  stands (`AccountInv`): its system is in the record, or among what was given up, or
  the batch waits for a job of it that is over and of which the queue tells nothing
  but `done` (`DoneUnread`); what still runs is awaited and not reported yet, or given
  up (`RunningAwaited`).  `finished` is the number of finished jobs, so the return
  on the last report leaves nothing unread.
* `EveryOfferServed`: `OfferInv` says that all offers before the place of the two loops
  are mounted or their bind failed.
* `NoSystemRecordedTwice`, `OnlyTheLostMountedTwice`, `NoMountIsCovered`: one invariant,
  `OrderInv`, for all three.  What a batch asks for next was not touched before, nor
  anything inside it (`Ahead`): in the first batch because the units are in order,
  in the second because everything before it is of the first layer
  (`EarlyFirst`), which is why the split by layers is there.  A running
  job is of a unit its batch has passed (`JobsApart`); what it will mount covers
  nothing, and is not mounted already unless it was given up on (`JobsMountNew`).
* `OnlyLateRootHides`: the same (`HideInv`) with the root unit, whose directory is around
  everything, and ports_scripts, which the routine mounts before the systems.
  It uses `OthersElsewhere` (see `OneProvider`).

* `SuccessIsOwn`, `SuccessIsReloaded`: `CallsInv`.  A report `done` in the queue is of a job
  that was done, and `Reloading` false is in the queue only when the reload is over
  (`ToldTruth`); since the manager reloads only after it was asked to (`AskedFor`) and is
  asked once, a signal of the reload that was called cannot be an older one's.
* `UnitCallsAreHeard`: for `MaxLeftover` at most 2.  `Hearing` bounds what a
  unit call cannot read: what the connection was opened with stands at the head of
  the queue and has at most two messages, the reload leaves at most as many signals
  as it gave (`Few`), and never are both there, for the reload reads the former.

* `OthersAreLeft`, `SuccessIsClean`: `UmountInv`.  Every table is a tree in the order of its
  ids with no two mounts on one place of one mount (`TableOK`), which `Mounted` and
  `Without` preserve; from this a path resolves to exactly one mount, the end of
  the chain of visible mounts along the path (`ResolvedIs`).  `Calls` says that each
  call is about an entry at or below `/storage/roms`, `Covered` that the snapshot
  has every mount from before the run that is left.
* `HiddenMakesFail`: as long as all mounts are visible and nobody interferes no umount
  fails.  `Reached` says how far the recursion has come: what a call is about is
  mounted, its children are those it has not come to, and all children of what
  was not reached are still there; so a call without children left is about a leaf,
  and a path leads to it because taking away a leaf hides nothing
  (`VisibleStays`).
* `FailuresProgress`: `ProgressInv`.  Until the first success the recursion works on the
  table of the beginning, and towards a mount that will be unmounted: from the
  entry it began with a path of children leads to a visible leaf (`PathToLeaf`;
  the table is finite and children come later in it), and what of that path is
  not being worked on is still to come (`Awaits`).  A call about a mount that is not
  on the path may fail; the one about its end cannot.

* `EEROMSIsTheDocumented`: `ChoiceInv` adds to `RootInv` that a device tried in vain is not
  there (`TriedInVain`).  It assumes that the names of the partitions of `/flash` and
  `/storage` end with one digit, without which it is false (5 above).

* `DriveScanArraysFit`: both arrays of `DriveScan`, one inside the other, by the
  same argument (`Fits`).
* `DrivesUsable`: `Spec => []UsableFound`, under the assumption that the retries
  are not the largest int, without which it is false (9 above).  `Seeing` says
  that what a try has looked at and can be used is in the array, or in `skipped`,
  unless the scan was abandoned, and that a try that ended with nothing found has
  seen all there was when it began; that there was a try at all needs `limit >= 1`.
  `skipped` begins empty with each try: a drive that one try had no memory to check
  is found by the next, or the property fails.
* `MarksAreProvided`: `Spec => []ProvidesItsMark`.  `ReadRight` says that the drive being
  scanned has the systems of the lines before `line`, by a bijection that grows with
  each line, and that sorting composes with; once a fault has hit the drive, of some
  of those lines.  `Apart` says that no directory is twice in
  the array, so that sorting by name orders strictly (`NamesAssumption`: a
  directory has one entry of each name).

* `ReturnsRoot`, `UpdateIsOfEEROMS`: `Spec => []RootInv` of `MountRoot`, for every
  table, set of devices and failure.  `Knows` says what the place in the program
  tells about `/storage/roms` as long as no job was given up on: not mounted
  before the fallbacks, mounted where EEROMS is asked to be only if its target
  was `eeroms`, mounted where `.update` is bound.  `Sources` says who can have
  made the mounts at the two targets, which is what "EEROMS is successfully
  mounted" rests on; that the mount on top exists is the existence of a
  greatest index (`WFMin`).
* `RootStacksNothing` adds `Clear`, what the checks for a mount point leave true
  until the mount: the target is free, or it is `/storage/roms` and the root
  unit's job may have come first.  It assumes that `init` stacked nothing
  (`Flat`); the program does not unstack what it finds.
* `MainRecordsMounted`: the invariant of the batches, through all of `Routine`.
* `CancelledLeavesNothing`: `Cancelling` says that until the routine is past the
  steps that may cancel it nothing was mounted or asked for, so that the manager
  has no job to finish.
* `OneProvider`: `OneRoot` says that the drives are reached only without a success,
  where what is on `/storage/roms` is the root unit's, and that no job for it is
  left once the unit is a success; `RootProvidedOnce` is inductive with that.  The
  assumption `OthersElsewhere` (in a helper only the root unit, and of the drives
  only one that is used as a whole, is about `/storage/roms` itself) is what the
  two scans deliver: an empty name is never put on the list of a drive, and
  `ReadyForBatch` of `UnitScan` is about the root unit of what a batch gets.

* `MissingAreCounted`: `CountInv` keeps what the call will return equal to the number
  of settings without an answer while they are looked up, and by `MostSpecific` (below,
  under the same assumption) those are the settings the file has at no level.
* `SettingsMostSpecific`: `MostSpecific` compares an answer with a definition that looks
  at all lines at once (`Reference`).  `SearchInv` relates `found` to the lines
  before `line`: at the ROM level it is the last line that sets the setting there;
  at a lower level the same as long as nothing was found above, for after that
  the code looks no further; and globally the last global line, or the first bare
  one if there is none (`Summary`).  One more line keeps that
  (`ConsiderKeepsSummary`), and after the last it is the reference
  (`AnswerIsReference`).  It assumes `SettingsApart`, that no line of a platform
  sets a name that begins with another one sought, without which it is false (10
  above); the files of `MCEEConfig` satisfy it, those of `MCEEConfigPrefix` do not.
* `PathsComeBack`: while the path is escaped its escapes stand in the text one after
  the other (`IsLayout` says where each begins, `IsAt` what stands there).  While
  they are undone (`Unescaping`) the first `c - diff - 1` characters of the path
  are back, the escape of the next is the one at `c`, and those behind it are
  untouched: no escape is shorter than what it stands for, so that the function
  writes no further than it has read.  `TurnDecodes` is the case analysis: the
  code's tests tell which escape it is at, also where the path itself holds a
  backslash or looks like an escape.
* `LayersAreDepths`: with each character escaped the text gets a dash exactly for a
  slash (`LayerInv`).
* `SettingsTyped`, `TextTyped`: the types; the latter includes names nobody escaped, whose
  escapes may be of any byte, invalid, or cut short by the NUL (`DecodesBeforeEnd`).
* That what systemd escapes is read as the character it was (`HexCharOfByte`, for
  `PathsComeBack`) needs of `Byte` that no two characters have one code and that the
  sixteen digits systemd writes have theirs.

The proofs have one lemma per action or group of actions, with one step for each
part of the invariant it can disturb.

Only model-checked: all liveness (`CallReturns`, `Finishes`, `ScriptEnds`,
`RunEnds`, `ScanEnds`, `MainEnds`), which is beyond the prover.

## 5. Plan

Done: every module of section 2, and a theorem for every safety and action
property of every run that passes.

Left: drives that are unplugged while they are scanned or bound, and reloads of the
manager by other programs.

## 6. Not modelled, and why

* `sort.c`, `alloc.c`, `logging.c` have no state of their own.  What sorting does
  is in `UnitScan` and `DriveScan`; that growing is by half, and that freeing
  resets, is where the callers do it.  In `MountSystems` and `StartUnits` the order
  by name is a property of the constants.
* `util_mkdir` and `util_mkdir_recursive` are steps that succeed or fail in the
  modules that call them.
* The characters of a line of the configuration: its scope, name and value are
  taken as parsed, but for the slips noted in `EEConfig`.
* Memory layout: the `bool` that receives the four bytes of a "b"
  (systemd.c:49, 57) is outside what a model of states can say.
* A unit that pulls in units it requires: a job of `nes-images` starts `nes`, or
  the root unit, if that is not mounted.  In `Bus` a job mounts its own unit only.
* Drives that are unplugged: `DriveScan` only lets them appear.
* Job ids are unbounded; the code keeps 32 bits, which no boot of a device uses
  up.
