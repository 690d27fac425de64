# Nightshade: a TLA+ model of the configuration system

Nightshade is a firewall operating system. Its heart is `nightshade-configd`, a
daemon that holds the running configuration of the box, gives each operator a
candidate to edit, and applies candidates to the machine with a
commit/confirm/rollback protocol; around it are renderers, a schema, an operator
CLI, an interface monitor and an installer. This directory holds TLA+ modules
that model them, TLC configurations that check the models on small instances,
and theorems about the daemon, its commit pipeline, the renderers on the box, its
socket, its operators, the interface monitor and the installer that TLAPS proves
for every instance.

## The system

| part | state it keeps | operations | what makes it correct |
|---|---|---|---|
| `configd/state.rs` | running configuration, generation, history, sessions, pending commit, timer, all behind one mutex | open, close, set, delete, discard, load, commit, confirm, save, roll_back, start, resume, adopt | no lost update; a confirm window is guarded until settled; running is what is applied |
| `configd/commit.rs` | none of its own; calls the renderers | validate, order, apply, restore | all or nothing, as far as the restore points reach |
| `configd/confirm.rs` | the marker file | arm, disarm, read | the way back survives the process |
| `configd/archive.rs` | revisions on disk | write, list, read, prune | only kept configurations, the newest KEEP of them |
| `configd/session.rs` | one file per session | save, forget, load_all | unsaved work survives a restart |
| `configd/boot.rs`, `main.rs` | the boot-failed notice | boot, saved, apply_at_boot, fall_back | the box always comes up |
| `configd/server.rs`, `proto` | connections | accept, serve, drain; framing | a request is answered or the connection ends |
| `render` (system, login, networkd, host) | last-applied records; the box | render, check, apply, verify, previous, remember | what was applied is there; what is gone from the configuration is gone from the box |
| `ifprobe` monitor and tracker | counter baselines, flap counts, `ifstate.json` | sample, note_event, persist | counts neither lost nor invented |
| `ifprobe` probes, `ifstate` | none | reading the kernel; `show interfaces` | decoding, selection, formatting |
| `schema` | configuration tree, the schema | set, delete, diff, validate; lex, parse, render; load schema files | text and tree are inverse; diff explains a change; what is committed hangs together |
| `cli` | mode, session id | the REPL | the operator's session is the daemon's |
| `installer` | the target disks, what is mounted and imported, the answers given | the screens of two frontends; partition, pools, root file system, boot loader, seed; teardown | nothing is erased unconfirmed; a failing step is unwound; what is installed boots and can be logged into |

Interaction: `ns` sends requests over a Unix socket; each connection is a tokio
task; every handler takes the state mutex and keeps it to its end, calling
`commit::apply`, which runs the renderers in turn. The rollback timer is a task
that takes the same mutex. Files under `/run` (running.json, sessions, the
marker, the notice) survive a restart of configd and not a reboot; config.boot
and the archive survive both.

What is hard here: handlers are atomic to one another but not to the death of
the process, and they write up to five things in a row; several file operations
may fail with only a log line; sessions outlive the process and carry a
generation number that must keep its meaning; the deadline of a window may pass
while nobody is there; renderers fail one at a time, and what they should undo
they learn from a record and not from the box. The monitor has two threads and
the connection handlers over one tracker, and reads the kernel before it takes
the lock. An answer may be lost after the request was carried out. The installer
must unwind from any of its commands. `PROJECT.json` lists these hazards at
their lines with the properties that cover them.

## The modules

| module | models |
|---|---|
| `ApplyContract` | what a call of `commit::apply` may do to the box, as relations on a summary of the box |
| `CommitPipeline` | `apply` and `restore` renderer by renderer, checked against `ApplyContract` |
| `CommitPipelineProofs` | the pipeline keeps its contract, for any number of renderers |
| `CommitConfirm` | the abstract specification: a configuration in force, a window, and the ways either may change |
| `Configd` | the daemon: one action per request, and one per write where an operation writes several things |
| `ConfigdInvariants` | the inductive invariants the proofs use |
| `ConfigdProofs` | type correctness, no lost update, the history, the confirm window; what is applied, promoted and archived; that edits are durable; that `Configd` implements `CommitConfirm` (safety) |
| `Host` | the operations of a renderer on the box (sync, write, run) and the tools they call |
| `SystemRenderer`, `LoginRenderer`, `NetworkdRenderer` | what each renderer renders, checks, applies, verifies and records |
| `RenderedBox` | `commit::apply` and `restore` over the three, one host operation at a time |
| `RenderedBoxProofs` | what a call leaves on the box, devices included, what no step takes away, when a call fails |
| `Tracker` | samples, rates, link history and baselines, as operators |
| `InterfaceMonitor` | the sampler and watcher threads, `clear counters`, the state file |
| `OperatorSession` | `ns` processes, their connections and the daemon's connection server |
| `SocketBind` | where the listener comes from and what becomes of the socket file |
| `InterfaceMonitorProofs` | counters since the clear, counted transitions, rates, a whole file |
| `OperatorSessionProofs` | every mode has its session, an exit keeps work, the exit code of a commit is true, a batch is whole |
| `SocketBindProofs` | the socket is reached and never stolen |
| `InstallEngine` | the destructive phase of the installer and its teardown |
| `InstallScreens`, `PlainFrontend`, `TuiFrontend` | the rules of the answers, and the two ways of giving them |
| `Installer` | the installer from start to exit |
| `InstallerProofs` | what the engine and its teardown leave; the installer's promises: confirmed disks, unwound failures, attempts that start from what is left, working installations |
| `PamWalk`, `InstallScan` | the PAM check; the search for the live medium and the naming of ports |
| `PamWalkProofs` | the PAM check ends no deeper than there are files, and its verdict is right |
| `ConfigTree`, `ConfigSchema` | the tree, its difference, set, delete and validation, as operators |
| `BoxSchema` | `schema/*.yaml` as the loader makes it |
| `ConfigEditing` | a candidate edited, loaded and committed under a schema that may change |
| `ConfigText`, `Lexer` | config.boot read and saved, by statement and by character |
| `SchemaLoader` | schema files merged and converted |
| `MCCommitPipeline`, `MCConfigd`, `MCRenderedBox`, `MCInstaller`, `MCService`, `MCSchema` | small instances for TLC |

The last four MC modules each hold several independent instances: the variable
`part` says which one a behaviour is of, and the variables of the others stand
still. A property of such a run is the property of the component's module with
`part = ...` in front.

`Configd` EXTENDS `ApplyContract` and uses its `Outcomes` where the code calls
`commit::apply`, and `CutShort` where the process dies inside the call; the
`pipeline` run shows that the renderer-by-renderer code stays within both.

### State and actions of Configd

`running`, `generation`, `history`, `sessions`, `pending` and `timer` are the
fields of `State`. `runningFile`, `sessionFiles`, `marker`, `bootFailure`,
`configBoot` and `archive` are the files. `machine` and `point` summarise the
box: the configuration every subsystem is known to hold, and the one every
restore point is known to hold, with `Other` for "no single one". `stage` is the
process (down, starting, serving) and `op` the operation that holds the mutex
with how far it has got. `expired` says that the deadline in the marker has gone
by. Four history variables serve the properties: `promise` (the window an
operator was given), `unconfirmed` (the box holds a change to be confirmed),
`inForce` (the configuration promoted last) and `revisions`; a session's
`branch` is one more, the configuration it was last level with.

A commit is `commit` (the refusals), `commit_apply`, `commit_promote`
(memory, history, running.json), `commit_level` (the session), then `record` or
`commit_arm`. A rollback is `roll_back`, `roll_back_apply`,
`roll_back_promote`, `roll_back_disarm`. Startup is `start` (start and resume),
then `boot_nothing`, or `boot_begin`, `boot_apply`, `adopt`, `boot_notice`.
`Crash` may come between any two of them. Each write that is a temporary file
and a rename is one step; each that may fail has a name in `Faults`.

### The renderers

`box` is the machine: the two managed directories, other files, host name, time
zone, accounts and network devices. `last[r]` is renderer r's last-applied
record, `todo` the host operations its apply has left. `Begin` starts a call,
`Operate` carries one operation out, `ToolRefuses` is a tool that cannot do what
it is asked (change an account that is not there, delete a device that is gone),
`Fault` one that fails all the same, `Tamper` another process, then `Verify`,
`RestoreNext`, `Remember`, `Crash` and `Reboot`. A rendered file is the function
from its keys to their values that the code's own INI reader makes of it.
systemd-networkd is external: a reload creates the devices that are described
and missing and leaves the others as they were built.

### The monitor

`kernel` and `queue` are the links and the events on the watcher's socket;
`sampler` and `clearer[c]` are where the thread and the handlers are. The dump
is read in one step and applied in another. A file is opened and truncated,
written, and renamed in three steps, by inode, since both writers use one
temporary name. Time is counted in sample intervals, one counter stands for all
of them. A dump is a function from the names of the links to the links: the
kernel lists a device once, and the loops of `sample` and `clear` do to one link
nothing that depends on another.

Dumps are applied after they were read, so one may undo an event, or count it a
second time. `crossed[n]` says of which link that has happened since its count
was last known to be right: an event of the link was noted or is on the socket
when a dump of it is applied, or a clear was applied to a link the tracker was
not level with. `CountsTransitions` is about the links where it has not.

### Operators and connections

A command is the list of the calls it makes. `Send`, `Serve` and `Reply` are
the halves of a call; the connection may idle out, the daemon may drain, die or
find its answer too large between any two. `Serve` has the handlers of Configd
reduced to what the CLI can tell apart. `SocketBind` has the system calls of
`create()` one by one.

### The installer

One action per function of the engine in the order `install()` calls them, or
per thing where a function mounts or creates several; every command may fail,
and so may those that undo: the `umount`s, `zfs unmount -a` and the exports of
the teardown and of `release_existing_pools`, each of which is lenient, so that
the engine goes on with what they left. `session` is what the teardown knows of,
`mounts` and `imported` what there is. `left` keeps what an unwinding did not
undo: mounts that were in no list of the Session (`lost`), what a command did not
let go of (`refused`), and pools that stay imported with a warning in the log
(`told`). The three tries of an export, of which the last is forced, are one
choice of whether the pool goes. Which attempts may fail is `FaultyAttempts`.
`target` is the set of facts that decide whether the installed system boots and
can be logged into. The frontends fill the same `ui`; a word typed into a field
is one key. A frontend's input may end or fail at any question, and the drawing
of the TUI too. On the screen "leaving" `run()` has returned and `main()` prints;
the frontend is dropped after that, and the screen is "over". A process that is
started again knows nothing of the one before.

### Schema and text

A tree is a function on the paths that exist. The value types are the words they
accept; a node carries the comment above it. `ConfigText` reads a file statement by statement, saves the tree and
reads that again; `Lexer` does the same with characters. `SchemaLoader` absorbs
the files in any order and converts node by node.

### What the model leaves out

* In `Configd`, requests that read or are refused are stutters. Ownership of
  sessions, peer authentication, messages and logging are left out;
  `OperatorSession` has ownership and authentication.
* In `Configd`, a configuration is a value. `Valid` is the set that `validate` accepts;
  `Edits` what set and delete can make of a candidate; `Configs \ Valid` what
  passes `validate_tree` only.
* A session id is not used again while a file of that name exists (ids are
  random).
* `boot` applies outside the mutex. It does so only when running.json was not
  there, and then no window can have been resumed unless that file was lost, so
  the model keeps it apart from a rollback.
* Aborting the timer is immediate.
* The two files of a revision are one value. Session files and running.json are
  never damaged from outside. A marker that cannot be read is the fault "read".
* The wall clock only decides whether the deadline has passed.
* The syntax of value types (addresses, ranges, regular expressions), of YAML, of
  CBOR and of the files the installer writes; completion, pipes, paging, layout
  and colours.
* Of the installer, a signal at a prompt ends the process where it is. The two
  passwords and three hostnames typed stand for those the rules take and refuse.
  The `stty echo` of a guard that is dropped is taken to succeed.
* Mount tables with two mounts on one mount point; disk.rs:147 below says what
  the scan does with them.
* In `Configd` and `OperatorSession` configurations that differ in comments only
  are one value; `ConfigEditing` tells them apart.
* `PromotedIsApplied` is about what running becomes. What an apply that was cut
  off leaves on the box is `MeetsContract`'s.

## The runs

| run | instance | shows |
|---|---|---|
| `pipeline` | 3 renderers, 3 configurations, 3 calls, remember may fail | the contract, whole restore points, each subsystem restored |
| `configd` | 2 sessions, 2 commits, 1 death, failing session writes and removals | no lost update, truthful history, only valid configurations, promoted is applied, the abstract specification |
| `recovery` | 1 session, 2 commits, 2 deaths, 1 reboot, spoilt config.boot, failing archive, marker and remember | durable edits, guarded windows and no others, kept revisions, the abstract specification with liveness, the daemon always comes back |
| `box` | two boxes: a bond, a bridge, a VLAN and a tunnel over two ports with failing tools and disk; two administrators with deaths, reboots, lost records and tampering; 3 calls | a call that succeeds leaves files, names, accounts and devices as configured and foreign files alone; a restore brings the devices back; no call over interfaces meets a command the box cannot carry out; a removal leaves a way in |
| `install` | 2 disks that may be mirrored and a live medium, both frontends with failing input, an attempt with failing commands, also in its teardown, and one without; every small set of PAM files, every mount table of up to 3 lines with distinct mount points, 4 ports in every order | nothing erased without the word typed for those disks; nothing left mounted or imported but what a failed command or the Session's ignorance explains, and no pool unmentioned; a second attempt meets no pool but its own, with the same exceptions; what reports success boots and lets the administrator in; the PAM verdict, the medium hidden, port names determined |
| `service` | one link with 2 moves, a clear and an overrun; a counter to 3 with resets, two clears and a restart; samples over 3 intervals; a device without statistics; a batch beside an operator with idle timeouts and a crash; one operator with every command; 2 daemons on a path | transitions counted, counters shown since the clear, rates over the whole interval, whole files, answered clears kept; own sessions, no work lost by exit, true exit codes, whole batches; the socket reached and kept; lost events made good, every call returns |
| `schema` | 8 lines under two releases and hand-edited files, one with a comment; every set of 9 lines about bonds and bridges, of 8 about VLANs in a bridge or a bond and of 11 about VLANs and tunnels; every file of up to 4 of 12 statements; every text of up to 4 characters; a schema directory with any two of 23 further files | constraints accept exactly the sound configurations; edits are local and add no fault; what a later schema finds wrong can be deleted; compare tells apart what is not a comment; text and quoting read back; merging agrees, defaults have their types, priorities are inherited, own words prevail |

The properties of `box`, `install`, `service` and `schema` are named in their MC
modules, but for `CountsTransitions` and `ReportsSinceClear`, which are the
monitor's own and checked of every monitor of `service`, and those of
`box`, which are `RenderedBox`'s own and checked of both boxes; each is a conjunction of the properties of the component's module that
belong together, with its type invariant beside them.

Five runs expect a violation; each states what a comment or a message of the
code says, and TLC finds where the code does not do it:

* `restored_claim`: a failing first apply says that the previous configuration
  has been restored; the subsystem had no restore point and keeps what was
  written.
* `unguarded`: a death between apply and the marker leaves an unconfirmed
  change with no window, which the comment on `Marker::arm` says the order of
  writing prevents.
* `newest`: revision numbers start again after a reboot, and `prune`, which
  keeps the highest numbers, removes the revision it has just written.
* `history`: a rollback files nothing in the history, so a session one
  generation behind is told that it has fallen further behind than the history
  goes.
* `announced`: a death between adopting the defaults and writing the
  boot-failed notice loses the notice for good.

### Where the code and its words part

The claims below were met while modelling and do not hold of the models under
the faults named; those with a definition are in the modules, marked as claims,
and belong to no run. What the passing runs check is the part that does hold.

* login.rs:188 "at no point between the two is there a moment with no account
  that can log in" (`AlwaysAWayIn`): when the account that could log in is
  disabled and one that sorts after it enabled, there is one; and the schema
  defaults name no account, so applying them after a failed boot removes all.
* artifacts.rs:93 "the apply path picks" between creating an account and
  changing it: it always runs `usermod`, so a new account fails the call.
* networkd.rs:570: the record outlives a reboot that took the devices away, so a
  saved configuration that drops one runs `networkctl delete` on nothing and
  fails. A device made by an apply that died before it was recorded is not
  rebuilt (`DevicesAsDescribed` with "crash"); a restore after a failed verify
  compares the record with itself and rebuilds nothing (`RestoredDevices` with
  "tamper").
* tracker.rs:68 "Transitions since the counters were last cleared"
  (`NeverOvercounts`): an event noted between the sampler's dump and its lock is
  undone and counted again.
* monitor.rs:109 "Written whole and renamed into place": `persist` writes
  without the lock under the temporary name `write` uses, so a file still being
  written can be published; and of two clears the older clone may land last.
* tracker.rs:231: rates need two samples; after the clock is set back there is
  none until it has caught up, since the window is found by wall-clock time.
* main.rs:144 of the CLI "`exit` ... should log the operator out"
  (`ExitLogsOut`): once the connection has idled out in configuration mode,
  every way out makes a call first and fails.
* server.rs:19 "the operator loses nothing by reconnecting"
  (`ReconnectingLosesNothing`): a new process always opens a new session.
* main.rs:199 "nothing has been committed" (`NothingCommittedIsTrue`): a batch
  may hold a `commit` line before the one that fails.
* server.rs:285 "the operator gets the reason" (`RefusalIsTold`): the first
  refresh reads the reason and drops it.
* engine/mod.rs:147 "On success this leaves the pools exported"
  (`InstalledIsExported`): an export that fails three times is a warning, and the
  installation reports success with the pool imported.
* engine/mod.rs:149 "re-running works" (`RerunWorks`): an ESP mounted before a
  failing command is unknown to the session and keeps its pool busy.
* engine/mod.rs:55 (`StepNumbersFit`): 13 steps are begun of a total of 12.
* installer main.rs:66 "No changes were made." (`CancelledMeansUntouched`) is
  also said when the last screen of a finished installation is aborted.
* installer main.rs:72 "this is for anything scraping stderr" (`LastWordsSeen`):
  `main()` prints before the TUI is dropped, so its lines go to the alternate
  screen of a raw terminal, which the drop then leaves.
* installer main.rs:71 "The frontend has already rendered the detail"
  (`FailureShown`): not of a preflight that fails, of no disk to offer, or of an
  input that breaks at a question; only the engine's failures reach `failed()`.
* state.rs:410 "The box is already how the operator wants it" (`NothingToCommit`):
  a loaded file that differs in comments has no difference to show, so a commit
  of it succeeds and leaves running as it was.
* engine/boot.rs:238 (`EachDiskAlwaysBoots`): the sync script empties the second
  ESP before it copies, and its failure is a warning.
* ui/plain.rs:351: a signal at the password prompt leaves echo off.
* disk.rs:147: of two mounts on one mount point the first is taken for the one
  that holds the file, so the disk of the medium may be offered.
* seed.rs:63 "`eth0` is the lowest-numbered port" (`NamesFollowNumbers`): slots
  are sorted as text, virtio10 before virtio2.
* server.rs:129: another daemon that binds between the trial connection and the
  removals loses its socket file (`NothingStolen` with `Overlap`); a service
  manager starts no second daemon then.
* model.rs:295 (`SplitKeepsWords`): words after a leaf's first value are dropped
  without an error.
* bridge.yaml:3 "applied after all three exist" (`MembersFirst`): a bridge has
  priority 220 and a VLAN 230.
* curly.rs:22 and :170 (`CommentsKept`, `TrailingStays`): a comment at the end of
  a block is dropped, a second one beside a statement goes to the next.
* curly.rs:47 "`parse(render(tree)) == tree`": a header is one level to the
  parser however many words it has, and the renderer nests them, so a header of
  more than MAX_DEPTH words saves to a file that is refused.
* loader.rs:38 "Two files setting the same one is an error" (`SetOnce`): only
  when the values differ.

### Bounds

`MaxGeneration` stops new commits at generation 2: enough for a commit on top of
a commit, a rollback of the second, and a session that was level with the first.
`HISTORY` is 2 and `KEEP` 1 or 2, so that both trims happen. `MaxCrashes` 2
lets the process die in an operation and again in its recovery; `MaxReboots` 1
gives a life with an archive from before. Three renderers give a first, a middle
and a last one; three calls give a restore point, one that replaces it or fails
to, and a failure after that. Sessions are symmetric, and so are the
configurations of the pipeline. The `recovery` run has no symmetry, as it checks
liveness.

The other runs: three calls of apply give a record, a change of it and a failure
after that. The installer's first attempt may fail anywhere and the second runs
clean, so what a failed one and its teardown leave behind is met, and that the
next can start from it; the theorems have any attempts fail. Two moves of a link are an
event and one that crosses a dump; `History` 2 with three intervals trims a
sample. Three commands of an operator are configure, one edit, and leaving or
committing beside a batch that does the same; a second start of the daemon is in
the part with one operator. The parts "bonded", "bridged" and "stacked" of
`schema` have no commit, so that every combination of their lines is reached, for
`SoundAccepted`; "shapes" has commits, loads, comments and the second release,
with two lines away from running at a time, and is where `FaultsMended`
meets a candidate older than its schema.

### Fairness

`Fairness` is weak fairness of `Daemon` (a step the process can take by itself
is taken: tokio runs a task that can run, its mutex is first come first served,
and the unit file has `Restart=on-failure`) and of `DeadlinePasses` (time goes
on). Requests, deaths, reboots and edits are never forced. Deaths are bounded by
`MaxCrashes`, so liveness says what happens once the process stops dying, as it
must: nothing can be promised of a process that always dies.

`MCFairness` of the `service` run: the watcher, the sampler and an `ns` process
are threads that go on when they can, tokio polls a connection that has a
request, and a dump that can be read again and again is read (strong fairness of
`SamplerRead`, as a read may fail at times). Links, operators, timeouts and
faults are never forced. `Resynchronised` is about the last movement of a link,
as there are boundedly many.

## The proofs

Constants are arbitrary: any sets of configurations, sessions and edits, any
bounds, any `Faults` but those a theorem excludes. The assumptions on constants
are in `ApplyContract` and `Configd` and say that `None` and `Other` are no
configurations and no records and that the sets fit one another; of the
installer they are in `InstallEngine`, `InstallScreens` and `PlainFrontend` and
say that disks are finitely many and have names that can be sorted, and that a
typed list of disks is a list of numbers; of the monitor in `InterfaceMonitor`
and `Tracker`: a present link has some state, the handlers are finitely many,
and numbers are numbers; of the box in `RenderedBox`: `AccountOrder` and
`DeviceOrder` are lists that have every name there may be, an interface's once
(`Written`, which the
`box` run evaluates for both its boxes). The theorems about operators and the PAM walk have
hypotheses of their own, named below.

| theorem | says | excludes | rests on |
|---|---|---|---|
| `TypeCorrect` | `[]TypeOK` | no fault | `TypeInv`: types, and the shape of the operation under way |
| `NothingLost` | `[]NoLostUpdate` | "running" | `UpdateInv` |
| `HistoryIsTrue` | `[]HistoryTruthful` | "running" | `UpdateInv`, `HistoryInv` |
| `PromiseIsGuarded` | `[]PromiseGuarded` | "running", "disarm", "read" | `UpdateInv`, `HistoryInv`, `PromiseInv` |
| `NoOtherWindow` | `[]OnlyPromisedWindows` | the same | `PromiseInv` |
| `ConfigdImplementsCommitConfirm` | the safety part of `CommitConfirm` | the same | all of these |
| `OnlyValidIsApplied` | `[]OnlyValidApplied` | no fault | `UsableInv` |
| `PromotedWasApplied` | `PromotedIsApplied` | no fault | `AppliedIsThere` |
| `ArchivedWasKept` | `ArchivedIsKept` | "running", "disarm", "read" | `RecordInv`, `PromiseInv` |
| `EditsAreDurable` | `[]EditsDurable` | "session", "forget" | `SessionsOnDisk` |
| `TypeCorrect` (pipeline) | `[]TypeOK` | no fault | `TypeOK` itself |
| `PointsAreWhole` | `[]PointsWereWhole` | no fault | `PointInv` |
| `EachIsRestored` | `[]RestoredEach` | no fault | `LoopInv`, `LastInv`, `HeldInv` |
| `ContractIsMet` | `[]MeetsContract` | no fault | `EndInv` on top of these |
| `SocketIsReached` | `[]SocketReached` | `Overlap` | `OwnInv`, `FileInv`, `AloneInv` |
| `NothingIsUnconfirmed` | `[]NothingUnconfirmed` | nothing | `ScreenInv`, `RunInv` |
| `TeardownUnwinds` | `[]Unwound` | nothing | `EngineInv` |
| `RerunsStart` | `[]RerunStarts` | nothing | `EngineInv` |
| `InstallationsWork` | `[]InstalledWorks` | nothing | `EngineInv`, `ScreenInv` |
| `ModesHaveSessions` | `[]ModeHasItsSession` | nothing | `SessionInv`, `GoneInv` |
| `ExitsKeepWork` | `[]ExitKeepsWork` | nothing | `AnswerInv`, `SessionInv` |
| `CommitCodesAreTrue` | `[]CommitCodeIsTrue` | nothing | `FrameInv`, `AnswerInv`, `CodeInv` |
| `BatchesAreWhole` | `[]BatchIsWhole` | a `commit` line in the file | `BatchInv` on top of these |
| `TypeCorrect` (monitor) | `[]TypeOK` | no fault | `TypeInv` |
| `ReportsAreRight` | `[]ReportsSinceClear` | no fault | `ReportInv` |
| `TransitionsAreCounted` | `[]CountsTransitions` | no fault | `QueueInv`, `CountInv` |
| `OneWriterIsWhole` | `[]FileIsWhole` | clears | `FileInv` |
| `RatesSpanTheInterval` | `[]RateSpansTheInterval` | "clock" | `RateInv` |
| `TypeCorrect` (box) | `[]TypeOK` | no fault | `Typed`, `BoxOK` |
| `BoxIsAsConfigured` | `[]BoxAsConfigured` | no fault | `RecordsOK`, `Progress` |
| `NothingIsTakenAway` | `NothingTakenAway` | no fault | the same |
| `DevicesAreSound` | `[]DevicesSound` | "crash", "remember", "tamper" | `DevInv` on top of these |
| `InterfaceCallsGoThrough` | `[]InterfaceCallsSucceed` | "reboot" | `CallInv` on top of these |
| `VerdictIsRight` | `[]VerdictRight` | `module_unknown=die` and `=bad` | `Reading`, `Complete`, `Sound` |
| `DepthIsBounded` | `[]DepthBounded` | the same | `Reading` |

*No lost update.* The check in `commit` compares numbers; that they stand for
configurations is nowhere in the code. `UpdateInv` says it: running.json, memory
and the configuration in force agree (`RunningRecorded`), and every session, in
memory or in a file, is not ahead of running.json and, if at the same
generation, branched from the same configuration (`SessionsLevel`). A promotion
leaves every session behind; a restart loads sessions and running.json together;
a reboot clears both. This is why the theorem excludes a failing `save_running`:
after one, a restart takes the generation back below session files.

*The history.* Entries are of past generations, so a session stored at today's
generation meets none (`HistoryPast`); the entry pushed by a promotion is right
for the sessions that are level at that moment, by `SessionsLevel`.

*The window.* `PromiseInv` ties the promise to the marker, to the change in
force and to a generation above zero (so that a restart never boots over it);
says that a process that is up is either waiting for it or undoing it; that the
timer runs for the pending window only; and that a marker nobody was promised is
one whose rollback was cut off, past its deadline, so that the next start
repeats the rollback rather than opening a window. A marker that cannot be
removed or read breaks this, hence the excluded faults.

*Refinement.* The configuration in force is the one last promoted, except
between the promotion of a commit confirm and its window, when it is still the
one before: the change and its window are one step of the abstract
specification. A death in that gap is a plain change, which is what the
`unguarded` run complains of.

*Edits.* `SessionsOnDisk` says of a process that is up, in the middle of an
operation too, what `EditsDurable` says between requests, since a death may come
anywhere and the next start takes its sessions from the files.

*The pipeline.* The loops of `apply` and `restore` run over any number of
renderers, so the invariant speaks of those before the place a loop has reached
and those after it: in `apply` the ones before hold the target and the ones
after what they held (`HeldInv`), in the remembering loop the ones before have
the target for their record (`LastInv`), and in `restore`, as long as nothing
went wrong in it, the ones already undone hold what they held before or their
record. A record is only written when every subsystem verified, which
is `PointInv`. `EndInv` draws the sum where a call ends or is cut off, as the
outcome of the contract that covers it.

*The socket.* A daemon that owns a file made it with a number of its own, so two
never own the same (`OwnInv`); the file on the path is its own from the bind until
it removes it (`FileInv`); and a daemon on its way through `create()` is
alone (`AloneInv`), which is where `~Overlap` is needed: the answer of the trial
connection is still true when the file is removed.

*The installer.* The engine's plan is a sequence whose calls are sorted by stage
(`Stage`, `Stretch`, lemma `PlanStretch`), for one disk or two. The invariant is
about what is no longer ahead in it: a call that has been made has left its
facts in the target (`FactInv`), its partitions and loaders on its disk
(`MediaInv`) and its mounts in the Session (`MountInv`), and no call of a later
stage takes them away; strip is the one that may, and the PAM check stands
after it. `PoolInv` is what the teardown and the release need: the Session has
the pools in the order they were created, another pool that is imported is one an
earlier teardown told of, past the release there is none unless something is
mounted inside a dataset or a command was refused, and what is mounted is mounted
in a pool that is imported (`Backed`), so that exporting the pools leaves nothing
mounted. The commands that undo are taken one at a time: each undoes and never
adds (`Undoes`), and an export that is not refused lets its pool go once nothing
is mounted inside (`Freed`). An end of the plan has nothing ahead,
so every fact is there. `ScreenInv` has for each screen what was answered by the
time it is shown, in either frontend; `RunInv` ties the engine to the screens:
while it works, its disks are those of the list the word was typed under, and
since each call writes only those (`WritesItsDisks`), what is written is what
was agreed to.

*Operators.* A call is four steps (written, handled, answered, read) and anything
may come between two of them. `CliInv` has the shape of the calls a command still
has to make, `FrameInv` that a frame under way belongs to the first of them, and
`AnswerInv` that what an answer said when it was given is still so when it is
read: a commit's is the daemon's verdict, and a comparison without changes is of
a candidate that has been running. Another operator's commit in between does not
matter, since a configuration that has been running stays one that has. That
nobody else moves the candidate is `SessionInv`: the session a process is in, or
is being given by an answer it has not read, is its operator's and no other
process's. `GoneInv` says that only the close of the process itself ends it while
the connection lasts. The hypothesis of all four, `Vocabulary`, is that
configuration values are not also verbs and that what is typed or in a batch
file is a line; the `service` run evaluates it for its instances.

*Batches.* `LineInv` says where a batch is: in the line of its file it has
reached, or, once one has failed, in the `exit discard` that `batch()` still
runs. `WholeInv` says, while the connection lasts, that a batch has committed
only if it is past its last edit, and that every session the daemon ever opened
for it is closed but the one it is in. The hypothesis `NoCommitInFile` is needed:
a `commit` line of the file itself is carried out before a later line fails
(`NothingCommittedIsTrue`, above).

*The monitor.* A clear reads the kernel, and its baseline comes into force after
more octets were counted, a driver was reloaded or another clear was applied.
`InForce` says that the baseline of each counter was the counter's value or less
when it was read, in a form that a reset keeps; `Coming` says the same of every
dump a handler has read and not applied, so that applying one, in any order,
makes it the one in force. A restart forgets the clears under way and starts
from what some file held, which is why `base` goes back to zero there.

Transitions are counted from two sources. What is on the socket is the end of
what the links have done: the last event of a link says what the link is now,
and events of a link alternate (`QueueInv`). `CountInv` adds up, of every link
that was not crossed: what the tracker has counted, what the events on the socket
will add (`Number`), and the one transition the next dump will find where events
were lost (`Astray`) are no more than the link has made; when no event was lost,
the first two are exactly that. An event moves one from the second to the
first, a dump one from the third to the first.

With one writer, the temporary name and the published one are never the same
inode, and what is renamed has been written whole (`FileInv`). With clears there
are two writers and it is not so (`monitor.rs:109`, above).

`RateInv` says of the samples of every interface that they are in the order they
were taken, and that of the times it was sampled at they have all that are no
further back than `History` from the last (`Agree`): what `Trimmed` drops is
further back, since the newest of the samples is the one just pushed. The same order
is asked of the tracker a clear is about to write and of the file, because a
restart goes on from it. It needs a clock that is not set back: after a step
back the last sample is not the newest, and a rate is over another interval than
the one asked for, or none.

*The box.* What an apply asks of the host is a list, computed from the configuration
and the last-applied record; the lemmas `SystemOps`, `LoginOps` and `NetOps` say what
is in it whatever the record says: the renderer's work (`Work`), each operation of
which makes one fact of the box true (`Holds`), and besides it removals of accounts
that the configuration does not name, device rebuilds and a reload (`Extra`), none of
which makes such a fact false (`Effects`). So the invariant of an apply under way is
that each operation of the work is ahead of it or holds (`Doing`), and that the
renderers before it are through (`Reached`); a failed or half-done operation ends the
apply, and the restore begins with all of its own work ahead. `verify` adds that the
managed files are there, since another process may have removed one. Removals come
last in the list (`RemovalsLast`): at the first of them every password of the
configuration is in place, and `login_check` has seen to it that one of these lets
somebody in. A restore applies what is on record and has nobody to remove
(`Repeats`), since `removals` compares a record with itself.

The devices are not read back by `verify`: that they come out right rests on the
record. `DevInv` says that the devices that exist are some of those on record, as
recorded (`Recorded`), except from the end of the interfaces' apply to their record
being written, where they are exactly the target's (`Settled`). Within that apply,
each file is in place or a sync of it is ahead, each device that is not as the
target describes it has its rebuild ahead, and the reload, which creates what is
missing, comes last (`Preparing`). From the first rebuild on, devices may be missing;
a restore that goes through makes them whole again (`Whole`), and one that has met a
problem has promised nothing (`RestoredDevices` speaks of "restored" only). `DevicesAreSound`
excludes "crash", "remember" and "tamper": a call cut short between the reload and
the record, a record that is not written and a restore after a failed verify each
leave devices that the record does not describe, and each does break the property
(`networkd.rs:570`, above).

`CallInv` adds, for as long as nothing has failed from outside, that between calls
every device on record exists, and that the rebuilds ahead are of devices that exist,
each once (`Present`). The latter needs that `DeviceOrder`, the name order of the
`BTreeSet` that `recreations` gathers, has no name twice; `Written` says so. The other renderers are no
obstacle: the system's tools do not refuse, and with no account named, in the
configuration or on record, the login renderer has nothing to run. `InterfaceCallsGoThrough` excludes "reboot",
after which `networkctl delete` may be run on nothing.

*The PAM walk.* `Reached` is defined as the least set of files that has the
entries and is closed under inclusion, since a path would be recursive. The
files on the stack are distinct and are files that were walked (`Reading`), which
bounds the depth; every line of a file that was walked has been dealt with or
waits on the stack (`Complete`), so that at the end what was walked is closed; and
what was walked is reached (`Sound`). `WellFormed` says that files are lists of
includes and rules, and that no rule says `module_unknown=die` or
`module_unknown=bad`: `blocks_login` does not look for these, so a login would be
refused where the check passes. The `install` run
evaluates `WellFormed` for its files.

Only model-checked: the liveness properties (`ImplementsCommitConfirmLive`,
`NeverDead`, `Resynchronised`, `CallsReturn`), which are out of the prover's
reach; `ClearSurvivesRestart`, which is checked where one
handler clears and the sampler's writes are far apart, and does not hold of every
instance: with two writers at once a clone from before the clear may land last,
or half a file (`monitor.rs:109`, above); the scan, whose folds over a mount table and sorting of
ports are inductions over data; the schema and the text, whose operators are recursive
over data.

## Not modelled

* `ifprobe` probes (netlink, ethtool, SFF pages, sysfs): decoding of what the
  kernel and the hardware say, without state of their own.
* `ifstate`: selection, units and layout of a report, pure functions of one dump.
* Completion, pipes and output of the CLI; `value.rs`, the syntax of the value
  types; both are functions of one word or line.
* The image build, shell scripts and unit files, except that
  `Restart=on-failure` is a fairness assumption.

## What is left

1. `Configd`: a timer task that outlives its abort; the two files of a revision.
2. Proofs: the scan.
3. The selection rules of `ifstate`.
