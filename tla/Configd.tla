---- MODULE Configd ----
(***************************************************************************)
(* The configuration daemon (nightshade-configd): sessions and candidates, *)
(* the running configuration and its generation, commit, commit-confirm    *)
(* with its marker file and timer, rollback, save, load, the archive, the  *)
(* startup path (start, resume, boot), the death of the process between    *)
(* any two steps that touch a disk or the box, and a reboot of the box.    *)
(*                                                                         *)
(* Every handler holds the state mutex to its end, so handlers are atomic  *)
(* to one another.  They are not atomic to a crash: an operation that      *)
(* writes more than one thing is a sequence of actions, one per write,     *)
(* with `op' saying which operation holds the mutex and how far it is.     *)
(*                                                                         *)
(* Left out: requests that read (show, compare, commit-log) and requests   *)
(* that are refused change no state and are stutters.  A configuration is  *)
(* a value; what `set' and `delete' can make of one is the set Edits.  A   *)
(* session's owner is not recorded: owned() refuses everybody else.        *)
(***************************************************************************)
EXTENDS ApplyContract, Naturals, Sequences, FiniteSets

CONSTANTS
    Empty,          \* ConfigTree::new()
    Defaults,       \* Schema::defaults()
    Valid,          \* configurations that pass validate_tree and check_constraints
    Edits,          \* candidates that `set' and `delete' produce in this instance
    HandEdits,      \* what an operator's editor can leave in config.boot
    Garbage,        \* a config.boot that does not parse or fits no schema
    Sessions,       \* session ids
    Faults,         \* which file operations may fail
    HISTORY,        \* state.rs: HISTORY
    KEEP,           \* nightshade_common::ARCHIVE_KEEP
    MaxGeneration,  \* bound: no commit begins at this generation or above
    MaxCrashes,     \* bound: deaths of the process per behaviour
    MaxReboots      \* bound: reboots of the box per behaviour

FaultKinds == {"running", "session", "forget", "arm", "disarm", "read", "archive",
               "remember"}

ASSUME ConfigAssumption ==
    /\ Empty \in Configs
    /\ Defaults \in Valid
    /\ Valid \subseteq Configs
    /\ Edits \subseteq Configs
    /\ Garbage \notin Configs \cup {None, Other}
    /\ HandEdits \subseteq Configs \cup {Garbage}

ASSUME SessionAssumption == None \notin Sessions
ASSUME FaultAssumption == Faults \subseteq FaultKinds
ASSUME BoundAssumption ==
    /\ HISTORY \in Nat \ {0}
    /\ KEEP \in Nat \ {0}
    /\ MaxGeneration \in Nat
    /\ MaxCrashes \in Nat
    /\ MaxReboots \in Nat

VARIABLES
    \* State, behind the mutex (state.rs:65)
    running, generation, history, sessions, pending, timer,
    \* files under /run: cleared by a reboot, kept across a restart
    runningFile, sessionFiles, marker, bootFailure,
    \* files that survive a reboot: /etc/nightshade/config.boot, the archive
    configBoot, archive,
    \* the box, as ApplyContract summarises it
    machine, point,
    \* the process and its environment
    stage, op, expired, crashes, reboots,
    \* history variables: the confirm window an operator was promised, whether the
    \* box holds a change somebody asked to confirm and nobody has, the
    \* configuration last promoted to running, the number of archive writes
    promise, unconfirmed, inForce, revisions

memory == <<running, generation, history, sessions, pending, timer>>
files  == <<runningFile, sessionFiles, marker, bootFailure, configBoot, archive>>
box    == <<machine, point>>
env    == <<expired, crashes, reboots>>
ghosts == <<promise, unconfirmed, inForce, revisions>>
vars   == <<memory, files, box, stage, op, env, ghosts>>

-----------------------------------------------------------------------------
(* Records. *)

\* session.rs: candidate and base_generation.  `branch' is a history field: the
\* running configuration the session was last level with.
Session == [candidate : Configs, base : Nat, branch : Configs]

\* confirm.rs: Pending.  The deadline is the clock's business: see `expired'.
Pending == [previous : Configs, committed : Configs, generation : Nat]

\* state.rs: Recorded, the contents of running.json.
Recorded == [generation : Nat, config : Configs]

\* archive.rs: a revision's config and sidecar.  `stamp' is the order of writing,
\* which the timestamp in the file name records.
Revision == [revision : Nat, stamp : Nat, config : Configs]

\* The operation that holds the mutex.
Operation ==
    [who : {"commit", "confirm", "rollback", "boot", "fallback"},
     phase : {"applying", "applied", "recorded", "arming", "recording", "disarming",
              "noticing"},
     session : Sessions \cup {None},
     config : Configs,
     confirm : BOOLEAN,
     revision : Nat]

\* Option::None is no record.
ASSUME NoneAssumption ==
    /\ None \notin Session
    /\ None \notin Pending
    /\ None \notin Recorded
    /\ None \notin Operation
    /\ None \notin [previous : Configs, committed : Configs]

Op(who, phase, c) ==
    [who |-> who, phase |-> phase, session |-> None, config |-> c,
     confirm |-> FALSE, revision |-> 0]

Serving == stage = "serving" /\ op = None

\* May this file operation fail?
Io(kind) == IF kind \in Faults THEN BOOLEAN ELSE {TRUE}

-----------------------------------------------------------------------------
(* Helpers that stand for functions of the source. *)

\* state.rs: save_running, whose failure is only logged.
save_running(config, gen) ==
    \E ok \in Io("running") :
        runningFile' = IF ok THEN [generation |-> gen, config |-> config]
                       ELSE runningFile

\* Wrong variant of StoreSession: the change is not written through.
StoreInMemory(s, session) ==
    /\ sessions' = [sessions EXCEPT ![s] = session]
    /\ UNCHANGED sessionFiles

\* session.rs: Store::save after a change in memory.  When the write fails the
\* caller is told, but the change in memory has been made.
StoreSession(s, session) ==
    /\ sessions' = [sessions EXCEPT ![s] = session]
    /\ \E ok \in Io("session") :
          sessionFiles' = IF ok THEN [sessionFiles EXCEPT ![s] = session]
                          ELSE sessionFiles

\* Wrong variant of PushHistory: filed under the generation that begins.
PushUnderNext(h, gen, config) ==
    LET longer == Append(h, [generation |-> gen + 1, config |-> config])
    IN  IF Len(longer) > HISTORY THEN Tail(longer) ELSE longer

\* state.rs: history.push_back and the trim to HISTORY entries.
PushHistory(h, gen, config) ==
    LET longer == Append(h, [generation |-> gen, config |-> config])
    IN  IF Len(longer) > HISTORY THEN Tail(longer) ELSE longer

\* archive.rs: list, newest first, as the set of revisions that come before r.
\* Revisions with one number come in directory order, which is any order.
Before(entries, r) == {e \in entries : e.revision > r.revision}

\* archive.rs: prune.  What is left of `entries' after the newest KEEP, by
\* revision number, are kept.
Pruned(entries) ==
    {kept \in SUBSET entries :
        /\ Cardinality(kept) = IF Cardinality(entries) < KEEP
                               THEN Cardinality(entries) ELSE KEEP
        /\ \A r \in kept : Before(entries, r) \subseteq kept}

\* state.rs: record, archive.rs: write.  Failing to archive is only logged; a
\* failing prune leaves the revision written.
Record(rev, config) ==
    LET written == archive \cup {[revision |-> rev, stamp |-> revisions + 1,
                                  config |-> config]}
    IN  /\ revisions' = revisions + 1
        /\ \/ archive' \in Pruned(written)
           \/ "archive" \in Faults /\ archive' \in {archive, written}

-----------------------------------------------------------------------------
Init ==
    /\ running = Empty
    /\ generation = 0
    /\ history = <<>>
    /\ sessions = [s \in Sessions |-> None]
    /\ pending = None
    /\ timer = FALSE
    /\ runningFile = None
    /\ sessionFiles = [s \in Sessions |-> None]
    /\ marker = None
    /\ bootFailure = FALSE
    /\ configBoot = None
    /\ archive = {}
    /\ machine = Other
    /\ point = None
    /\ stage = "down"
    /\ op = None
    /\ expired = FALSE
    /\ crashes = 0
    /\ reboots = 0
    /\ promise = None
    /\ unconfirmed = FALSE
    /\ inForce = Empty
    /\ revisions = 0

-----------------------------------------------------------------------------
(* Sessions and editing. *)

\* state.rs: open.  Ids are random, so one is never used twice while a file of
\* that name exists.  A failing store refuses the session.
open(s) ==
    /\ Serving
    /\ sessions[s] = None
    /\ sessionFiles[s] = None
    /\ LET session == [candidate |-> running, base |-> generation, branch |-> running]
       IN  /\ sessions' = [sessions EXCEPT ![s] = session]
           /\ sessionFiles' = [sessionFiles EXCEPT ![s] = session]
    /\ UNCHANGED <<running, generation, history, pending, timer, runningFile, marker,
                   bootFailure, configBoot, archive, box, stage, op, env, ghosts>>

\* state.rs: close.  A session file that cannot be removed stays behind.
close(s) ==
    /\ Serving
    /\ sessions[s] # None
    /\ sessions' = [sessions EXCEPT ![s] = None]
    /\ \E ok \in Io("forget") :
          sessionFiles' = IF ok THEN [sessionFiles EXCEPT ![s] = None] ELSE sessionFiles
    /\ UNCHANGED <<running, generation, history, pending, timer, runningFile, marker,
                   bootFailure, configBoot, archive, box, stage, op, env, ghosts>>

\* The candidate of session s becomes c, in memory and in the session's file.
SetCandidate(s, c) ==
    /\ Serving
    /\ sessions[s] # None
    /\ StoreSession(s, [sessions[s] EXCEPT !.candidate = c])
    /\ UNCHANGED <<running, generation, history, pending, timer, runningFile, marker,
                   bootFailure, configBoot, archive, box, stage, op, env, ghosts>>

\* state.rs: set and delete.
edit(s) == \E c \in Edits : SetCandidate(s, c)

\* Wrong variant of load_saved: whatever the file holds is taken.
load_unparsed(s) ==
    /\ configBoot # None
    /\ SetCandidate(s, configBoot)

\* state.rs: load of config.boot.  validate_tree runs, check_constraints does not.
load_saved(s) ==
    /\ configBoot \in Configs
    /\ SetCandidate(s, configBoot)

\* state.rs: load of an archived revision.
load_archive(s) == \E r \in archive : SetCandidate(s, r.config)

\* state.rs: discard.
discard(s) ==
    /\ Serving
    /\ sessions[s] # None
    /\ StoreSession(s, [candidate |-> running, base |-> generation, branch |-> running])
    /\ UNCHANGED <<running, generation, history, pending, timer, runningFile, marker,
                   bootFailure, configBoot, archive, box, stage, op, env, ghosts>>

\* state.rs: save.  It writes what is running, confirmed or not.
save ==
    /\ Serving
    /\ configBoot' = running
    /\ UNCHANGED <<memory, runningFile, sessionFiles, marker, bootFailure, archive,
                   box, stage, op, env, ghosts>>

-----------------------------------------------------------------------------
(* commit.  Refusals (a pending commit, a stale base, a candidate that does   *)
(* not validate) and a commit of no changes leave everything as it is.        *)

\* The commit of session s begins.
BeginCommit(s, confirm) ==
    /\ op' = [who |-> "commit", phase |-> "applying", session |-> s,
              config |-> sessions[s].candidate, confirm |-> confirm,
              revision |-> generation + 1]
    /\ UNCHANGED <<memory, files, box, stage, env, ghosts>>

\* There is a commit to make: a session that differs from running.
CommitAsked(s) ==
    /\ Serving
    /\ sessions[s] # None
    /\ sessions[s].candidate # running
    /\ generation < MaxGeneration

\* Wrong variants of commit, each without one of its refusals.
commit_stale(s, confirm) ==
    /\ CommitAsked(s)
    /\ pending = None
    /\ sessions[s].candidate \in Valid
    /\ BeginCommit(s, confirm)

commit_over_pending(s, confirm) ==
    /\ CommitAsked(s)
    /\ sessions[s].base = generation
    /\ sessions[s].candidate \in Valid
    /\ BeginCommit(s, confirm)

commit_invalid(s, confirm) ==
    /\ CommitAsked(s)
    /\ pending = None
    /\ sessions[s].base = generation
    /\ BeginCommit(s, confirm)

\* state.rs: commit, up to the pipeline.
commit(s, confirm) ==
    /\ CommitAsked(s)
    /\ pending = None
    /\ sessions[s].base = generation
    /\ sessions[s].candidate \in Valid
    /\ BeginCommit(s, confirm)

\* Wrong variant of commit_apply: the pipeline's error is dropped.
commit_apply_regardless ==
    /\ op # None
    /\ op.who = "commit" /\ op.phase = "applying"
    /\ \E o \in Outcomes(op.config, machine, point, "remember" \in Faults) :
          /\ machine' = o.machine
          /\ point' = o.point
          /\ op' = [op EXCEPT !.phase = "applied"]
          /\ unconfirmed' = op.confirm
    /\ UNCHANGED <<memory, files, stage, env, promise, inForce, revisions>>

\* Steps 6 to 9: commit::apply.  A failure ends the commit with nothing promoted.
commit_apply ==
    /\ op # None
    /\ op.who = "commit" /\ op.phase = "applying"
    /\ \E o \in Outcomes(op.config, machine, point, "remember" \in Faults) :
          /\ machine' = o.machine
          /\ point' = o.point
          /\ op' = IF o.result = "ok" THEN [op EXCEPT !.phase = "applied"] ELSE None
          /\ unconfirmed' = IF o.result = "ok" THEN op.confirm ELSE unconfirmed
    /\ UNCHANGED <<memory, files, stage, env, promise, inForce, revisions>>

\* Step 10, in memory and in running.json.
commit_promote ==
    /\ op # None
    /\ op.who = "commit" /\ op.phase = "applied"
    /\ running' = op.config
    /\ inForce' = op.config
    /\ generation' = generation + 1
    /\ history' = PushHistory(history, generation, running)
    /\ save_running(op.config, generation + 1)
    /\ op' = [op EXCEPT !.phase = "recorded"]
    /\ UNCHANGED <<sessions, pending, timer, sessionFiles, marker, bootFailure,
                   configBoot, archive, box, stage, env, promise, unconfirmed, revisions>>

\* The committing session is levelled with running.
commit_level ==
    /\ op # None
    /\ op.who = "commit" /\ op.phase = "recorded"
    /\ StoreSession(op.session, [sessions[op.session] EXCEPT !.base = generation,
                                                             !.branch = running])
    /\ op' = [op EXCEPT !.phase = IF op.confirm THEN "arming" ELSE "recording"]
    /\ UNCHANGED <<running, generation, history, pending, timer, runningFile, marker,
                   bootFailure, configBoot, archive, box, stage, env, ghosts>>

\* What the window records.
NewWindow == [previous |-> history[Len(history)].config, committed |-> running,
              generation |-> generation]

\* The window is open: pending, with its timer.
OpenWindow ==
    /\ pending' = NewWindow
    /\ timer' = TRUE
    /\ expired' = FALSE
    /\ promise' = NewWindow

\* Wrong variants of commit_arm: the timer without the marker; the revision
\* archived before it is confirmed.
commit_arm_timer_only ==
    /\ op # None
    /\ op.who = "commit" /\ op.phase = "arming"
    /\ OpenWindow
    /\ op' = None
    /\ UNCHANGED <<running, generation, history, sessions, files, box, stage, crashes,
                   reboots, unconfirmed, inForce, revisions>>

commit_arm_archives ==
    /\ op # None
    /\ op.who = "commit" /\ op.phase = "arming"
    /\ OpenWindow
    /\ marker' = NewWindow
    /\ Record(op.revision, op.config)
    /\ op' = None
    /\ UNCHANGED <<running, generation, history, sessions, runningFile, sessionFiles,
                   bootFailure, configBoot, box, stage, crashes, reboots, unconfirmed,
                   inForce>>

\* The confirm window opens: the marker, then the timer.  If the marker cannot be
\* written the commit stays applied, with no window.
commit_arm ==
    /\ op # None
    /\ op.who = "commit" /\ op.phase = "arming"
    /\ \E ok \in Io("arm") :
          IF ok THEN OpenWindow /\ marker' = NewWindow
          ELSE UNCHANGED <<marker, pending, timer, expired, promise>>
    /\ op' = None
    /\ UNCHANGED <<running, generation, history, sessions, runningFile, sessionFiles,
                   bootFailure, configBoot, archive, box, stage, crashes, reboots,
                   unconfirmed, inForce, revisions>>

\* state.rs: record, at the end of a plain commit or of a confirm.
record ==
    /\ op # None
    /\ op.phase = "recording"
    /\ Record(op.revision, op.config)
    /\ op' = None
    /\ UNCHANGED <<memory, runningFile, sessionFiles, marker, bootFailure, configBoot,
                   box, stage, env, promise, unconfirmed, inForce>>

-----------------------------------------------------------------------------
(* Commit-confirm. *)

\* The pending commit is kept: what confirm does but for the marker.
KeepPending(s) ==
    /\ Serving
    /\ sessions[s] # None
    /\ pending # None
    /\ pending' = None
    /\ timer' = FALSE
    /\ promise' = None
    /\ unconfirmed' = FALSE
    /\ op' = [Op("confirm", "recording", pending.committed)
                 EXCEPT !.revision = pending.generation]
    /\ UNCHANGED <<running, generation, history, sessions, runningFile, sessionFiles,
                   bootFailure, configBoot, archive, box, stage, env, inForce,
                   revisions>>

\* Wrong variant of confirm: the marker stays.
confirm_armed(s) == KeepPending(s) /\ UNCHANGED marker

\* state.rs: confirm, up to the archive write.  Any session may confirm, and may
\* do so after the deadline if it gets the mutex before the timer does.
confirm(s) ==
    /\ KeepPending(s)
    /\ \E ok \in Io("disarm") : marker' = IF ok THEN None ELSE marker

\* The deadline the marker records goes by on the wall clock.
DeadlinePasses ==
    /\ marker # None
    /\ ~expired
    /\ expired' = TRUE
    /\ UNCHANGED <<memory, files, box, stage, op, crashes, reboots, ghosts>>

\* state.rs: arm_timer's task wakes and roll_back takes the pending commit.
roll_back ==
    /\ stage # "down" /\ op = None
    /\ timer /\ expired
    /\ pending # None
    /\ op' = Op("rollback", "applying", pending.previous)
    /\ pending' = None
    /\ timer' = FALSE
    /\ UNCHANGED <<running, generation, history, sessions, files, box, stage, env,
                   ghosts>>

\* The rollback goes through the same pipeline.  If that fails, running stays.
roll_back_apply ==
    /\ op # None
    /\ op.who = "rollback" /\ op.phase = "applying"
    /\ \E o \in Outcomes(op.config, machine, point, "remember" \in Faults) :
          /\ machine' = o.machine
          /\ point' = o.point
          /\ IF o.result = "ok"
             THEN op' = [op EXCEPT !.phase = "applied"] /\ UNCHANGED promise
             ELSE op' = [op EXCEPT !.phase = "disarming"] /\ promise' = None
    /\ UNCHANGED <<memory, files, stage, env, unconfirmed, inForce, revisions>>

roll_back_promote ==
    /\ op # None
    /\ op.who = "rollback" /\ op.phase = "applied"
    /\ running' = op.config
    /\ inForce' = op.config
    /\ generation' = generation + 1
    /\ save_running(op.config, generation + 1)
    /\ promise' = None
    /\ unconfirmed' = FALSE
    /\ op' = [op EXCEPT !.phase = "disarming"]
    /\ UNCHANGED <<history, sessions, pending, timer, sessionFiles, marker, bootFailure,
                   configBoot, archive, box, stage, env, revisions>>

roll_back_disarm ==
    /\ op # None
    /\ op.phase = "disarming"
    /\ \E ok \in Io("disarm") : marker' = IF ok THEN None ELSE marker
    /\ op' = None
    /\ UNCHANGED <<memory, runningFile, sessionFiles, bootFailure, configBoot, archive,
                   box, stage, env, ghosts>>

-----------------------------------------------------------------------------
(* Startup: start, resume, boot, in main.rs's order; then the socket. *)

\* state.rs: start, load_running; session.rs: load_all.
Load ==
    /\ stage = "down"
    /\ stage' = "starting"
    /\ sessions' = sessionFiles
    /\ IF runningFile = None
       THEN running' = Empty /\ generation' = 0
       ELSE running' = runningFile.config /\ generation' = runningFile.generation
    /\ UNCHANGED <<history, files, box, env, ghosts>>

\* Wrong variant of start: the window is taken up again without its timer.
start_untimed ==
    /\ Load
    /\ pending' = marker
    /\ UNCHANGED <<timer, op>>

\* state.rs: start and resume.  A marker whose deadline has gone by is rolled back
\* at once; one that cannot be read is left alone.
start ==
    /\ Load
    /\ \E ok \in Io("read") :
          IF marker = None \/ ~ok
          THEN UNCHANGED <<pending, timer, op>>
          ELSE IF expired
          THEN /\ op' = Op("rollback", "applying", marker.previous)
               /\ UNCHANGED <<pending, timer>>
          ELSE /\ pending' = marker
               /\ timer' = TRUE
               /\ UNCHANGED op

\* state.rs: recovered_generation.
Recovered == generation > 0 \/ running # Empty

\* boot.rs: boot, when there is nothing to apply: configd has restarted on a box
\* that is already configured, or nothing has been saved.  Only the second is a boot
\* that went well: it takes an old boot-failed notice away.
boot_nothing ==
    /\ stage = "starting" /\ op = None
    /\ Recovered \/ configBoot = None
    /\ stage' = "serving"
    /\ bootFailure' = IF Recovered THEN bootFailure ELSE FALSE
    /\ UNCHANGED <<memory, runningFile, sessionFiles, marker, configBoot, archive, box,
                   op, env, ghosts>>

\* Wrong variant of boot_begin: an unusable config.boot stops the daemon.
boot_begin_strict ==
    /\ stage = "starting" /\ op = None
    /\ ~Recovered /\ configBoot \in Valid
    /\ op' = Op("boot", "applying", configBoot)
    /\ UNCHANGED <<memory, files, box, stage, env, ghosts>>

\* boot.rs: boot, saved: config.boot is applied, or the defaults if it is unusable.
boot_begin ==
    /\ stage = "starting" /\ op = None
    /\ ~Recovered /\ configBoot # None
    /\ op' = IF configBoot \in Valid THEN Op("boot", "applying", configBoot)
             ELSE Op("fallback", "applying", Defaults)
    /\ UNCHANGED <<memory, files, box, stage, env, ghosts>>

\* boot.rs: apply_at_boot, fall_back.  The defaults are adopted even when applying
\* them failed.
boot_apply ==
    /\ op # None
    /\ op.who \in {"boot", "fallback"} /\ op.phase = "applying"
    /\ \E o \in Outcomes(op.config, machine, point, "remember" \in Faults) :
          /\ machine' = o.machine
          /\ point' = o.point
          /\ op' = IF o.result = "ok" \/ op.who = "fallback"
                   THEN [op EXCEPT !.phase = "applied"]
                   ELSE Op("fallback", "applying", Defaults)
    /\ UNCHANGED <<memory, files, stage, env, ghosts>>

\* state.rs: adopt.
adopt ==
    /\ op # None
    /\ op.who \in {"boot", "fallback"} /\ op.phase = "applied"
    /\ running' = op.config
    /\ inForce' = op.config
    /\ generation' = generation + 1
    /\ save_running(op.config, generation + 1)
    /\ op' = [op EXCEPT !.phase = "noticing"]
    /\ UNCHANGED <<history, sessions, pending, timer, sessionFiles, marker, bootFailure,
                   configBoot, archive, box, stage, env, promise, unconfirmed, revisions>>

\* The end of boot.rs: boot, the boot-failed notice; then the socket.
boot_notice ==
    /\ op # None
    /\ op.phase = "noticing"
    /\ bootFailure' = (op.who = "fallback")
    /\ op' = None
    /\ stage' = "serving"
    /\ UNCHANGED <<memory, runningFile, sessionFiles, marker, configBoot, archive, box,
                   env, ghosts>>

-----------------------------------------------------------------------------
(* The environment. *)

\* The process dies, or is stopped, at any point.  What it had in memory is gone;
\* a call of commit::apply is cut short.
Crash ==
    /\ stage # "down"
    /\ crashes < MaxCrashes
    /\ crashes' = crashes + 1
    /\ stage' = "down"
    /\ running' = Empty
    /\ generation' = 0
    /\ history' = <<>>
    /\ sessions' = [s \in Sessions |-> None]
    /\ pending' = None
    /\ timer' = FALSE
    /\ op' = None
    /\ IF op # None /\ op.phase = "applying"
       THEN \E o \in CutShort(op.config, machine, point) :
               machine' = o.machine /\ point' = o.point
       ELSE UNCHANGED box
    /\ UNCHANGED <<files, expired, reboots, ghosts>>

\* The box reboots: /run is a tmpfs.  The confirm window goes with it, and what
\* the next boot applies is config.boot.
Reboot ==
    /\ stage = "down"
    /\ reboots < MaxReboots
    /\ reboots' = reboots + 1
    /\ runningFile' = None
    /\ sessionFiles' = [s \in Sessions |-> None]
    /\ marker' = None
    /\ bootFailure' = FALSE
    /\ machine' = Other
    /\ expired' = FALSE
    /\ promise' = None
    /\ unconfirmed' = FALSE
    /\ inForce' = Empty
    /\ UNCHANGED <<memory, configBoot, archive, point, stage, op, crashes, revisions>>

\* An operator edits config.boot by hand.
HandEdit ==
    /\ configBoot' \in HandEdits
    /\ UNCHANGED <<memory, runningFile, sessionFiles, marker, bootFailure, archive, box,
                   stage, op, env, ghosts>>

-----------------------------------------------------------------------------
Request ==
    \/ \E s \in Sessions :
          \/ open(s)
          \/ close(s)
          \/ edit(s)
          \/ load_saved(s)
          \/ load_archive(s)
          \/ discard(s)
          \/ confirm(s)
          \/ \E c \in BOOLEAN : commit(s, c)
    \/ save

\* What the process does by itself once it has been started or asked.
Daemon ==
    \/ commit_apply
    \/ commit_promote
    \/ commit_level
    \/ commit_arm
    \/ record
    \/ roll_back
    \/ roll_back_apply
    \/ roll_back_promote
    \/ roll_back_disarm
    \/ start
    \/ boot_nothing
    \/ boot_begin
    \/ boot_apply
    \/ adopt
    \/ boot_notice

Next == Request \/ Daemon \/ DeadlinePasses \/ Crash \/ Reboot \/ HandEdit

Spec == Init /\ [][Next]_vars

\* systemd starts a daemon that died (Restart=on-failure), the mutex is fair and a
\* runtime task that can run does, and the clock goes on.
Fairness == WF_vars(Daemon) /\ WF_vars(DeadlinePasses)

FairSpec == Spec /\ Fairness

-----------------------------------------------------------------------------
(* Properties. *)

TypeOK ==
    /\ running \in Configs
    /\ generation \in Nat
    /\ history \in Seq(Recorded)
    /\ sessions \in [Sessions -> Session \cup {None}]
    /\ pending \in Pending \cup {None}
    /\ timer \in BOOLEAN
    /\ runningFile \in Recorded \cup {None}
    /\ sessionFiles \in [Sessions -> Session \cup {None}]
    /\ marker \in Pending \cup {None}
    /\ bootFailure \in BOOLEAN
    /\ configBoot \in Configs \cup {None, Garbage}
    /\ archive \subseteq Revision
    /\ machine \in Machines
    /\ point \in Points
    /\ stage \in {"down", "starting", "serving"}
    /\ op \in Operation \cup {None}
    /\ expired \in BOOLEAN
    /\ crashes \in Nat
    /\ reboots \in Nat
    /\ promise \in Pending \cup {None}
    /\ unconfirmed \in BOOLEAN
    /\ inForce \in Configs
    /\ revisions \in Nat

\* "A commit from a session whose candidate was taken before the running config
\* last changed is refused" (lib.rs, Locking): whenever a commit reaches the box,
\* its session was last level with the configuration then in force.  Rollbacks,
\* restarts, lost session writes and sessions left behind by a failed close
\* included.
NoLostUpdate ==
    (op # None /\ op.who = "commit" /\ op.phase \in {"applying", "applied"}) =>
        sessions[op.session].branch = inForce

\* A confirm window an operator was given stays guarded until it is settled: the
\* marker on disk says where to go back to even while configd is down, and a
\* configd that serves has the same window pending, its timer armed, and is
\* running the change in question.
PromiseGuarded ==
    promise # None =>
        /\ marker = promise
        /\ Serving => /\ pending = promise
                      /\ timer
                      /\ running = promise.committed
                      /\ generation = promise.generation

\* And there is no other window: what `confirm' would keep and the timer would
\* undo is the change the operator was promised a window for, never a leftover of
\* an earlier one found on disk.
OnlyPromisedWindows ==
    pending # None => pending = promise /\ timer

\* A refused commit explains itself from the history: an entry under a session's
\* base generation is the configuration that session was level with, so the
\* diff changed_underneath prints is what moved since.
HistoryTruthful ==
    \A s \in Sessions : \A i \in 1..Len(history) :
        (sessions[s] # None /\ sessions[s].base = history[i].generation) =>
            sessions[s].branch = history[i].config

\* Nothing that fails cross-node constraints is running or is handed to the
\* pipeline, whichever way it came: edited, loaded from a hand-edited file or the
\* archive, left in config.boot for the next boot, or read back from a marker.
OnlyValidApplied ==
    /\ running \in Valid \cup {Empty}
    /\ op # None => op.config \in Valid \cup {Empty}

\* "Running: what is applied" (lib.rs, Three states): while configd is up, running
\* changes only to what the box then holds.  The one exception is the fall-back to
\* defaults, which is adopted even when applying it failed.
PromotedIsApplied ==
    [][(stage # "down" /\ stage' # "down" /\ running' # running
            /\ op # None /\ op.who # "fallback") => machine' = running']_vars

\* "A revision that was rolled back was never a revision" (confirm.rs): a revision
\* enters the archive only when its configuration is the running one, under its own
\* number, with nothing waiting to be confirmed.
ArchivedIsKept ==
    [][\A r \in archive' \ archive :
          /\ r.config = running' /\ r.revision = generation'
          /\ pending' = None /\ promise' = None]_vars

\* "An operator's unsaved work must outlive a restart" (tests/session.rs): between
\* requests every candidate is on disk as it is in memory.  Only where session
\* writes do not fail.
EditsDurable ==
    Serving => sessions = sessionFiles

\* "Never boot to a dead box" (boot.rs): whatever config.boot holds and however
\* often applying fails, configd comes up and answers.
NeverDead == []<>Serving

\* confirm.rs:104: "A configd that dies between applying and writing this leaves a
\* box running an unconfirmed change with nothing to roll it back -- so the marker
\* goes down first".
NothingUnguarded ==
    (Serving /\ unconfirmed) => pending # None

\* archive.rs:79 and :186: what is pruned is the oldest, so the revision written
\* last is there.
NewestIsKept ==
    (revisions > 0 /\ (op = None \/ op.phase # "recording")) =>
        \E r \in archive : r.stamp = revisions

\* state.rs:937: no entry in the history means "fallen further behind than the
\* history goes".
HistoryExplains ==
    \A s \in Sessions :
        (Serving /\ sessions[s] # None /\ sessions[s].base # generation
            /\ generation - sessions[s].base <= HISTORY) =>
                \E i \in 1..Len(history) : history[i].generation = sessions[s].base

\* boot.rs:131: "The reason, where an operator will meet it: `ns` reads this on startup
\* and says so before the first prompt": a box that has come up on the defaults gets
\* its notice, unless it reboots first.
DefaultsAnnounced ==
    (op # None /\ op.who = "fallback" /\ op.phase = "noticing") ~>
        (bootFailure \/ runningFile = None)

-----------------------------------------------------------------------------
(* Configd implements CommitConfirm.  The configuration in force is the one last *)
(* promoted; a commit that will open a window takes effect when the window does, *)
(* so until then the one before it is still in force.                            *)

Effective ==
    IF op # None /\ op.who = "commit" /\ op.confirm
          /\ op.phase \in {"recorded", "arming"}
    THEN history[Len(history)].config ELSE inForce

Window ==
    IF promise = None THEN None
    ELSE [previous |-> promise.previous, committed |-> promise.committed]

Abstract == INSTANCE CommitConfirm WITH config <- Effective, window <- Window

\* Commit-confirm as an operator sees it, safety: the configuration in force moves
\* only as CommitConfirm allows, through restarts, crashes and reboots.
ImplementsCommitConfirm == Abstract!SafeSpec

\* The same, with the promise that a window ends.
ImplementsCommitConfirmLive == Abstract!Spec
====
