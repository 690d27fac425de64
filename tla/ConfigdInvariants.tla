---- MODULE ConfigdInvariants ----
(***************************************************************************)
(* The inductive invariants behind the theorems of ConfigdProofs.  Each    *)
(* names a fact the code relies on without writing it down.                *)
(***************************************************************************)
EXTENDS Configd

\* An operation runs in a process that is up; a commit has the session it began
\* with, and once promoted has left its predecessor in the history.
OpShape ==
    op # None =>
        /\ stage # "down"
        /\ op.who = "commit" => /\ op.session \in Sessions
                                /\ sessions[op.session] # None
        /\ (op.who = "commit" /\ op.phase \in {"recorded", "arming"}) => history # <<>>
        /\ (op.who = "commit" /\ op.phase = "arming") => op.confirm

TypeInv == TypeOK /\ OpShape

\* What load_running would answer.
FileConfig == IF runningFile = None THEN Empty ELSE runningFile.config
FileGeneration == IF runningFile = None THEN 0 ELSE runningFile.generation

\* running.json, the configuration in force and, while the process is up, the
\* state behind the mutex agree.
RunningRecorded ==
    /\ inForce = FileConfig
    /\ stage # "down" => running = FileConfig /\ generation = FileGeneration

\* A session is not ahead of running, and one that claims to be level is.
Level(session) ==
    /\ session.base <= FileGeneration
    /\ session.base = FileGeneration => session.branch = FileConfig

SessionsLevel ==
    \A s \in Sessions :
        /\ sessions[s] # None => Level(sessions[s])
        /\ sessionFiles[s] # None => Level(sessionFiles[s])

\* A commit that has not been promoted still has the base it was checked with.
CommitLevel ==
    (op # None /\ op.who = "commit" /\ op.phase \in {"applying", "applied"}) =>
        sessions[op.session].base = generation

\* The history is of generations gone by.
HistoryPast ==
    \A i \in 1..Len(history) : history[i].generation < generation

\* A process that is not there remembers nothing.
NothingInMemory ==
    stage = "down" => /\ \A s \in Sessions : sessions[s] = None
                      /\ history = <<>>

UpdateInv == RunningRecorded /\ SessionsLevel /\ CommitLevel /\ NothingInMemory

HistoryInv == HistoryPast /\ HistoryTruthful

\* The window promised is the one on disk, its change is the one in force and it
\* was not the first configuration of the boot.
PromiseOnDisk ==
    promise # None =>
        /\ marker = promise
        /\ inForce = promise.committed
        /\ FileGeneration = promise.generation
        /\ promise.generation > 0

\* While the process is up it is waiting for the window's end or is undoing it.
PromiseHeld ==
    (promise # None /\ stage # "down") =>
        \/ op = None /\ pending = promise
        \/ /\ op # None /\ op.who = "rollback"
           /\ op.phase \in {"applying", "applied"}
           /\ op.config = promise.previous

\* The timer runs for the pending window and for nothing else.
TimerPaired ==
    /\ pending # None => pending = promise /\ timer /\ op = None /\ stage # "down"
    /\ timer => pending # None

\* A marker nobody was promised is one whose rollback is under way or was cut off.
LeftoverMarker ==
    (marker # None /\ promise = None) =>
        /\ expired
        /\ stage = "down" \/ (op # None /\ op.who = "rollback")

\* Nothing is rolled back before its deadline.
RollbackDue ==
    (op # None /\ op.who = "rollback") =>
        expired /\ op.phase \in {"applying", "applied", "disarming"}

\* A confirm settles, and a plain commit archives, what is running.
RecordsRunning ==
    (op # None /\ op.phase = "recording") =>
        op.config = running /\ op.revision = generation

\* A commit that has been promoted is the one that is running.
CommitRunning ==
    (op # None /\ op.who = "commit" /\ op.phase \in {"recorded", "arming"}) =>
        op.config = running /\ op.revision = generation

\* A commit that has not will be the next generation.
CommitNumbered ==
    (op # None /\ op.who = "commit" /\ op.phase \in {"applying", "applied"}) =>
        op.revision = generation + 1

RecordInv == RecordsRunning /\ CommitRunning /\ CommitNumbered

\* What may be handed to the pipeline: the empty tree is what a box that has never
\* been configured goes back to.
Usable == Valid \cup {Empty}

\* Everything that can become the running configuration is usable, in memory and on
\* disk.
UsableInv ==
    /\ running \in Usable
    /\ op # None => op.config \in Usable
    /\ \A i \in 1..Len(history) : history[i].config \in Usable
    /\ runningFile # None => runningFile.config \in Usable
    /\ \A w \in {pending, marker} \ {None} : {w.previous, w.committed} \subseteq Usable

\* A configuration about to be promoted is on the box, but for the defaults.
AppliedIsThere ==
    (op # None /\ op.phase = "applied" /\ op.who # "fallback") => machine = op.config

\* Every session of a process that is up is on disk as it is in memory, in the middle of
\* an operation too.
SessionsOnDisk == stage # "down" => sessions = sessionFiles

PromiseInv ==
    PromiseOnDisk /\ PromiseHeld /\ TimerPaired /\ LeftoverMarker /\ RollbackDue
====
