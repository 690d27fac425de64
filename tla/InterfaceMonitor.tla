---- MODULE InterfaceMonitor ----
(***************************************************************************)
(* The long-running half of the interface probe (monitor.rs): the sampler  *)
(* thread, the netlink watcher thread and the connection handlers that run *)
(* `clear counters`, around one tracker behind a mutex and one file under  *)
(* /run.                                                                   *)
(*                                                                         *)
(* The kernel is external: its links move and its counters run at any      *)
(* time, and every movement is queued on the watcher's socket, if it has   *)
(* one.  The sampler and a clear read the links BEFORE they take the lock. *)
(* A file is written the way std::fs::write does it: opened and truncated, *)
(* written, renamed by its name; both writers use the same temporary name. *)
(* Faults: "overrun" the socket's buffer overflows, "driver" a reload      *)
(* resets the counters, "clock" the wall clock is set back, "restart" the  *)
(* daemon dies and is started again.                                       *)
(***************************************************************************)
EXTENDS Tracker

CONSTANTS
    Ifs, Opers,         \* interfaces, and the operational states a present one takes
    Counted,            \* the interfaces the kernel reports statistics for
    Clearers,           \* connection handlers that may run `clear counters`
    PersistEvery,       \* PERSIST_EVERY: samples between writes
    Faults,
    MaxMoves, MaxOctets, MaxTime, MaxQueue, MaxClears, MaxRestarts

ASSUME MonitorAssumption ==
    /\ "gone" \notin Opers /\ Opers # {} /\ Counted \subseteq Ifs
    /\ IsFiniteSet(Clearers)
    /\ PersistEvery \in Nat \ {0}
    /\ Faults \subseteq {"overrun", "driver", "clock", "restart"}
    /\ {MaxMoves, MaxOctets, MaxTime, MaxQueue, MaxClears, MaxRestarts} \subseteq Nat

VARIABLES
    kernel,     \* kernel[n]: [oper, octets], oper "gone" while the device is absent
    queue,      \* events on the watcher's socket, not yet received
    broken,     \* the socket has overrun: the next receive fails
    clock,      \* the wall clock
    tracker,    \* the shared tracker
    lock,       \* who holds its mutex across steps, or "free"
    sampler,    \* [pc, links, count, fd, inode...]
    clearer,    \* clearer[c]: the same for a handler
    files,      \* [tmp, file, data]: the two names and what the inodes hold
    ghost       \* history variables, see Ghost0

vars == <<kernel, queue, broken, clock, tracker, lock, sampler, clearer, files, ghost>>

NoFile == 0
Inodes == 1..(Cardinality(Clearers) + 3)

Idle == [pc |-> "idle", links |-> <<>>, text |-> <<>>, fd |-> NoFile, count |-> 0, marks |-> <<>>]

\* moves: transitions of each link since it was first seen or last cleared.
\* total: octets ever counted; base: its value when the baseline in force was read.
\* reset: the driver has reset the counter since then.
\* crossed: a dump was applied out of order with the events of that link.
\* lost: an event of that link was lost.  noted: one was noted since the last dump.
\* taken: times of the samples since the interface appeared.  stepped: the clock
\* has been set back.  answered: the clear whose answer was sent last, per interface.
Ghost0 ==
    [moves |-> [n \in Ifs |-> 0], total |-> [n \in Ifs |-> 0], base |-> [n \in Ifs |-> 0],
     reset |-> [n \in Ifs |-> FALSE], crossed |-> [n \in Ifs |-> FALSE],
     lost |-> [n \in Ifs |-> FALSE], noted |-> [n \in Ifs |-> FALSE],
     taken |-> [n \in Ifs |-> {}], stepped |-> FALSE, clears |-> 0,
     answered |-> [n \in Ifs |-> <<>>], count |-> 0, restarts |-> 0]

TypeOK ==
    /\ kernel \in [Ifs -> [oper : Opers \cup {"gone"}, octets : 0..MaxOctets]]
    /\ \A i \in 1..Len(queue) : queue[i].name \in Ifs /\ queue[i].oper \in Opers \cup {"gone"}
    /\ broken \in BOOLEAN /\ clock \in 0..MaxTime
    /\ DOMAIN tracker.samples \subseteq Counted /\ DOMAIN tracker.history \subseteq Ifs
    /\ lock \in {"free", "sampler"}
    /\ sampler.pc \in {"idle", "read", "write", "open", "rename", "sleep"}
    /\ \A c \in Clearers : clearer[c].pc \in {"idle", "read", "persist", "open", "write", "rename"}
    /\ {files.tmp, files.file} \subseteq Inodes \cup {NoFile}

Init ==
    /\ kernel = [n \in Ifs |-> [oper |-> CHOOSE o \in Opers : TRUE, octets |-> 0]]
    /\ queue = <<>> /\ broken = FALSE /\ clock = 0
    /\ tracker = Empty
    /\ lock = "free"
    /\ sampler = Idle
    /\ clearer = [c \in Clearers |-> Idle]
    /\ files = [tmp |-> NoFile, file |-> NoFile, data |-> [i \in Inodes |-> <<"empty">>]]
    /\ ghost = Ghost0

(***************************************************************************)
(* The kernel                                                              *)
(***************************************************************************)

Event(n, o) == [name |-> n, oper |-> o, stats |-> <<>>]
Pending(n) == {i \in 1..Len(queue) : queue[i].name = n}

\* One dump: every device there is, with its counter when it reports one.
Links ==
    [n \in {m \in Ifs : kernel[m].oper # "gone"} |->
        [name |-> n, oper |-> kernel[n].oper,
         stats |-> IF n \in Counted THEN <<kernel[n].octets>> ELSE <<>>]]

\* A link changes state, disappears (its counters with it) or comes back, and the
\* socket is told.
Move(n, o) ==
    /\ ghost.count < MaxMoves /\ Len(queue) < MaxQueue
    /\ o # kernel[n].oper
    /\ kernel' = [kernel EXCEPT ![n] = [oper |-> o, octets |-> IF o = "gone" THEN 0 ELSE @.octets]]
    /\ queue' = IF broken THEN queue ELSE Append(queue, Event(n, o))
    /\ ghost' = [ghost EXCEPT !.count = @ + 1,
                    !.moves[n] = IF n \in DOMAIN tracker.history THEN @ + 1 ELSE @,
                    !.lost[n] = @ \/ broken,
                    !.reset[n] = @ \/ o = "gone"]
    /\ UNCHANGED <<broken, clock, tracker, lock, sampler, clearer, files>>

\* A frame is counted.
Count(n) ==
    /\ kernel[n].oper # "gone" /\ ghost.total[n] < MaxOctets
    /\ kernel' = [kernel EXCEPT ![n].octets = @ + 1]
    /\ ghost' = [ghost EXCEPT !.total[n] = @ + 1]
    /\ UNCHANGED <<queue, broken, clock, tracker, lock, sampler, clearer, files>>

DriverReload(n) ==
    /\ "driver" \in Faults /\ kernel[n].octets > 0
    /\ kernel' = [kernel EXCEPT ![n].octets = 0]
    /\ ghost' = [ghost EXCEPT !.reset[n] = TRUE]
    /\ UNCHANGED <<queue, broken, clock, tracker, lock, sampler, clearer, files>>

\* The receive buffer overruns: what was queued is gone, the next receive fails.
Overrun ==
    /\ "overrun" \in Faults /\ queue # <<>> /\ ~broken
    /\ broken' = TRUE
    /\ queue' = <<>>
    /\ ghost' = [ghost EXCEPT !.lost = [n \in Ifs |-> @[n] \/ Pending(n) # {}]]
    /\ UNCHANGED <<kernel, clock, tracker, lock, sampler, clearer, files>>

\* The wall clock is set back, by a correction or by hand.
SetBack ==
    /\ "clock" \in Faults /\ ~ghost.stepped /\ clock > 0
    /\ clock' = 0
    /\ ghost' = [ghost EXCEPT !.stepped = TRUE]
    /\ UNCHANGED <<kernel, queue, broken, tracker, lock, sampler, clearer, files>>

(***************************************************************************)
(* The watcher thread                                                      *)
(***************************************************************************)

\* wait_for_link_event, then note_event of what it returned, under the lock.
Watch ==
    /\ queue # <<>> /\ lock = "free"
    /\ tracker' = NoteEvent(tracker, Head(queue), clock)
    /\ queue' = Tail(queue)
    /\ LET n == Head(queue).name
       IN  ghost' = [ghost EXCEPT !.noted[n] = TRUE,
                         !.moves[n] = IF n \in DOMAIN tracker.history THEN @ ELSE Cardinality(Pending(n)) - 1]
    /\ UNCHANGED <<kernel, broken, clock, lock, sampler, clearer, files>>

\* The socket died: the inner loop breaks and the outer one opens another.
Reopen ==
    /\ broken
    /\ broken' = FALSE
    /\ UNCHANGED <<kernel, queue, clock, tracker, lock, sampler, clearer, files, ghost>>

(***************************************************************************)
(* Writing the file                                                        *)
(***************************************************************************)

InUse == {files.tmp, files.file, sampler.fd} \cup {clearer[c].fd : c \in Clearers}

\* File::create of the temporary name: the inode it has, truncated, or a new one.
Opened ==
    LET i == IF files.tmp # NoFile THEN files.tmp ELSE Min(Inodes \ InUse)
    IN  [inode |-> i, files |-> [files EXCEPT !.tmp = i, !.data[i] = <<"empty">>]]

\* write_all from the start of the file.  When another writer has put text there, the
\* longer of the two leaves its tail.
Texts(i, text) ==
    IF files.data[i] \in {<<"empty">>, <<"whole", text>>} THEN {<<"whole", text>>}
    ELSE {<<"whole", text>>, <<"torn">>}

\* Wrong variant of Renamed: the rename is forgotten.
NotRenamed == files

\* rename of the temporary name, its failure ignored.
Renamed == IF files.tmp = NoFile THEN files ELSE [files EXCEPT !.file = files.tmp, !.tmp = NoFile]

(***************************************************************************)
(* The sampler thread                                                      *)
(***************************************************************************)

\* A dump of n overlaps its events: one was noted since it was read, or is still to be
\* noted, or the kernel moved meanwhile.
Overlaps(n) ==
    \/ ghost.noted[n] \/ Pending(n) # {}
    \/ sampler.links[1][n].oper # kernel[n].oper

\* probe.links(), outside the lock; it may also fail, and the round is skipped.
SamplerRead ==
    /\ sampler.pc = "idle"
    /\ sampler' = [sampler EXCEPT !.pc = "read", !.links = <<Links>>]
    /\ ghost' = [ghost EXCEPT !.noted = [n \in Ifs |-> FALSE]]
    /\ UNCHANGED <<kernel, queue, broken, clock, tracker, lock, clearer, files>>

SamplerReadFails ==
    /\ sampler.pc = "idle"
    /\ sampler' = [sampler EXCEPT !.pc = "read", !.links = <<>>]
    /\ UNCHANGED <<kernel, queue, broken, clock, tracker, lock, clearer, files, ghost>>

\* now, the lock, tracker.sample; then the count to PERSIST_EVERY.
SamplerApply ==
    /\ sampler.pc = "read" /\ lock = "free"
    /\ tracker' = IF sampler.links = <<>> THEN tracker ELSE Sample(tracker, sampler.links[1], clock)
    /\ sampler' = [sampler EXCEPT !.links = <<>>, !.count = (@ + 1) % PersistEvery,
                                  !.pc = IF sampler.count + 1 = PersistEvery THEN "write" ELSE "sleep"]
    /\ ghost' =
         IF sampler.links = <<>> THEN ghost
         ELSE LET names == DOMAIN sampler.links[1]
              IN  [ghost EXCEPT
                    !.crossed = [n \in Ifs |-> @[n] \/ (n \in names /\ Overlaps(n))],
                    !.taken = [n \in Ifs |-> IF n \in names \cap Counted THEN @[n] \cup {clock} ELSE {}]]
    /\ UNCHANGED <<kernel, queue, broken, clock, lock, clearer, files>>

\* write(&paths, &tracker), the whole of it with the lock held.
SamplerOpen ==
    /\ sampler.pc = "write" /\ lock = "free"
    /\ lock' = "sampler"
    /\ sampler' = [sampler EXCEPT !.pc = "open", !.fd = Opened.inode]
    /\ files' = Opened.files
    /\ UNCHANGED <<kernel, queue, broken, clock, tracker, clearer, ghost>>

SamplerWrite ==
    /\ sampler.pc = "open"
    /\ \E d \in Texts(sampler.fd, tracker) : files' = [files EXCEPT !.data[sampler.fd] = d]
    /\ sampler' = [sampler EXCEPT !.pc = "rename"]
    /\ UNCHANGED <<kernel, queue, broken, clock, tracker, lock, clearer, ghost>>

SamplerRename ==
    /\ sampler.pc = "rename"
    /\ files' = Renamed
    /\ lock' = "free"
    /\ sampler' = [sampler EXCEPT !.pc = "sleep", !.fd = NoFile]
    /\ UNCHANGED <<kernel, queue, broken, clock, tracker, clearer, ghost>>

\* SAMPLE_INTERVAL goes by.
SamplerSleep ==
    /\ sampler.pc = "sleep"
    /\ clock < MaxTime \/ Counted = {}
    /\ clock' = IF clock < MaxTime THEN clock + 1 ELSE clock
    /\ sampler' = [sampler EXCEPT !.pc = "idle"]
    /\ UNCHANGED <<kernel, queue, broken, tracker, lock, clearer, files, ghost>>

(***************************************************************************)
(* `clear counters`, on a connection handler                               *)
(***************************************************************************)

\* The tracker has seen all the kernel has to say of n, and no older dump is on its way.
InStep(n) ==
    /\ n \in DOMAIN tracker.history /\ tracker.history[n].oper = kernel[n].oper
    /\ Pending(n) = {} /\ sampler.pc # "read"

ClearRead(c) ==
    /\ clearer[c].pc = "idle" /\ ghost.clears < MaxClears
    /\ clearer' = [clearer EXCEPT ![c] = [Idle EXCEPT !.pc = "read", !.links = <<Links>>,
                                                      !.marks = ghost.total]]
    /\ ghost' = [ghost EXCEPT !.clears = @ + 1]
    /\ UNCHANGED <<kernel, queue, broken, clock, tracker, lock, sampler, files>>

\* Every named link that has counters, under the lock; names is empty for all of them.
ClearApply(c) ==
    /\ clearer[c].pc = "read" /\ lock = "free"
    /\ \E names \in {Ifs} \cup {{n} : n \in Ifs} :
         LET links == clearer[c].links[1]
             done == {n \in DOMAIN links \cap names : links[n].stats # <<>>}
         IN  /\ tracker' = Clear(tracker, done, links, clock)
             /\ ghost' = [ghost EXCEPT
                            !.moves = [n \in Ifs |-> IF n \in done THEN 0 ELSE @[n]],
                            !.base = [n \in Ifs |-> IF n \in done THEN clearer[c].marks[n] ELSE @[n]],
                            !.reset = [n \in Ifs |-> IF n \in done
                                THEN kernel[n].octets - Entry(tracker', n).baseline[1] # ghost.total[n] - clearer[c].marks[n]
                                ELSE @[n]],
                            !.crossed = [n \in Ifs |-> @[n] \/ (n \in done /\ ~InStep(n))]]
    /\ clearer' = [clearer EXCEPT ![c].pc = "persist", ![c].links = <<>>, ![c].marks = <<>>]
    /\ UNCHANGED <<kernel, queue, broken, clock, lock, sampler, files>>

\* Monitor::persist: a clone under the lock, the file without it.
Persist(c) ==
    /\ clearer[c].pc = "persist" /\ lock = "free"
    /\ clearer' = [clearer EXCEPT ![c].pc = "open", ![c].text = <<tracker>>]
    /\ UNCHANGED <<kernel, queue, broken, clock, tracker, lock, sampler, files, ghost>>

PersistOpen(c) ==
    /\ clearer[c].pc = "open"
    /\ clearer' = [clearer EXCEPT ![c].pc = "write", ![c].fd = Opened.inode]
    /\ files' = Opened.files
    /\ UNCHANGED <<kernel, queue, broken, clock, tracker, lock, sampler, ghost>>

PersistWrite(c) ==
    /\ clearer[c].pc = "write"
    /\ \E d \in Texts(clearer[c].fd, clearer[c].text[1]) :
         files' = [files EXCEPT !.data[clearer[c].fd] = d]
    /\ clearer' = [clearer EXCEPT ![c].pc = "rename"]
    /\ UNCHANGED <<kernel, queue, broken, clock, tracker, lock, sampler, ghost>>

\* The rename, and the answer to the operator.
PersistRename(c) ==
    /\ clearer[c].pc = "rename"
    /\ files' = Renamed
    /\ ghost' = [ghost EXCEPT !.answered = [n \in Ifs |-> Entry(clearer[c].text[1], n).baseline]]
    /\ clearer' = [clearer EXCEPT ![c] = Idle]
    /\ UNCHANGED <<kernel, queue, broken, clock, tracker, lock, sampler>>

(***************************************************************************)
(* Restarting                                                              *)
(***************************************************************************)

\* load: what the file holds, or the default when it is not there or does not parse.
Load == IF files.file # NoFile /\ files.data[files.file][1] = "whole"
        THEN files.data[files.file][2] ELSE Empty

\* The daemon dies and is started again.  Links that move meanwhile are the kernel's
\* affair; the new watcher's socket starts empty.
Restart ==
    /\ "restart" \in Faults /\ ghost.restarts < MaxRestarts
    /\ tracker' = Load
    /\ queue' = <<>> /\ broken' = FALSE /\ lock' = "free"
    /\ sampler' = Idle
    /\ clearer' = [c \in Clearers |-> Idle]
    /\ ghost' = [ghost EXCEPT !.restarts = @ + 1,
                    !.moves = [n \in Ifs |-> Entry(Load, n).changes],
                    !.crossed = [n \in Ifs |-> TRUE], !.reset = [n \in Ifs |-> TRUE],
                    !.base = [n \in Ifs |-> IF Entry(Load, n).baseline = Entry(tracker, n).baseline THEN @[n] ELSE 0],
                    !.taken = [n \in Ifs |-> IF n \in DOMAIN Load.samples
                                             THEN {Load.samples[n][i].at : i \in 1..Len(Load.samples[n])} ELSE {}]]
    /\ UNCHANGED <<kernel, clock, files>>

Next ==
    \/ \E n \in Ifs : \/ \E o \in Opers \cup {"gone"} : Move(n, o)
                      \/ n \in Counted /\ Count(n)
                      \/ DriverReload(n)
    \/ Overrun \/ SetBack
    \/ Watch \/ Reopen
    \/ SamplerRead \/ SamplerReadFails \/ SamplerApply
    \/ SamplerOpen \/ SamplerWrite \/ SamplerRename \/ SamplerSleep
    \/ \E c \in Clearers : \/ ClearRead(c) \/ ClearApply(c) \/ Persist(c)
                           \/ PersistOpen(c) \/ PersistWrite(c) \/ PersistRename(c)
    \/ Restart

\* Both threads are running threads of the process: neither the sleep nor the receive
\* timeout keeps them from the next round, and a dump that can be read is read.
Fairness == WF_vars(Watch) /\ WF_vars(Reopen) /\ SF_vars(SamplerRead) /\ WF_vars(SamplerApply)
            /\ WF_vars(SamplerOpen) /\ WF_vars(SamplerWrite) /\ WF_vars(SamplerRename)
            /\ WF_vars(SamplerSleep)

Spec == Init /\ [][Next]_vars

FairSpec == Spec /\ Fairness

(***************************************************************************)
(* Properties                                                              *)
(***************************************************************************)

Quiet == queue = <<>> /\ ~broken

\* The count of link status changes (History::changes, "transitions since the counters
\* were last cleared", tracker.rs) when the watcher has caught up: never more than the
\* link has made, and exactly those when no event was lost; a dump that was read before
\* an event and applied after it, or applied before one that it had seen, is the
\* exception crossed names.
CountsTransitions ==
    \A n \in DOMAIN tracker.history : Quiet /\ ~ghost.crossed[n] =>
        /\ tracker.history[n].changes <= ghost.moves[n]
        /\ ~ghost.lost[n] => /\ tracker.history[n].changes = ghost.moves[n]
                             /\ tracker.history[n].oper = kernel[n].oper

\* What is reported of a counter (Baseline::applied) is never more than was counted
\* since the clear in force read it, whatever the driver did to the counter meanwhile,
\* and exactly that when the driver did nothing.
ReportsSinceClear ==
    \A n \in Counted :
        LET since == ghost.total[n] - ghost.base[n]
            shown == Applied(tracker, n, kernel[n].octets)
        IN  /\ shown <= since
            /\ ~ghost.reset[n] => shown = since

\* Tracker::rates measures from the earliest sample taken inside the interval: what
\* sample trims is never part of a window an operator can ask for.
RateSpansTheInterval ==
    \A n \in Ifs : \A interval \in 1..History :
        LET r == Rates(tracker, n, interval)
            newest == IF ghost.taken[n] = {} THEN 0 ELSE Max(ghost.taken[n])
            inside == {t \in ghost.taken[n] : t >= SaturatingSub(newest, interval)}
        IN  IF Cardinality(inside) < 2 THEN r = <<>>
            ELSE r # <<>> /\ r[1].from.at = Min(inside) /\ r[1].to.at = newest

\* The file the next start reads is never half written (monitor.rs: "Written whole and
\* renamed into place").
FileIsWhole == files.file # NoFile => files.data[files.file][1] = "whole"

\* A clear that was answered is in what the next start loads, unless a later one is in
\* force ("so a configd restart does not lose it", monitor.rs persist).
ClearSurvivesRestart ==
    \A n \in Ifs : ghost.answered[n] # <<>> => Entry(Load, n).baseline # <<>>
                                               /\ Entry(Load, n).baseline[1] >= ghost.answered[n][1]

\* A claim that does not hold (README, "Where the code and its words part").
\* The count is never more than the transitions there were.
NeverOvercounts ==
    Quiet => \A n \in DOMAIN tracker.history : tracker.history[n].changes <= ghost.moves[n]

\* Whatever was lost, the state the tracker has of a device settles on the kernel's
\* ("the next dump will resynchronise anyway", monitor.rs).
Resynchronises ==
    \A n \in Ifs : <>[](kernel[n].oper # "gone" =>
                          n \in DOMAIN tracker.history /\ tracker.history[n].oper = kernel[n].oper)
====
