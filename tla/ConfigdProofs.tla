---- MODULE ConfigdProofs ----
(***************************************************************************)
(* Theorems about Configd, for every set of configurations and sessions    *)
(* and every bound: its types and promises, what it applies, promotes and  *)
(* archives, and that it implements CommitConfirm.                         *)
(***************************************************************************)
EXTENDS ConfigdInvariants, SequenceTheorems, TLAPS

-----------------------------------------------------------------------------
(* The helpers. *)

\* Whatever way a call of commit::apply ends, the box and the restore points are
\* summarised by values of their types, and a call that succeeds has applied what
\* it was given.
LEMMA OutcomeTypes ==
    ASSUME NEW c \in Configs, machine \in Machines, point \in Points,
           NEW failing,
           NEW o \in Outcomes(c, machine, point, failing)
    PROVE  /\ o.machine \in Machines
           /\ o.point \in Points
           /\ o.result = "ok" => o.machine = c
BY DEF Outcomes, Outcome, Remembered, Restored, Machines, Points

\* The same when the process dies inside the call.
LEMMA CutShortTypes ==
    ASSUME NEW c \in Configs, machine \in Machines, point \in Points,
           NEW o \in CutShort(c, machine, point)
    PROVE  o.machine \in Machines /\ o.point \in Points
BY DEF CutShort, Machines, Points

\* Pushing to the history and trimming it: the entry pushed is the last one, and
\* every other was there before.
LEMMA PushHistoryProperties ==
    ASSUME NEW h \in Seq(Recorded), NEW gen \in Nat, NEW c \in Configs
    PROVE  LET new == [generation |-> gen, config |-> c]
               p == PushHistory(h, gen, c)
           IN  /\ p \in Seq(Recorded)
               /\ p # <<>>
               /\ p[Len(p)] = new
               /\ \A i \in 1..Len(p) : p[i] = new \/ \E j \in 1..Len(h) : p[i] = h[j]
<1> DEFINE new == [generation |-> gen, config |-> c]
           longer == Append(h, new)
<1>1. new \in Recorded
  BY DEF Recorded
<1> HIDE DEF new
<1>2. /\ longer \in Seq(Recorded)
      /\ longer # <<>>
      /\ Len(longer) = Len(h) + 1
      /\ \A i \in 1..Len(h) : longer[i] = h[i]
      /\ longer[Len(h) + 1] = new
  BY <1>1, AppendProperties
<1>3. Len(h) \in Nat
  BY LenProperties
<1>4. PushHistory(h, gen, c) = IF Len(longer) > HISTORY THEN Tail(longer) ELSE longer
  BY DEF PushHistory, new
<1> HIDE DEF longer
<1>5. CASE Len(longer) > HISTORY
  <2>1. /\ Tail(longer) \in Seq(Recorded)
        /\ Len(Tail(longer)) = Len(longer) - 1
        /\ \A i \in 1..Len(Tail(longer)) : Tail(longer)[i] = longer[i + 1]
    BY <1>2, HeadTailProperties
  <2>2. Len(h) >= 1
    BY <1>2, <1>3, <1>5, BoundAssumption
  <2>3. Len(Tail(longer)) = Len(h)
    BY <2>1, <1>2, <1>3
  <2>4. Tail(longer) # <<>>
    BY <2>2, <2>3, <1>3
  <2>5. \A i \in 1..Len(h) : Tail(longer)[i] = longer[i + 1]
    BY <2>1, <2>3
  <2>6. \A i \in 1..Len(h) :
           Tail(longer)[i] = new \/ \E j \in 1..Len(h) : Tail(longer)[i] = h[j]
    <3> TAKE i \in 1..Len(h)
    <3>1. CASE i = Len(h)
      BY <3>1, <2>5, <1>2, <1>3
    <3>2. CASE i # Len(h)
      <4>1. i + 1 \in 1..Len(h)
        BY <3>2, <1>3
      <4>2. Tail(longer)[i] = h[i + 1]
        BY <4>1, <2>5, <1>2
      <4> QED BY <4>1, <4>2
    <3> QED BY <3>1, <3>2
  <2>7. Tail(longer)[Len(h)] = new
    BY <2>2, <2>5, <1>2, <1>3
  <2> QED
    BY <1>4, <1>5, <2>1, <2>3, <2>4, <2>6, <2>7 DEF new
<1>6. CASE ~(Len(longer) > HISTORY)
  <2>1. \A i \in 1..(Len(h) + 1) :
           longer[i] = new \/ \E j \in 1..Len(h) : longer[i] = h[j]
    <3> TAKE i \in 1..(Len(h) + 1)
    <3>1. i = Len(h) + 1 \/ i \in 1..Len(h)
      BY <1>3
    <3> QED BY <3>1, <1>2
  <2> QED BY <1>2, <1>4, <1>6, <2>1 DEF new
<1> QED BY <1>5, <1>6

\* A promotion leaves a history whose last entry is the configuration before it.
LEMMA PromotedHistory ==
    ASSUME TypeOK, history' = PushHistory(history, generation, running)
    PROVE  /\ history' \in Seq(Recorded)
           /\ history' # <<>>
           /\ history'[Len(history')].config = running
<1>1. history \in Seq(Recorded) /\ generation \in Nat /\ running \in Configs
  BY DEF TypeOK
<1> DEFINE p == PushHistory(history, generation, running)
<1>2. /\ p \in Seq(Recorded)
      /\ p # <<>>
      /\ p[Len(p)] = [generation |-> generation, config |-> running]
  BY <1>1, PushHistoryProperties
<1> HIDE DEF p
<1>3. p[Len(p)].config = running
  BY <1>2
<1>4. history' = p
  BY DEF p
<1> QED BY <1>2, <1>3, <1>4

\* What the archive holds after a write is a set of revisions.
LEMMA RecordType ==
    ASSUME archive \subseteq Revision, revisions \in Nat,
           NEW rev \in Nat, NEW c \in Configs, Record(rev, c)
    PROVE  archive' \subseteq Revision /\ revisions' \in Nat
<1> DEFINE written == archive \cup {[revision |-> rev, stamp |-> revisions + 1,
                                     config |-> c]}
<1>1. written \subseteq Revision
  BY DEF Revision
<1>2. \A kept \in Pruned(written) : kept \subseteq written
  BY DEF Pruned
<1>3. archive' \in Pruned(written) \/ archive' \in {archive, written}
  BY DEF Record
<1>4. archive' \subseteq written
  <2> HIDE DEF written
  <2>1. archive \subseteq written
    BY DEF written
  <2> QED BY <1>2, <1>3, <2>1
<1>5. revisions' \in Nat
  BY DEF Record
<1> QED BY <1>1, <1>4, <1>5

\* An operation that begins has the shape of one.
LEMMA OpType ==
    ASSUME NEW who \in {"commit", "confirm", "rollback", "boot", "fallback"},
           NEW phase \in {"applying", "applied", "recorded", "arming", "recording",
                          "disarming", "noticing"},
           NEW c \in Configs
    PROVE  /\ Op(who, phase, c) \in Operation
           /\ Op(who, phase, c) # None
           /\ Op(who, phase, c).who = who
           /\ Op(who, phase, c).phase = phase
           /\ Op(who, phase, c).config = c
<1>1. Op(who, phase, c) \in Operation
  BY DEF Op, Operation
<1>2. Op(who, phase, c) # None
  BY <1>1, NoneAssumption
<1> QED BY <1>1, <1>2 DEF Op

\* An operation that moves to another phase keeps the rest.
LEMMA OpMoves ==
    ASSUME NEW o \in Operation,
           NEW phase \in {"applying", "applied", "recorded", "arming", "recording",
                          "disarming", "noticing"}
    PROVE  LET p == [o EXCEPT !.phase = phase]
           IN  /\ p \in Operation
               /\ p # None
               /\ p.phase = phase
               /\ p.who = o.who
               /\ p.session = o.session
               /\ p.config = o.config
               /\ p.confirm = o.confirm
<1>1. [o EXCEPT !.phase = phase] \in Operation
  BY DEF Operation
<1>2. [o EXCEPT !.phase = phase] # None
  BY <1>1, NoneAssumption
<1> QED BY <1>1, <1>2 DEF Operation

-----------------------------------------------------------------------------
(* Type correctness. *)

\* Every variable starts with a value of its type.
LEMMA TypeInit == Init => TypeInv
<1> SUFFICES ASSUME Init PROVE TypeInv
  OBVIOUS
<1>1. history \in Seq(Recorded)
  BY DEF Init
<1>2. OpShape
  BY DEF Init, OpShape
<1>3. TypeOK
  BY <1>1, ConfigAssumption DEF Init, TypeOK, Machines, Points
<1> QED BY <1>2, <1>3 DEF TypeInv

\* The requests of sessions keep every variable in its type.
LEMMA TypeRequest == TypeInv /\ Request => TypeInv'
<1> SUFFICES ASSUME TypeInv, Request PROVE TypeInv'
  OBVIOUS
<1> USE DEF TypeInv, TypeOK, OpShape, memory, files, box, env, ghosts
<1>1. ASSUME NEW s \in Sessions, open(s) PROVE TypeInv'
  BY <1>1 DEF open, Serving, Session
<1>2. ASSUME NEW s \in Sessions, close(s) PROVE TypeInv'
  BY <1>2 DEF close, Serving
<1>3. ASSUME NEW s \in Sessions, NEW c \in Configs, SetCandidate(s, c) PROVE TypeInv'
  <2>1. [sessions[s] EXCEPT !.candidate = c] \in Session
    BY <1>3 DEF SetCandidate, Session
  <2> QED BY <1>3, <2>1 DEF SetCandidate, StoreSession, Serving
<1>4. ASSUME NEW s \in Sessions, edit(s) PROVE TypeInv'
  BY <1>3, <1>4, ConfigAssumption DEF edit
<1>5. ASSUME NEW s \in Sessions, load_saved(s) PROVE TypeInv'
  BY <1>3, <1>5 DEF load_saved
<1>6. ASSUME NEW s \in Sessions, load_archive(s) PROVE TypeInv'
  BY <1>3, <1>6 DEF load_archive, Revision
<1>7. ASSUME NEW s \in Sessions, discard(s) PROVE TypeInv'
  <2>1. [candidate |-> running, base |-> generation, branch |-> running] \in Session
    BY DEF Session
  <2> QED BY <1>7, <2>1 DEF discard, StoreSession, Serving
<1>8. ASSUME NEW s \in Sessions, confirm(s) PROVE TypeInv'
  <2>1. pending \in Pending
    BY <1>8 DEF confirm, KeepPending
  <2>2. op' \in Operation /\ op'.who = "confirm" /\ op'.phase = "recording"
    BY <1>8, <2>1 DEF confirm, KeepPending, Op, Operation, Pending
  <2>3. marker' \in Pending \cup {None}
    BY <1>8 DEF confirm
  <2> QED BY <1>8, <2>2, <2>3 DEF confirm, KeepPending, Serving
<1>9. ASSUME NEW s \in Sessions, NEW c \in BOOLEAN, commit(s, c) PROVE TypeInv'
  <2>1. sessions[s] \in Session
    BY <1>9 DEF commit, CommitAsked
  <2>2. op' \in Operation /\ op'.who = "commit" /\ op'.phase = "applying"
           /\ op'.session = s
    BY <1>9, <2>1 DEF commit, BeginCommit, Operation, Session
  <2> QED BY <1>9, <2>2 DEF commit, CommitAsked, Serving, BeginCommit
<1>10. ASSUME save PROVE TypeInv'
  BY <1>10 DEF save, Serving
<1> QED
  BY <1>1, <1>2, <1>4, <1>5, <1>6, <1>7, <1>8, <1>9, <1>10 DEF Request

\* So do the steps the process takes by itself.
LEMMA TypeDaemon == TypeInv /\ Daemon => TypeInv'
<1> SUFFICES ASSUME TypeInv, Daemon PROVE TypeInv'
  OBVIOUS
<1> USE DEF TypeInv, TypeOK, OpShape, memory, files, box, env, ghosts
<1>a. ASSUME NEW c \in Configs, NEW g \in Nat, save_running(c, g)
      PROVE  runningFile' \in Recorded \cup {None}
  BY <1>a DEF save_running, Recorded
<1>1. CASE commit_apply
  <2>1. op \in Operation /\ op.config \in Configs /\ op.confirm \in BOOLEAN
    BY <1>1 DEF commit_apply, Operation
  <2>2. PICK o \in Outcomes(op.config, machine, point, "remember" \in Faults) :
          /\ machine' = o.machine
          /\ point' = o.point
          /\ op' = IF o.result = "ok" THEN [op EXCEPT !.phase = "applied"] ELSE None
          /\ unconfirmed' = IF o.result = "ok" THEN op.confirm ELSE unconfirmed
    BY <1>1 DEF commit_apply
  <2>3. machine' \in Machines /\ point' \in Points
    BY <2>1, <2>2, OutcomeTypes
  <2>4. [op EXCEPT !.phase = "applied"] \in Operation
    BY <2>1 DEF Operation
  <2>5. OpShape'
    <3>1. op' = None \/ op' = [op EXCEPT !.phase = "applied"]
      BY <2>2
    <3>2. op' # None => op'.phase = "applied" /\ op'.session = op.session
      BY <2>1, <3>1 DEF Operation
    <3> QED BY <1>1, <3>2 DEF commit_apply
  <2> QED BY <1>1, <2>1, <2>2, <2>3, <2>4, <2>5 DEF commit_apply
<1>2. CASE commit_promote
  <2>1. op \in Operation /\ op.config \in Configs
    BY <1>2 DEF commit_promote, Operation
  <2>2. history' \in Seq(Recorded) /\ history' # <<>>
    BY <1>2, PromotedHistory DEF commit_promote
  <2>3. runningFile' \in Recorded \cup {None}
    BY <1>2, <1>a, <2>1 DEF commit_promote
  <2>4. op' \in Operation /\ op'.session = op.session
    BY <1>2, <2>1 DEF commit_promote, Operation
  <2> QED BY <1>2, <2>1, <2>2, <2>3, <2>4 DEF commit_promote
<1>3. CASE commit_level
  <2>1. op \in Operation /\ op.session \in Sessions /\ op.config \in Configs
    BY <1>3 DEF commit_level, Operation
  <2>2. op' \in Operation /\ op'.session = op.session
    BY <1>3, <2>1 DEF commit_level, Operation
  <2> DEFINE new == [sessions[op.session] EXCEPT !.base = generation,
                                                 !.branch = running]
  <2>3. new \in Session
    BY <1>3, <2>1 DEF commit_level, Session
  <2>4. StoreSession(op.session, new)
    BY <1>3 DEF commit_level
  <2> HIDE DEF new
  <2>5. /\ sessions' \in [Sessions -> Session \cup {None}]
        /\ sessionFiles' \in [Sessions -> Session \cup {None}]
        /\ sessions'[op.session] = new
    BY <2>1, <2>3, <2>4 DEF StoreSession
  <2>6. new # None
    BY <2>3, NoneAssumption
  <2>7. OpShape'
    BY <1>3, <2>1, <2>2, <2>5, <2>6 DEF commit_level
  <2> QED BY <1>3, <2>2, <2>5, <2>7 DEF commit_level
<1>4. CASE commit_arm
  <2>1. history # <<>>
    BY <1>4 DEF commit_arm
  <2>2. history[Len(history)] \in Recorded
    BY <2>1, LenProperties, ElementOfSeq
  <2>3. NewWindow \in Pending
    BY <2>2 DEF NewWindow, Pending, Recorded
  <2> QED BY <1>4, <2>3 DEF commit_arm, OpenWindow
<1>5. CASE record
  <2>1. op.revision \in Nat /\ op.config \in Configs
    BY <1>5 DEF record, Operation
  <2>2. archive' \subseteq Revision /\ revisions' \in Nat
    BY <1>5, <2>1, RecordType DEF record
  <2> QED BY <1>5, <2>2 DEF record
<1>6. CASE roll_back
  <2>1. op' \in Operation /\ op'.who = "rollback" /\ op' # None
    <3>1. pending.previous \in Configs
      BY <1>6 DEF roll_back, Pending
    <3> QED BY <1>6, <3>1, OpType DEF roll_back
  <2> QED BY <1>6, <2>1 DEF roll_back
<1>7. CASE roll_back_apply
  <2>1. op \in Operation /\ op.config \in Configs
    BY <1>7 DEF roll_back_apply, Operation
  <2>2. machine' \in Machines /\ point' \in Points
    BY <1>7, <2>1, OutcomeTypes DEF roll_back_apply
  <2>3. op' \in Operation /\ op'.who = "rollback"
    BY <1>7, <2>1 DEF roll_back_apply, Operation
  <2> QED BY <1>7, <2>2, <2>3 DEF roll_back_apply
<1>8. CASE roll_back_promote
  <2>1. op \in Operation /\ op.config \in Configs
    BY <1>8 DEF roll_back_promote, Operation
  <2>2. runningFile' \in Recorded \cup {None}
    BY <1>8, <1>a, <2>1 DEF roll_back_promote
  <2>3. op' \in Operation /\ op'.who = "rollback"
    BY <1>8, <2>1 DEF roll_back_promote, Operation
  <2>4. OpShape'
    BY <1>8, <2>3 DEF roll_back_promote
  <2>5. unconfirmed' \in BOOLEAN
    BY <1>8 DEF roll_back_promote
  <2> QED BY <1>8, <2>1, <2>2, <2>3, <2>4, <2>5 DEF roll_back_promote
<1>9. CASE roll_back_disarm
  <2>1. marker' \in Pending \cup {None}
    BY <1>9 DEF roll_back_disarm
  <2> QED BY <1>9, <2>1 DEF roll_back_disarm
<1>10. CASE start
  <2>1. op = None
    BY <1>10 DEF start, Load
  <2>2. /\ running' \in Configs
        /\ generation' \in Nat
        /\ sessions' \in [Sessions -> Session \cup {None}]
    BY <1>10, ConfigAssumption DEF start, Load, Recorded
  <2>3. /\ pending' \in Pending \cup {None}
        /\ timer' \in BOOLEAN
        /\ op' \in Operation \cup {None}
        /\ op' # None => op'.who = "rollback"
    <3>1. marker # None => marker.previous \in Configs
      BY DEF Pending
    <3>2. timer' \in BOOLEAN
      BY <1>10, Zenon DEF start
    <3> QED BY <1>10, <2>1, <3>1, <3>2, OpType DEF start
  <2> QED BY <1>10, <2>2, <2>3 DEF start, Load
<1>11. CASE boot_nothing
  BY <1>11 DEF boot_nothing
<1>12. CASE boot_begin
  <2>1. op' \in Operation /\ op'.who \in {"boot", "fallback"}
    BY <1>12, ConfigAssumption DEF boot_begin, Op, Operation
  <2> QED BY <1>12, <2>1 DEF boot_begin
<1>13. CASE boot_apply
  <2>1. op \in Operation /\ op.config \in Configs
    BY <1>13 DEF boot_apply, Operation
  <2>2. machine' \in Machines /\ point' \in Points
    BY <1>13, <2>1, OutcomeTypes DEF boot_apply
  <2>3. op' \in Operation /\ op'.who \in {"boot", "fallback"}
    BY <1>13, <2>1, ConfigAssumption DEF boot_apply, Op, Operation
  <2> QED BY <1>13, <2>2, <2>3 DEF boot_apply
<1>14. CASE adopt
  <2>1. op \in Operation /\ op.config \in Configs
    BY <1>14 DEF adopt, Operation
  <2>2. runningFile' \in Recorded \cup {None}
    BY <1>14, <1>a, <2>1 DEF adopt
  <2>3. op' \in Operation /\ op'.who \in {"boot", "fallback"}
    BY <1>14, <2>1 DEF adopt, Operation
  <2> QED BY <1>14, <2>1, <2>2, <2>3 DEF adopt
<1>15. CASE boot_notice
  <2>1. bootFailure' \in BOOLEAN
    BY <1>15 DEF boot_notice
  <2> QED BY <1>15, <2>1 DEF boot_notice
<1> QED
  BY <1>1, <1>2, <1>3, <1>4, <1>5, <1>6, <1>7, <1>8, <1>9, <1>10, <1>11, <1>12, <1>13,
     <1>14, <1>15 DEF Daemon

\* Crashes, reboots, hand edits and the clock keep the types too.
LEMMA TypeEnvironment ==
    TypeInv /\ (DeadlinePasses \/ Crash \/ Reboot \/ HandEdit) => TypeInv'
<1> SUFFICES ASSUME TypeInv, DeadlinePasses \/ Crash \/ Reboot \/ HandEdit PROVE TypeInv'
  OBVIOUS
<1> USE DEF TypeInv, TypeOK, OpShape, memory, files, box, env, ghosts
<1>1. CASE DeadlinePasses
  BY <1>1 DEF DeadlinePasses
<1>2. CASE Crash
  <2>1. machine' \in Machines /\ point' \in Points
    <3>1. CASE op # None /\ op.phase = "applying"
      <4>1. op.config \in Configs
        BY <3>1 DEF Operation
      <4> QED BY <1>2, <3>1, <4>1, CutShortTypes DEF Crash
    <3> QED BY <1>2, <3>1 DEF Crash
  <2>2. history' \in Seq(Recorded)
    BY <1>2 DEF Crash
  <2>3. sessions' \in [Sessions -> Session \cup {None}]
    BY <1>2 DEF Crash
  <2>4. OpShape'
    BY <1>2 DEF Crash
  <2>5. timer' \in BOOLEAN
    BY <1>2 DEF Crash
  <2> QED BY <1>2, <2>1, <2>2, <2>3, <2>4, <2>5, ConfigAssumption DEF Crash
<1>3. CASE Reboot
  <2>1. sessionFiles' \in [Sessions -> Session \cup {None}]
    BY <1>3 DEF Reboot
  <2>2. OpShape'
    BY <1>3 DEF Reboot
  <2>3. bootFailure' \in BOOLEAN /\ expired' \in BOOLEAN /\ unconfirmed' \in BOOLEAN
    BY <1>3 DEF Reboot
  <2> QED BY <1>3, <2>1, <2>2, <2>3, ConfigAssumption DEF Reboot, Machines
<1>4. CASE HandEdit
  BY <1>4, ConfigAssumption DEF HandEdit
<1> QED BY <1>1, <1>2, <1>3, <1>4

\* TypeInv is inductive.
LEMMA TypeStep == TypeInv /\ [Next]_vars => TypeInv'
<1> SUFFICES ASSUME TypeInv, [Next]_vars PROVE TypeInv'
  OBVIOUS
<1>1. CASE UNCHANGED vars
  BY <1>1 DEF vars, memory, files, box, env, ghosts, TypeInv, TypeOK, OpShape
<1> QED
  BY <1>1, TypeRequest, TypeDaemon, TypeEnvironment DEF Next

\* Every value the daemon keeps in memory or writes to its files has its type at
\* every moment, however often it dies and whatever config.boot holds, and an
\* operation under way always has the session it began with.
THEOREM TypeInvariant == Spec => []TypeInv
<1> QED BY TypeInit, TypeStep, PTL DEF Spec

\* The state of configd has its type at every moment (state.rs, State).
THEOREM TypeCorrect == Spec => []TypeOK
<1>1. TypeInv => TypeOK
  BY DEF TypeInv
<1> QED BY <1>1, TypeInvariant, PTL

-----------------------------------------------------------------------------
(* No lost update.  running.json is written whenever running changes, so the     *)
(* generation never goes back while session files exist; that is what makes the  *)
(* comparison of a session's base with the generation mean something.            *)

\* A save_running that works leaves what load_running will answer.
LEMMA SavedIsLoaded ==
    ASSUME "running" \notin Faults, NEW c \in Configs, NEW g \in Nat,
           save_running(c, g)
    PROVE  FileConfig' = c /\ FileGeneration' = g
<1>1. runningFile' = [generation |-> g, config |-> c]
  BY DEF save_running, Io
<1>2. [generation |-> g, config |-> c] \in Recorded
  BY DEF Recorded
<1>3. runningFile' # None
  BY <1>1, <1>2, NoneAssumption
<1> QED BY <1>1, <1>3 DEF FileConfig, FileGeneration

\* A step that promotes a configuration leaves every session a generation behind.
LEMMA PromotionLevels ==
    ASSUME "running" \notin Faults, TypeInv, UpdateInv, stage # "down",
           NEW c \in Configs,
           save_running(c, generation + 1),
           running' = c, inForce' = c, generation' = generation + 1,
           UNCHANGED <<sessions, sessionFiles>>
    PROVE  RunningRecorded' /\ SessionsLevel'
<1>1. generation \in Nat /\ generation + 1 \in Nat
  BY DEF TypeInv, TypeOK
<1>2. FileConfig' = c /\ FileGeneration' = generation + 1
  BY <1>1, SavedIsLoaded
<1>3. FileGeneration = generation
  BY DEF UpdateInv, RunningRecorded
<1>4. RunningRecorded'
  BY <1>2 DEF RunningRecorded
<1>5. ASSUME NEW session \in Session, Level(session) PROVE Level(session)'
  BY <1>1, <1>2, <1>3, <1>5 DEF Level, Session
<1>6. SessionsLevel'
  BY <1>5 DEF SessionsLevel, UpdateInv, TypeInv, TypeOK
<1> QED BY <1>4, <1>6

\* A step that changes neither the running configuration nor its file keeps every
\* session level that it stores level.
LEMMA QuietLevels ==
    ASSUME UpdateInv, UNCHANGED <<running, generation, runningFile, inForce>>,
           stage # "down" \/ UNCHANGED stage,
           \A s \in Sessions :
               /\ sessions'[s] # None => Level(sessions'[s])
               /\ sessionFiles'[s] # None => Level(sessionFiles'[s])
    PROVE  RunningRecorded' /\ SessionsLevel'
BY DEF UpdateInv, RunningRecorded, SessionsLevel, Level, FileConfig, FileGeneration

\* A session that is level with running is level.
LEMMA FreshIsLevel ==
    ASSUME UpdateInv, TypeInv, stage # "down", NEW session \in Session,
           session.base = generation, session.branch = running
    PROVE  Level(session)
BY DEF UpdateInv, RunningRecorded, Level, TypeInv, TypeOK, FileGeneration

\* UpdateInv is inductive.
LEMMA UpdateStep ==
    ASSUME "running" \notin Faults, TypeInv, TypeInv', UpdateInv, [Next]_vars
    PROVE  UpdateInv'
<1> USE DEF memory, files, box, env, ghosts
<1>a. /\ sessions \in [Sessions -> Session \cup {None}]
      /\ sessionFiles \in [Sessions -> Session \cup {None}]
      /\ running \in Configs /\ generation \in Nat
      /\ op \in Operation \cup {None}
      /\ \A s \in Sessions :
            /\ sessions[s] # None => Level(sessions[s])
            /\ sessionFiles[s] # None => Level(sessionFiles[s])
  BY DEF TypeInv, TypeOK, UpdateInv, SessionsLevel
<1>b. ASSUME UNCHANGED <<running, generation, runningFile, inForce, sessions,
                         sessionFiles, history, stage>>
      PROVE  RunningRecorded' /\ SessionsLevel' /\ NothingInMemory'
  <2>1. RunningRecorded' /\ SessionsLevel'
    BY <1>a, <1>b, QuietLevels
  <2> QED BY <1>b, <2>1 DEF UpdateInv, NothingInMemory
<1>c. ASSUME NEW s \in Sessions, NEW session \in Session, Serving,
             Level(session),
             StoreSession(s, session),
             UNCHANGED <<running, generation, runningFile, inForce, stage, op>>
      PROVE  UpdateInv'
  <2>1. \A t \in Sessions :
            /\ sessions'[t] # None => Level(sessions'[t])
            /\ sessionFiles'[t] # None => Level(sessionFiles'[t])
    BY <1>a, <1>c DEF StoreSession
  <2>2. RunningRecorded' /\ SessionsLevel'
    BY <1>c, <2>1, QuietLevels
  <2> QED BY <1>c, <2>2 DEF UpdateInv, Serving, CommitLevel, NothingInMemory
<1>d. ASSUME NEW s \in Sessions, NEW c \in Configs, SetCandidate(s, c) PROVE UpdateInv'
  <2> DEFINE session == [sessions[s] EXCEPT !.candidate = c]
  <2>1. sessions[s] \in Session /\ Level(sessions[s])
    BY <1>a, <1>d DEF SetCandidate
  <2>2. session \in Session /\ Level(session)
    BY <2>1 DEF Session, Level
  <2>3. StoreSession(s, session)
    BY <1>d DEF SetCandidate
  <2> HIDE DEF session
  <2> QED BY <1>c, <1>d, <2>2, <2>3 DEF SetCandidate
<1>1. ASSUME NEW s \in Sessions, open(s) PROVE UpdateInv'
  <2> DEFINE session == [candidate |-> running, base |-> generation, branch |-> running]
  <2>1. session \in Session /\ Level(session)
    BY <1>a, <1>1, FreshIsLevel DEF Session, open, Serving
  <2>2. /\ sessions' = [sessions EXCEPT ![s] = session]
        /\ sessionFiles' = [sessionFiles EXCEPT ![s] = session]
    BY <1>1 DEF open
  <2> HIDE DEF session
  <2>3. \A t \in Sessions :
            /\ sessions'[t] # None => Level(sessions'[t])
            /\ sessionFiles'[t] # None => Level(sessionFiles'[t])
    BY <1>a, <2>1, <2>2
  <2>4. RunningRecorded' /\ SessionsLevel'
    BY <1>1, <2>3, QuietLevels DEF open
  <2> QED BY <1>1, <2>4 DEF UpdateInv, open, Serving, CommitLevel, NothingInMemory
<1>2. ASSUME NEW s \in Sessions, close(s) PROVE UpdateInv'
  <2>1. \A t \in Sessions :
            /\ sessions'[t] # None => Level(sessions'[t])
            /\ sessionFiles'[t] # None => Level(sessionFiles'[t])
    BY <1>a, <1>2 DEF close
  <2>2. RunningRecorded' /\ SessionsLevel'
    BY <1>2, <2>1, QuietLevels DEF close
  <2> QED BY <1>2, <2>2 DEF UpdateInv, close, Serving, CommitLevel, NothingInMemory
<1>3. ASSUME NEW s \in Sessions, edit(s) PROVE UpdateInv'
  BY <1>d, <1>3, ConfigAssumption DEF edit
<1>4. ASSUME NEW s \in Sessions, load_saved(s) PROVE UpdateInv'
  BY <1>d, <1>4 DEF load_saved
<1>5. ASSUME NEW s \in Sessions, load_archive(s) PROVE UpdateInv'
  BY <1>d, <1>5 DEF load_archive, Revision, TypeInv, TypeOK
<1>6. ASSUME NEW s \in Sessions, discard(s) PROVE UpdateInv'
  <2> DEFINE session == [candidate |-> running, base |-> generation, branch |-> running]
  <2>1. session \in Session /\ Level(session)
    BY <1>a, <1>6, FreshIsLevel DEF Session, discard, Serving
  <2>2. StoreSession(s, session)
    BY <1>6 DEF discard
  <2> HIDE DEF session
  <2> QED BY <1>c, <1>6, <2>1, <2>2 DEF discard
<1>7. ASSUME NEW s \in Sessions, confirm(s) PROVE UpdateInv'
  <2>1. op'.who = "confirm"
    BY <1>7 DEF confirm, KeepPending, Op
  <2> QED BY <1>b, <1>7, <2>1 DEF UpdateInv, confirm, KeepPending, CommitLevel
<1>8. ASSUME NEW s \in Sessions, NEW c \in BOOLEAN, commit(s, c) PROVE UpdateInv'
  <2>1. op'.session = s
    BY <1>8 DEF commit, BeginCommit
  <2> QED BY <1>b, <1>8, <2>1 DEF UpdateInv, commit, BeginCommit, CommitLevel
<1>9. CASE save
  BY <1>b, <1>9 DEF UpdateInv, save, CommitLevel
<1>10. CASE commit_apply
  <2>1. op' = None \/ op' = [op EXCEPT !.phase = "applied"]
    BY <1>10 DEF commit_apply
  <2>2. op' # None => op'.session = op.session
    BY <1>a, <1>10, <2>1 DEF commit_apply, Operation
  <2> QED BY <1>b, <1>10, <2>2 DEF UpdateInv, commit_apply, CommitLevel
<1>11. CASE commit_promote
  <2>1. op.config \in Configs /\ stage # "down" /\ op'.phase = "recorded"
    BY <1>a, <1>11 DEF commit_promote, Operation, TypeInv, OpShape
  <2>2. RunningRecorded' /\ SessionsLevel'
    BY <1>11, <2>1, PromotionLevels DEF commit_promote
  <2> QED BY <1>11, <2>1, <2>2 DEF UpdateInv, commit_promote, CommitLevel, NothingInMemory
<1>12. CASE commit_level
  <2> DEFINE session == [sessions[op.session] EXCEPT !.base = generation,
                                                     !.branch = running]
  <2>1. op \in Operation /\ op.session \in Sessions /\ stage # "down"
          /\ sessions[op.session] \in Session
    BY <1>a, <1>12 DEF commit_level, TypeInv, OpShape
  <2>2. session \in Session /\ session.base = generation /\ session.branch = running
    BY <1>a, <2>1 DEF Session
  <2>3. StoreSession(op.session, session)
    BY <1>12 DEF commit_level
  <2> HIDE DEF session
  <2>4. Level(session)
    BY <2>1, <2>2, FreshIsLevel
  <2>5. \A t \in Sessions :
            /\ sessions'[t] # None => Level(sessions'[t])
            /\ sessionFiles'[t] # None => Level(sessionFiles'[t])
    BY <1>a, <2>1, <2>3, <2>4 DEF StoreSession
  <2>6. RunningRecorded' /\ SessionsLevel'
    BY <1>12, <2>5, QuietLevels DEF commit_level
  <2>7. op'.phase \in {"arming", "recording"}
    BY <1>12, <2>1 DEF commit_level, Operation
  <2> QED BY <1>12, <2>1, <2>6, <2>7 DEF UpdateInv, commit_level, CommitLevel,
                                          NothingInMemory
<1>13. CASE commit_arm
  BY <1>b, <1>13 DEF UpdateInv, commit_arm, CommitLevel
<1>14. CASE record
  BY <1>b, <1>14 DEF UpdateInv, record, CommitLevel
<1>15. CASE roll_back
  <2>1. op'.who = "rollback"
    BY <1>15 DEF roll_back, Op
  <2> QED BY <1>b, <1>15, <2>1 DEF UpdateInv, roll_back, CommitLevel
<1>16. CASE roll_back_apply
  <2>1. op'.who = "rollback"
    BY <1>a, <1>16 DEF roll_back_apply, Operation
  <2> QED BY <1>b, <1>16, <2>1 DEF UpdateInv, roll_back_apply, CommitLevel
<1>17. CASE roll_back_promote
  <2>1. op.config \in Configs /\ stage # "down" /\ op'.who = "rollback"
    BY <1>a, <1>17 DEF roll_back_promote, Operation, TypeInv, OpShape
  <2>2. RunningRecorded' /\ SessionsLevel'
    BY <1>17, <2>1, PromotionLevels DEF roll_back_promote
  <2> QED BY <1>17, <2>1, <2>2 DEF UpdateInv, roll_back_promote, CommitLevel,
                                    NothingInMemory
<1>18. CASE roll_back_disarm
  BY <1>b, <1>18 DEF UpdateInv, roll_back_disarm, CommitLevel
<1>19. CASE start
  <2>1. /\ stage = "down" /\ stage' = "starting"
        /\ sessions' = sessionFiles
        /\ running' = FileConfig /\ generation' = FileGeneration
        /\ UNCHANGED <<runningFile, sessionFiles, inForce>>
    BY <1>19 DEF start, Load, FileConfig, FileGeneration
  <2>2. op' = None \/ op'.who = "rollback"
    BY <1>19 DEF start, Op, Load, TypeInv, OpShape
  <2>3. RunningRecorded'
    BY <2>1 DEF UpdateInv, RunningRecorded, FileConfig, FileGeneration
  <2>4. SessionsLevel'
    BY <1>a, <2>1 DEF SessionsLevel, Level, FileConfig, FileGeneration
  <2> QED BY <2>1, <2>2, <2>3, <2>4 DEF UpdateInv, CommitLevel, NothingInMemory
<1>20. CASE boot_nothing \/ boot_notice
  <2>1. stage # "down"
    BY <1>20 DEF boot_nothing, boot_notice, TypeInv, OpShape
  <2>2. RunningRecorded' /\ SessionsLevel'
    BY <1>a, <1>20, <2>1, QuietLevels DEF boot_nothing, boot_notice
  <2> QED BY <1>20, <2>2 DEF UpdateInv, boot_nothing, boot_notice, CommitLevel,
                              NothingInMemory
<1>21. CASE boot_begin
  <2>1. op'.who \in {"boot", "fallback"}
    BY <1>21 DEF boot_begin, Op
  <2> QED BY <1>b, <1>21, <2>1 DEF UpdateInv, boot_begin, CommitLevel
<1>22. CASE boot_apply
  <2>1. op'.who \in {"boot", "fallback"}
    BY <1>a, <1>22 DEF boot_apply, Op, Operation
  <2> QED BY <1>b, <1>22, <2>1 DEF UpdateInv, boot_apply, CommitLevel
<1>23. CASE adopt
  <2>1. /\ op.config \in Configs /\ stage # "down"
        /\ op'.who \in {"boot", "fallback"}
    BY <1>a, <1>23 DEF adopt, Operation, TypeInv, OpShape
  <2>2. RunningRecorded' /\ SessionsLevel'
    BY <1>23, <2>1, PromotionLevels DEF adopt
  <2> QED BY <1>23, <2>1, <2>2 DEF UpdateInv, adopt, CommitLevel, NothingInMemory
<1>24. CASE DeadlinePasses
  BY <1>b, <1>24 DEF UpdateInv, DeadlinePasses, CommitLevel
<1>25. CASE Crash
  <2>1. RunningRecorded'
    BY <1>25 DEF Crash, UpdateInv, RunningRecorded, FileConfig, FileGeneration
  <2>2. \A t \in Sessions : sessions'[t] = None
    BY <1>25 DEF Crash
  <2>3. SessionsLevel'
    BY <1>a, <1>25, <2>2 DEF Crash, SessionsLevel, Level, FileConfig, FileGeneration
  <2> QED BY <1>25, <2>1, <2>2, <2>3 DEF Crash, UpdateInv, CommitLevel, NothingInMemory
<1>26. CASE Reboot
  <2>1. \A t \in Sessions : sessions'[t] = None /\ sessionFiles'[t] = None
    BY <1>26 DEF Reboot, UpdateInv, NothingInMemory
  <2>2. RunningRecorded' /\ SessionsLevel'
    BY <1>26, <2>1 DEF Reboot, RunningRecorded, SessionsLevel, FileConfig
  <2> QED BY <1>26, <2>1, <2>2 DEF Reboot, UpdateInv, CommitLevel, NothingInMemory,
                                    TypeInv, OpShape
<1>27. CASE HandEdit
  BY <1>b, <1>27 DEF UpdateInv, HandEdit, CommitLevel
<1>28. CASE UNCHANGED vars
  BY <1>b, <1>28 DEF UpdateInv, vars, CommitLevel
<1> QED
  BY <1>1, <1>2, <1>3, <1>4, <1>5, <1>6, <1>7, <1>8, <1>9, <1>10, <1>11, <1>12, <1>13,
     <1>14, <1>15, <1>16, <1>17, <1>18, <1>19, <1>20, <1>21, <1>22, <1>23, <1>24, <1>25,
     <1>26, <1>27, <1>28 DEF Next, Request, Daemon

\* Where running.json can be written, sessions, running and the file agree through
\* commits, rollbacks, restarts and reboots.
THEOREM UpdateInvariant == ASSUME "running" \notin Faults PROVE Spec => []UpdateInv
<1>1. Init => UpdateInv
  BY DEF Init, UpdateInv, RunningRecorded, SessionsLevel, CommitLevel, NothingInMemory,
         FileConfig, FileGeneration
<1>2. TypeInv /\ TypeInv' /\ UpdateInv /\ [Next]_vars => UpdateInv'
  BY UpdateStep
<1> QED BY <1>1, <1>2, TypeInvariant, PTL DEF Spec

\* A commit that reaches the box comes from a session that was level with the
\* configuration in force: however commits, rollbacks, restarts and failing session
\* writes interleave, nobody's commit silently undoes somebody else's (state.rs,
\* commit).  Where save_running may fail this is not so: a restart then takes the
\* generation back below session files that are still there.
THEOREM NothingLost == ASSUME "running" \notin Faults PROVE Spec => []NoLostUpdate
<1>1. TypeInv /\ UpdateInv => NoLostUpdate
  <2> SUFFICES ASSUME TypeInv, UpdateInv, op # None, op.who = "commit",
                      op.phase \in {"applying", "applied"}
               PROVE  sessions[op.session].branch = inForce
    BY DEF NoLostUpdate
  <2>1. op.session \in Sessions /\ sessions[op.session] # None /\ stage # "down"
    BY DEF TypeInv, OpShape
  <2>2. sessions[op.session].base = FileGeneration
    BY <2>1 DEF UpdateInv, CommitLevel, RunningRecorded
  <2>3. sessions[op.session].branch = FileConfig
    BY <2>1, <2>2 DEF UpdateInv, SessionsLevel, Level
  <2> QED BY <2>3 DEF UpdateInv, RunningRecorded
<1> QED BY <1>1, TypeInvariant, UpdateInvariant, PTL

-----------------------------------------------------------------------------
(* The history tells the truth.                                              *)

\* The facts about the history that a step which leaves it and the generation
\* alone has to show again: the sessions it stores are at the generation of today
\* or were there before.
LEMMA QuietHistory ==
    ASSUME TypeInv, TypeInv', HistoryInv, UNCHANGED <<history, generation>>,
           \A s \in Sessions : sessions'[s] # None =>
               \/ sessions'[s].base = generation
               \/ /\ sessions[s] # None
                  /\ sessions'[s].base = sessions[s].base
                  /\ sessions'[s].branch = sessions[s].branch
    PROVE  HistoryInv'
<1>1. HistoryPast'
  BY DEF HistoryInv, HistoryPast
<1>2. HistoryTruthful'
  <2> SUFFICES ASSUME NEW s \in Sessions, NEW i \in 1..Len(history),
                      sessions'[s] # None,
                      sessions'[s].base = history[i].generation
               PROVE  sessions'[s].branch = history[i].config
    BY DEF HistoryTruthful
  <2>1. history[i] \in Recorded
    BY ElementOfSeq DEF TypeInv, TypeOK
  <2>2. history[i].generation < generation
    BY DEF HistoryInv, HistoryPast
  <2>3. generation \in Nat /\ history[i].generation \in Nat
    BY <2>1 DEF Recorded, TypeInv, TypeOK
  <2>4. sessions'[s].base # generation
    BY <2>2, <2>3
  <2> QED BY <2>4 DEF HistoryInv, HistoryTruthful
<1> QED BY <1>1, <1>2 DEF HistoryInv

\* A promotion that files nothing: the generation moves on, the rest stays.
LEMMA OlderHistory ==
    ASSUME TypeInv, HistoryInv, generation' = generation + 1,
           UNCHANGED <<history, sessions>>
    PROVE  HistoryInv'
<1>1. \A i \in 1..Len(history) : history[i].generation \in Nat
  <2> TAKE i \in 1..Len(history)
  <2>1. history[i] \in Recorded
    BY ElementOfSeq DEF TypeInv, TypeOK
  <2> QED BY <2>1 DEF Recorded
<1>2. generation \in Nat
  BY DEF TypeInv, TypeOK
<1> QED BY <1>1, <1>2 DEF HistoryInv, HistoryPast, HistoryTruthful

\* HistoryInv is inductive.
LEMMA HistoryStep ==
    ASSUME "running" \notin Faults, TypeInv, TypeInv', UpdateInv, HistoryInv, [Next]_vars
    PROVE  HistoryInv'
<1> USE DEF memory, files, box, env, ghosts
<1>a. /\ sessions \in [Sessions -> Session \cup {None}]
      /\ sessionFiles \in [Sessions -> Session \cup {None}]
      /\ running \in Configs /\ generation \in Nat
      /\ history \in Seq(Recorded)
  BY DEF TypeInv, TypeOK
<1>b. ASSUME UNCHANGED <<history, generation, sessions>> PROVE HistoryInv'
  BY <1>b, QuietHistory
<1>c. ASSUME history' = <<>> PROVE HistoryInv'
  <2>1. Len(history') = 0
    BY <1>c
  <2> QED BY <2>1 DEF HistoryInv, HistoryPast, HistoryTruthful
<1>d. ASSUME NEW s \in Sessions, NEW c \in Configs, SetCandidate(s, c) PROVE HistoryInv'
  <2>1. sessions[s] \in Session
    BY <1>a, <1>d DEF SetCandidate
  <2>2. sessions' = [sessions EXCEPT ![s] = [sessions[s] EXCEPT !.candidate = c]]
    BY <1>d DEF SetCandidate, StoreSession
  <2>3. /\ sessions'[s].base = sessions[s].base
        /\ sessions'[s].branch = sessions[s].branch
        /\ \A t \in Sessions : t # s => sessions'[t] = sessions[t]
    BY <1>a, <2>1, <2>2 DEF Session
  <2> QED BY <1>d, <2>3, QuietHistory DEF SetCandidate
<1>1. ASSUME NEW s \in Sessions, open(s) PROVE HistoryInv'
  <2>1. sessions'[s].base = generation
    BY <1>a, <1>1 DEF open
  <2>2. \A t \in Sessions : t # s => sessions'[t] = sessions[t]
    BY <1>a, <1>1 DEF open
  <2> QED BY <1>1, <2>1, <2>2, QuietHistory DEF open
<1>2. ASSUME NEW s \in Sessions, close(s) PROVE HistoryInv'
  <2>1. \A t \in Sessions : sessions'[t] # None => sessions'[t] = sessions[t]
    BY <1>a, <1>2 DEF close
  <2> QED BY <1>2, <2>1, QuietHistory DEF close
<1>3. ASSUME NEW s \in Sessions, edit(s) PROVE HistoryInv'
  BY <1>d, <1>3, ConfigAssumption DEF edit
<1>4. ASSUME NEW s \in Sessions, load_saved(s) PROVE HistoryInv'
  BY <1>d, <1>4 DEF load_saved
<1>5. ASSUME NEW s \in Sessions, load_archive(s) PROVE HistoryInv'
  BY <1>d, <1>5 DEF load_archive, Revision, TypeInv, TypeOK
<1>6. ASSUME NEW s \in Sessions, discard(s) PROVE HistoryInv'
  <2>1. sessions'[s].base = generation
    BY <1>a, <1>6 DEF discard, StoreSession
  <2>2. \A t \in Sessions : t # s => sessions'[t] = sessions[t]
    BY <1>a, <1>6 DEF discard, StoreSession
  <2> QED BY <1>6, <2>1, <2>2, QuietHistory DEF discard
<1>7. CASE commit_promote
  <2> DEFINE new == [generation |-> generation, config |-> running]
  <2>1. \A i \in 1..Len(history') :
           history'[i] = new \/ \E j \in 1..Len(history) : history'[i] = history[j]
    BY <1>a, <1>7, PushHistoryProperties DEF commit_promote
  <2>2. \A j \in 1..Len(history) : history[j].generation \in Nat
    <3> TAKE j \in 1..Len(history)
    <3>1. history[j] \in Recorded
      BY ElementOfSeq DEF TypeInv, TypeOK
    <3> QED BY <3>1 DEF Recorded
  <2>3. HistoryPast'
    <3> SUFFICES ASSUME NEW i \in 1..Len(history')
                 PROVE  history'[i].generation < generation + 1
      BY <1>7 DEF HistoryPast, commit_promote
    <3>1. CASE history'[i] = new
      BY <1>a, <3>1
    <3>2. CASE \E j \in 1..Len(history) : history'[i] = history[j]
      BY <1>a, <2>2, <3>2 DEF HistoryInv, HistoryPast
    <3> QED BY <2>1, <3>1, <3>2
  <2>4. \A s \in Sessions :
           (sessions[s] # None /\ sessions[s].base = generation) =>
               sessions[s].branch = running
    BY <1>7 DEF commit_promote, TypeInv, OpShape, UpdateInv, RunningRecorded,
                SessionsLevel, Level
  <2>5. HistoryTruthful'
    <3> SUFFICES ASSUME NEW s \in Sessions, NEW i \in 1..Len(history'),
                        sessions[s] # None,
                        sessions[s].base = history'[i].generation
                 PROVE  sessions[s].branch = history'[i].config
      BY <1>7 DEF HistoryTruthful, commit_promote
    <3>1. CASE history'[i] = new
      BY <2>4, <3>1
    <3>2. CASE \E j \in 1..Len(history) : history'[i] = history[j]
      BY <3>2 DEF HistoryInv, HistoryTruthful
    <3> QED BY <2>1, <3>1, <3>2
  <2> QED BY <2>3, <2>5 DEF HistoryInv
<1>8. CASE commit_level
  <2>1. op.session \in Sessions /\ sessions[op.session] \in Session
    BY <1>a, <1>8 DEF commit_level, TypeInv, OpShape
  <2>2. sessions'[op.session].base = generation
    BY <1>a, <1>8, <2>1 DEF commit_level, StoreSession, Session
  <2>3. \A t \in Sessions : t # op.session => sessions'[t] = sessions[t]
    BY <1>a, <1>8, <2>1 DEF commit_level, StoreSession
  <2> QED BY <1>8, <2>2, <2>3, QuietHistory DEF commit_level
<1>9. CASE roll_back_promote \/ adopt
  BY <1>9, OlderHistory DEF roll_back_promote, adopt
<1>10. CASE start
  BY <1>c, <1>10 DEF start, Load, UpdateInv, NothingInMemory
<1>11. CASE Crash
  BY <1>c, <1>11 DEF Crash
<1>12. ASSUME \/ \E s \in Sessions : confirm(s) \/ \E c \in BOOLEAN : commit(s, c)
              \/ save \/ commit_apply \/ commit_arm \/ record
              \/ roll_back \/ roll_back_apply \/ roll_back_disarm
              \/ boot_nothing \/ boot_begin \/ boot_apply \/ boot_notice
              \/ DeadlinePasses \/ Reboot \/ HandEdit \/ UNCHANGED vars
       PROVE  HistoryInv'
  <2>1. UNCHANGED <<history, generation, sessions>>
    BY <1>12 DEF confirm, KeepPending, commit, BeginCommit, save, commit_apply,
                 commit_arm, record, roll_back, roll_back_apply, roll_back_disarm,
                 boot_nothing, boot_begin, boot_apply, boot_notice, DeadlinePasses,
                 Reboot, HandEdit, vars
  <2> QED BY <1>b, <2>1
<1> QED
  BY <1>1, <1>2, <1>3, <1>4, <1>5, <1>6, <1>7, <1>8, <1>9, <1>10, <1>11, <1>12
     DEF Next, Request, Daemon

\* What a refused commit is told has moved since its base is what has moved: an
\* entry under a session's base is the configuration the session was level with
\* (state.rs, changed_underneath).  Where running.json can be written.
THEOREM HistoryIsTrue == ASSUME "running" \notin Faults PROVE Spec => []HistoryTruthful
<1>1. Init => HistoryInv
  BY DEF Init, HistoryInv, HistoryPast, HistoryTruthful
<1>2. TypeInv /\ TypeInv' /\ UpdateInv /\ HistoryInv /\ [Next]_vars => HistoryInv'
  BY HistoryStep
<1>3. HistoryInv => HistoryTruthful
  BY DEF HistoryInv
<1> QED BY <1>1, <1>2, <1>3, TypeInvariant, UpdateInvariant, PTL DEF Spec

-----------------------------------------------------------------------------
(* Commit-confirm keeps its promise. *)

\* While an operation other than a rollback is under way there is no window.
LEMMA NoWindow ==
    ASSUME TypeInv, PromiseInv, op # None, op.who # "rollback"
    PROVE  promise = None /\ marker = None /\ pending = None /\ timer = FALSE
<1>1. stage # "down"
  BY DEF TypeInv, OpShape
<1>2. promise = None
  BY <1>1 DEF PromiseInv, PromiseHeld
<1>3. marker = None
  BY <1>1, <1>2 DEF PromiseInv, LeftoverMarker
<1>4. pending = None
  BY DEF PromiseInv, TimerPaired
<1>5. timer = FALSE
  BY <1>4 DEF PromiseInv, TimerPaired, TypeInv, TypeOK
<1> QED BY <1>2, <1>3, <1>4, <1>5

\* What a step shows that leaves no window behind.
LEMMA WindowGone ==
    ASSUME promise' = None, marker' = None, pending' = None, timer' = FALSE,
           (op' # None /\ op'.who = "rollback") =>
               expired' /\ op'.phase \in {"applying", "applied", "disarming"}
    PROVE  PromiseInv'
BY DEF PromiseInv, PromiseOnDisk, PromiseHeld, TimerPaired, LeftoverMarker, RollbackDue

\* Between requests, and while the process is down, a step that leaves the window,
\* the operation and what is running alone keeps the invariant.
LEMMA QuietWindow ==
    ASSUME PromiseInv,
           UNCHANGED <<promise, marker, pending, timer, op, expired, inForce,
                       runningFile>>,
           UNCHANGED stage \/ (stage # "down" /\ stage' # "down")
    PROVE  PromiseInv'
BY DEF PromiseInv, PromiseOnDisk, PromiseHeld, TimerPaired, LeftoverMarker, RollbackDue,
       FileGeneration

\* PromiseInv is inductive.
LEMMA PromiseStep ==
    ASSUME "running" \notin Faults, "disarm" \notin Faults, "read" \notin Faults,
           TypeInv, TypeInv', UpdateInv, HistoryInv, PromiseInv, [Next]_vars
    PROVE  PromiseInv'
<1> USE DEF memory, files, box, env, ghosts
<1>a. /\ op \in Operation \cup {None}
      /\ generation \in Nat
      /\ pending \in Pending \cup {None}
      /\ marker \in Pending \cup {None}
  BY DEF TypeInv, TypeOK
<1>1. ASSUME \/ \E s \in Sessions : \/ open(s) \/ close(s) \/ edit(s) \/ load_saved(s)
                                    \/ load_archive(s) \/ discard(s)
             \/ save \/ boot_nothing \/ HandEdit \/ UNCHANGED vars
      PROVE  PromiseInv'
  <2>1. /\ UNCHANGED <<promise, marker, pending, timer, op, expired, inForce,
                       runningFile>>
        /\ UNCHANGED stage \/ (stage # "down" /\ stage' # "down")
    BY <1>1 DEF open, close, edit, load_saved, load_archive, SetCandidate, discard, save,
                boot_nothing, HandEdit, vars
  <2> QED BY <2>1, QuietWindow
<1>2. ASSUME NEW s \in Sessions, confirm(s) PROVE PromiseInv'
  <2>1. op'.who = "confirm"
    BY <1>2 DEF confirm, KeepPending, Op
  <2>2. promise' = None /\ marker' = None /\ pending' = None /\ timer' = FALSE
    BY <1>2 DEF confirm, KeepPending, Io
  <2> QED BY <2>1, <2>2, WindowGone
<1>3. ASSUME NEW s \in Sessions, NEW c \in BOOLEAN, commit(s, c) PROVE PromiseInv'
  <2>1. op'.who = "commit"
    BY <1>3 DEF commit, BeginCommit
  <2>2. promise = None /\ pending = None
    BY <1>3 DEF commit, CommitAsked, Serving, PromiseInv, PromiseHeld
  <2>3. marker = None
    BY <1>3, <2>2 DEF commit, CommitAsked, Serving, PromiseInv, LeftoverMarker
  <2>4. timer = FALSE
    BY <2>2 DEF PromiseInv, TimerPaired, TypeInv, TypeOK
  <2> QED BY <1>3, <2>1, <2>2, <2>3, <2>4, WindowGone DEF commit, BeginCommit
<1>4. ASSUME commit_apply \/ commit_promote \/ commit_level \/ boot_apply \/ adopt
      PROVE  PromiseInv'
  <2>1. op # None /\ op.who # "rollback"
    BY <1>4 DEF commit_apply, commit_promote, commit_level, boot_apply, adopt
  <2>2. promise = None /\ marker = None /\ pending = None /\ timer = FALSE
    BY <2>1, NoWindow
  <2>3. UNCHANGED <<promise, marker, pending, timer>>
    BY <1>4 DEF commit_apply, commit_promote, commit_level, boot_apply, adopt
  <2>4. op' = None \/ op'.who # "rollback"
    BY <1>a, <1>4 DEF commit_apply, commit_promote, commit_level, boot_apply, adopt, Op,
                      Operation
  <2> QED BY <2>2, <2>3, <2>4, WindowGone
<1>5. CASE commit_arm
  <2>1. op # None /\ op.who # "rollback"
    BY <1>5 DEF commit_arm
  <2>2. promise = None /\ marker = None /\ pending = None /\ timer = FALSE
    BY <2>1, NoWindow
  <2>3. CASE UNCHANGED <<marker, pending, timer, expired, promise>>
    BY <1>5, <2>2, <2>3, WindowGone DEF commit_arm
  <2>4. CASE OpenWindow /\ marker' = NewWindow
    <3>1. stage # "down" /\ history # <<>>
      BY <1>5 DEF commit_arm, TypeInv, OpShape
    <3>2. Len(history) \in 1..Len(history) /\ history[Len(history)] \in Recorded
      BY <3>1, LenProperties, ElementOfSeq DEF TypeInv, TypeOK
    <3>3. history[Len(history)].generation < generation
      BY <3>2 DEF HistoryInv, HistoryPast
    <3>4. generation > 0
      BY <1>a, <3>2, <3>3 DEF Recorded
    <3>5. inForce = running /\ FileGeneration = generation
      BY <3>1 DEF UpdateInv, RunningRecorded
    <3>6. /\ promise' = NewWindow /\ pending' = NewWindow /\ marker' = NewWindow
          /\ timer' /\ op' = None
          /\ UNCHANGED <<stage, inForce, runningFile>>
      BY <1>5, <2>4 DEF commit_arm, OpenWindow
    <3>7. /\ NewWindow.committed = running
          /\ NewWindow.generation = generation
      BY DEF NewWindow
    <3>8. PromiseOnDisk'
      BY <3>4, <3>5, <3>6, <3>7 DEF PromiseOnDisk, FileGeneration
    <3>9. promise' # None
      <4>1. NewWindow \in Pending
        BY <3>6, <3>2, <1>a DEF NewWindow, Pending, Recorded, TypeInv, TypeOK
      <4> QED BY <3>6, <4>1, NoneAssumption
    <3> QED BY <3>1, <3>6, <3>8, <3>9 DEF PromiseInv, PromiseHeld, TimerPaired,
                                          LeftoverMarker, RollbackDue
  <2> QED BY <1>5, <2>3, <2>4 DEF commit_arm
<1>6. CASE record \/ boot_notice
  <2>1. op # None /\ op.who # "rollback" /\ op' = None
    BY <1>6 DEF record, boot_notice, PromiseInv, RollbackDue
  <2>2. promise = None /\ marker = None /\ pending = None /\ timer = FALSE
    BY <2>1, NoWindow
  <2> QED BY <1>6, <2>1, <2>2, WindowGone DEF record, boot_notice
<1>7. CASE roll_back
  <2>1. pending = promise /\ promise # None /\ expired /\ stage # "down"
    BY <1>7 DEF roll_back, PromiseInv, TimerPaired
  <2>2. promise.previous \in Configs
    BY <1>a, <2>1 DEF Pending
  <2>3. /\ op' # None /\ op'.who = "rollback" /\ op'.phase = "applying"
        /\ op'.config = promise.previous
    BY <1>7, <2>1, <2>2, OpType DEF roll_back
  <2>4. /\ pending' = None /\ timer' = FALSE
        /\ UNCHANGED <<promise, marker, stage, expired, inForce, runningFile>>
    BY <1>7 DEF roll_back
  <2>5. PromiseOnDisk'
    BY <2>4 DEF PromiseInv, PromiseOnDisk, FileGeneration
  <2> QED BY <2>1, <2>3, <2>4, <2>5 DEF PromiseInv, PromiseHeld, TimerPaired,
                                        LeftoverMarker, RollbackDue
<1>8. CASE roll_back_apply
  <2>1. /\ op \in Operation /\ op.who = "rollback" /\ op.phase = "applying"
        /\ stage # "down"
        /\ UNCHANGED <<pending, timer, marker, stage, expired, inForce, runningFile>>
    BY <1>a, <1>8 DEF roll_back_apply, TypeInv, OpShape
  <2>2. pending = None /\ timer = FALSE
    BY <1>8, <2>1 DEF roll_back_apply, PromiseInv, TimerPaired, TypeInv, TypeOK
  <2>3. expired
    BY <1>8 DEF roll_back_apply, PromiseInv, RollbackDue
  <2>4. CASE op' = [op EXCEPT !.phase = "applied"] /\ UNCHANGED promise
    <3>1. /\ op' # None /\ op'.who = "rollback" /\ op'.phase = "applied"
          /\ op'.config = op.config
      BY <2>1, <2>4, OpMoves
    <3>2. PromiseOnDisk'
      BY <2>1, <2>4 DEF PromiseInv, PromiseOnDisk, FileGeneration
    <3>3. PromiseHeld'
      BY <1>8, <2>1, <2>4, <3>1 DEF roll_back_apply, PromiseInv, PromiseHeld
    <3> QED BY <2>1, <2>2, <2>3, <3>1, <3>2, <3>3 DEF PromiseInv, TimerPaired,
                                                      LeftoverMarker, RollbackDue
  <2>5. CASE op' = [op EXCEPT !.phase = "disarming"] /\ promise' = None
    <3>1. op' # None /\ op'.who = "rollback" /\ op'.phase = "disarming"
      BY <2>1, <2>5, OpMoves
    <3> QED BY <2>1, <2>2, <2>3, <2>5, <3>1 DEF PromiseInv, PromiseOnDisk, PromiseHeld,
                                               TimerPaired, LeftoverMarker, RollbackDue
  <2> QED BY <1>8, <2>4, <2>5 DEF roll_back_apply
<1>9. CASE roll_back_promote
  <2>1. /\ op \in Operation /\ op.who = "rollback" /\ promise' = None
        /\ UNCHANGED <<pending, timer, marker, stage, expired>>
    BY <1>a, <1>9 DEF roll_back_promote
  <2>2. pending = None /\ timer = FALSE /\ expired
    BY <1>9 DEF roll_back_promote, PromiseInv, TimerPaired, RollbackDue, TypeInv, TypeOK
  <2>3. op' # None /\ op'.who = "rollback" /\ op'.phase = "disarming"
    BY <1>9, <2>1, OpMoves DEF roll_back_promote
  <2> QED BY <2>1, <2>2, <2>3 DEF PromiseInv, PromiseOnDisk, PromiseHeld, TimerPaired,
                                  LeftoverMarker, RollbackDue
<1>10. CASE roll_back_disarm
  <2>1. promise = None
    BY <1>10 DEF roll_back_disarm, PromiseInv, PromiseHeld, TypeInv, OpShape
  <2>2. pending = None /\ timer = FALSE
    BY <1>10 DEF roll_back_disarm, PromiseInv, TimerPaired, TypeInv, TypeOK
  <2>3. op' = None /\ marker' = None /\ UNCHANGED <<promise, pending, timer>>
    BY <1>10 DEF roll_back_disarm, Io
  <2> QED BY <2>1, <2>2, <2>3, WindowGone
<1>11. CASE start
  <2>1. /\ stage = "down" /\ op = None /\ stage' = "starting"
        /\ UNCHANGED <<marker, promise, expired, inForce, runningFile>>
    BY <1>11 DEF start, Load, TypeInv, OpShape
  <2>2. pending = None /\ timer = FALSE
    BY <2>1 DEF PromiseInv, TimerPaired, TypeInv, TypeOK
  <2>3. PromiseOnDisk'
    BY <2>1 DEF PromiseInv, PromiseOnDisk, FileGeneration
  <2>4. CASE marker = None
    <3>1. promise = None
      BY <2>4 DEF PromiseInv, PromiseOnDisk
    <3>2. UNCHANGED <<pending, timer, op>>
      BY <1>11, <2>4 DEF start
    <3> QED BY <2>1, <2>2, <2>4, <3>1, <3>2, WindowGone
  <2>5. CASE marker # None /\ expired
    <3>1. marker.previous \in Configs
      BY <1>a, <2>5 DEF Pending
    <3>2. op' = Op("rollback", "applying", marker.previous) /\ UNCHANGED <<pending, timer>>
      BY <1>11, <2>5 DEF start, Io
    <3>3. /\ op' # None /\ op'.who = "rollback" /\ op'.phase = "applying"
          /\ op'.config = marker.previous
      BY <3>1, <3>2, OpType
    <3>4. PromiseHeld'
      BY <2>1, <3>3 DEF PromiseInv, PromiseOnDisk, PromiseHeld
    <3> QED BY <2>1, <2>2, <2>3, <2>5, <3>2, <3>3, <3>4 DEF PromiseInv, TimerPaired,
                                                 LeftoverMarker, RollbackDue
  <2>6. CASE marker # None /\ ~expired
    <3>1. marker = promise
      BY <2>6 DEF PromiseInv, PromiseOnDisk, LeftoverMarker
    <3>2. pending' = marker /\ timer' /\ op' = None
      BY <1>11, <2>1, <2>6 DEF start, Io
    <3> QED BY <2>1, <2>3, <2>6, <3>1, <3>2 DEF PromiseInv, PromiseHeld, TimerPaired,
                                                LeftoverMarker, RollbackDue
  <2> QED BY <2>4, <2>5, <2>6
<1>12. CASE boot_begin
  <2>1. stage = "starting" /\ op = None /\ generation = 0
    BY <1>a, <1>12 DEF boot_begin, Recovered
  <2>2. promise = None
    BY <2>1 DEF PromiseInv, PromiseOnDisk, UpdateInv, RunningRecorded
  <2>3. marker = None /\ pending = None
    BY <2>1, <2>2 DEF PromiseInv, LeftoverMarker, TimerPaired
  <2>4. timer = FALSE
    BY <2>3 DEF PromiseInv, TimerPaired, TypeInv, TypeOK
  <2>5. op'.who # "rollback"
    BY <1>12 DEF boot_begin, Op
  <2> QED BY <1>12, <2>2, <2>3, <2>4, <2>5, WindowGone DEF boot_begin
<1>13. CASE DeadlinePasses
  <2>1. /\ expired'
        /\ UNCHANGED <<promise, marker, pending, timer, op, inForce, runningFile, stage>>
    BY <1>13 DEF DeadlinePasses
  <2> QED BY <2>1 DEF PromiseInv, PromiseOnDisk, PromiseHeld, TimerPaired, LeftoverMarker,
                      RollbackDue, FileGeneration
<1>14. CASE Crash
  <2>1. /\ stage' = "down" /\ pending' = None /\ timer' = FALSE /\ op' = None
        /\ UNCHANGED <<promise, marker, expired, inForce, runningFile>>
    BY <1>14 DEF Crash
  <2>2. PromiseOnDisk'
    BY <2>1 DEF PromiseInv, PromiseOnDisk, FileGeneration
  <2> QED BY <2>1, <2>2 DEF PromiseInv, PromiseHeld, TimerPaired, LeftoverMarker,
                            RollbackDue
<1>15. CASE Reboot
  <2>1. op = None /\ pending = None
    BY <1>15 DEF Reboot, TypeInv, OpShape, PromiseInv, TimerPaired
  <2>2. timer = FALSE
    BY <2>1 DEF PromiseInv, TimerPaired, TypeInv, TypeOK
  <2> QED BY <1>15, <2>1, <2>2, WindowGone DEF Reboot
<1> QED
  BY <1>1, <1>2, <1>3, <1>4, <1>5, <1>6, <1>7, <1>8, <1>9, <1>10, <1>11, <1>12, <1>13,
     <1>14, <1>15 DEF Next, Request, Daemon

\* Where running.json and the marker can be written, read and removed, the window
\* on disk, the window in memory, the timer and the change in force belong together.
THEOREM PromiseInvariant ==
    ASSUME "running" \notin Faults, "disarm" \notin Faults, "read" \notin Faults
    PROVE  Spec => [](TypeInv /\ UpdateInv /\ HistoryInv /\ PromiseInv)
<1>1. Init => HistoryInv
  BY DEF Init, HistoryInv, HistoryPast, HistoryTruthful
<1>2. Init => PromiseInv
  BY DEF Init, PromiseInv, PromiseOnDisk, PromiseHeld, TimerPaired, LeftoverMarker,
         RollbackDue
<1>3. TypeInv /\ TypeInv' /\ UpdateInv /\ HistoryInv /\ [Next]_vars => HistoryInv'
  BY HistoryStep
<1>4. TypeInv /\ TypeInv' /\ UpdateInv /\ HistoryInv /\ PromiseInv /\ [Next]_vars
        => PromiseInv'
  BY PromiseStep
<1> QED
  BY <1>1, <1>2, <1>3, <1>4, TypeInvariant, UpdateInvariant, PTL DEF Spec

\* A confirm window, once promised, is guarded on disk and in memory until it is
\* settled, at whatever moment the process dies, the deadline passes or another
\* operator commits (confirm.rs, state.rs: commit, resume, roll_back).
THEOREM PromiseIsGuarded ==
    ASSUME "running" \notin Faults, "disarm" \notin Faults, "read" \notin Faults
    PROVE  Spec => []PromiseGuarded
<1>1. UpdateInv /\ PromiseInv => PromiseGuarded
  <2> SUFFICES ASSUME UpdateInv, PromiseInv, promise # None
               PROVE  /\ marker = promise
                      /\ Serving => /\ pending = promise
                                    /\ timer
                                    /\ running = promise.committed
                                    /\ generation = promise.generation
    BY DEF PromiseGuarded
  <2>1. marker = promise
    BY DEF PromiseInv, PromiseOnDisk
  <2>2. ASSUME Serving
        PROVE  pending = promise /\ timer /\ running = promise.committed
                  /\ generation = promise.generation
    <3>1. pending = promise
      BY <2>2 DEF Serving, PromiseInv, PromiseHeld
    <3>2. timer
      BY <3>1 DEF PromiseInv, TimerPaired
    <3>3. running = inForce /\ generation = FileGeneration
      BY <2>2 DEF Serving, UpdateInv, RunningRecorded
    <3> QED BY <3>1, <3>2, <3>3 DEF PromiseInv, PromiseOnDisk
  <2> QED BY <2>1, <2>2
<1> QED BY <1>1, PromiseInvariant, PTL

\* There is no window but the one promised: confirm and the timer settle the change
\* the operator was told of (state.rs: confirm, roll_back).
THEOREM NoOtherWindow ==
    ASSUME "running" \notin Faults, "disarm" \notin Faults, "read" \notin Faults
    PROVE  Spec => []OnlyPromisedWindows
<1>1. PromiseInv => OnlyPromisedWindows
  BY DEF PromiseInv, TimerPaired, OnlyPromisedWindows
<1> QED BY <1>1, PromiseInvariant, PTL

-----------------------------------------------------------------------------
(* Only valid configurations are applied. *)

\* UsableInv is inductive, whatever file operations fail.
LEMMA UsableStep ==
    ASSUME TypeInv, UsableInv, [Next]_vars
    PROVE  UsableInv'
<1> USE DEF memory, files, box, env, ghosts
<1>a. /\ op \in Operation \cup {None}
      /\ history \in Seq(Recorded)
      /\ running \in Configs /\ generation \in Nat
  BY DEF TypeInv, TypeOK
<1>b. ASSUME NEW c \in Usable, NEW g, save_running(c, g)
      PROVE  runningFile' # None => runningFile'.config \in Usable
  BY <1>b DEF save_running, UsableInv
<1>c. ASSUME op' = None \/ op'.config \in Usable,
             UNCHANGED <<running, history, runningFile>>,
             pending' \in {None, pending, marker}, marker' \in {None, marker}
      PROVE  UsableInv'
  BY <1>c DEF UsableInv
<1>d. ASSUME op # None, NEW phase, op' = [op EXCEPT !.phase = phase]
      PROVE  op'.config = op.config /\ op.config \in Usable
  BY <1>a, <1>d DEF Operation, UsableInv
<1>1. ASSUME \/ \E s \in Sessions : \/ open(s) \/ close(s) \/ edit(s) \/ load_saved(s)
                                    \/ load_archive(s) \/ discard(s)
             \/ save \/ boot_nothing \/ HandEdit \/ DeadlinePasses \/ UNCHANGED vars
      PROVE  UsableInv'
  <2>1. UNCHANGED <<running, op, history, runningFile, pending, marker>>
    BY <1>1 DEF open, close, edit, load_saved, load_archive, SetCandidate, discard, save,
                boot_nothing, HandEdit, DeadlinePasses, vars
  <2> QED BY <2>1 DEF UsableInv
<1>2. ASSUME NEW s \in Sessions, confirm(s) PROVE UsableInv'
  <2>1. pending # None /\ op'.config = pending.committed
    BY <1>2 DEF confirm, KeepPending, Op
  <2>2. op'.config \in Usable
    BY <2>1 DEF UsableInv
  <2> QED BY <1>2, <1>c, <2>2 DEF confirm, KeepPending
<1>3. ASSUME NEW s \in Sessions, NEW c \in BOOLEAN, commit(s, c) PROVE UsableInv'
  <2>1. op'.config \in Usable
    BY <1>3 DEF commit, BeginCommit, Usable
  <2> QED BY <1>3, <1>c, <2>1 DEF commit, BeginCommit
<1>4. CASE commit_apply \/ commit_level \/ roll_back_apply
  <2>1. op' = None \/ \E phase : op' = [op EXCEPT !.phase = phase]
    BY <1>4 DEF commit_apply, commit_level, roll_back_apply
  <2>2. op # None
    BY <1>4 DEF commit_apply, commit_level, roll_back_apply
  <2>3. op' = None \/ op'.config \in Usable
    BY <1>d, <2>1, <2>2
  <2> QED BY <1>4, <1>c, <2>3 DEF commit_apply, commit_level, roll_back_apply
<1>5. CASE commit_promote
  <2>1. op'.config = op.config /\ op.config \in Usable
    BY <1>5, <1>d DEF commit_promote
  <2>2. runningFile' # None => runningFile'.config \in Usable
    BY <1>5, <1>b, <2>1 DEF commit_promote
  <2>3. \A i \in 1..Len(history') :
           \/ history'[i] = [generation |-> generation, config |-> running]
           \/ \E j \in 1..Len(history) : history'[i] = history[j]
    BY <1>a, <1>5, PushHistoryProperties DEF commit_promote
  <2>4. \A i \in 1..Len(history') : history'[i].config \in Usable
    BY <2>3 DEF UsableInv
  <2> QED BY <1>5, <2>1, <2>2, <2>4 DEF commit_promote, UsableInv
<1>6. CASE commit_arm
  <2>1. Len(history) \in 1..Len(history)
    BY <1>6, LenProperties DEF commit_arm, TypeInv, OpShape, TypeOK
  <2>2. NewWindow.previous \in Usable /\ NewWindow.committed \in Usable
    BY <2>1 DEF NewWindow, UsableInv
  <2>3. /\ pending' \in {pending, NewWindow} /\ marker' \in {marker, NewWindow}
        /\ op' = None /\ UNCHANGED <<running, history, runningFile>>
    BY <1>6 DEF commit_arm, OpenWindow
  <2> QED BY <2>2, <2>3 DEF UsableInv
<1>7. CASE record \/ roll_back_disarm \/ boot_notice
  BY <1>7, <1>c DEF record, roll_back_disarm, boot_notice
<1>8. CASE roll_back
  <2>1. op'.config = pending.previous
    BY <1>8 DEF roll_back, Op
  <2>2. op'.config \in Usable
    BY <1>8, <2>1 DEF roll_back, UsableInv
  <2> QED BY <1>8, <1>c, <2>2 DEF roll_back
<1>9. CASE roll_back_promote \/ adopt
  <2>1. op.config \in Usable /\ (op' = None \/ op'.config = op.config)
    <3>1. CASE roll_back_promote
      BY <1>d, <3>1 DEF roll_back_promote
    <3>2. CASE adopt
      BY <1>d, <3>2 DEF adopt
    <3> QED BY <1>9, <3>1, <3>2
  <2>2. runningFile' # None => runningFile'.config \in Usable
    BY <1>9, <1>b, <2>1 DEF roll_back_promote, adopt
  <2>3. running' = op.config /\ UNCHANGED <<history, pending, marker>>
    BY <1>9 DEF roll_back_promote, adopt
  <2> QED BY <2>1, <2>2, <2>3 DEF UsableInv
<1>10. CASE start
  <2>1. running' \in Usable
    BY <1>10 DEF start, Load, UsableInv, Usable
  <2>2. pending' \in {pending, marker} /\ UNCHANGED <<history, runningFile, marker>>
    BY <1>10 DEF start, Load
  <2>3. op' = op \/ (marker # None /\ op'.config = marker.previous)
    BY <1>10 DEF start, Op
  <2> QED BY <2>1, <2>2, <2>3 DEF UsableInv
<1>11. CASE boot_begin
  <2>1. op'.config \in Usable
    BY <1>11, ConfigAssumption DEF boot_begin, Op, Usable
  <2> QED BY <1>11, <1>c, <2>1 DEF boot_begin
<1>12. CASE boot_apply
  <2>1. op' = [op EXCEPT !.phase = "applied"] \/ op'.config = Defaults
    BY <1>12 DEF boot_apply, Op
  <2>2. op'.config \in Usable
    BY <1>12, <1>d, <2>1, ConfigAssumption DEF boot_apply, Usable
  <2> QED BY <1>12, <1>c, <2>2 DEF boot_apply
<1>13. CASE Crash
  <2>1. Len(history') = 0
    BY <1>13 DEF Crash
  <2> QED BY <1>13, <2>1 DEF Crash, UsableInv, Usable
<1>14. CASE Reboot
  BY <1>14 DEF Reboot, UsableInv
<1> QED
  BY <1>1, <1>2, <1>3, <1>4, <1>5, <1>6, <1>7, <1>8, <1>9, <1>10, <1>11, <1>12, <1>13,
     <1>14 DEF Next, Request, Daemon

\* Nothing that fails a cross-node constraint is ever running or given to the
\* pipeline, by whichever of edit, load, hand edit, boot, rollback or restart it came,
\* and whatever file operations fail (state.rs: commit; boot.rs: saved).
THEOREM OnlyValidIsApplied == Spec => []OnlyValidApplied
<1>1. Init => UsableInv
  BY DEF Init, UsableInv, Usable
<1>2. TypeInv /\ UsableInv /\ [Next]_vars => UsableInv'
  BY UsableStep
<1>3. UsableInv => OnlyValidApplied
  BY DEF UsableInv, Usable, OnlyValidApplied
<1> QED BY <1>1, <1>2, <1>3, TypeInvariant, PTL DEF Spec

-----------------------------------------------------------------------------
(* What is promoted has been applied. *)

\* AppliedIsThere is inductive.
LEMMA AppliedStep ==
    ASSUME TypeInv, AppliedIsThere, [Next]_vars
    PROVE  AppliedIsThere'
<1> USE DEF memory, files, box, env, ghosts
<1>a. op \in Operation \cup {None} /\ machine \in Machines /\ point \in Points
  BY DEF TypeInv, TypeOK
<1>b. ASSUME op # None,
             NEW o \in Outcomes(op.config, machine, point, "remember" \in Faults),
             machine' = o.machine, o.result = "ok",
             op' = [op EXCEPT !.phase = "applied"]
      PROVE  AppliedIsThere'
  <2>1. op'.config = op.config /\ op.config \in Configs
    BY <1>a, <1>b DEF Operation
  <2>2. machine' = op.config
    BY <1>a, <1>b, <2>1, OutcomeTypes
  <2> QED BY <2>1, <2>2 DEF AppliedIsThere
<1>1. ASSUME \/ \E s \in Sessions : \/ open(s) \/ close(s) \/ edit(s) \/ load_saved(s)
                                    \/ load_archive(s) \/ discard(s)
             \/ save \/ boot_nothing \/ HandEdit \/ DeadlinePasses \/ UNCHANGED vars
      PROVE  AppliedIsThere'
  <2>1. UNCHANGED <<op, machine>>
    BY <1>1 DEF open, close, edit, load_saved, load_archive, SetCandidate, discard, save,
                boot_nothing, HandEdit, DeadlinePasses, vars
  <2> QED BY <2>1 DEF AppliedIsThere
<1>2. CASE commit_apply
  BY <1>2, <1>b DEF commit_apply, AppliedIsThere
<1>3. CASE roll_back_apply
  <2>1. PICK o \in Outcomes(op.config, machine, point, "remember" \in Faults) :
          /\ machine' = o.machine
          /\ \/ o.result = "ok" /\ op' = [op EXCEPT !.phase = "applied"]
             \/ op' = [op EXCEPT !.phase = "disarming"]
    BY <1>3 DEF roll_back_apply
  <2>2. CASE op' = [op EXCEPT !.phase = "disarming"]
    <3>1. op'.phase = "disarming"
      BY <1>a, <1>3, <2>2 DEF roll_back_apply, Operation
    <3> QED BY <3>1 DEF AppliedIsThere
  <2> QED BY <1>3, <1>b, <2>1, <2>2 DEF roll_back_apply
<1>4. CASE boot_apply
  <2>1. PICK o \in Outcomes(op.config, machine, point, "remember" \in Faults) :
          /\ machine' = o.machine
          /\ op' = IF o.result = "ok" \/ op.who = "fallback"
                   THEN [op EXCEPT !.phase = "applied"]
                   ELSE Op("fallback", "applying", Defaults)
    BY <1>4 DEF boot_apply
  <2>2. CASE o.result = "ok"
    BY <1>4, <1>b, <2>1, <2>2 DEF boot_apply
  <2>3. CASE o.result # "ok"
    <3>1. op'.who = "fallback"
      BY <1>a, <1>4, <2>1, <2>3 DEF boot_apply, Op, Operation
    <3> QED BY <3>1 DEF AppliedIsThere
  <2> QED BY <2>2, <2>3
<1>5. ASSUME \/ \E s \in Sessions : confirm(s) \/ \E c \in BOOLEAN : commit(s, c)
             \/ commit_promote \/ commit_level \/ commit_arm \/ record
             \/ roll_back \/ roll_back_promote \/ roll_back_disarm \/ start
             \/ boot_begin \/ adopt \/ boot_notice \/ Crash \/ Reboot
      PROVE  AppliedIsThere'
  <2>1. op' = None \/ op'.phase # "applied"
    BY <1>a, <1>5 DEF confirm, KeepPending, commit, BeginCommit, commit_promote,
                      commit_level, commit_arm, record, roll_back, roll_back_promote,
                      roll_back_disarm, start, Load, boot_begin, adopt, boot_notice, Crash,
                      Reboot, Op, Operation, TypeInv, OpShape
  <2> QED BY <2>1 DEF AppliedIsThere
<1> QED
  BY <1>1, <1>2, <1>3, <1>4, <1>5 DEF Next, Request, Daemon

\* "Running: what is applied" (lib.rs): a process that is up changes its running
\* configuration only to the one the box then holds.  The defaults adopted by a boot
\* that failed are the exception the code makes.
THEOREM PromotedWasApplied == Spec => PromotedIsApplied
<1>1. Init => AppliedIsThere
  BY DEF Init, AppliedIsThere
<1>2. TypeInv /\ AppliedIsThere /\ [Next]_vars => AppliedIsThere'
  BY AppliedStep
<1>3. TypeInv /\ AppliedIsThere /\ [Next]_vars =>
        [(stage # "down" /\ stage' # "down" /\ running' # running
            /\ op # None /\ op.who # "fallback") => machine' = running']_vars
  <2> SUFFICES ASSUME AppliedIsThere, [Next]_vars,
                      stage # "down", stage' # "down", running' # running,
                      op # None, op.who # "fallback"
               PROVE  machine' = running'
    OBVIOUS
  <2>1. commit_promote \/ roll_back_promote \/ adopt
    BY DEF Next, Request, Daemon, open, close, edit, load_saved, load_archive,
           SetCandidate, discard, confirm, KeepPending, commit, BeginCommit, save,
           commit_apply, commit_level, commit_arm, record, roll_back, roll_back_apply,
           roll_back_disarm, start, Load, boot_nothing, boot_begin, boot_apply,
           boot_notice, DeadlinePasses, Crash, Reboot, HandEdit, vars, memory
  <2>2. op.phase = "applied" /\ running' = op.config /\ UNCHANGED machine
    BY <2>1 DEF commit_promote, roll_back_promote, adopt, box
  <2> QED BY <2>2 DEF AppliedIsThere
<1> QED
  BY <1>1, <1>2, <1>3, TypeInvariant, PTL DEF Spec, PromotedIsApplied

-----------------------------------------------------------------------------
(* What is archived is kept. *)

\* RecordInv is inductive.
LEMMA RecordStep ==
    ASSUME TypeInv, UpdateInv, PromiseInv, RecordInv, [Next]_vars
    PROVE  RecordInv'
<1> USE DEF memory, files, box, env, ghosts
<1>a. op \in Operation \cup {None} /\ generation \in Nat
  BY DEF TypeInv, TypeOK
<1>b. ASSUME op' = None \/ (op'.who # "commit" /\ op'.phase # "recording")
      PROVE  RecordInv'
  BY <1>b DEF RecordInv, RecordsRunning, CommitRunning, CommitNumbered
<1>c. ASSUME NEW phase, op # None, op' = [op EXCEPT !.phase = phase]
      PROVE  /\ op'.who = op.who /\ op'.config = op.config /\ op'.revision = op.revision
             /\ op'.phase = phase
  BY <1>a, <1>c DEF Operation
<1>1. ASSUME \/ \E s \in Sessions : \/ open(s) \/ close(s) \/ edit(s) \/ load_saved(s)
                                    \/ load_archive(s) \/ discard(s)
             \/ save \/ boot_nothing \/ HandEdit \/ DeadlinePasses \/ UNCHANGED vars
      PROVE  RecordInv'
  <2>1. UNCHANGED <<op, running, generation>>
    BY <1>1 DEF open, close, edit, load_saved, load_archive, SetCandidate, discard, save,
                boot_nothing, HandEdit, DeadlinePasses, vars
  <2> QED BY <2>1 DEF RecordInv, RecordsRunning, CommitRunning, CommitNumbered
<1>2. ASSUME NEW s \in Sessions, confirm(s) PROVE RecordInv'
  <2>1. /\ op'.who = "confirm" /\ op'.phase = "recording"
        /\ op'.config = pending.committed /\ op'.revision = pending.generation
        /\ pending # None /\ stage # "down" /\ UNCHANGED <<running, generation>>
    BY <1>2 DEF confirm, KeepPending, Op, Serving
  <2>2. promise # None /\ pending = promise
    BY <2>1 DEF PromiseInv, TimerPaired
  <2>3. running = promise.committed /\ generation = promise.generation
    BY <2>1, <2>2 DEF PromiseInv, PromiseOnDisk, UpdateInv, RunningRecorded
  <2> QED BY <2>1, <2>2, <2>3 DEF RecordInv, RecordsRunning, CommitRunning,
                                  CommitNumbered
<1>3. ASSUME NEW s \in Sessions, NEW c \in BOOLEAN, commit(s, c) PROVE RecordInv'
  <2>1. op'.phase = "applying" /\ op'.revision = generation + 1 /\ UNCHANGED generation
    BY <1>3 DEF commit, BeginCommit
  <2> QED BY <2>1 DEF RecordInv, RecordsRunning, CommitRunning, CommitNumbered
<1>4. CASE commit_apply
  <2>1. op' = None \/ op' = [op EXCEPT !.phase = "applied"]
    BY <1>4 DEF commit_apply
  <2>2. op' = None \/ (op'.phase = "applied" /\ op'.revision = op.revision)
    BY <1>4, <1>c, <2>1 DEF commit_apply
  <2> QED BY <1>4, <2>2 DEF commit_apply, RecordInv, RecordsRunning, CommitRunning,
                            CommitNumbered
<1>5. CASE commit_promote
  <2>1. /\ op'.phase = "recorded" /\ op'.config = op.config
        /\ op'.revision = op.revision
    BY <1>5, <1>c DEF commit_promote
  <2> QED BY <1>5, <2>1 DEF commit_promote, RecordInv, RecordsRunning, CommitRunning,
                            CommitNumbered
<1>6. CASE commit_level
  <2>1. \E phase \in {"arming", "recording"} : op' = [op EXCEPT !.phase = phase]
    BY <1>6 DEF commit_level
  <2>2. /\ op'.phase \in {"arming", "recording"} /\ op'.config = op.config
        /\ op'.revision = op.revision
    BY <1>6, <1>c, <2>1 DEF commit_level
  <2> QED BY <1>6, <2>2 DEF commit_level, RecordInv, RecordsRunning, CommitRunning,
                            CommitNumbered
<1>7. ASSUME \/ commit_arm \/ record \/ roll_back \/ roll_back_apply \/ roll_back_promote
             \/ roll_back_disarm \/ start \/ boot_begin \/ boot_apply \/ adopt
             \/ boot_notice \/ Crash \/ Reboot
      PROVE  RecordInv'
  <2>1. op' = None \/ (op'.who # "commit" /\ op'.phase # "recording")
    BY <1>a, <1>7 DEF commit_arm, record, roll_back, roll_back_apply, roll_back_promote,
                      roll_back_disarm, start, Load, boot_begin, boot_apply, adopt,
                      boot_notice, Crash, Reboot, Op, Operation, TypeInv, OpShape
  <2> QED BY <1>b, <2>1
<1> QED
  BY <1>1, <1>2, <1>3, <1>4, <1>5, <1>6, <1>7 DEF Next, Request, Daemon

\* "A revision that was rolled back was never a revision" (confirm.rs): what enters the
\* archive is the running configuration under its own number, with nothing left to
\* confirm, so no rollback of it can follow.
THEOREM ArchivedWasKept ==
    ASSUME "running" \notin Faults, "disarm" \notin Faults, "read" \notin Faults
    PROVE  Spec => ArchivedIsKept
<1>1. Init => RecordInv
  BY DEF Init, RecordInv, RecordsRunning, CommitRunning, CommitNumbered
<1>2. TypeInv /\ UpdateInv /\ PromiseInv /\ RecordInv /\ [Next]_vars => RecordInv'
  BY RecordStep
<1>3. TypeInv /\ PromiseInv /\ RecordInv /\ [Next]_vars =>
        [\A r \in archive' \ archive :
            /\ r.config = running' /\ r.revision = generation'
            /\ pending' = None /\ promise' = None]_vars
  <2> SUFFICES ASSUME TypeInv, PromiseInv, RecordInv, [Next]_vars,
                      NEW r \in archive' \ archive
               PROVE  /\ r.config = running' /\ r.revision = generation'
                      /\ pending' = None /\ promise' = None
    OBVIOUS
  <2>1. record
    BY DEF Next, Request, Daemon, open, close, edit, load_saved, load_archive,
           SetCandidate, discard, confirm, KeepPending, commit, BeginCommit, save,
           commit_apply, commit_promote, commit_level, commit_arm, roll_back,
           roll_back_apply, roll_back_promote, roll_back_disarm, start, Load,
           boot_nothing, boot_begin, boot_apply, adopt, boot_notice, DeadlinePasses,
           Crash, Reboot, HandEdit, vars, files
  <2>2. op # None /\ op.phase = "recording" /\ op.who # "rollback"
    BY <2>1 DEF record, PromiseInv, RollbackDue
  <2>3. promise = None /\ pending = None
    BY <2>2, NoWindow
  <2>4. UNCHANGED <<running, generation, pending, promise>>
    BY <2>1 DEF record, memory
  <2>5. r = [revision |-> op.revision, stamp |-> revisions + 1, config |-> op.config]
    BY <2>1 DEF record, Record, Pruned
  <2> QED BY <2>2, <2>3, <2>4, <2>5 DEF RecordInv, RecordsRunning
<1> QED
  BY <1>1, <1>2, <1>3, PromiseInvariant, PTL DEF Spec, ArchivedIsKept

-----------------------------------------------------------------------------
(* An operator's edits outlive the process. *)

\* SessionsOnDisk is inductive where writing and removing a session file succeed.
LEMMA OnDiskStep ==
    ASSUME "session" \notin Faults, "forget" \notin Faults, SessionsOnDisk, TypeInv,
           [Next]_vars
    PROVE  SessionsOnDisk'
<1> USE DEF memory, files, box, env, ghosts
<1>a. ASSUME NEW s, NEW session, StoreSession(s, session), stage # "down"
      PROVE  sessions' = sessionFiles'
  BY <1>a DEF StoreSession, Io, SessionsOnDisk
<1>1. ASSUME NEW s \in Sessions, open(s) \/ close(s) PROVE SessionsOnDisk'
  BY <1>1 DEF open, close, Serving, Io, SessionsOnDisk
<1>2. ASSUME NEW s \in Sessions, NEW c, SetCandidate(s, c) PROVE SessionsOnDisk'
  BY <1>2, <1>a DEF SetCandidate, Serving, SessionsOnDisk
<1>3. ASSUME NEW s \in Sessions, edit(s) \/ load_saved(s) \/ load_archive(s)
      PROVE  SessionsOnDisk'
  BY <1>2, <1>3 DEF edit, load_saved, load_archive
<1>4. ASSUME NEW s \in Sessions, discard(s) PROVE SessionsOnDisk'
  BY <1>4, <1>a DEF discard, Serving, SessionsOnDisk
<1>5. CASE commit_level
  BY <1>5, <1>a DEF commit_level, SessionsOnDisk
<1>6. CASE start
  BY <1>6 DEF start, Load, SessionsOnDisk
<1>7. CASE Crash \/ Reboot
  BY <1>7 DEF Crash, Reboot, SessionsOnDisk
<1>8. ASSUME \/ \E s \in Sessions : confirm(s) \/ \E c \in BOOLEAN : commit(s, c)
             \/ save \/ commit_apply \/ commit_promote \/ commit_arm \/ record
             \/ roll_back \/ roll_back_apply \/ roll_back_promote \/ roll_back_disarm
             \/ boot_nothing \/ boot_begin \/ boot_apply \/ adopt \/ boot_notice
             \/ DeadlinePasses \/ HandEdit \/ UNCHANGED vars
      PROVE  SessionsOnDisk'
  <2>1. UNCHANGED <<sessions, sessionFiles>>
    BY <1>8 DEF confirm, KeepPending, commit, BeginCommit, save, commit_apply,
                commit_promote, commit_arm, OpenWindow, record, roll_back, roll_back_apply,
                roll_back_promote, roll_back_disarm, boot_nothing, boot_begin, boot_apply,
                adopt, boot_notice, DeadlinePasses, HandEdit, vars
  <2>2. op # None => stage # "down"
    BY DEF TypeInv, OpShape
  <2>3. stage' = stage \/ stage # "down"
    BY <1>8, <2>2
       DEF confirm, KeepPending, commit, BeginCommit, save, commit_apply,
           commit_promote, commit_arm, OpenWindow, record, roll_back, roll_back_apply,
           roll_back_promote, roll_back_disarm, boot_nothing, boot_begin, boot_apply,
           adopt, boot_notice, DeadlinePasses, HandEdit, vars
  <2> QED BY <2>1, <2>3 DEF SessionsOnDisk
<1> QED
  BY <1>1, <1>3, <1>4, <1>5, <1>6, <1>7, <1>8 DEF Next, Request, Daemon

\* "An operator's unsaved work must outlive a restart" (tests/session.rs): a configd that
\* answers has every candidate on disk as it has it in memory, for any number of
\* sessions, crashes and reboots.  Writing and removing a session file must succeed: a
\* refused write is reported but the change in memory stays (session.rs: Store::save).
THEOREM EditsAreDurable ==
    ASSUME "session" \notin Faults, "forget" \notin Faults
    PROVE  Spec => []EditsDurable
<1>1. Init => SessionsOnDisk
  BY DEF Init, SessionsOnDisk
<1>2. SessionsOnDisk /\ TypeInv /\ [Next]_vars => SessionsOnDisk'
  BY OnDiskStep
<1>3. SessionsOnDisk => EditsDurable
  BY DEF SessionsOnDisk, EditsDurable, Serving
<1> QED BY <1>1, <1>2, <1>3, TypeInvariant, PTL DEF Spec

-----------------------------------------------------------------------------
(* Configd implements CommitConfirm: the safety part. *)

\* A window, seen by the operator, is there exactly while one is promised.
LEMMA WindowSeen ==
    ASSUME TypeInv
    PROVE  Window = None <=> promise = None
<1>1. promise # None => Window \in [previous : Configs, committed : Configs]
  BY DEF Window, TypeInv, TypeOK, Pending
<1> QED BY <1>1, NoneAssumption DEF Window

\* Outside the two steps between a promotion and its window, what is in force is
\* what was promoted last.
LEMMA EffectiveInForce ==
    ASSUME op = None \/ op.who # "commit" \/ op.phase \notin {"recorded", "arming"}
    PROVE  Effective = inForce
BY DEF Effective

\* Every step of Configd is a step of CommitConfirm or changes nothing an operator
\* of commit-confirm sees.
LEMMA RefinementStep ==
    ASSUME "running" \notin Faults, "disarm" \notin Faults, "read" \notin Faults,
           TypeInv, TypeInv', UpdateInv, HistoryInv, PromiseInv, [Next]_vars
    PROVE  [Abstract!Next]_<<Effective, Window>>
<1> USE DEF memory, files, box, env, ghosts
<1>a. /\ op \in Operation \cup {None}
      /\ inForce' \in Configs
      /\ promise \in Pending \cup {None}
      /\ stage = "down" => op = None
  BY DEF TypeInv, TypeOK, OpShape
<1>b. ASSUME UNCHANGED <<Effective, Window>> PROVE [Abstract!Next]_<<Effective, Window>>
  BY <1>b
<1>c. ASSUME promise = None, promise' = None, Effective' \in Configs
      PROVE  [Abstract!Next]_<<Effective, Window>>
  <2>1. Window = None /\ Window' = None
    BY <1>c DEF Window
  <2>2. Abstract!Change(Effective')
    BY <2>1 DEF Abstract!Change
  <2> QED BY <1>c, <2>2 DEF Abstract!Next
<1>1. ASSUME \/ \E s \in Sessions : \/ open(s) \/ close(s) \/ edit(s) \/ load_saved(s)
                                    \/ load_archive(s) \/ discard(s)
             \/ save \/ boot_nothing \/ HandEdit \/ UNCHANGED vars \/ DeadlinePasses
      PROVE  [Abstract!Next]_<<Effective, Window>>
  <2>1. UNCHANGED <<promise, op, inForce, history>>
    BY <1>1 DEF open, close, edit, load_saved, load_archive, SetCandidate, discard, save,
                boot_nothing, HandEdit, vars, DeadlinePasses
  <2> QED BY <1>b, <2>1 DEF Effective, Window
<1>2. ASSUME NEW s \in Sessions, confirm(s) PROVE [Abstract!Next]_<<Effective, Window>>
  <2>1. op = None /\ op'.who = "confirm" /\ UNCHANGED inForce /\ promise' = None
    BY <1>2 DEF confirm, KeepPending, Op, Serving
  <2>2. Effective = inForce /\ Effective' = inForce
    BY <2>1 DEF Effective
  <2>3. promise # None
    BY <1>2 DEF confirm, KeepPending, PromiseInv, TimerPaired
  <2>4. Window # None /\ Window' = None
    BY <2>1, <2>3, WindowSeen DEF Window
  <2>5. Abstract!Keep
    BY <2>2, <2>4 DEF Abstract!Keep
  <2> QED BY <2>5 DEF Abstract!Next
<1>3. ASSUME NEW s \in Sessions, NEW c \in BOOLEAN, commit(s, c)
      PROVE  [Abstract!Next]_<<Effective, Window>>
  <2>1. op = None /\ op'.phase = "applying" /\ UNCHANGED <<inForce, promise>>
    BY <1>3 DEF commit, BeginCommit, CommitAsked, Serving
  <2> QED BY <1>b, <2>1 DEF Effective, Window
<1>4. CASE commit_apply
  <2>1. op.phase = "applying" /\ UNCHANGED <<inForce, promise>>
    BY <1>4 DEF commit_apply
  <2>2. op' = None \/ op'.phase = "applied"
    BY <1>a, <1>4 DEF commit_apply, Operation
  <2> QED BY <1>b, <2>1, <2>2 DEF Effective, Window
<1>5. CASE commit_promote
  <2>1. /\ op \in Operation /\ op.who = "commit" /\ op.phase = "applied"
        /\ stage # "down" /\ UNCHANGED promise
    BY <1>a, <1>5 DEF commit_promote, TypeInv, OpShape
  <2>2. promise = None
    BY <1>5, <2>1, NoWindow DEF commit_promote
  <2>3. op' # None /\ op'.who = "commit" /\ op'.phase = "recorded"
          /\ op'.confirm = op.confirm
    BY <1>5, <2>1, OpMoves DEF commit_promote
  <2>4. CASE op.confirm
    <3>1. history'[Len(history')].config = running
      BY <1>5, PromotedHistory DEF commit_promote, TypeInv
    <3>2. running = inForce
      BY <2>1 DEF UpdateInv, RunningRecorded
    <3>3. Effective = inForce /\ Effective' = inForce
      BY <2>1, <2>3, <2>4, <3>1, <3>2 DEF Effective
    <3> QED BY <1>b, <2>1, <3>3 DEF Window
  <2>5. CASE ~op.confirm
    <3>1. Effective' = inForce'
      BY <2>3, <2>5 DEF Effective
    <3> QED BY <1>a, <1>c, <2>1, <2>2, <3>1
  <2> QED BY <2>4, <2>5
<1>6. CASE commit_level
  <2>1. /\ op \in Operation /\ op.who = "commit" /\ op.phase = "recorded"
        /\ UNCHANGED <<promise, inForce, history>>
        /\ op.confirm \in BOOLEAN
    BY <1>a, <1>6 DEF commit_level, Operation
  <2>3. CASE op.confirm
    <3>1. op' = [op EXCEPT !.phase = "arming"]
      BY <1>6, <2>3 DEF commit_level
    <3>2. op' # None /\ op'.who = "commit" /\ op'.confirm = op.confirm
            /\ op'.phase = "arming"
      BY <2>1, <3>1, OpMoves
    <3> QED BY <1>b, <1>6, <2>1, <2>3, <3>2 DEF Effective, Window, commit_level
  <2>4. CASE ~op.confirm
    <3>1. op' = [op EXCEPT !.phase = "recording"]
      BY <1>6, <2>4 DEF commit_level
    <3>2. op'.confirm = op.confirm
      BY <2>1, <3>1, OpMoves
    <3> QED BY <1>b, <2>1, <2>4, <3>2 DEF Effective, Window
  <2> QED BY <2>3, <2>4
<1>7. CASE commit_arm
  <2>1. /\ op # None /\ op.who = "commit" /\ op.phase = "arming" /\ op.confirm
        /\ stage # "down" /\ op' = None /\ UNCHANGED <<inForce, history>>
    BY <1>7 DEF commit_arm, TypeInv, OpShape
  <2>2. promise = None
    BY <2>1, NoWindow
  <2>3. Effective' = inForce /\ Effective = history[Len(history)].config
    BY <2>1 DEF Effective
  <2>4. CASE UNCHANGED promise
    BY <1>a, <1>c, <2>1, <2>2, <2>3, <2>4
  <2>5. CASE promise' = NewWindow
    <3>1. promise' # None
      <4>1. history[Len(history)] \in Recorded
        BY <2>1, LenProperties, ElementOfSeq DEF TypeInv, TypeOK, OpShape
      <4>2. NewWindow \in Pending
        BY <4>1 DEF NewWindow, Pending, Recorded, TypeInv, TypeOK
      <4> QED BY <2>5, <4>2, NoneAssumption
    <3>2. running = inForce
      BY <2>1 DEF UpdateInv, RunningRecorded
    <3>3. Window = None
      BY <2>2 DEF Window
    <3>4. Window' = [previous |-> Effective, committed |-> Effective']
      BY <2>3, <2>5, <3>1, <3>2 DEF Window, NewWindow
    <3>5. Abstract!ChangeForNow(Effective')
      BY <3>3, <3>4 DEF Abstract!ChangeForNow
    <3>6. Effective' \in Configs
      BY <1>a, <2>1, <2>3
    <3> QED BY <3>5, <3>6 DEF Abstract!Next
  <2> QED BY <1>7, <2>4, <2>5 DEF commit_arm, OpenWindow
<1>8. CASE record \/ boot_notice
  <2>1. /\ op.phase \in {"recording", "noticing"} /\ op' = None
        /\ UNCHANGED <<promise, inForce>>
    BY <1>8 DEF record, boot_notice
  <2> QED BY <1>b, <2>1 DEF Effective, Window
<1>9. CASE roll_back
  <2>1. op = None /\ op'.who = "rollback" /\ UNCHANGED <<promise, inForce>>
    BY <1>9 DEF roll_back, Op
  <2> QED BY <1>b, <2>1 DEF Effective, Window
<1>10. CASE roll_back_apply
  <2>1. op \in Operation /\ op.who = "rollback" /\ UNCHANGED inForce
    BY <1>a, <1>10 DEF roll_back_apply
  <2>2. op'.who = "rollback"
    BY <1>10, <2>1 DEF roll_back_apply, Operation
  <2>3. Effective = inForce /\ Effective' = inForce
    BY <2>1, <2>2 DEF Effective
  <2>4. UNCHANGED promise \/ promise' = None
    BY <1>10 DEF roll_back_apply
  <2>5. CASE UNCHANGED promise
    BY <1>b, <2>3, <2>5 DEF Window
  <2>6. CASE promise # None /\ promise' = None
    <3>1. Window # None /\ Window' = None
      BY <2>6, WindowSeen DEF Window
    <3>2. Abstract!Keep
      BY <2>3, <3>1 DEF Abstract!Keep
    <3> QED BY <3>2 DEF Abstract!Next
  <2> QED BY <2>4, <2>5, <2>6
<1>11. CASE roll_back_promote
  <2>1. /\ op \in Operation /\ op.who = "rollback" /\ op.phase = "applied"
        /\ stage # "down" /\ inForce' = op.config /\ promise' = None
    BY <1>a, <1>11 DEF roll_back_promote, TypeInv, OpShape
  <2>2. op'.who = "rollback"
    BY <1>11, <2>1 DEF roll_back_promote, Operation
  <2>3. Effective' = op.config /\ Window' = None
    BY <2>1, <2>2 DEF Effective, Window
  <2>4. CASE promise = None
    BY <1>a, <1>c, <2>1, <2>3, <2>4
  <2>5. CASE promise # None
    <3>1. op.config = promise.previous
      BY <2>1, <2>5, <1>11 DEF PromiseInv, PromiseHeld, roll_back_promote
    <3>2. Window # None /\ Window.previous = promise.previous
      BY <2>5, WindowSeen DEF Window
    <3>3. Abstract!RollBack
      BY <2>3, <3>1, <3>2 DEF Abstract!RollBack
    <3> QED BY <3>3 DEF Abstract!Next
  <2> QED BY <2>4, <2>5
<1>12. CASE roll_back_disarm
  <2>1. op.phase = "disarming" /\ op' = None /\ UNCHANGED <<promise, inForce>>
    BY <1>12 DEF roll_back_disarm
  <2> QED BY <1>b, <2>1 DEF Effective, Window
<1>13. CASE start
  <2>1. op = None /\ UNCHANGED <<promise, inForce>> /\ (op' = None \/ op'.who = "rollback")
    BY <1>a, <1>13 DEF start, Load, Op
  <2> QED BY <1>b, <2>1 DEF Effective, Window
<1>14. CASE boot_begin
  <2>1. op = None /\ UNCHANGED <<promise, inForce>> /\ op'.who \in {"boot", "fallback"}
    BY <1>14 DEF boot_begin, Op
  <2> QED BY <1>b, <2>1 DEF Effective, Window
<1>15. CASE boot_apply
  <2>1. op.who \in {"boot", "fallback"} /\ UNCHANGED <<promise, inForce>>
    BY <1>15 DEF boot_apply
  <2>2. op'.who \in {"boot", "fallback"}
    BY <1>a, <1>15 DEF boot_apply, Op, Operation
  <2> QED BY <1>b, <2>1, <2>2 DEF Effective, Window
<1>16. CASE adopt
  <2>1. /\ op # None /\ op.who # "rollback" /\ UNCHANGED promise
        /\ op'.who \in {"boot", "fallback"}
    BY <1>a, <1>16 DEF adopt, Operation
  <2>2. promise = None
    BY <2>1, NoWindow
  <2>3. Effective' = inForce'
    BY <2>1 DEF Effective
  <2> QED BY <1>a, <1>c, <2>1, <2>2, <2>3
<1>17. CASE Crash
  <2>1. op' = None /\ UNCHANGED <<promise, inForce>>
    BY <1>17 DEF Crash
  <2>2. Effective' = inForce
    BY <2>1 DEF Effective
  <2>3. CASE op # None /\ op.who = "commit"
    <3>1. promise = None
      BY <2>3, NoWindow
    <3> QED BY <1>a, <1>c, <2>1, <2>2, <3>1
  <2>4. CASE op = None \/ op.who # "commit"
    BY <1>b, <2>1, <2>2, <2>4 DEF Effective, Window
  <2> QED BY <2>3, <2>4
<1>18. CASE Reboot
  <2>1. op' = None /\ inForce' = Empty /\ promise' = None
    BY <1>a, <1>18 DEF Reboot
  <2>2. Effective' = Empty /\ Window' = None
    BY <2>1 DEF Effective, Window
  <2>3. Abstract!Reset
    BY <2>2 DEF Abstract!Reset
  <2> QED BY <2>3 DEF Abstract!Next
<1> QED
  BY <1>1, <1>2, <1>3, <1>4, <1>5, <1>6, <1>7, <1>8, <1>9, <1>10, <1>11, <1>12, <1>13,
     <1>14, <1>15, <1>16, <1>17, <1>18 DEF Next, Request, Daemon

\* Commit-confirm as confirm.rs promises it holds of the daemon: while a window is
\* open nothing else changes the configuration in force, and it ends with the change
\* kept or with exactly the configuration before it, through any interleaving of
\* sessions, deaths of the process, restarts and reboots.
THEOREM ConfigdImplementsCommitConfirm ==
    ASSUME "running" \notin Faults, "disarm" \notin Faults, "read" \notin Faults
    PROVE  Spec => ImplementsCommitConfirm
<1>1. Init => Abstract!Init
  BY DEF Init, Abstract!Init, Effective, Window
<1>2. TypeInv /\ TypeInv' /\ UpdateInv /\ HistoryInv /\ PromiseInv /\ [Next]_vars
        => [Abstract!Next]_<<Effective, Window>>
  BY RefinementStep
<1> QED
  BY <1>1, <1>2, PromiseInvariant, PTL DEF Spec, ImplementsCommitConfirm,
     Abstract!SafeSpec, Abstract!avars
====
