---- MODULE CommitPipelineProofs ----
(***************************************************************************)
(* commit::apply keeps its contract for any number of renderers, any       *)
(* configurations and any number of calls.                                 *)
(*                                                                         *)
(* The contract speaks of the end of a call; the invariant says, loop by   *)
(* loop, how far the call has come: which subsystems already hold the      *)
(* target, which still hold what they held, which have been restored, and  *)
(* which restore points have moved.                                        *)
(***************************************************************************)
EXTENDS CommitPipeline, TLAPS

\* A subsystem that restore() has been through without a problem.
PutBack(r) == held[r] \in {heldBefore[r], lastBefore[r]} \/ lastBefore[r] = None

\* A restore point that remember() may have left behind.
Kept(r) == last[r] = target \/ (RememberFails /\ last[r] = lastBefore[r])

\* Where the loops are.
LoopInv ==
    /\ phase = "idle" => at = 0
    /\ phase # "idle" => at \in Renderers /\ ~rebooted

\* The restore points are those of whole configurations, and a target becomes one before
\* it is remembered.
PointInv ==
    /\ PointsWereWhole
    /\ phase = "remember" => target \in whole

\* No restore point moves before every subsystem has been applied and verified.
LastInv ==
    /\ phase \notin {"idle", "remember"} => last = lastBefore
    /\ phase = "remember" =>
         \A r \in Renderers : IF r < at THEN Kept(r) ELSE last[r] = lastBefore[r]

\* What the subsystems hold in each loop.
HeldInv ==
    /\ phase \in {"render", "check"} => held = heldBefore
    /\ phase = "apply" =>
         \A r \in Renderers : held[r] = IF r < at THEN target ELSE heldBefore[r]
    /\ phase = "verify" =>
         \A r \in Renderers : held[r] = IF r <= at THEN target ELSE heldBefore[r]
    /\ phase = "restore" /\ ~problems => \A r \in Renderers : r > at => PutBack(r)
    /\ phase = "remember" => \A r \in Renderers : held[r] = target

\* What a call that has ended has left, by its result.
EndInv ==
    phase = "idle" /\ ~rebooted =>
        /\ result = "ok" => \A r \in Renderers : held[r] = target /\ Kept(r)
        /\ result = "refused" => held = heldBefore /\ last = lastBefore
        /\ result = "restored" => last = lastBefore /\ \A r \in Renderers : PutBack(r)
        /\ result = "unrecovered" => last = lastBefore
        /\ result = "cut" => last = lastBefore \/ \A r \in Renderers : held[r] = target
        /\ result # "none" => target \in Configs

Inv == TypeOK /\ LoopInv /\ PointInv /\ LastInv /\ HeldInv /\ EndInv

-----------------------------------------------------------------------------
(* Types *)

\* Begins with every loop at its first renderer and nothing applied.
LEMMA InitTyped == Init => TypeOK
<1> SUFFICES ASSUME Init PROVE TypeOK
    OBVIOUS
<1> USE NAssumption, CallsAssumption DEF Init, Renderers, Machines, Phases, Results
<1>1. held \in [Renderers -> Machines] /\ heldBefore \in [Renderers -> Machines]
    OBVIOUS
<1>2. last \in [Renderers -> Configs \cup {None}] /\ lastBefore \in [Renderers -> Configs \cup {None}]
    OBVIOUS
<1>3. problems \in BOOLEAN /\ rebooted \in BOOLEAN
    OBVIOUS
<1>4. phase \in Phases /\ at \in 0..N /\ calls \in 0..MaxCalls /\ whole \subseteq Configs
    OBVIOUS
<1> QED
    BY <1>1, <1>2, <1>3, <1>4 DEF TypeOK

\* Every step of apply, restore and the box around them keeps the types.
LEMMA NextTyped == TypeOK /\ LoopInv /\ [Next]_vars => TypeOK' /\ LoopInv'
<1> SUFFICES ASSUME TypeOK, LoopInv, [Next]_vars
             PROVE  TypeOK' /\ LoopInv'
    OBVIOUS
<1> USE NAssumption, CallsAssumption, RememberAssumption DEF TypeOK, LoopInv, Renderers, Phases, Results, Machines
<1>1. ASSUME NEW c \in Configs, Begin(c) PROVE TypeOK' /\ LoopInv'
    <2>1. problems' \in BOOLEAN /\ rebooted' \in BOOLEAN /\ ~rebooted'
        BY <1>1 DEF Begin
    <2>2. at' \in Renderers /\ at' \in 0..N /\ calls' \in 0..MaxCalls
        BY <1>1 DEF Begin
    <2> QED
        BY <1>1, <2>1, <2>2 DEF Begin
<1>2. CASE RenderStep
    BY <1>2 DEF RenderStep, Advance, Return, call
<1>3. CASE CheckStep
    BY <1>3 DEF CheckStep, Advance, Return, call
<1>4. CASE ApplyStep
    BY <1>4 DEF ApplyStep, call
<1>5. CASE VerifyStep
    BY <1>5 DEF VerifyStep, call
<1>6. CASE RestoreStep
    <2>1. problems' \in BOOLEAN
        BY <1>6 DEF RestoreStep
    <2>2. held' \in [Renderers -> Machines]
        BY <1>6 DEF RestoreStep
    <2>3. /\ phase' \in Phases /\ at' \in 0..N
          /\ result' \in Results \cup {"none", "cut"}
          /\ phase' # "idle" => phase = phase' /\ at' \in Renderers
          /\ phase' = "idle" => at' = 0
        BY <1>6 DEF RestoreStep, Return
    <2> QED
        BY <1>6, <2>1, <2>2, <2>3 DEF RestoreStep, call
<1>7. CASE RememberStep
    BY <1>7 DEF RememberStep, Return, call
<1>8. CASE Crash
    BY <1>8 DEF Crash, Return, call
<1>9. CASE Reboot
    BY <1>9 DEF Reboot
<1>10. CASE UNCHANGED vars
    BY <1>10 DEF vars
<1> QED
    BY <1>1, <1>2, <1>3, <1>4, <1>5, <1>6, <1>7, <1>8, <1>9, <1>10 DEF Next

\* Every variable of a call has its type, in whichever loop it is (commit.rs apply,
\* restore).
THEOREM TypeCorrect == Spec => []TypeOK
<1>1. Init => TypeOK /\ LoopInv
    BY InitTyped DEF Init, LoopInv
<1>2. TypeOK /\ LoopInv /\ [Next]_vars => (TypeOK /\ LoopInv)'
    BY NextTyped
<1> QED
    BY <1>1, <1>2, PTL DEF Spec

-----------------------------------------------------------------------------
(* Restore points *)

\* last moves only in the loop that begins when every subsystem has been verified.
LEMMA PointStep == TypeOK /\ LoopInv /\ PointInv /\ [Next]_vars => PointInv'
<1> SUFFICES ASSUME TypeOK, LoopInv, PointInv, [Next]_vars
             PROVE  PointInv'
    OBVIOUS
<1> USE NAssumption, RememberAssumption DEF TypeOK, LoopInv, PointInv, PointsWereWhole, Renderers
<1>1. ASSUME NEW c \in Configs, Begin(c) PROVE PointInv'
    BY <1>1 DEF Begin
<1>2. CASE RenderStep
    BY <1>2 DEF RenderStep, Advance, Return, call
<1>3. CASE CheckStep
    BY <1>3 DEF CheckStep, Advance, Return, call
<1>4. CASE ApplyStep
    BY <1>4 DEF ApplyStep, call
<1>5. CASE VerifyStep
    BY <1>5 DEF VerifyStep, call
<1>6. CASE RestoreStep
    BY <1>6 DEF RestoreStep, Return, call
<1>7. CASE RememberStep
    <2>1. PICK ok \in BOOLEAN : last' = IF ok THEN [last EXCEPT ![at] = target] ELSE last
        BY <1>7 DEF RememberStep
    <2>2. \A r \in Renderers : last'[r] \in {last[r], target}
        BY <2>1
    <2> QED
        BY <1>7, <2>2 DEF RememberStep, Return, call
<1>8. CASE Crash
    BY <1>8 DEF Crash, Return, call
<1>9. CASE Reboot
    BY <1>9 DEF Reboot
<1>10. CASE UNCHANGED vars
    BY <1>10 DEF vars
<1> QED
    BY <1>1, <1>2, <1>3, <1>4, <1>5, <1>6, <1>7, <1>8, <1>9, <1>10 DEF Next

\* No renderer's restore point names a configuration that was never applied and verified
\* in every subsystem at once (commit.rs:202), however many renderers there are and
\* wherever calls failed or the process died.
THEOREM PointsAreWhole == Spec => []PointsWereWhole
<1>1. Init => TypeOK /\ LoopInv /\ PointInv
    BY InitTyped DEF Init, LoopInv, PointInv, PointsWereWhole
<1>2. TypeOK /\ LoopInv /\ PointInv /\ [Next]_vars => (TypeOK /\ LoopInv /\ PointInv)'
    BY NextTyped, PointStep
<1>3. PointInv => PointsWereWhole
    BY DEF PointInv
<1> QED
    BY <1>1, <1>2, <1>3, PTL DEF Spec

-----------------------------------------------------------------------------
(* How far a call has come *)

\* One turn of the loop that remembers.
LEMMA RememberTurn ==
    ASSUME TypeOK, LoopInv, LastInv, RememberStep
    PROVE  \A r \in Renderers : IF r <= at THEN Kept(r)' ELSE last'[r] = lastBefore'[r]
<1> USE NAssumption, RememberAssumption DEF Renderers
<1>1. PICK ok \in BOOLEAN : /\ last' = IF ok THEN [last EXCEPT ![at] = target] ELSE last
                            /\ ~ok => RememberFails
    BY DEF RememberStep
<1>2. UNCHANGED <<target, lastBefore>> /\ phase = "remember" /\ at \in Renderers
    BY DEF RememberStep, call, LoopInv
<1>3. \A r \in Renderers : r # at => last'[r] = last[r]
    BY <1>1, <1>2 DEF TypeOK
<1>4. last'[at] = target \/ (RememberFails /\ last'[at] = last[at])
    BY <1>1, <1>2 DEF TypeOK
<1>5. \A r \in Renderers : IF r < at THEN Kept(r) ELSE last[r] = lastBefore[r]
    BY <1>2 DEF LastInv
<1> QED
    BY <1>2, <1>3, <1>4, <1>5 DEF Kept, TypeOK

\* The restore points, step by step.
LEMMA LastStep == TypeOK /\ LoopInv /\ LastInv /\ [Next]_vars => LastInv'
<1> SUFFICES ASSUME TypeOK, LoopInv, LastInv, [Next]_vars
             PROVE  LastInv'
    OBVIOUS
<1> USE NAssumption DEF TypeOK, LoopInv, LastInv, Renderers
<1>1. ASSUME NEW c \in Configs, Begin(c) PROVE LastInv'
    BY <1>1 DEF Begin
<1>2. CASE RenderStep
    BY <1>2 DEF RenderStep, Advance, Return, call
<1>3. CASE CheckStep
    BY <1>3 DEF CheckStep, Advance, Return, call
<1>4. CASE ApplyStep
    BY <1>4 DEF ApplyStep, call
<1>5. CASE VerifyStep
    BY <1>5 DEF VerifyStep, call, Kept
<1>6. CASE RestoreStep
    BY <1>6 DEF RestoreStep, Return, call
<1>7. CASE RememberStep
    <2>1. \A r \in Renderers : IF r <= at THEN Kept(r)' ELSE last'[r] = lastBefore'[r]
        BY <1>7, RememberTurn
    <2>2. phase' = "idle" \/ (phase' = "remember" /\ at' = at + 1)
        BY <1>7 DEF RememberStep, Return
    <2> QED
        BY <2>1, <2>2
<1>8. CASE Crash
    BY <1>8 DEF Crash, Return, call
<1>9. CASE Reboot
    BY <1>9 DEF Reboot
<1>10. CASE UNCHANGED vars
    BY <1>10 DEF vars, Kept
<1> QED
    BY <1>1, <1>2, <1>3, <1>4, <1>5, <1>6, <1>7, <1>8, <1>9, <1>10 DEF Next

\* One turn of restore(): what it has been through is back, unless it has a problem.
LEMMA RestoreTurn ==
    ASSUME TypeOK, LoopInv, LastInv, HeldInv, RestoreStep, ~problems'
    PROVE  \A r \in Renderers : r >= at => PutBack(r)'
<1> USE NAssumption DEF Renderers
<1>1. /\ phase = "restore" /\ at \in Renderers
      /\ UNCHANGED <<heldBefore, lastBefore, last>>
      /\ last = lastBefore
    BY DEF RestoreStep, call, LoopInv, LastInv
<1>2. ~problems /\ ((last[at] = None /\ held' = held) \/ held' = [held EXCEPT ![at] = last[at]])
    BY DEF RestoreStep, TypeOK
<1>3. \A r \in Renderers : r > at => PutBack(r)
    BY <1>1, <1>2 DEF HeldInv
<1>4. held'[at] = lastBefore[at] \/ lastBefore[at] = None
    BY <1>1, <1>2 DEF TypeOK
<1>5. \A r \in Renderers : r # at => held'[r] = held[r]
    BY <1>1, <1>2 DEF TypeOK
<1> QED
    BY <1>1, <1>3, <1>4, <1>5 DEF PutBack

\* The subsystems, step by step.
LEMMA HeldStep == TypeOK /\ LoopInv /\ LastInv /\ HeldInv /\ [Next]_vars => HeldInv'
<1> SUFFICES ASSUME TypeOK, LoopInv, LastInv, HeldInv, [Next]_vars
             PROVE  HeldInv'
    OBVIOUS
<1> USE NAssumption DEF Renderers
<1>1. ASSUME NEW c \in Configs, Begin(c) PROVE HeldInv'
    BY <1>1 DEF Begin, HeldInv
<1>2. CASE RenderStep
    BY <1>2 DEF RenderStep, Advance, Return, call, HeldInv, TypeOK, LoopInv
<1>3. CASE CheckStep
    BY <1>3 DEF CheckStep, Advance, Return, call, HeldInv, TypeOK, LoopInv
<1>4. CASE ApplyStep
    <2>1. /\ phase = "apply" /\ at \in Renderers
          /\ UNCHANGED <<at, problems, target, heldBefore, lastBefore>>
        BY <1>4 DEF ApplyStep, call, LoopInv
    <2>2. \A r \in Renderers : held[r] = IF r < at THEN target ELSE heldBefore[r]
        BY <2>1 DEF HeldInv
    <2>3. \A r \in Renderers : r # at => held'[r] = held[r]
        BY <1>4, <2>1 DEF ApplyStep, TypeOK
    <2>4. CASE phase' = "verify"
        <3>1. held'[at] = target
            BY <1>4, <2>1, <2>4 DEF ApplyStep, TypeOK
        <3> QED
            BY <2>1, <2>2, <2>3, <2>4, <3>1 DEF HeldInv
    <2>5. CASE phase' = "restore"
        BY <2>1, <2>2, <2>3, <2>5 DEF HeldInv, PutBack
    <2> QED
        BY <1>4, <2>4, <2>5 DEF ApplyStep
<1>5. CASE VerifyStep
    <2>1. /\ phase = "verify" /\ at \in Renderers
          /\ UNCHANGED <<problems, target, heldBefore, lastBefore>>
        BY <1>5 DEF VerifyStep, call, LoopInv
    <2>2. \A r \in Renderers : held[r] = IF r <= at THEN target ELSE heldBefore[r]
        BY <2>1 DEF HeldInv
    <2>3. CASE phase' = "apply"
        BY <1>5, <2>1, <2>2, <2>3 DEF VerifyStep, HeldInv
    <2>4. CASE phase' = "remember"
        BY <1>5, <2>1, <2>2, <2>4 DEF VerifyStep, HeldInv
    <2>5. CASE phase' = "restore"
        <3>1. at' = at /\ \A r \in Renderers : r # at => held'[r] = held[r]
            BY <1>5, <2>1, <2>5 DEF VerifyStep, TypeOK
        <3> QED
            BY <2>1, <2>2, <2>5, <3>1 DEF HeldInv, PutBack
    <2> QED
        BY <1>5, <2>3, <2>4, <2>5 DEF VerifyStep
<1>6. CASE RestoreStep
    <2>1. ~problems' => \A r \in Renderers : r >= at => PutBack(r)'
        BY <1>6, RestoreTurn
    <2>2. phase' = "idle" \/ (phase' = "restore" /\ at' = at - 1)
        BY <1>6 DEF RestoreStep, Return
    <2> QED
        BY <2>1, <2>2 DEF HeldInv, TypeOK
<1>7. CASE RememberStep
    BY <1>7 DEF RememberStep, Return, call, HeldInv
<1>8. CASE Crash
    BY <1>8 DEF Crash, Return, call, HeldInv
<1>9. CASE Reboot
    BY <1>9 DEF Reboot, HeldInv
<1>10. CASE UNCHANGED vars
    BY <1>10 DEF vars, HeldInv, PutBack
<1> QED
    BY <1>1, <1>2, <1>3, <1>4, <1>5, <1>6, <1>7, <1>8, <1>9, <1>10 DEF Next

\* The ends of a call, step by step: the last turn of each loop, a refusal, a death.
LEMMA EndStep ==
    TypeOK /\ LoopInv /\ LastInv /\ HeldInv /\ EndInv /\ [Next]_vars => EndInv'
<1> SUFFICES ASSUME TypeOK, LoopInv, LastInv, HeldInv, EndInv, [Next]_vars
             PROVE  EndInv'
    OBVIOUS
<1> USE NAssumption DEF Renderers
<1>1. ASSUME NEW c \in Configs, Begin(c) PROVE EndInv'
    BY <1>1 DEF Begin, EndInv
<1>2. CASE RenderStep
    BY <1>2 DEF RenderStep, Advance, Return, call, EndInv, TypeOK, LastInv, HeldInv
<1>3. CASE CheckStep
    BY <1>3 DEF CheckStep, Advance, Return, call, EndInv, TypeOK, LastInv, HeldInv
<1>4. CASE ApplyStep
    BY <1>4 DEF ApplyStep, EndInv
<1>5. CASE VerifyStep
    BY <1>5 DEF VerifyStep, EndInv
<1>6. CASE RestoreStep
    <2> SUFFICES ASSUME phase' = "idle" PROVE EndInv'
        BY DEF EndInv
    <2>1. at = 1 /\ UNCHANGED <<last, target, lastBefore>> /\ phase = "restore"
        BY <1>6 DEF RestoreStep, call, LoopInv
    <2>2. result' = "unrecovered" \/ (result' = "restored" /\ ~problems')
        BY <1>6, <2>1 DEF RestoreStep, Return
    <2>3. ~problems' => \A r \in Renderers : PutBack(r)'
        BY <1>6, <2>1, RestoreTurn
    <2>4. last' = lastBefore' /\ target' \in Configs
        BY <2>1 DEF LastInv, TypeOK
    <2> QED
        BY <2>2, <2>3, <2>4 DEF EndInv
<1>7. CASE RememberStep
    <2> SUFFICES ASSUME phase' = "idle" PROVE EndInv'
        BY DEF EndInv
    <2>1. at = N /\ result' = "ok" /\ UNCHANGED <<held, target>> /\ phase = "remember"
        BY <1>7 DEF RememberStep, Return, call, LoopInv
    <2>2. \A r \in Renderers : Kept(r)'
        BY <1>7, <2>1, RememberTurn
    <2>3. \A r \in Renderers : held'[r] = target'
        BY <2>1 DEF HeldInv
    <2> QED
        BY <2>1, <2>2, <2>3 DEF EndInv, TypeOK
<1>8. CASE Crash
    BY <1>8 DEF Crash, Return, call, EndInv, TypeOK, LastInv, HeldInv
<1>9. CASE Reboot
    BY <1>9 DEF Reboot, EndInv
<1>10. CASE UNCHANGED vars
    BY <1>10 DEF vars, EndInv, Kept, PutBack
<1> QED
    BY <1>1, <1>2, <1>3, <1>4, <1>5, <1>6, <1>7, <1>8, <1>9, <1>10 DEF Next

\* The invariant of a call.
LEMMA Invariant == Spec => []Inv
<1>1. Init => Inv
    BY InitTyped DEF Init, Inv, LoopInv, PointInv, PointsWereWhole, LastInv, HeldInv, EndInv
<1>2. Inv /\ [Next]_vars => Inv'
    BY NextTyped, PointStep, LastStep, HeldStep, EndStep DEF Inv
<1> QED
    BY <1>1, <1>2, PTL DEF Spec

-----------------------------------------------------------------------------
(* What callers may rely on *)

\* After "the previous configuration has been restored" (commit.rs:82) each subsystem
\* holds what it held before the call or what its restore point says, whichever renderer
\* failed and however many there are; one without a restore point is the exception.
THEOREM EachIsRestored == Spec => []RestoredEach
<1>1. Inv => RestoredEach
    BY DEF Inv, EndInv, RestoredEach, PutBack
<1> QED
    BY <1>1, Invariant, PTL

\* A function that is one value throughout is summed up by that value.
LEMMA SummaryOfOne ==
    ASSUME NEW f, NEW v, \A r \in Renderers : f[r] = v
    PROVE  Summary(f) = v
BY NAssumption DEF Summary, Renderers

\* A summary that is a configuration is what each of them is.
LEMMA SummaryIsEach ==
    ASSUME NEW f, Summary(f) \in Configs
    PROVE  \A r \in Renderers : f[r] = Summary(f)
BY SentinelAssumption DEF Summary

\* The call ran to its end.
LEMMA EndedMeets ==
    ASSUME TypeOK, EndInv, phase = "idle", ~rebooted, result \in Results
    PROVE  \E o \in Outcomes(target, Summary(heldBefore), Summary(lastBefore), RememberFails) :
               /\ o.result = result
               /\ Covers(o.machine, Summary(held))
               /\ Covers(o.point, Summary(last))
<1> DEFINE machine == Summary(heldBefore)
           point == Summary(lastBefore)
           all == Outcomes(target, machine, point, RememberFails)
<1>1. CASE result = "ok"
    <2>1. (\A r \in Renderers : held[r] = target) /\ (\A r \in Renderers : Kept(r))
        BY <1>1 DEF EndInv
    <2>2. Summary(held) = target
        BY <2>1, SummaryOfOne
    <2>3. CASE RememberFails
        <3>1. Outcome("ok", target, Other) \in all
            BY <2>3 DEF Outcomes, Remembered
        <3> QED
            BY <1>1, <2>2, <3>1 DEF Outcome, Covers
    <2>4. CASE ~RememberFails
        <3>1. Summary(last) = target
            BY <2>1, <2>4, SummaryOfOne DEF Kept
        <3>2. Outcome("ok", target, target) \in all
            BY <2>4 DEF Outcomes, Remembered
        <3> QED
            BY <1>1, <2>2, <3>1, <3>2 DEF Outcome, Covers
    <2> QED
        BY <2>3, <2>4
<1>2. CASE result = "refused"
    <2>1. held = heldBefore /\ last = lastBefore
        BY <1>2 DEF EndInv
    <2>2. Outcome("refused", machine, point) \in all
        BY DEF Outcomes
    <2> QED
        BY <1>2, <2>1, <2>2 DEF Outcome, Covers
<1>3. CASE result = "restored"
    <2>1. last = lastBefore /\ \A r \in Renderers : PutBack(r)
        BY <1>3 DEF EndInv
    <2>2. Outcome("restored", Restored(machine, point), point) \in all
        BY DEF Outcomes
    <2>3. Covers(Restored(machine, point), Summary(held))
        <3>1. CASE point = machine /\ machine \in Configs
            <4>1. \A r \in Renderers : heldBefore[r] = machine /\ lastBefore[r] = machine
                BY <3>1, SummaryIsEach
            <4>2. \A r \in Renderers : held[r] = machine
                BY <2>1, <3>1, <4>1, SentinelAssumption DEF PutBack
            <4>3. Summary(held) = machine
                BY <4>2, SummaryOfOne
            <4> QED
                BY <3>1, <4>3 DEF Restored, Covers
        <3>2. CASE ~(point = machine /\ machine \in Configs)
            BY <3>2 DEF Restored, Covers
        <3> QED
            BY <3>1, <3>2
    <2> QED
        BY <1>3, <2>1, <2>2, <2>3 DEF Outcome, Covers
<1>4. CASE result = "unrecovered"
    <2>1. last = lastBefore
        BY <1>4 DEF EndInv
    <2>2. Outcome("unrecovered", Other, point) \in all
        BY DEF Outcomes
    <2> QED
        BY <1>4, <2>1, <2>2 DEF Outcome, Covers
<1> QED
    BY <1>1, <1>2, <1>3, <1>4 DEF Results

\* The process died in the call.
LEMMA CutMeets ==
    ASSUME TypeOK, EndInv, phase = "idle", ~rebooted, result = "cut"
    PROVE  \E o \in CutShort(target, Summary(heldBefore), Summary(lastBefore)) :
               /\ Covers(o.machine, Summary(held))
               /\ Covers(o.point, Summary(last))
<1> DEFINE point == Summary(lastBefore)
           all == CutShort(target, Summary(heldBefore), point)
<1>1. CASE last = lastBefore
    <2>1. [machine |-> Other, point |-> point] \in all
        BY DEF CutShort
    <2> QED
        BY <1>1, <2>1 DEF Covers
<1>2. CASE \A r \in Renderers : held[r] = target
    <2>1. Summary(held) = target
        BY <1>2, SummaryOfOne
    <2>2. [machine |-> target, point |-> Other] \in all
        BY DEF CutShort
    <2> QED
        BY <2>1, <2>2 DEF Covers
<1> QED
    BY <1>1, <1>2 DEF EndInv

\* What Configd assumes of commit::apply is what the code, renderer by renderer, does:
\* however a call ends, it leaves the box in a state its contract allows.
THEOREM ContractIsMet == Spec => []MeetsContract
<1>1. Inv => MeetsContract
    BY EndedMeets, CutMeets DEF Inv, MeetsContract
<1> QED
    BY <1>1, Invariant, PTL
====
