---- MODULE CommitPipeline ----
(***************************************************************************)
(* commit::apply and commit::restore (nightshade-configd/src/commit.rs),   *)
(* one renderer at a time: render all, check all, apply and verify each,   *)
(* restore in reverse on the first failure, remember each at the end.      *)
(*                                                                         *)
(* A subsystem's state is named by the configuration whose artifacts it    *)
(* holds, Other when it holds no configuration's artifacts (an unmanaged   *)
(* box, a half-written file set, a state verify() refuses).  Calls follow  *)
(* one another, as commits, rollbacks and the boot path make them, and the *)
(* process may die between any two steps; the last-applied records are on  *)
(* disk and survive that.                                                  *)
(***************************************************************************)
EXTENDS ApplyContract, Naturals

CONSTANTS
    N,              \* number of renderers, in schema priority order
    RememberFails,  \* BOOLEAN: may Renderer::remember fail?
    MaxCalls        \* bound: calls of apply per behaviour

ASSUME NAssumption == N \in Nat \ {0}
ASSUME CallsAssumption == MaxCalls \in Nat
ASSUME RememberAssumption == RememberFails \in BOOLEAN

Renderers == 1..N

VARIABLES
    held,       \* held[r]: what subsystem r holds
    last,       \* last[r]: renderer r's last-applied record
    phase,      \* which loop of apply/restore is running
    at,         \* the renderer that loop is at
    target,     \* the configuration being applied
    result,     \* how the last call ended; "cut" when the process died in it
    problems,   \* restore()'s list is not empty
    heldBefore, \* history: held and last when the call began
    lastBefore,
    whole,      \* history: configurations every subsystem held and verified at once
    calls,      \* calls begun
    rebooted    \* the box has rebooted since the last call

vars == <<held, last, phase, at, target, result, problems, heldBefore, lastBefore,
          whole, calls, rebooted>>

\* The loop variables and the history a call keeps; a step names what it moves.
call == <<target, heldBefore, lastBefore, calls, rebooted>>

Phases == {"idle", "render", "check", "apply", "verify", "restore", "remember"}

TypeOK ==
    /\ held \in [Renderers -> Machines]
    /\ last \in [Renderers -> Configs \cup {None}]
    /\ phase \in Phases
    /\ at \in 0..N
    /\ target \in Configs \cup {None}
    /\ (phase # "idle") => target \in Configs
    /\ result \in Results \cup {"none", "cut"}
    /\ problems \in BOOLEAN
    /\ heldBefore \in [Renderers -> Machines]
    /\ lastBefore \in [Renderers -> Configs \cup {None}]
    /\ whole \subseteq Configs
    /\ calls \in 0..MaxCalls
    /\ rebooted \in BOOLEAN

Init ==
    /\ held = [r \in Renderers |-> Other]
    /\ last = [r \in Renderers |-> None]
    /\ phase = "idle"
    /\ at = 0
    /\ target = None
    /\ result = "none"
    /\ problems = FALSE
    /\ heldBefore = held
    /\ lastBefore = last
    /\ whole = {}
    /\ calls = 0
    /\ rebooted = FALSE

\* A caller hands apply a configuration.
Begin(c) ==
    /\ phase = "idle"
    /\ calls < MaxCalls
    /\ calls' = calls + 1
    /\ phase' = "render"
    /\ at' = 1
    /\ target' = c
    /\ result' = "none"
    /\ problems' = FALSE
    /\ heldBefore' = held
    /\ lastBefore' = last
    /\ rebooted' = FALSE
    /\ UNCHANGED <<held, last, whole>>

\* The call returns.
Return(how) ==
    /\ phase' = "idle"
    /\ at' = 0
    /\ result' = how

\* Wrong variant of Advance: one renderer too many.
AdvancePastEnd(next) ==
    /\ IF at <= N THEN at' = at + 1 /\ UNCHANGED phase
                  ELSE at' = 1 /\ phase' = next
    /\ UNCHANGED result

\* One turn of a loop over the renderers, and on to the next loop after the last.
Advance(next) ==
    /\ IF at < N THEN at' = at + 1 /\ UNCHANGED phase
                 ELSE at' = 1 /\ phase' = next
    /\ UNCHANGED result

\* Steps 6 and 7: render every subsystem, then check every one.  The first
\* refusal ends the call.
RenderStep ==
    /\ phase = "render"
    /\ Advance("check") \/ Return("refused")
    /\ UNCHANGED <<held, last, problems, whole, call>>

CheckStep ==
    /\ phase = "check"
    /\ Advance("apply") \/ Return("refused")
    /\ UNCHANGED <<held, last, problems, whole, call>>

\* Step 8: renderer.apply.  A failing apply may have written some of it.
ApplyStep ==
    /\ phase = "apply"
    /\ \/ /\ held' = [held EXCEPT ![at] = target]
          /\ phase' = "verify"
       \/ /\ \E h \in {held[at], Other} : held' = [held EXCEPT ![at] = h]
          /\ phase' = "restore"
    /\ UNCHANGED <<last, at, result, problems, whole, call>>

\* Wrong variant of VerifyStep, the one the comment at commit.rs:203 warns of: a
\* restore point recorded for each renderer as it succeeds.
VerifyRemembers ==
    /\ phase = "verify"
    /\ \/ /\ IF at < N THEN at' = at + 1 /\ phase' = "apply" /\ UNCHANGED whole
             ELSE at' = 1 /\ phase' = "remember" /\ whole' = whole \cup {target}
          /\ last' = [last EXCEPT ![at] = target]
          /\ UNCHANGED held
       \/ /\ held' = [held EXCEPT ![at] = Other]
          /\ phase' = "restore"
          /\ UNCHANGED <<at, whole, last>>
    /\ UNCHANGED <<result, problems, call>>

\* Step 9: renderer.verify.  A subsystem that fails it does not hold the target.
VerifyStep ==
    /\ phase = "verify"
    /\ \/ /\ IF at < N THEN at' = at + 1 /\ phase' = "apply" /\ UNCHANGED whole
             ELSE at' = 1 /\ phase' = "remember" /\ whole' = whole \cup {target}
          /\ UNCHANGED held
       \/ /\ held' = [held EXCEPT ![at] = Other]
          /\ phase' = "restore"
          /\ UNCHANGED <<at, whole>>
    /\ UNCHANGED <<last, result, problems, call>>

\* Wrong variants of RestoreStep: it stops at the renderer applied last; it forgets
\* that an earlier turn failed.
RestoreOnlyLast ==
    /\ phase = "restore"
    /\ \/ /\ last[at] # None
          /\ held' = [held EXCEPT ![at] = last[at]]
       \/ /\ last[at] = None
          /\ UNCHANGED held
    /\ Return("restored")
    /\ UNCHANGED <<last, problems, whole, call>>

RestoreForgets ==
    /\ phase = "restore"
    /\ \E h \in {held[at], last[at], Other} \ {None} : held' = [held EXCEPT ![at] = h]
    /\ IF at > 1 THEN at' = at - 1 /\ UNCHANGED <<phase, result>>
       ELSE Return("restored")
    /\ UNCHANGED <<last, problems, whole, call>>

\* restore(): most recently applied first; a renderer with no last-applied record
\* is passed over; a failing apply is noted and the loop goes on.  Nothing is
\* verified on this path.
RestoreStep ==
    /\ phase = "restore"
    /\ \/ /\ last[at] = None
          /\ UNCHANGED <<held, problems>>
       \/ /\ last[at] # None
          /\ held' = [held EXCEPT ![at] = last[at]]
          /\ UNCHANGED problems
       \/ /\ last[at] # None
          /\ \E h \in {held[at], Other} : held' = [held EXCEPT ![at] = h]
          /\ problems' = TRUE
    /\ IF at > 1 THEN at' = at - 1 /\ UNCHANGED <<phase, result>>
       ELSE Return(IF problems' THEN "unrecovered" ELSE "restored")
    /\ UNCHANGED <<last, whole, call>>

\* The last loop of apply: renderer.remember, whose failure is only logged.
RememberStep ==
    /\ phase = "remember"
    /\ \E ok \in (IF RememberFails THEN BOOLEAN ELSE {TRUE}) :
          last' = IF ok THEN [last EXCEPT ![at] = target] ELSE last
    /\ IF at < N THEN at' = at + 1 /\ UNCHANGED <<phase, result>>
                 ELSE Return("ok")
    /\ UNCHANGED <<held, problems, whole, call>>

\* configd is killed, or aborts on a panic, inside the call.
Crash ==
    /\ phase # "idle"
    /\ Return("cut")
    /\ UNCHANGED <<held, last, problems, whole, call>>

\* A reboot between calls.  /run/systemd/network is a tmpfs, host name and accounts
\* are not: some subsystems come up holding nothing of ours.  The last-applied
\* records are under /var/lib and stay.
Reboot ==
    /\ phase = "idle"
    /\ \E gone \in SUBSET Renderers :
          held' = [r \in Renderers |-> IF r \in gone THEN Other ELSE held[r]]
    /\ rebooted' = TRUE
    /\ UNCHANGED <<last, phase, at, target, result, problems, heldBefore, lastBefore,
                   whole, calls>>

Next ==
    \/ \E c \in Configs : Begin(c)
    \/ RenderStep
    \/ CheckStep
    \/ ApplyStep
    \/ VerifyStep
    \/ RestoreStep
    \/ RememberStep
    \/ Crash
    \/ Reboot

Spec == Init /\ [][Next]_vars

-----------------------------------------------------------------------------
(* The summary of the box that ApplyContract speaks of. *)

Summary(f) == IF \A r \in Renderers : f[r] = f[1] THEN f[1] ELSE Other

\* The contract may say less than is the case, never more.
Covers(claimed, actual) == claimed = actual \/ claimed = Other

\* A call leaves the box in one of the states its contract allows, whatever failed
\* in it and wherever the process died: what Configd assumes of commit::apply is
\* what the renderer-by-renderer code does.
MeetsContract ==
    (phase = "idle" /\ ~rebooted) =>
        /\ result \in Results =>
              \E o \in Outcomes(target, Summary(heldBefore), Summary(lastBefore),
                                RememberFails) :
                  /\ o.result = result
                  /\ Covers(o.machine, Summary(held))
                  /\ Covers(o.point, Summary(last))
        /\ result = "cut" =>
              \E o \in CutShort(target, Summary(heldBefore), Summary(lastBefore)) :
                  /\ Covers(o.machine, Summary(held))
                  /\ Covers(o.point, Summary(last))

\* "Last applied has to mean the last state the box was fully in" (commit.rs:202):
\* no renderer's restore point names a configuration that was never applied and
\* verified in every subsystem at once, so restore() never puts a subsystem back
\* to the configuration that is being undone.
PointsWereWhole ==
    \A r \in Renderers : last[r] \in whole \cup {None}

\* After "the previous configuration has been restored" each subsystem holds what
\* it held before the call, or what its last-applied record said; a subsystem
\* without a record is the only exception.
RestoredEach ==
    (phase = "idle" /\ result = "restored" /\ ~rebooted) =>
        \A r \in Renderers :
            held[r] \in {heldBefore[r], lastBefore[r]} \/ lastBefore[r] = None

\* The message of CommitError::Applied, taken at its word: "the previous
\* configuration has been restored" (commit.rs:82).
RestoredMeansPrevious ==
    (phase = "idle" /\ result = "restored" /\ ~rebooted) => held = heldBefore
====
