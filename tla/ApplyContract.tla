---- MODULE ApplyContract ----
(***************************************************************************)
(* What commit::apply (nightshade-configd/src/commit.rs) promises its      *)
(* callers, as relations between the box before the call and after it.     *)
(*                                                                         *)
(* The box is summarised by two values.  `machine' is the configuration    *)
(* every subsystem is known to hold, Other when none is known to describe  *)
(* them all.  `point' is the configuration every renderer's last-applied   *)
(* record is known to hold, None when no renderer has one, else Other.     *)
(* Configd uses the relations as its model of a call; CommitPipeline, the  *)
(* renderer-by-renderer model, is checked against them.                    *)
(***************************************************************************)
CONSTANTS
    Configs,    \* configuration trees (nightshade_schema::config::ConfigTree)
    None,       \* Option::None, a file that is not there
    Other       \* no one configuration is known to describe it

ASSUME SentinelAssumption == /\ None \notin Configs
                             /\ Other \notin Configs
                             /\ None # Other

\* What the subsystems together can hold, and what their restore points can say.
Machines == Configs \cup {Other}
Points   == Configs \cup {Other, None}

\* The four ways a call ends: Ok, CommitError::{Render, Check}, ::Applied and
\* ::Unrecovered.
Results == {"ok", "refused", "restored", "unrecovered"}

\* The box after restore() has reported success.  It is the box before only if the
\* restore points described that box: with no point ("nothing to restore") or with
\* a stale one, nothing is known of it.
Restored(machine, point) ==
    IF point = machine /\ machine \in Configs THEN machine ELSE Other

\* The restore points after every remember() of configuration c: a failing write
\* leaves that renderer the point it had.
Remembered(c, failing) == IF failing THEN {c, Other} ELSE {c}

Outcome(result, machine, point) ==
    [result |-> result, machine |-> machine, point |-> point]

\* Every way a call that ran to its end can leave the box.  `failing' says that
\* remember() may fail.
Outcomes(c, machine, point, failing) ==
    {Outcome("ok", c, p) : p \in Remembered(c, failing)}
        \cup {Outcome("refused", machine, point),
              Outcome("restored", Restored(machine, point), point),
              Outcome("unrecovered", Other, point)}

\* Every box a call cut short by the death of the process can leave: nothing
\* touched yet, somewhere in the middle, or all applied and some of it remembered.
CutShort(c, machine, point) ==
    {[machine |-> machine, point |-> point],
     [machine |-> Other, point |-> point]}
        \cup {[machine |-> c, point |-> p] : p \in {c, point, Other}}
====
