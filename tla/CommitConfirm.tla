---- MODULE CommitConfirm ----
(***************************************************************************)
(* What commit-confirm promises an operator, without sessions, files,      *)
(* timers or a process that can die (nightshade-configd/src/confirm.rs):   *)
(* a configuration is in force; a change may come with a window; while the *)
(* window is open nothing else changes the configuration; it ends with the *)
(* change kept or with exactly what was in force before it.                *)
(***************************************************************************)
CONSTANTS Configs, Empty, None

VARIABLES
    config,     \* the configuration in force
    window      \* the open confirm window, or None

avars == <<config, window>>

Init == config = Empty /\ window = None

\* A change with no way back: a commit, the boot path, or a confirmed commit that
\* was left without a window.
Change(c) ==
    /\ window = None
    /\ config' = c
    /\ UNCHANGED window

\* commit confirm: the change and its way back, together.
ChangeForNow(c) ==
    /\ window = None
    /\ config' = c
    /\ window' = [previous |-> config, committed |-> c]

\* confirm, or a rollback that the box refused.
Keep ==
    /\ window # None
    /\ window' = None
    /\ UNCHANGED config

RollBack ==
    /\ window # None
    /\ config' = window.previous
    /\ window' = None

\* A reboot: the box has nothing in force until it has booted.
Reset ==
    /\ config' = Empty
    /\ window' = None

Next ==
    \/ \E c \in Configs : Change(c) \/ ChangeForNow(c)
    \/ Keep
    \/ RollBack
    \/ Reset

SafeSpec == Init /\ [][Next]_avars

\* An open window does not stay open.
Spec == SafeSpec /\ WF_avars(Keep \/ RollBack)
====
