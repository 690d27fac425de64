---- MODULE InstallScreens ----
(***************************************************************************)
(* What the installer's two frontends share (nightshade-installer          *)
(* ui/mod.rs, validate.rs, disk.rs, engine/mod.rs run): the rules of the   *)
(* answers, the disks on offer and the order of the screens, which is the  *)
(* engine's.                                                               *)
(***************************************************************************)
EXTENDS InstallEngine

CONSTANTS
    Size,       \* Size[d]
    Tolerance,  \* MIRROR_SIZE_TOLERANCE, in percent
    Medium,     \* the disks the live system runs from
    MaxKeys     \* answers given on one screen

\* Names are numbers in the order sort_by puts them.
ASSUME ScreenAssumption == Disks \subseteq Nat /\ IsFiniteSet(Disks) /\ MaxKeys \in Nat

VARIABLES ui

Passwords == {"short", "long enough"}
\* The default stands for every name the rule takes.
Default == "nightshade"
Hostnames == {"", Default, "-fw"}

\* disks: what is offered.  cursor, picked, first, second, active: the state of a screen.
\* erase: the disks shown when the word was typed; consent: those of earlier runs too.
\* term: the terminal, "cooked", "noecho", "echo" (asked for no echo, in vain) or "raw".
Ui0 == [fe |-> "none", screen |-> "start", term |-> "cooked", disks |-> <<>>, chosen |-> <<>>,
        cursor |-> 1, picked |-> <<>>, first |-> "", second |-> "", active |-> 0, keys |-> 0,
        erase |-> <<>>, consent |-> {}, password |-> "", hostname |-> "", agreed |-> FALSE, exit |-> ""]

\* validate.rs
ValidPassword(first, second) == first = "long enough" /\ first = second
ValidHostname(name) == name = Default
EraseConfirmation(typed) == typed = "ERASE"

\* Wrong variant of ValidateSelection: two numbers, whichever they are.
ValidateSelectionLoose(sel, n) == Len(sel) \in 1..2 /\ \A i \in DOMAIN sel : sel[i] \in 1..n

ValidateSelection(sel, n) ==
    /\ Len(sel) \in 1..2
    /\ \A i \in DOMAIN sel : sel[i] \in 1..n
    /\ Len(sel) = 2 => sel[1] # sel[2]

\* disk::size_mismatch_ratio, against the larger.
Mismatched(a, b) ==
    LET small == IF Size[a] < Size[b] THEN Size[a] ELSE Size[b]
        large == IF Size[a] < Size[b] THEN Size[b] ELSE Size[a]
    IN  100 * (large - small) > Tolerance * large

On(screen) == ui.screen = screen

\* A screen's own state ends with it.
Goto(screen, u) ==
    /\ ui' = [u EXCEPT !.screen = screen, !.keys = 0, !.cursor = 1, !.picked = <<>>,
                       !.first = "", !.second = "", !.active = 0]
    /\ UNCHANGED engineVars

\* run() has returned, and what it held is gone: main() prints what that comes to, the
\* frontend still there.
Leaving(how, term) ==
    /\ ui' = [Ui0 EXCEPT !.screen = "leaving", !.fe = ui.fe, !.consent = ui.consent, !.exit = how, !.term = term]
    /\ UNCHANGED engineVars

Leave(how) == Leaving(how, ui.term)

Cancelled == "Cancelled. No changes were made."
Aborted == Leave(Cancelled)

\* The screens that wait for an answer.
Questions == {"welcome", "disks", "warning", "erase", "password", "hostname", "summary", "finished"}

Stay(u) == ui' = [u EXCEPT !.keys = @ + 1] /\ ui.keys < MaxKeys /\ UNCHANGED engineVars

\* disks.sort_by: a set of disks in the order of their names.
Sorted(ds) ==
    {s \in [1..Cardinality(ds) -> ds] : \A i, j \in DOMAIN s : i < j => s[i] < s[j]}

\* disk::enumerate: every disk but the live medium, when that could be found.
Enumerate(found) ==
    /\ On("enumerate")
    /\ \E offered \in Sorted(IF found THEN Disks \ Medium ELSE Disks) :
          IF offered = <<>> THEN Leave("failed") ELSE Goto("disks", [ui EXCEPT !.disks = offered])

\* run() on its way from the selection: a mirror of unlike disks is asked about.
Chose(sel) ==
    LET ds == [i \in DOMAIN sel |-> ui.disks[sel[i]]]
    IN  Goto(IF Len(ds) = 2 /\ Mismatched(ds[1], ds[2]) THEN "warning" ELSE "erase", [ui EXCEPT !.chosen = ds])

Erase(typed, otherwise) ==
    IF EraseConfirmation(typed)
    THEN Goto("password", [ui EXCEPT !.erase = ui.chosen, !.consent = @ \cup ToSet(ui.chosen)])
    ELSE otherwise

Agree == Goto("begin", [ui EXCEPT !.agreed = TRUE])
====
