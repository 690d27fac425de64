---- MODULE Installer ----
(***************************************************************************)
(* The installer from start to exit (nightshade-installer main.rs,         *)
(* engine/mod.rs run): a frontend, preflight, the screens, InstallEngine,  *)
(* the last screen, and what main() says.                                  *)
(***************************************************************************)
EXTENDS PlainFrontend, TuiFrontend

vars == <<ui, engineVars>>

Init == ui = Ui0 /\ EngineInit

\* main::select_frontend: plain when asked for or when the terminal is not worth trying
\* or refuses; TuiFrontend::new takes it over or puts it back.
SelectFrontend(fe) ==
    /\ On("start")
    /\ Goto("preflight", [ui EXCEPT !.fe = fe, !.term = IF fe = "tui" THEN "raw" ELSE "cooked"])

\* preflight: root, the tools, the module and UEFI, before anything else.
Preflight(ready) ==
    /\ On("preflight")
    /\ IF ready THEN Goto("welcome", ui) ELSE Leave("failed")

BeginInstall == On("begin") /\ Begin(ui.chosen) /\ ui' = [ui EXCEPT !.screen = "installing"]

\* Stepper and Frontend::progress never stop the installation.
Progress == On("installing") /\ Install /\ UNCHANGED ui

\* run(): the outcome, after the teardown.
Finish ==
    /\ On("installing") /\ eng.pc \in {"failed", "installed"}
    /\ Goto(IF eng.pc = "failed" THEN "failed" ELSE "finished", ui)

\* main() returns, and the frontend is dropped; for the plain one there is nothing to do.
DropFrontend ==
    /\ On("leaving")
    /\ ui' = [ui EXCEPT !.screen = "over", !.term = "cooked"]
    /\ UNCHANGED engineVars

\* The operator runs the installer again.
Rerun ==
    /\ On("over") /\ eng.pc \in {"failed", "installed"} /\ eng.attempt < MaxAttempts
    /\ ui' = [Ui0 EXCEPT !.consent = ui.consent] /\ Again

Next ==
    \/ \E fe \in {"plain", "tui"} : SelectFrontend(fe)
    \/ \E ready \in BOOLEAN : Preflight(ready) \/ Enumerate(ready)
    \/ PlainNext \/ TuiNext
    \/ BeginInstall \/ Progress \/ Finish \/ DropFrontend \/ Rerun

Spec == Init /\ [][Next]_vars

(***************************************************************************)
(* Properties                                                              *)
(***************************************************************************)

TypeOK ==
    /\ EngineTypeOK
    /\ ui.cursor = 1 \/ ui.cursor \in DOMAIN ui.disks
    /\ Len(ui.picked) <= 2 /\ ui.keys <= MaxKeys
    /\ ui.term \in {"cooked", "noecho", "echo", "raw"}
    /\ ui.screen = "installing" => eng.pc # "idle"

Written == {d \in Disks : media[d] # Untouched[d]}

\* A disk is written only after the word was typed under a list that has it, a password
\* that passes the rule was given and the summary accepted (engine/mod.rs: "there is no
\* branch that skips the password or the typed ERASE confirmation"); and a mirror is of
\* two disks.
NothingUnconfirmed ==
    /\ Written \subseteq ui.consent
    /\ eng.pc = "install" =>
         /\ eng.disks = ui.erase /\ ui.agreed
         /\ ValidPassword(ui.password, ui.password) /\ ValidHostname(ui.hostname)
         /\ Cardinality(ToSet(eng.disks)) = Len(eng.disks)

\* An installation that reports success boots from each of its disks, and lets its account
\* log in; the state has its type.
InstalledWorks == TypeOK /\ InstalledBoots /\ InstalledLogsIn /\ EachDiskBoots

\* A claim that does not hold (README, "Where the code and its words part").
\* A run that says no changes were made made none (main.rs: "Cancelled. No changes were
\* made.").
CancelledMeansUntouched == ui.exit = Cancelled /\ eng.attempt <= 1 => Written = {}

\* A claim that does not hold (README, "Where the code and its words part").
\* What main() prints can be read (main.rs: "this is for anything scraping stderr" and the
\* line for the operator): the terminal is its own again.
LastWordsSeen == On("leaving") => ui.term # "raw"

\* A claim that does not hold (README, "Where the code and its words part").
\* A failure was shown by the frontend before main() prints its line (main.rs: "The
\* frontend has already rendered the detail").
FailureShown == On("leaving") /\ ui.exit = "failed" => eng.pc = "failed"
====
