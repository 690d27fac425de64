---- MODULE PlainFrontend ----
(***************************************************************************)
(* The line-based frontend (nightshade-installer ui/plain.rs): one line    *)
(* answers one question.  A console that is gone reads as nothing, which   *)
(* aborts; an interrupt ends the process where it is.                      *)
(***************************************************************************)
EXTENDS InstallScreens

CONSTANTS
    Lines       \* the disk lists an operator may type

ASSUME LineAssumption == Lines \subseteq Seq(Nat)

Plain == ui.fe = "plain"

PlainWelcome(line) ==
    /\ On("welcome") /\ Plain
    /\ IF line = "quit" THEN Aborted ELSE Goto("enumerate", ui)

\* A number below 1, or no number, is asked for again, and so is what the rule refuses.
PlainSelectDisks(line) ==
    /\ On("disks") /\ Plain
    /\ IF 0 \notin ToSet(line) /\ ValidateSelection(line, Len(ui.disks)) THEN Chose(line) ELSE Stay(ui)

\* Anything but an explicit yes is a no.
ConfirmYes(line) == line = "yes"

PlainConfirmWarning(line) ==
    /\ On("warning") /\ Plain
    /\ IF ConfirmYes(line) THEN Goto("erase", ui) ELSE Aborted

\* Anything but the word cancels.
PlainConfirmDestruction(line) == On("erase") /\ Plain /\ Erase(line, Aborted)

\* EchoGuard::disable, which may not succeed.
EchoOff(ok) ==
    /\ On("password") /\ Plain /\ ui.term = "cooked" /\ ui.keys < MaxKeys
    /\ ui' = [ui EXCEPT !.term = IF ok THEN "noecho" ELSE "echo"]
    /\ UNCHANGED engineVars

\* Each line read with a guard of its own; a pair the rule refuses starts again.
PlainCollectPassword(line) ==
    /\ On("password") /\ Plain /\ ui.term # "cooked"
    /\ IF ui.active = 0 THEN Stay([ui EXCEPT !.first = line, !.active = 1, !.term = "cooked"])
       ELSE IF ValidPassword(ui.first, line)
            THEN Goto("hostname", [ui EXCEPT !.password = ui.first, !.term = "cooked"])
       ELSE Stay([ui EXCEPT !.first = "", !.active = 0, !.term = "cooked"])

\* An empty line is the default.
PlainCollectHostname(line) ==
    /\ On("hostname") /\ Plain
    /\ LET name == IF line = "" THEN Default ELSE line
       IN  IF ValidHostname(name) THEN Goto("summary", [ui EXCEPT !.hostname = name]) ELSE Stay(ui)

PlainConfirmSummary(line) ==
    /\ On("summary") /\ Plain
    /\ IF ConfirmYes(line) THEN Agree ELSE Aborted

PlainFailed == On("failed") /\ Plain /\ Leave("failed")

\* Anything else is asked again.
PlainFinished(line) ==
    /\ On("finished") /\ Plain
    /\ \/ line \in {"", "r"} /\ Leave("rebooting")
       \/ line = "s" /\ Leave("shell")

\* read_line at the end of the input, whichever question was asked, or when reading
\* fails; the guard of a password's echo is dropped on the way out.
PlainRead(end) ==
    /\ Plain /\ ui.screen \in Questions /\ (On("password") => ui.term # "cooked")
    /\ Leaving(IF end THEN Cancelled ELSE "failed", "cooked")

\* SIGINT: nothing is dropped and nothing torn down.
Interrupted ==
    /\ Plain /\ ui.screen \notin {"leaving", "over", "begin"}
    /\ ui' = [ui EXCEPT !.screen = "over", !.exit = "interrupted"]
    /\ UNCHANGED engineVars

PlainNext ==
    \/ \E line \in {"", "yes", "quit", "ERASE", "r", "s"} :
         \/ PlainWelcome(line) \/ PlainConfirmWarning(line) \/ PlainConfirmDestruction(line)
         \/ PlainConfirmSummary(line) \/ PlainFinished(line)
    \/ \E line \in Lines : PlainSelectDisks(line)
    \/ \E ok \in BOOLEAN : EchoOff(ok)
    \/ \E line \in Passwords : PlainCollectPassword(line)
    \/ \E line \in Hostnames : PlainCollectHostname(line)
    \/ \E end \in BOOLEAN : PlainRead(end)
    \/ PlainFailed \/ Interrupted
====
