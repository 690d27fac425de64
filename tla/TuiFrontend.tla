---- MODULE TuiFrontend ----
(***************************************************************************)
(* The full-screen frontend (nightshade-installer ui/tui.rs): keys and the *)
(* fields they fill.  A word typed into a field is one key here.  In raw   *)
(* mode Ctrl-C is a key and aborts from any screen that reads one.         *)
(***************************************************************************)
EXTENDS InstallScreens

Tui == ui.fe = "tui"
Keys == {"up", "down", "tab", "space", "enter", "esc", "ctrl-c"}

\* TuiFrontend::key
Quits(key) == key \in {"esc", "ctrl-c"}

TuiWelcome(key) ==
    /\ On("welcome") /\ Tui
    /\ CASE key = "enter" -> Goto("enumerate", ui)
         [] Quits(key)    -> Aborted
         [] OTHER         -> Stay(ui)

Toggled ==
    IF ui.cursor \in ToSet(ui.picked)
    THEN RemoveAt(ui.picked, CHOOSE i \in DOMAIN ui.picked : ui.picked[i] = ui.cursor)
    ELSE IF Len(ui.picked) < 2 THEN Append(ui.picked, ui.cursor) ELSE ui.picked

CursorAfter(key) ==
    CASE key = "up"   -> IF ui.cursor > 1 THEN ui.cursor - 1 ELSE ui.cursor
      [] key = "down" -> IF ui.cursor < Len(ui.disks) THEN ui.cursor + 1 ELSE ui.cursor

TuiSelectDisks(key) ==
    /\ On("disks") /\ Tui
    /\ CASE Quits(key)    -> Aborted
         [] key \in {"up", "down"} -> Stay([ui EXCEPT !.cursor = CursorAfter(key)])
         [] key = "space" -> Stay([ui EXCEPT !.picked = Toggled])
         [] key = "enter" -> IF ValidateSelection(ui.picked, Len(ui.disks)) THEN Chose(ui.picked) ELSE Stay(ui)
         [] OTHER         -> Stay(ui)

TuiConfirmWarning(key) ==
    /\ On("warning") /\ Tui
    /\ CASE key = "enter" -> Goto("erase", ui)
         [] Quits(key)    -> Aborted
         [] OTHER         -> Stay(ui)

\* Enter on anything but the word clears the field and asks again.
TuiConfirmDestruction(key) ==
    /\ On("erase") /\ Tui
    /\ CASE Quits(key)    -> Aborted
         [] key = "enter" -> Erase(ui.first, Stay([ui EXCEPT !.first = ""]))
         [] OTHER         -> Stay(ui)

\* Field::handle, the word as a whole.
Type(word) ==
    /\ Tui /\ ui.screen \in {"erase", "password", "hostname"}
    /\ Stay(IF ui.active = 0 THEN [ui EXCEPT !.first = word] ELSE [ui EXCEPT !.second = word])

\* Enter in the first field goes to the second; in the second it submits, and a refused
\* pair is cleared.
TuiCollectPassword(key) ==
    /\ On("password") /\ Tui
    /\ CASE Quits(key)                    -> Aborted
         [] key \in {"tab", "up", "down"} -> Stay([ui EXCEPT !.active = 1 - @])
         [] key = "enter" ->
              IF ui.active = 0 THEN Stay([ui EXCEPT !.active = 1])
              ELSE IF ValidPassword(ui.first, ui.second) THEN Goto("hostname", [ui EXCEPT !.password = ui.first])
              ELSE Stay([ui EXCEPT !.first = "", !.second = "", !.active = 0])
         [] OTHER -> Stay(ui)

\* The field starts with the default, so nothing typed is the default.
TuiCollectHostname(key) ==
    /\ On("hostname") /\ Tui
    /\ LET name == IF ui.keys = 0 THEN Default ELSE ui.first
       IN  CASE Quits(key) -> Aborted
             [] key = "enter" -> IF ValidHostname(name) THEN Goto("summary", [ui EXCEPT !.hostname = name]) ELSE Stay(ui)
             [] OTHER -> Stay([ui EXCEPT !.first = name])

TuiConfirmSummary(key) ==
    /\ On("summary") /\ Tui
    /\ CASE key = "enter" -> Agree
         [] Quits(key)    -> Aborted
         [] OTHER         -> Stay(ui)

\* Shown until it is read; an abort here is no different, and any other key only scrolls.
TuiFailed(key) == On("failed") /\ Tui /\ (key = "enter" \/ Quits(key)) /\ Leave("failed")

\* Esc is not a key of this screen; Ctrl-C is one of every screen.  A choice gives the
\* terminal back (restore) before main() acts on it.
TuiFinished(key) ==
    /\ On("finished") /\ Tui
    /\ \/ key = "ctrl-c" /\ Aborted
       \/ key = "enter" /\ Leaving(IF ui.active = 0 THEN "rebooting" ELSE "shell", "cooked")
       \/ key = "tab" /\ ui' = [ui EXCEPT !.active = 1 - @] /\ UNCHANGED engineVars

\* draw, poll or read fails: on the last screen of a failure nothing more is shown, every
\* other question returns the error.  Progress that cannot be drawn is not an error.
TuiError == Tui /\ ui.screen \in Questions \cup {"failed"} /\ Leave("failed")

TuiNext ==
    \/ \E key \in Keys :
         \/ TuiWelcome(key) \/ TuiSelectDisks(key) \/ TuiConfirmWarning(key) \/ TuiConfirmDestruction(key)
         \/ TuiCollectPassword(key) \/ TuiCollectHostname(key) \/ TuiConfirmSummary(key)
         \/ TuiFailed(key) \/ TuiFinished(key)
    \/ \E word \in Passwords \cup Hostnames \cup {"ERASE"} : Type(word)
    \/ TuiError
====
