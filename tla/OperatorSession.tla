---- MODULE OperatorSession ----
(***************************************************************************)
(* `ns` processes, their connections and the daemon's connection server    *)
(* (nightshade-cli main.rs, repl.rs, client.rs; nightshade-configd         *)
(* server.rs, peer.rs; nightshade-proto).                                  *)
(*                                                                         *)
(* A command is a list of calls.  A call is a request frame, its handling  *)
(* and a response frame; anything may happen between them: the server      *)
(* closes an idle connection, drains and stops, or dies.  The handlers     *)
(* are those of Configd reduced to what the CLI can tell apart: a          *)
(* configuration is one value, a session its candidate and its base.       *)
(* Text, colours, paging and the wording of answers are left out.          *)
(***************************************************************************)
EXTENDS Naturals, Sequences, SequencesExt, FiniteSets

CONSTANTS
    Clis,               \* ns processes
    Kind,               \* Kind[c]: "interactive", "oneshot" or "batch"
    Uid,                \* Uid[c]: the operator, as SO_PEERCRED says
    Admins,             \* the operators peer.rs lets in: root, and the admin group
    Script,             \* the lines of a batch file
    Typed,              \* the commands operators type
    Values, Refused,    \* configurations, and those validation refuses
    First,              \* the running configuration
    Faults,             \* "idle", "stop", "crash", "large": what may end a connection
    MaxSessions, MaxCommands, MaxStarts

VARIABLES
    cli,        \* cli[c]: mode, session and where the process is in its loop
    conn,       \* conn[c]: "none", "open" or "closed"
    req, resp,  \* frames under way: <<>> or one
    daemon,     \* [up, running, gen, saved, sessions]
    ghost       \* history, see Ghost0

vars == <<cli, conn, req, resp, daemon, ghost>>

\* The words of the command line; a configuration value stands for the `set` that makes
\* it, and "other" for every line that is no command.
Verbs == {"configure", "show", "clear", "shell", "ping", "compare", "commit", "discard",
          "load", "save", "exit", "exit discard", "edit", "top", "other"}
Lines == Values \cup Verbs

\* `set` is not another verb, and what is typed or in a batch file is a line.
Vocabulary ==
    /\ Values \cap (Verbs \cup {"", "refresh"}) = {}
    /\ First \in Values /\ Typed \subseteq Lines /\ Script \in Seq(Lines)

NoSession == 0
Cli0 == [pc |-> "off", mode |-> "operational", session |-> NoSession, prefix |-> FALSE,
         cmd |-> "", left |-> <<>>, outcome |-> "Ok", line |-> 0, typed |-> 0]

\* work: what the operator of c has set and neither committed nor thrown away.
\* committed: commits made for c.  verdict: what the daemon did with c's last commit.
\* opened: the sessions the daemon opened for c.  severed: a call of c has failed.
\* lost: a plain exit has closed a session whose candidate has never been running.
\* told: c was shown why it was refused.  said: what a batch that failed printed.
\* ever: the configurations that have been running.  starts: of the daemon.
Ghost0 == [work |-> [c \in Clis |-> {}], committed |-> [c \in Clis |-> 0],
           opened |-> [c \in Clis |-> {}],
           verdict |-> [c \in Clis |-> "none"], severed |-> [c \in Clis |-> FALSE],
           lost |-> FALSE, told |-> [c \in Clis |-> FALSE], said |-> [c \in Clis |-> ""],
           ever |-> {First}, starts |-> 1]

Init ==
    /\ cli = [c \in Clis |-> Cli0]
    /\ conn = [c \in Clis |-> "none"]
    /\ req = [c \in Clis |-> <<>>] /\ resp = [c \in Clis |-> <<>>]
    /\ daemon = [up |-> "up", running |-> First, gen |-> 1, saved |-> First, sessions |-> <<>>]
    /\ ghost = Ghost0

(***************************************************************************)
(* The daemon's side                                                       *)
(***************************************************************************)

Answer(kind, val) == [kind |-> kind, val |-> val]
Failed(why) == Answer("failed", why)

\* peer::authenticate: root, a member of the group, or nobody.
Authenticate(c) == Uid[c] = "root" \/ Uid[c] \in Admins

Owned(c, s) == s \in DOMAIN daemon.sessions /\ daemon.sessions[s].owner = Uid[c]

\* Session s as it is stored again.
With(s, session) == [daemon EXCEPT !.sessions[s] = session]
Edited(s, config) == With(s, [daemon.sessions[s] EXCEPT !.cand = config])

\* What Configd::handle answers and leaves behind, as <<daemon, answer>>.
Committed(c, s) ==
    LET it == daemon.sessions[s]
    IN  IF it.base # daemon.gen THEN <<daemon, Failed("Conflict")>>
        ELSE IF it.cand \in Refused THEN <<daemon, Failed("Validation")>>
        ELSE IF it.cand = daemon.running THEN <<daemon, Answer("committed", "nothing")>>
        ELSE <<[With(s, [it EXCEPT !.base = daemon.gen + 1]) EXCEPT !.running = it.cand, !.gen = @ + 1],
               Answer("committed", "changes")>>

Opened(c) ==
    LET s == Len(daemon.sessions) + 1
        new == [owner |-> Uid[c], cand |-> daemon.running, base |-> daemon.gen, gone |-> FALSE]
    IN  <<[daemon EXCEPT !.sessions = Append(@, new)], Answer("session", s)>>

\* The handlers that only read: a shell is recorded and always allowed, and a report may
\* be too large for a frame.
ShellSession == Answer("ok", "")
Shown == Answer("report", "")
OpShown == Answer("report", "")
Compared(s) == Answer("changes", daemon.sessions[s].cand # daemon.running)

Handle(c, r) ==
    LET s == r.session
        it == daemon.sessions[s]
        gone == r.op \in {"Set", "Compare", "Discard", "Commit", "Close", "Load", "ShowCandidate"}
                /\ (~Owned(c, s) \/ it.gone)
    IN  IF gone THEN <<daemon, Failed("Request")>>
        ELSE CASE r.op = "Open"    -> Opened(c)
               [] r.op = "Close"   -> <<With(s, [it EXCEPT !.gone = TRUE]), Answer("ok", "")>>
               [] r.op = "Set"     -> <<Edited(s, r.val), Answer("ok", "")>>
               [] r.op = "Load"    -> <<Edited(s, daemon.saved), Answer("ok", "")>>
               [] r.op = "Compare" -> <<daemon, Compared(s)>>
               [] r.op = "Discard" -> <<With(s, [it EXCEPT !.cand = daemon.running, !.base = daemon.gen]),
                                        Answer("ok", "")>>
               [] r.op = "Commit"  -> Committed(c, s)
               [] r.op = "Save"    -> <<[daemon EXCEPT !.saved = daemon.running], Answer("ok", "")>>
               [] r.op \in {"ShellEnter", "ShellLeave"} -> <<daemon, ShellSession>>
               [] r.op \in {"ShowCandidate", "ShowRunning"} -> <<daemon, Shown>>
               [] OTHER            -> <<daemon, OpShown>>

\* One turn of serve(): the request that was read is handled to the end and answered,
\* whether or not anybody is still there to read the answer.
Serve(c) ==
    /\ daemon.up # "down" /\ conn[c] = "open" /\ req[c] # <<>>
    /\ LET r == req[c][1]
           done == Handle(c, r)
           changed == r.op = "Commit" /\ done[2] = Answer("committed", "changes")
           settled == done[2].kind # "failed" /\ r.op \in {"Commit", "Discard", "Load", "Close"}
           dropped == r.op = "Close" /\ done[2].kind = "ok" /\ cli[c].cmd = "exit"
                      /\ daemon.sessions[r.session].cand \notin ghost.ever
       IN  /\ daemon' = done[1]
           /\ resp' = [resp EXCEPT ![c] = <<done[2]>>]
           /\ req' = [req EXCEPT ![c] = <<>>]
           /\ ghost' = [ghost EXCEPT
                !.work[c] = IF settled THEN {} ELSE IF r.op = "Set" /\ done[2].kind = "ok" THEN {r.val} ELSE @,
                !.opened[c] = IF done[2].kind = "session" THEN @ \cup {done[2].val} ELSE @,
                !.committed[c] = IF changed THEN @ + 1 ELSE @,
                !.verdict[c] = IF r.op = "Commit" THEN done[2].kind ELSE @,
                !.lost = @ \/ dropped,
                !.ever = @ \cup {done[1].running}]
    /\ UNCHANGED <<cli, conn>>

\* Wrong variant of ServeTooLarge: the answer is dropped and the connection served on.
ServeTooLargeOn(c) ==
    /\ "large" \in Faults /\ daemon.up # "down" /\ conn[c] = "open" /\ req[c] # <<>>
    /\ Handle(c, req[c][1])[2].kind = "report"
    /\ req' = [req EXCEPT ![c] = <<>>]
    /\ UNCHANGED <<cli, conn, resp, daemon, ghost>>

\* The answer does not fit in a frame: what was asked is done, and serve() ends.
ServeTooLarge(c) ==
    /\ "large" \in Faults /\ daemon.up # "down" /\ conn[c] = "open" /\ req[c] # <<>>
    /\ Handle(c, req[c][1])[2].kind = "report"
    /\ conn' = [conn EXCEPT ![c] = "closed"]
    /\ req' = [req EXCEPT ![c] = <<>>]
    /\ UNCHANGED <<cli, resp, daemon, ghost>>

\* Close the connection of every process in C, frames under way included.
Cut(C) ==
    /\ conn' = [c \in Clis |-> IF c \in C /\ conn[c] = "open" THEN "closed" ELSE conn[c]]
    /\ req' = [c \in Clis |-> IF c \in C THEN <<>> ELSE req[c]]

\* IDLE_TIMEOUT with nothing read.
IdleTimeout(c) ==
    /\ "idle" \in Faults /\ daemon.up # "down" /\ conn[c] = "open" /\ req[c] = <<>>
    /\ resp[c] = <<>> /\ cli[c].pc \in {"ready", "shell"}
    /\ Cut({c})
    /\ UNCHANGED <<cli, resp, daemon, ghost>>

\* SIGTERM: no more connections; those there are go on being served, until they have
\* all ended or DRAIN_TIMEOUT is over and their tasks are dropped.
Shutdown ==
    /\ "stop" \in Faults /\ daemon.up = "up"
    /\ daemon' = [daemon EXCEPT !.up = "draining"]
    /\ UNCHANGED <<cli, conn, req, resp, ghost>>

Drained ==
    /\ daemon.up = "draining"
    /\ daemon' = [daemon EXCEPT !.up = "down"]
    /\ Cut(Clis)
    /\ UNCHANGED <<cli, resp, ghost>>

\* The process dies: frames it has not written are not written.
Crash ==
    /\ "crash" \in Faults /\ daemon.up # "down"
    /\ daemon' = [daemon EXCEPT !.up = "down"]
    /\ Cut(Clis)
    /\ \E C \in SUBSET {c \in Clis : resp[c] # <<>>} :
         resp' = [c \in Clis |-> IF c \in C THEN <<>> ELSE resp[c]]
    /\ UNCHANGED <<cli, ghost>>

\* systemd starts it again; sessions and configuration are what Configd recovers.
Start ==
    /\ daemon.up = "down" /\ ghost.starts < MaxStarts
    /\ daemon' = [daemon EXCEPT !.up = "up"]
    /\ ghost' = [ghost EXCEPT !.starts = @ + 1]
    /\ UNCHANGED <<cli, conn, req, resp>>

(***************************************************************************)
(* The CLI                                                                 *)
(***************************************************************************)

Request(c, op, v) == [op |-> op, session |-> cli[c].session, val |-> v]

\* Cli::refresh: running for the host name, the candidate for completion.
RefreshCalls(c) ==
    IF cli[c].session = NoSession THEN <<Request(c, "ShowRunning", First)>>
    ELSE <<Request(c, "ShowRunning", First), Request(c, "ShowCandidate", First)>>

\* Client::connect, and main's way to the first refresh.  A peer that is refused is
\* answered with the reason and the connection is closed behind it.
Connect(c) ==
    /\ cli[c].pc = "off" /\ daemon.up = "up"
    /\ cli' = [cli EXCEPT ![c].pc = "call", ![c].cmd = "refresh", ![c].left = RefreshCalls(c)]
    /\ conn' = [conn EXCEPT ![c] = IF Authenticate(c) THEN "open" ELSE "closed"]
    /\ resp' = [resp EXCEPT ![c] = IF Authenticate(c) THEN <<>> ELSE <<Failed("Refused")>>]
    /\ UNCHANGED <<req, daemon, ghost>>

\* No daemon: no_session.
ConnectFails(c) ==
    /\ cli[c].pc = "off" /\ daemon.up = "down"
    /\ cli' = [cli EXCEPT ![c].pc = "done", ![c].outcome = "CommandError"]
    /\ UNCHANGED <<conn, req, resp, daemon, ghost>>

\* What a verb does: the calls it makes, by mode.  A verb that is not one of the mode's,
\* or whose words do not parse, makes none.
OpShow(c) == <<Request(c, "Report", First)>>
ClearCounters(c) == <<Request(c, "ClearCounters", First)>>
Shell(c) == <<Request(c, "ShellEnter", First), Request(c, "ShellLeave", First)>>

Operational(c, cmd) ==
    CASE cmd = "configure" -> <<Request(c, "Open", First)>>
      [] cmd = "show"      -> OpShow(c)
      [] cmd = "clear"     -> ClearCounters(c)
      [] cmd = "shell"     -> Shell(c)
      [] OTHER             -> <<>>

\* `commit` whose words parse; `commit confirm` without minutes makes no call.
Commit(c) == <<Request(c, "Commit", First)>>

\* `exit` asks first what would be lost; `exit discard` does not.
LeaveConfiguration(c, discarding) ==
    IF discarding THEN <<Request(c, "Close", First)>>
    ELSE <<Request(c, "Compare", First), Request(c, "Close", First)>>

\* Wrong variant of Configuration: `exit` closes without asking what would be lost.
ConfigurationHasty(c, cmd) ==
    CASE cmd \in Values    -> <<Request(c, "Set", cmd)>>
      [] cmd = "commit"    -> <<Request(c, "Commit", First)>>
      [] cmd \in {"exit", "exit discard"} -> <<Request(c, "Close", First)>>
      [] OTHER             -> <<>>

Configuration(c, cmd) ==
    CASE cmd \in Values    -> <<Request(c, "Set", cmd)>>
      [] cmd = "show"      -> <<Request(c, "ShowCandidate", First), Request(c, "ShowRunning", First)>>
      [] cmd = "compare"   -> <<Request(c, "Compare", First)>>
      [] cmd = "commit"    -> Commit(c)
      [] cmd = "discard"   -> <<Request(c, "Discard", First)>>
      [] cmd = "load"      -> <<Request(c, "Load", First)>>
      [] cmd = "save"      -> <<Request(c, "Save", First)>>
      [] cmd \in {"exit", "exit discard"} -> LeaveConfiguration(c, cmd = "exit discard")
      [] OTHER             -> <<>>

Calls(c, cmd) == IF cli[c].mode = "operational" THEN Operational(c, cmd) ELSE Configuration(c, cmd)

\* What a command without calls comes to: `exit` and Ctrl-D leave operational mode, ping
\* is its program's, edit, up and top move in the tree, anything else is no command here.
Ping == {"Ok", "CommandError"}
Unknown == {"CommandError"}

Local(c, cmd) ==
    IF cli[c].mode = "operational"
    THEN IF cmd \in {"exit", "exit discard"} THEN {"Leave"} ELSE IF cmd = "ping" THEN Ping ELSE Unknown
    ELSE IF cmd \in {"edit", "top"} THEN {"Ok"} ELSE Unknown

\* Outcome::of.
OutcomeOf(why) == IF why \in {"Validation", "Conflict"} THEN "ConfigError" ELSE "CommandError"

\* batch(): configure, the lines, commit, exit; exit discard after the first failure.
Batch == <<"configure">> \o Script \o <<"commit", "exit">>

\* The next line a process runs: typed, or the batch's.
NextLine(c) ==
    CASE Kind[c] = "batch" -> IF cli[c].outcome = "Ok" THEN {Batch[cli[c].line + 1]} ELSE {"exit discard"}
      [] Kind[c] = "oneshot" -> {"show"}
      [] OTHER -> Typed

\* Where a process goes when a command has come to outcome o.
After(c, k, o) ==
    LET last == \/ Kind[c] = "oneshot"
                \/ o = "Leave" /\ Kind[c] = "interactive"
                \/ Kind[c] = "batch" /\ (cli[c].outcome # "Ok" \/ cli[c].line + 1 = Len(Batch)
                                         \/ (o # "Ok" /\ cli[c].line = 0))
        \* The file's own outcome survives the clean-up, and a refused final exit is not one.
        kept == IF Kind[c] = "batch" /\ (cli[c].outcome # "Ok" \/ cli[c].line + 1 = Len(Batch))
                THEN cli[c].outcome ELSE o
    IN  [k EXCEPT !.pc = IF last THEN "done" ELSE "refresh", !.outcome = kept, !.left = <<>>,
                  !.line = IF Kind[c] = "batch" /\ o = "Ok" /\ kept = "Ok" /\ ~last THEN @ + 1 ELSE @]

\* A line of the file failed: what batch() prints.
Says(c, o) ==
    IF Kind[c] = "batch" /\ cli[c].outcome = "Ok" /\ o # "Ok" /\ cli[c].line \in 1..Len(Script)
    THEN "nothing has been committed" ELSE ghost.said[c]

Finish(c, k, o) ==
    /\ cli' = [cli EXCEPT ![c] = After(c, k, o)]
    /\ ghost' = [ghost EXCEPT !.said[c] = Says(c, o)]

Refresh(c) ==
    /\ cli[c].pc = "refresh"
    /\ cli' = [cli EXCEPT ![c].pc = "call", ![c].cmd = "refresh", ![c].left = RefreshCalls(c)]
    /\ UNCHANGED <<conn, req, resp, daemon, ghost>>

Run(c, cmd) ==
    /\ cli[c].pc = "ready" /\ cmd \in NextLine(c)
    /\ Kind[c] = "interactive" => cli[c].typed < MaxCommands \/ cmd = "exit discard"
    /\ LET k == [cli[c] EXCEPT !.cmd = cmd, !.typed = IF @ < MaxCommands THEN @ + 1 ELSE @]
       IN  IF Calls(c, cmd) = <<>> THEN \E o \in Local(c, cmd) : Finish(c, k, o)
           ELSE /\ cli' = [cli EXCEPT ![c] = [k EXCEPT !.pc = "call", !.left = Calls(c, cmd)]]
                /\ UNCHANGED ghost
    /\ UNCHANGED <<conn, req, resp, daemon>>

\* Client::call: the request is written, unless the connection is known to be gone.
Send(c) ==
    /\ cli[c].pc = "call" /\ conn[c] = "open"
    /\ req' = [req EXCEPT ![c] = <<Head(cli[c].left)>>]
    /\ cli' = [cli EXCEPT ![c].pc = "wait"]
    /\ UNCHANGED <<conn, resp, daemon, ghost>>

\* The connection is gone and nothing is left to read: ClientError::Transport, which a
\* refresh swallows and everything else ends with.
Severed(c) ==
    /\ cli[c].pc \in {"call", "wait"} /\ conn[c] = "closed" /\ resp[c] = <<>>
    /\ IF cli[c].cmd = "refresh"
       THEN /\ cli' = [cli EXCEPT ![c].pc = "ready", ![c].left = <<>>]
            /\ ghost' = [ghost EXCEPT !.severed[c] = TRUE]
       ELSE /\ cli' = [cli EXCEPT ![c] = After(c, cli[c], "CommandError")]
            /\ ghost' = [ghost EXCEPT !.severed[c] = TRUE, !.said[c] = Says(c, "CommandError")]
    /\ UNCHANGED <<conn, req, resp, daemon>>

\* Wrong variant of Verdict: the last answer is not looked at.
VerdictBlind(c, a) ==
    IF cli[c].cmd = "refresh" \/ Len(cli[c].left) > 1 THEN "go on" ELSE "Ok"

\* What one answer makes of the command: "go on", or its outcome.
Verdict(c, a) ==
    LET cmd == cli[c].cmd
        op == Head(cli[c].left).op
    IN  IF cmd = "refresh" THEN "go on"
        ELSE IF op = "Close" THEN "Ok"
        ELSE IF a.kind = "failed"
             THEN IF op \in {"Open", "Compare", "ShowCandidate", "ShowRunning"} THEN "CommandError" ELSE OutcomeOf(a.val)
        ELSE IF cmd = "exit" /\ a.val = TRUE THEN "ConfigError"
        ELSE IF Len(cli[c].left) > 1 THEN "go on" ELSE "Ok"

\* read_blocking, and what the command does with the answer.  Entering and leaving
\* configuration mode is done here.
Reply(c) ==
    /\ cli[c].pc \in {"wait", "call"} /\ resp[c] # <<>>
    /\ resp' = [resp EXCEPT ![c] = <<>>]
    /\ LET a == resp[c][1]
           op == Head(cli[c].left).op
           v == Verdict(c, a)
           k == IF op = "Open" /\ a.kind = "session"
                THEN [cli[c] EXCEPT !.session = a.val, !.mode = "configuration", !.prefix = FALSE]
                ELSE IF op = "Close"
                THEN [cli[c] EXCEPT !.session = NoSession, !.mode = "operational", !.prefix = FALSE]
                ELSE cli[c]
           rest == Tail(cli[c].left)
           shown == a.kind = "failed" /\ a.val = "Refused" /\ cli[c].cmd # "refresh"
       IN  IF v = "go on"
           THEN /\ cli' = [cli EXCEPT ![c].left = rest,
                             ![c].pc = IF op = "ShellEnter" THEN "shell" ELSE IF rest = <<>> THEN "ready" ELSE "call"]
                /\ ghost' = [ghost EXCEPT !.told[c] = @ \/ shown]
           ELSE /\ cli' = [cli EXCEPT ![c] = After(c, k, v)]
                /\ ghost' = [ghost EXCEPT !.told[c] = @ \/ shown, !.said[c] = Says(c, v)]
    /\ UNCHANGED <<conn, req, daemon>>

\* shell::run returns, and the operator's leaving is recorded.
LeaveShell(c) ==
    /\ cli[c].pc = "shell"
    /\ cli' = [cli EXCEPT ![c].pc = "call"]
    /\ UNCHANGED <<conn, req, resp, daemon, ghost>>

\* The process ends, by itself or with its terminal, and the operator starts another.
\* Its connection ends; the daemon keeps its session.
Reconnect(c) ==
    /\ cli[c].pc \in {"ready", "done"} /\ Kind[c] = "interactive" /\ cli[c].typed < MaxCommands
    /\ cli' = [cli EXCEPT ![c] = [Cli0 EXCEPT !.typed = cli[c].typed + 1]]
    /\ conn' = [conn EXCEPT ![c] = "none"]
    /\ req' = [req EXCEPT ![c] = <<>>] /\ resp' = [resp EXCEPT ![c] = <<>>]
    /\ ghost' = [ghost EXCEPT !.severed[c] = FALSE]
    /\ UNCHANGED daemon

CanOpen == Len(daemon.sessions) + Cardinality({c \in Clis : cli[c].cmd = "configure" /\ cli[c].pc \in {"call", "wait"}}) < MaxSessions

Next ==
    \/ \E c \in Clis :
         \/ Connect(c) \/ ConnectFails(c) \/ Refresh(c) \/ Send(c) \/ Severed(c) \/ Reply(c)
         \/ LeaveShell(c) \/ Reconnect(c) \/ Serve(c) \/ ServeTooLarge(c) \/ IdleTimeout(c)
         \/ \E cmd \in Typed \cup ToSet(Batch) \cup {"show", "exit discard"} :
              (cmd = "configure" => CanOpen) /\ Run(c, cmd)
    \/ Shutdown \/ Drained \/ Crash \/ Start

\* The CLI is a loop that runs; tokio polls a connection that has a request to read.
Fairness == \A c \in Clis : WF_vars(Send(c)) /\ WF_vars(Severed(c)) /\ WF_vars(Reply(c))
                            /\ WF_vars(Serve(c) \/ ServeTooLarge(c)) /\ WF_vars(Refresh(c))

Spec == Init /\ [][Next]_vars

FairSpec == Spec /\ Fairness

\* An operator who wants to leave: whenever there is a prompt, types the command for it.
LeavingSpec ==
    FairSpec /\ \A c \in Clis : WF_vars(Connect(c)) /\ SF_vars(Run(c, "exit discard"))

(***************************************************************************)
(* Properties                                                              *)
(***************************************************************************)

TypeOK ==
    /\ \A c \in Clis :
         /\ cli[c].pc \in {"off", "refresh", "ready", "call", "wait", "shell", "done"}
         /\ cli[c].mode \in {"operational", "configuration"}
         /\ cli[c].session \in 0..MaxSessions
         /\ cli[c].outcome \in {"Ok", "Leave", "CommandError", "ConfigError"}
         /\ conn[c] \in {"none", "open", "closed"}
         /\ Len(req[c]) <= 1 /\ Len(resp[c]) <= 1
         /\ cli[c].pc \in {"call", "wait", "shell"} => cli[c].left # <<>>
    /\ daemon.up \in {"up", "draining", "down"}
    /\ daemon.running \in Values \ Refused
    /\ Len(daemon.sessions) <= MaxSessions

\* Configuration mode has a session (repl.rs: expect("configuration mode has a
\* session")): one the daemon opened for this operator, no other process is in it, and
\* while the connection lasts it has not been closed behind the operator's back.
ModeHasItsSession ==
    \A c \in Clis : cli[c].mode = "configuration" =>
        /\ Owned(c, cli[c].session)
        /\ \A d \in Clis \ {c} : cli[d].mode = "configuration" => cli[d].session # cli[c].session
        /\ conn[c] = "open" /\ daemon.sessions[cli[c].session].gone =>
               cli[c].pc = "wait" /\ Head(cli[c].left).op = "Close"

\* `exit` and Ctrl-D never throw away what was set in the session and has not been
\* running since (repl.rs: "refusing to lose work"), whoever commits between the
\* comparison and the close.
ExitKeepsWork == ~ghost.lost

\* The exit code of a commit says what the daemon did: success means it was committed, a
\* configuration error that it was refused.  A failed connection says neither.
CommitCodeIsTrue ==
    \A c \in Clis : cli[c].cmd = "commit" /\ cli[c].mode = "configuration"
                    /\ cli[c].pc \in {"refresh", "done"} =>
        /\ cli[c].outcome = "Ok" => ghost.verdict[c] = "committed"
        /\ cli[c].outcome = "ConfigError" => ghost.verdict[c] = "failed"

\* A batch that failed has committed nothing and its candidate is thrown away (main.rs:
\* "so a half-applied batch cannot be committed later by somebody who did not run it"),
\* when its connection lasted; one that succeeded has its configuration committed.
BatchIsWhole ==
    \A c \in Clis : Kind[c] = "batch" /\ cli[c].pc = "done" /\ ~ghost.severed[c] =>
        IF cli[c].outcome = "Ok" THEN ghost.verdict[c] = "committed"
        ELSE /\ ghost.committed[c] = 0
             /\ \A s \in ghost.opened[c] : daemon.sessions[s].gone

\* Every call returns: with the daemon's answer, or with an error once the connection is
\* gone.  An operator is never left without a prompt.
EveryCallReturns == \A c \in Clis : cli[c].pc = "wait" ~> cli[c].pc # "wait"

\* A claim that does not hold (README, "Where the code and its words part").
\* `exit` logs the operator out (main.rs: "`exit` returns Ok and should log the operator
\* out; that is the whole point of it"): who keeps asking to leave does.
ExitLogsOut == \A c \in Clis : cli[c].pc = "ready" ~> cli[c].pc = "done"

\* A claim that does not hold (README, "Where the code and its words part").
\* Reconnecting loses nothing (server.rs: "The candidate is in /run regardless, so the
\* operator loses nothing by reconnecting"): in configuration mode an operator works on
\* the candidate that has what they set and have not committed or thrown away.
ReconnectingLosesNothing ==
    \A c \in Clis : cli[c].mode = "configuration" /\ cli[c].pc = "ready" /\ conn[c] = "open" /\ ~ghost.severed[c] =>
        ghost.work[c] \subseteq {daemon.sessions[cli[c].session].cand}

\* A claim that does not hold (README, "Where the code and its words part").
\* A batch that says nothing has been committed has committed nothing (main.rs: "failed;
\* nothing has been committed").
NothingCommittedIsTrue ==
    \A c \in Clis : ghost.said[c] = "nothing has been committed" => ghost.committed[c] = 0

\* A claim that does not hold (README, "Where the code and its words part").
\* A refused operator is told why (server.rs: "Answered rather than dropped, so the
\* operator gets the reason instead of a closed socket").
RefusalIsTold ==
    \A c \in Clis : ~Authenticate(c) /\ conn[c] = "closed" /\ cli[c].pc = "done" => ghost.told[c]
====
