---- MODULE OperatorSessionProofs ----
(***************************************************************************)
(* What OperatorSession promises, for any number of operators, any batch   *)
(* file and any commands, through idle timeouts, restarts and crashes:     *)
(* every process in configuration mode has a session of its own, a plain   *)
(* `exit` never throws away work, the exit code of a commit is what the    *)
(* daemon did with it, and a batch is committed as a whole or not at all.  *)
(***************************************************************************)
EXTENDS OperatorSession, SequenceTheorems, TLAPS

Commands == Lines \cup {"", "refresh"}

Requests == [op : {"Open", "Close", "Set", "Load", "Compare", "Discard", "Commit", "Save",
                   "ShellEnter", "ShellLeave", "ShowCandidate", "ShowRunning", "Report",
                   "ClearCounters"},
             session : Nat, val : Values]

Owners == {Uid[c] : c \in Clis}

Outcomes == {"Ok", "Leave", "CommandError", "ConfigError"}

Processes ==
    [pc : {"off", "refresh", "ready", "call", "wait", "shell", "done"},
     mode : {"operational", "configuration"}, session : Nat, prefix : BOOLEAN,
     cmd : Commands, left : Seq(Requests), outcome : Outcomes, line : Nat, typed : Nat]

CliType == cli \in [Clis -> Processes]

SessionRecords == [owner : Owners, cand : Values, base : Nat, gone : BOOLEAN]
Daemons == [up : {"up", "draining", "down"}, running : Values, gen : Nat, saved : Values,
            sessions : Seq(SessionRecords)]

DaemonType == daemon \in Daemons

FrameType ==
    /\ conn \in [Clis -> {"none", "open", "closed"}]
    /\ DOMAIN req = Clis /\ DOMAIN resp = Clis
    /\ {"verdict", "ever", "lost"} \subseteq DOMAIN ghost /\ DOMAIN ghost.verdict = Clis

Types == CliType /\ DaemonType /\ FrameType

(***************************************************************************)
(* The inductive invariant                                                 *)
(***************************************************************************)

\* A process with calls to make.
Busy(c) == cli[c].pc \in {"call", "wait", "shell"}

\* The calls left of a command: all for the session of the mode, a commit and an `open`
\* alone, a close last, and in an `exit` after its comparison.
Fit(left, cmd, mode, session) ==
    /\ Len(left) \in {1, 2}
    /\ left[1].session = session
    /\ Len(left) # 1 => left[2].session = session
    /\ left[1].op = "Commit" <=> cmd = "commit"
    /\ left[1].op = "Open" => cmd = "configure" /\ mode = "operational"
    /\ left[1].op = "Close" => cmd \in {"exit", "exit discard"} /\ Len(left) = 1
    /\ cmd \in {"commit", "configure"} => Len(left) = 1
    /\ cmd = "commit" => mode = "configuration"
    /\ cmd = "refresh" => /\ left[1].op \in {"ShowRunning", "ShowCandidate"}
                          /\ Len(left) # 1 => left[2].op = "ShowCandidate"
    /\ cmd = "exit" => /\ mode = "configuration"
                       /\ Len(left) = 1 => left[1].op = "Close"
                       /\ Len(left) # 1 => left[1].op = "Compare" /\ left[2].op = "Close"
    /\ Len(left) # 1 => left[2].op \in {"ShowCandidate", "ShowRunning", "ShellLeave", "Close"}
    /\ Len(left) # 1 /\ left[2].op = "Close" => cmd = "exit"

CallsFit(c) == Fit(cli[c].left, cli[c].cmd, cli[c].mode, cli[c].session)

CliInv(c) ==
    /\ cli[c].mode = "configuration" <=> cli[c].session # NoSession
    /\ Busy(c) => CallsFit(c)
    /\ cli[c].pc = "off" => cli[c].session = NoSession
    /\ conn[c] = "none" => cli[c].pc \in {"off", "done"}
    /\ Kind[c] = "batch" => cli[c].line < Len(Batch)
    /\ Kind[c] = "batch" /\ Busy(c) /\ cli[c].cmd = "commit" =>
           cli[c].outcome = "Ok" /\ cli[c].line + 1 # Len(Batch)

\* A request under way is the call being made; an answer is to it, or is the refusal
\* the first call of a process finds.
FrameInv(c) ==
    /\ req[c] # <<>> => /\ req[c] = <<cli[c].left[1]>> /\ resp[c] = <<>>
                        /\ cli[c].pc = "wait" /\ conn[c] = "open"
    /\ resp[c] # <<>> => \/ cli[c].pc = "wait"
                         \/ /\ cli[c].pc = "call" /\ cli[c].cmd = "refresh"
                            /\ conn[c] = "closed" /\ resp[c] = <<Failed("Refused")>>

\* While the connection lasts the session is closed only by the call that leaves it.
GoneInv(c) ==
    cli[c].mode = "configuration" /\ conn[c] = "open"
      /\ daemon.sessions[cli[c].session].gone =>
           cli[c].pc = "wait" /\ cli[c].left[1].op = "Close" /\ resp[c] # <<>>

\* What an answer says is so when it is read: a commit's is the daemon's verdict, and a
\* comparison without changes is of a candidate that has been running.
AnswerInv(c) ==
    /\ resp[c] # <<>> =>
         LET a == resp[c][1]
             op == cli[c].left[1].op
         IN  /\ a.kind = "session" => /\ op = "Open" /\ a.val \in Nat \ {0}
                                      /\ ~daemon.sessions[a.val].gone
             /\ op = "Commit" => a.kind = ghost.verdict[c] /\ a.kind \in {"committed", "failed"}
             /\ op = "Compare" /\ a.kind # "failed" /\ cli[c].mode = "configuration" =>
                    a.val = TRUE \/ daemon.sessions[cli[c].session].cand \in ghost.ever
    /\ Busy(c) /\ cli[c].cmd = "exit" /\ cli[c].left[1].op = "Close" =>
           daemon.sessions[cli[c].session].cand \in ghost.ever

\* CommitCodeIsTrue of one process.
CodeInv(c) ==
    cli[c].cmd = "commit" /\ cli[c].mode = "configuration" /\ cli[c].pc \in {"refresh", "done"} =>
        /\ cli[c].outcome = "Ok" => ghost.verdict[c] = "committed"
        /\ cli[c].outcome = "ConfigError" => ghost.verdict[c] = "failed"

Mine(c) == CliInv(c) /\ FrameInv(c) /\ GoneInv(c) /\ AnswerInv(c) /\ CodeInv(c)

\* The session a process is in, or has just been given.
Holds(c) ==
    {s \in Nat : \/ cli[c].mode = "configuration" /\ s = cli[c].session
                 \/ resp[c] # <<>> /\ resp[c][1].kind = "session" /\ s = resp[c][1].val}

\* Each is the operator's, and nobody else's.
SessionInv ==
    \A c \in Clis :
        /\ \A s \in Holds(c) : Owned(c, s)
        /\ \A d \in Clis \ {c} : Holds(c) \cap Holds(d) = {}

Inv ==
    /\ Types /\ (\A c \in Clis : Mine(c)) /\ SessionInv
    /\ daemon.running \in ghost.ever /\ ExitKeepsWork

-----------------------------------------------------------------------------
(* Steps of one process *)

LEMMA BatchFacts ==
    ASSUME Vocabulary
    PROVE  /\ Batch \in Seq(Lines) /\ Len(Batch) \in Nat \ {0}
           /\ Batch[Len(Batch)] = "exit"
<1>1. Script \in Seq(Lines) /\ "configure" \in Lines /\ "commit" \in Lines /\ "exit" \in Lines
  BY DEF Vocabulary, Lines, Verbs
<1> DEFINE start == <<"configure">> \o Script
           end == <<"commit", "exit">>
<1>2. <<"configure">> \in Seq(Lines) /\ end \in Seq(Lines) /\ Len(end) = 2 /\ end[2] = "exit"
  BY <1>1
<1>3. start \in Seq(Lines) /\ Len(start) \in Nat
  BY <1>1, <1>2
<1>4. Batch = start \o end
  BY DEF Batch
<1> QED BY <1>2, <1>3, <1>4

LEMMA OneOrTwo ==
    ASSUME NEW l \in Seq(Requests), Len(l) \in {1, 2}
    PROVE  /\ l # <<>> /\ Head(l) = l[1] /\ Tail(l) \in Seq(Requests)
           /\ Len(l) = 1 => Tail(l) = <<>>
           /\ Len(l) # 1 => Len(Tail(l)) = 1 /\ Tail(l)[1] = l[2]
           /\ Len(l) > 1 => Len(l) # 1
<1>1. l # <<>>
  OBVIOUS
<1>2. Head(l) = l[1] /\ Tail(l) \in Seq(Requests) /\ Len(Tail(l)) = Len(l) - 1
  BY <1>1
<1>3. Len(l) = 1 => Tail(l) = <<>>
  <2>1. Len(l) = 1 => Len(Tail(l)) = 0
    BY <1>2
  <2> QED BY <1>2, <2>1, EmptySeq
<1>4. ASSUME Len(l) = 2 PROVE Len(Tail(l)) = 1 /\ Tail(l)[1] = l[2]
  BY <1>1, <1>2, <1>4
<1>5. Len(l) > 1 => Len(l) # 1
  OBVIOUS
<1> QED BY <1>1, <1>2, <1>3, <1>4, <1>5

LEMMA RefreshFacts ==
    ASSUME Vocabulary, NEW session \in Nat, NEW c \in Clis, cli[c].session = session,
           NEW mode
    PROVE  RefreshCalls(c) \in Seq(Requests) /\ Fit(RefreshCalls(c), "refresh", mode, session)
<1> DEFINE running == Request(c, "ShowRunning", First)
           candidate == Request(c, "ShowCandidate", First)
<1>1. /\ running \in Requests /\ running.op = "ShowRunning" /\ running.session = session
      /\ candidate \in Requests /\ candidate.op = "ShowCandidate" /\ candidate.session = session
  BY DEF Request, Requests, Vocabulary
<1> HIDE DEF running, candidate
<1>2. RefreshCalls(c) \in {<<running>>, <<running, candidate>>}
  BY DEF RefreshCalls, running, candidate
<1>3. CASE RefreshCalls(c) = <<running>>
  BY <1>1, <1>3 DEF Fit
<1>4. CASE RefreshCalls(c) = <<running, candidate>>
  BY <1>1, <1>4 DEF Fit
<1> QED BY <1>2, <1>3, <1>4

\* The calls of a typed command fit it.
LEMMA CallsFacts ==
    ASSUME Vocabulary, NEW c \in Clis, cli[c] \in Processes, NEW cmd \in Lines,
           Calls(c, cmd) # <<>>
    PROVE  /\ Calls(c, cmd) \in Seq(Requests)
           /\ Fit(Calls(c, cmd), cmd, cli[c].mode, cli[c].session)
           /\ cmd = "exit" => Calls(c, cmd)[1].op = "Compare"
<1> DEFINE R(op) == Request(c, op, First)
           here == cli[c].session
           mode == cli[c].mode
<1>1. mode \in {"operational", "configuration"} /\ here \in Nat
  BY DEF Processes
<1>2. ASSUME NEW r \in Requests, r.session = here, NEW w \in Lines,
             r.op = "Commit" <=> w = "commit", w = "commit" => mode = "configuration",
             r.op = "Open" => w = "configure" /\ mode = "operational",
             r.op = "Close" => w = "exit discard", w # "exit"
      PROVE  <<r>> \in Seq(Requests) /\ Fit(<<r>>, w, mode, here)
  <2>0. w # "refresh"
    BY DEF Lines, Verbs, Vocabulary
  <2> DEFINE l == <<r>>
  <2>1. l \in Seq(Requests) /\ Len(l) = 1 /\ l[1] = r
    OBVIOUS
  <2> HIDE DEF l
  <2>2. Fit(l, w, mode, here)
    BY <1>1, <1>2, <2>0, <2>1 DEF Fit
  <2> QED BY <2>1, <2>2 DEF l
<1>3. ASSUME NEW r \in Requests, NEW q \in Requests, r.session = here, q.session = here,
             NEW w \in Lines \ {"commit", "configure"},
             r.op \notin {"Commit", "Open", "Close"},
             q.op \in {"ShowCandidate", "ShowRunning", "ShellLeave", "Close"},
             w = "exit" <=> q.op = "Close",
             w = "exit" => r.op = "Compare" /\ mode = "configuration"
      PROVE  <<r, q>> \in Seq(Requests) /\ Fit(<<r, q>>, w, mode, here)
  <2>1. w # "refresh"
    BY DEF Lines, Verbs, Vocabulary
  <2> QED BY <1>3, <2>1 DEF Fit
<1>4. ASSUME NEW op \in {"Open", "Close", "Load", "Compare", "Discard", "Commit", "Save",
                         "ShellEnter", "ShellLeave", "ShowCandidate", "ShowRunning", "Report",
                         "ClearCounters"}
      PROVE  R(op) \in Requests /\ R(op).op = op /\ R(op).session = here
  BY <1>1 DEF Request, Requests, Vocabulary
<1>5. ASSUME NEW v \in Values
      PROVE  /\ Request(c, "Set", v) \in Requests /\ Request(c, "Set", v).op = "Set"
             /\ Request(c, "Set", v).session = here
  BY <1>1 DEF Request, Requests
<1>6. CASE mode = "operational"
  BY <1>2, <1>3, <1>4, <1>6
     DEF Calls, Operational, OpShow, ClearCounters, Shell, Lines, Verbs, Vocabulary
<1>7. CASE mode = "configuration"
  <2>1. CASE cmd \in Values
    BY <1>2, <1>5, <1>7, <2>1 DEF Calls, Configuration, Lines, Verbs, Vocabulary
  <2>2. CASE cmd = "exit"
    BY <1>3, <1>4, <1>7, <2>2
       DEF Calls, Configuration, LeaveConfiguration, Lines, Verbs, Vocabulary
  <2>3. CASE cmd = "exit discard"
    BY <1>2, <1>4, <1>7, <2>3
       DEF Calls, Configuration, LeaveConfiguration, Lines, Verbs, Vocabulary
  <2>4. CASE cmd \in Verbs \ {"exit", "exit discard"}
    BY <1>2, <1>3, <1>4, <1>7, <2>4 DEF Calls, Configuration, Commit, Lines, Verbs, Vocabulary
  <2> QED BY <2>1, <2>2, <2>3, <2>4 DEF Lines
<1> QED BY <1>1, <1>6, <1>7

\* Nothing of d changes.
Same(d) ==
    /\ cli'[d] = cli[d] /\ conn'[d] = conn[d] /\ req'[d] = req[d] /\ resp'[d] = resp[d]
    /\ ghost'.verdict[d] = ghost.verdict[d]

\* A step of one process that leaves the daemon alone.
LEMMA OneMoves ==
    ASSUME Inv, Types', NEW c \in Clis, daemon' = daemon,
           ghost'.ever = ghost.ever, ghost'.lost = ghost.lost,
           \A d \in Clis \ {c} : Same(d), Mine(c)', Holds(c)' \subseteq Holds(c)
    PROVE  Inv'
<1>1. ASSUME NEW d \in Clis \ {c} PROVE Mine(d)' /\ Holds(d)' = Holds(d)
  <2>1. Mine(d) /\ Same(d)
    BY DEF Inv
  <2>2. CliInv(d)' /\ FrameInv(d)' /\ CodeInv(d)'
    <3>1. CliInv(d)'
      <4>1. Busy(d)' = Busy(d)
        BY <2>1 DEF Busy, Same
      <4>2. CallsFit(d) => CallsFit(d)'
        BY <2>1 DEF CallsFit, Fit, Same
      <4>3. Len(Batch)' = Len(Batch)
        BY DEF Batch
      <4> QED BY <2>1, <4>1, <4>2, <4>3 DEF Mine, CliInv, Same, NoSession
    <3>2. FrameInv(d)' /\ CodeInv(d)'
      BY <2>1 DEF Mine, FrameInv, CodeInv, Same
    <3> QED BY <3>1, <3>2
  <2>3. GoneInv(d)' /\ AnswerInv(d)'
    BY <2>1 DEF Mine, GoneInv, AnswerInv, Busy, Same
  <2>4. Holds(d)' = Holds(d)
    BY <2>1 DEF Holds, Same
  <2> QED BY <2>2, <2>3, <2>4 DEF Mine
<1>2. SessionInv'
  <2>1. ASSUME NEW d \in Clis PROVE Holds(d)' \subseteq Holds(d)
    BY <1>1
  <2> QED BY <2>1 DEF Inv, SessionInv, Owned
<1> QED BY <1>1, <1>2 DEF Inv, ExitKeepsWork

\* Where a finished command leaves a process.
LEMMA AfterFacts ==
    ASSUME Vocabulary, NEW c \in Clis, NEW k \in Processes, NEW o \in Outcomes,
           cli[c] \in Processes, k.line = cli[c].line,
           Kind[c] = "batch" => cli[c].line < Len(Batch)
    PROVE  LET n == After(c, k, o)
           IN  /\ n \in Processes /\ n.pc \in {"refresh", "done"} /\ n.left = <<>>
               /\ n.mode = k.mode /\ n.session = k.session /\ n.cmd = k.cmd
               /\ Kind[c] # "batch" => n.outcome = o
               /\ cli[c].outcome = "Ok" /\ cli[c].line + 1 # Len(Batch) => n.outcome = o
               /\ Kind[c] = "batch" => n.line < Len(Batch)
<1>1. Len(Batch) \in Nat
  BY BatchFacts
<1> DEFINE n == After(c, k, o)
<1>2. n \in Processes
  <2>1. n.pc \in {"refresh", "done"} /\ n.outcome \in Outcomes /\ n.left \in Seq(Requests)
        /\ n.line \in Nat
    BY DEF After, Processes
  <2>2. n = [k EXCEPT !.pc = n.pc, !.outcome = n.outcome, !.left = n.left, !.line = n.line]
    BY DEF After, Processes
  <2> QED BY <2>1, <2>2 DEF Processes
<1>3. n.pc \in {"refresh", "done"} /\ n.left = <<>> /\ n.mode = k.mode /\ n.session = k.session
      /\ n.cmd = k.cmd
  BY DEF After, Processes
<1>4. /\ Kind[c] # "batch" => n.outcome = o
      /\ cli[c].outcome = "Ok" /\ cli[c].line + 1 # Len(Batch) => n.outcome = o
  BY DEF After, Processes
<1>5. Kind[c] = "batch" => n.line < Len(Batch)
  BY <1>1 DEF After, Processes
<1> QED BY <1>2, <1>3, <1>4, <1>5

\* The history variables a process writes are not those the invariant reads.
LEMMA GhostFrame ==
    ASSUME FrameType, NEW c \in Clis, NEW said, NEW told,
           \/ ghost' = ghost
           \/ ghost' = [ghost EXCEPT !.said[c] = said]
           \/ ghost' = [ghost EXCEPT !.severed[c] = said]
           \/ ghost' = [ghost EXCEPT !.severed[c] = told, !.said[c] = said]
           \/ ghost' = [ghost EXCEPT !.told[c] = told]
           \/ ghost' = [ghost EXCEPT !.told[c] = told, !.said[c] = said]
    PROVE  /\ ghost'.verdict = ghost.verdict /\ ghost'.ever = ghost.ever
           /\ ghost'.lost = ghost.lost /\ DOMAIN ghost' = DOMAIN ghost
  BY DEF FrameType

LEMMA ConnectStep ==
    ASSUME Vocabulary, Inv, NEW c \in Clis, Connect(c) \/ ConnectFails(c)
    PROVE  Inv'
<1>1. /\ Types /\ Mine(c) /\ cli[c] \in Processes /\ cli[c].session = NoSession
      /\ cli[c].mode = "operational" /\ cli[c].pc = "off" /\ cli[c].session \in Nat
  BY DEF Inv, Types, CliType, Mine, CliInv, Connect, ConnectFails, Processes
<1>2. /\ RefreshCalls(c) \in Seq(Requests)
      /\ Fit(RefreshCalls(c), "refresh", cli[c].mode, cli[c].session)
  BY <1>1, RefreshFacts
<1>3. cli' \in [Clis -> Processes] /\ cli'[c].session = NoSession
      /\ cli'[c].mode = "operational"
  <2>1. CASE Connect(c)
    <3>1. cli' = [cli EXCEPT ![c] = [cli[c] EXCEPT !.pc = "call", !.cmd = "refresh",
                                                  !.left = RefreshCalls(c)]]
      BY <1>1, <2>1 DEF Connect, Types, CliType
    <3> QED BY <1>1, <1>2, <3>1 DEF Types, CliType, Processes, Commands
  <2>2. CASE ConnectFails(c)
    BY <1>1, <2>2 DEF Types, CliType, Processes, ConnectFails, Outcomes
  <2> QED BY <2>1, <2>2
<1>4. Types'
  BY <1>1, <1>3 DEF Types, CliType, DaemonType, FrameType, Connect, ConnectFails
<1>5. req[c] = <<>> /\ resp[c] = <<>>
  BY <1>1 DEF Mine, FrameInv
<1>6. Mine(c)'
  <2>1. CASE Connect(c)
    <3>1. /\ cli'[c].pc = "call" /\ cli'[c].cmd = "refresh" /\ cli'[c].left = RefreshCalls(c)
          /\ cli'[c].line = cli[c].line /\ conn'[c] \in {"open", "closed"} /\ req'[c] = <<>>
          /\ \/ resp'[c] = <<>>
             \/ conn'[c] = "closed" /\ resp'[c] = <<Failed("Refused")>>
      BY <1>1, <1>5, <2>1 DEF Connect, Types, CliType, FrameType, Processes
    <3>2. Fit(cli'[c].left, cli'[c].cmd, cli'[c].mode, cli'[c].session)
      BY <1>1, <1>2, <1>3, <3>1
    <3>3. CliInv(c)'
      BY <1>1, <1>3, <3>1, <3>2 DEF CliInv, Mine, Busy, CallsFit, Batch, NoSession
    <3>4. FrameInv(c)'
      BY <3>1 DEF FrameInv, Failed, Answer
    <3>5. GoneInv(c)' /\ AnswerInv(c)' /\ CodeInv(c)'
      BY <1>3, <3>1, <3>2 DEF GoneInv, AnswerInv, CodeInv, Failed, Answer, Fit
    <3> QED BY <3>3, <3>4, <3>5 DEF Mine
  <2>2. CASE ConnectFails(c)
    <3>1. /\ cli'[c].pc = "done" /\ cli'[c].line = cli[c].line
          /\ req'[c] = <<>> /\ resp'[c] = <<>>
      BY <1>1, <1>5, <2>2 DEF ConnectFails, Types, CliType, Processes
    <3>2. CliInv(c)'
      BY <1>1, <1>3, <3>1 DEF CliInv, Mine, Busy, Batch, NoSession
    <3> QED BY <1>3, <3>1, <3>2 DEF Mine, FrameInv, GoneInv, AnswerInv, CodeInv, Busy
  <2> QED BY <2>1, <2>2
<1>7. Holds(c)' \subseteq Holds(c)
  <2>1. resp'[c] = <<>> \/ resp'[c] = <<Failed("Refused")>>
    BY <1>1, <1>5 DEF Connect, ConnectFails, Types, FrameType
  <2>2. ~(resp'[c] # <<>> /\ resp'[c][1].kind = "session")
    BY <2>1 DEF Failed, Answer
  <2> QED BY <1>3, <2>2 DEF Holds
<1>8. \A d \in Clis \ {c} : Same(d)
  BY <1>1 DEF Connect, ConnectFails, Same, Types, CliType, FrameType
<1> QED
  BY <1>4, <1>6, <1>7, <1>8, OneMoves DEF Connect, ConnectFails

LEMMA RefreshStep ==
    ASSUME Vocabulary, Inv, NEW c \in Clis, Refresh(c)
    PROVE  Inv'
<1>1. /\ Types /\ Mine(c) /\ cli[c] \in Processes /\ cli[c].pc = "refresh"
      /\ cli[c].session \in Nat /\ req[c] = <<>> /\ resp[c] = <<>>
  BY DEF Inv, Types, CliType, Mine, FrameInv, Refresh, Processes
<1>2. /\ RefreshCalls(c) \in Seq(Requests)
      /\ Fit(RefreshCalls(c), "refresh", cli[c].mode, cli[c].session)
  BY <1>1, RefreshFacts
<1>3. cli' = [cli EXCEPT ![c] = [cli[c] EXCEPT !.pc = "call", !.cmd = "refresh",
                                              !.left = RefreshCalls(c)]]
  BY <1>1 DEF Refresh, Types, CliType
<1>4. /\ cli' \in [Clis -> Processes] /\ cli'[c].pc = "call" /\ cli'[c].cmd = "refresh"
      /\ cli'[c].left = RefreshCalls(c) /\ cli'[c].line = cli[c].line
      /\ cli'[c].mode = cli[c].mode /\ cli'[c].session = cli[c].session
  BY <1>1, <1>2, <1>3 DEF Types, CliType, Processes, Commands
<1>5. Types' /\ \A d \in Clis \ {c} : Same(d)
  BY <1>1, <1>3, <1>4 DEF Types, CliType, DaemonType, FrameType, Refresh, Same
<1>6. conn'[c] = conn[c] /\ req'[c] = <<>> /\ resp'[c] = <<>> /\ daemon' = daemon
  BY <1>1 DEF Refresh
<1>7. Mine(c)'
  <2>1. CliInv(c)'
    BY <1>1, <1>2, <1>4, <1>6 DEF CliInv, Mine, Busy, CallsFit, Batch, NoSession
  <2>2. GoneInv(c)'
    BY <1>1, <1>4, <1>6 DEF Mine, GoneInv
  <2> QED BY <1>4, <1>6, <2>1, <2>2 DEF Mine, FrameInv, AnswerInv, CodeInv
<1>8. Holds(c)' \subseteq Holds(c)
  BY <1>4, <1>6 DEF Holds
<1> QED
  BY <1>5, <1>7, <1>8, OneMoves DEF Refresh

LEMMA SendStep ==
    ASSUME Vocabulary, Inv, NEW c \in Clis, Send(c) \/ LeaveShell(c)
    PROVE  Inv'
<1>1. /\ Types /\ Mine(c) /\ cli[c] \in Processes /\ cli[c].left \in Seq(Requests)
      /\ Busy(c) /\ CallsFit(c)
  BY DEF Inv, Types, CliType, Mine, CliInv, Send, LeaveShell, Processes, Busy
<1>2. req[c] = <<>> /\ resp[c] = <<>>
  BY <1>1 DEF Send, LeaveShell, Mine, FrameInv
<1>3. PICK pc \in {"call", "wait"} : cli' = [cli EXCEPT ![c] = [cli[c] EXCEPT !.pc = pc]]
  BY <1>1 DEF Send, LeaveShell, Types, CliType
<1>4. /\ cli' \in [Clis -> Processes] /\ cli'[c].pc = pc /\ cli'[c].cmd = cli[c].cmd
      /\ cli'[c].left = cli[c].left /\ cli'[c].line = cli[c].line
      /\ cli'[c].mode = cli[c].mode /\ cli'[c].session = cli[c].session
      /\ cli'[c].outcome = cli[c].outcome
  BY <1>1, <1>3 DEF Types, CliType, Processes
<1>5. Types' /\ \A d \in Clis \ {c} : Same(d)
  BY <1>1, <1>3, <1>4 DEF Types, CliType, DaemonType, FrameType, Send, LeaveShell, Same
<1>6. conn'[c] = conn[c] /\ resp'[c] = <<>> /\ daemon' = daemon /\ ghost' = ghost
  BY <1>2 DEF Send, LeaveShell
<1>7. Mine(c)'
  <2>1. CallsFit(c)'
    BY <1>1, <1>4 DEF CallsFit, Fit
  <2>2. CliInv(c)'
    BY <1>1, <1>4, <1>6, <2>1 DEF CliInv, Mine, Busy, Batch, NoSession
  <2>3. FrameInv(c)'
    <3>1. CASE Send(c)
      <4>1. cli'[c].pc = "wait" /\ conn[c] = "open"
        BY <1>1, <3>1 DEF Send, Types, CliType, Processes
      <4>2. cli[c].left # <<>> /\ Head(cli[c].left) = cli[c].left[1]
        BY <1>1, OneOrTwo DEF CallsFit, Fit
      <4>3. req'[c] = <<cli'[c].left[1]>>
        BY <1>1, <1>4, <3>1, <4>2 DEF Send, Types, FrameType
      <4> QED BY <1>6, <4>1, <4>3 DEF FrameInv
    <3>2. CASE LeaveShell(c)
      BY <1>2, <1>6, <3>2 DEF FrameInv, LeaveShell
    <3> QED BY <3>1, <3>2
  <2>4. GoneInv(c)' /\ AnswerInv(c)' /\ CodeInv(c)'
    BY <1>1, <1>2, <1>4, <1>6 DEF Mine, GoneInv, AnswerInv, CodeInv, Busy
  <2> QED BY <2>2, <2>3, <2>4 DEF Mine
<1>8. Holds(c)' \subseteq Holds(c)
  BY <1>4, <1>6 DEF Holds
<1> QED
  BY <1>5, <1>6, <1>7, <1>8, OneMoves

LEMMA SeveredStep ==
    ASSUME Vocabulary, Inv, NEW c \in Clis, Severed(c)
    PROVE  Inv'
<1>1. /\ Types /\ Mine(c) /\ cli[c] \in Processes /\ conn[c] = "closed" /\ resp[c] = <<>>
      /\ Busy(c) /\ CallsFit(c) /\ FrameType
      /\ Kind[c] = "batch" => cli[c].line < Len(Batch)
  BY DEF Inv, Types, CliType, Mine, CliInv, Severed, Processes, Busy
<1>2. req[c] = <<>>
  BY <1>1 DEF Mine, FrameInv
<1>3. PICK n \in Processes :
          /\ cli' = [cli EXCEPT ![c] = n] /\ n.pc \in {"ready", "refresh", "done"}
          /\ n.mode = cli[c].mode /\ n.session = cli[c].session /\ n.cmd = cli[c].cmd
          /\ n.cmd = "commit" => n.outcome = "CommandError"
          /\ Kind[c] = "batch" => n.line < Len(Batch)
  <2>1. CASE cli[c].cmd = "refresh"
    <3> DEFINE n == [cli[c] EXCEPT !.pc = "ready", !.left = <<>>]
    <3>1. cli' = [cli EXCEPT ![c] = n]
      BY <1>1, <2>1 DEF Severed, Types, CliType
    <3>2. /\ n \in Processes /\ n.pc = "ready" /\ n.mode = cli[c].mode
          /\ n.session = cli[c].session /\ n.cmd = cli[c].cmd /\ n.line = cli[c].line
      <4>1. <<>> \in Seq(Requests)
        BY EmptySeq
      <4> QED BY <1>1, <4>1 DEF Processes
    <3> HIDE DEF n
    <3> QED BY <1>1, <2>1, <3>1, <3>2
  <2>2. CASE cli[c].cmd # "refresh"
    <3> DEFINE n == After(c, cli[c], "CommandError")
    <3>1. cli' = [cli EXCEPT ![c] = n]
      BY <2>2 DEF Severed
    <3>2. "CommandError" \in Outcomes
      BY DEF Outcomes
    <3>3. /\ n \in Processes /\ n.pc \in {"refresh", "done"}
          /\ n.mode = cli[c].mode /\ n.session = cli[c].session /\ n.cmd = cli[c].cmd
          /\ Kind[c] # "batch" => n.outcome = "CommandError"
          /\ cli[c].outcome = "Ok" /\ cli[c].line + 1 # Len(Batch) => n.outcome = "CommandError"
          /\ Kind[c] = "batch" => n.line < Len(Batch)
      BY <1>1, <3>2, AfterFacts
    <3>4. cli[c].cmd = "commit" => n.outcome = "CommandError"
      BY <1>1, <3>3 DEF Mine, CliInv
    <3> HIDE DEF n
    <3> QED BY <3>1, <3>3, <3>4
  <2> QED BY <2>1, <2>2
<1>4. cli' \in [Clis -> Processes] /\ cli'[c] = n
  BY <1>1, <1>3 DEF Types, CliType
<1>5. /\ ghost'.verdict = ghost.verdict /\ ghost'.ever = ghost.ever
      /\ ghost'.lost = ghost.lost /\ DOMAIN ghost' = DOMAIN ghost
  BY <1>1, GhostFrame DEF Severed
<1>6. /\ UNCHANGED <<conn, req, resp, daemon>>
  BY DEF Severed
<1>7. Types' /\ \A d \in Clis \ {c} : Same(d)
  BY <1>1, <1>3, <1>4, <1>5, <1>6 DEF Types, CliType, DaemonType, FrameType, Same
<1>8. Mine(c)'
  <2>1. CliInv(c)'
    BY <1>1, <1>3, <1>4, <1>6 DEF Mine, CliInv, Busy, Batch, NoSession
  <2>2. CodeInv(c)'
    BY <1>3, <1>4 DEF CodeInv
  <2> QED BY <1>1, <1>2, <1>3, <1>4, <1>6, <2>1, <2>2 DEF Mine, FrameInv, GoneInv, AnswerInv, Busy
<1>9. Holds(c)' \subseteq Holds(c)
  BY <1>3, <1>4, <1>6 DEF Holds
<1> QED
  BY <1>5, <1>6, <1>7, <1>8, <1>9, OneMoves

LEMMA ReconnectStep ==
    ASSUME Vocabulary, Inv, NEW c \in Clis, Reconnect(c)
    PROVE  Inv'
<1>1. Types /\ Mine(c) /\ FrameType /\ cli[c] \in Processes /\ cli[c].typed + 1 \in Nat
  BY DEF Inv, Types, CliType, Processes
<1>2. PICK n \in Processes : /\ cli' = [cli EXCEPT ![c] = n] /\ n.pc = "off" /\ n.line = 0
                             /\ n.mode = "operational" /\ n.session = NoSession
  <2> DEFINE n == [Cli0 EXCEPT !.typed = cli[c].typed + 1]
  <2>1. n \in Processes
    <3>1. <<>> \in Seq(Requests) /\ "" \in Commands
      BY EmptySeq DEF Commands
    <3>2. Cli0 \in Processes
      BY <3>1 DEF Cli0, Processes, Outcomes, NoSession
    <3> QED BY <1>1, <3>2 DEF Processes
  <2>2. n.pc = "off" /\ n.line = 0 /\ n.mode = "operational" /\ n.session = NoSession
    BY DEF Cli0
  <2>3. cli' = [cli EXCEPT ![c] = n]
    BY DEF Reconnect
  <2> HIDE DEF n
  <2> QED BY <2>1, <2>2, <2>3
<1>3. cli' \in [Clis -> Processes] /\ cli'[c] = n
  BY <1>1, <1>2 DEF Types, CliType
<1>4. /\ ghost'.verdict = ghost.verdict /\ ghost'.ever = ghost.ever
      /\ ghost'.lost = ghost.lost /\ DOMAIN ghost' = DOMAIN ghost
  BY <1>1, GhostFrame DEF Reconnect
<1>5. daemon' = daemon /\ conn'[c] = "none" /\ req'[c] = <<>> /\ resp'[c] = <<>>
  BY <1>1 DEF Reconnect, Types, FrameType
<1>6. Types' /\ \A d \in Clis \ {c} : Same(d)
  BY <1>1, <1>2, <1>3, <1>4, <1>5
     DEF Types, CliType, DaemonType, FrameType, Same, Reconnect
<1>7. Mine(c)'
  <2>1. Len(Batch) \in Nat \ {0}
    BY BatchFacts
  <2>2. CliInv(c)'
    BY <1>2, <1>3, <1>5, <2>1 DEF CliInv, Busy, Batch, NoSession
  <2> QED BY <1>2, <1>3, <1>5, <2>2 DEF Mine, FrameInv, GoneInv, AnswerInv, CodeInv, Busy
<1>8. Holds(c)' \subseteq Holds(c)
  BY <1>2, <1>3, <1>5 DEF Holds
<1> QED
  BY <1>4, <1>5, <1>6, <1>7, <1>8, OneMoves

LEMMA RunStep ==
    ASSUME Vocabulary, Inv, NEW c \in Clis, NEW cmd \in Lines, Run(c, cmd)
    PROVE  Inv'
<1>1. /\ Types /\ Mine(c) /\ cli[c] \in Processes /\ FrameType /\ cli[c].pc = "ready"
      /\ cmd \in NextLine(c)
      /\ Kind[c] = "batch" => cli[c].line < Len(Batch)
  BY DEF Inv, Types, CliType, Mine, CliInv, Run
<1>2. req[c] = <<>> /\ resp[c] = <<>>
  BY <1>1 DEF Mine, FrameInv
<1>3. UNCHANGED <<conn, req, resp, daemon>>
  BY DEF Run
<1> DEFINE k == [cli[c] EXCEPT !.cmd = cmd, !.typed = IF @ < MaxCommands THEN @ + 1 ELSE @]
<1>4. /\ k \in Processes /\ k.mode = cli[c].mode /\ k.session = cli[c].session
      /\ k.cmd = cmd /\ k.line = cli[c].line /\ k.outcome = cli[c].outcome
  <2> DEFINE typed == IF cli[c].typed < MaxCommands THEN cli[c].typed + 1 ELSE cli[c].typed
  <2>1. typed \in Nat
    BY <1>1 DEF Processes
  <2> HIDE DEF typed
  <2>2. k = [cli[c] EXCEPT !.cmd = cmd, !.typed = typed]
    BY DEF typed
  <2>3. cmd \in Commands
    BY DEF Commands
  <2> HIDE DEF k
  <2> QED BY <1>1, <2>1, <2>2, <2>3 DEF Processes
<1>5. cmd = "commit" /\ cli[c].mode = "configuration" => Calls(c, cmd) # <<>>
  BY DEF Calls, Configuration, Commit, Vocabulary, Verbs
<1>6. Kind[c] = "batch" /\ cmd = "commit" => cli[c].outcome = "Ok" /\ cli[c].line + 1 # Len(Batch)
  <2>1. CASE Kind[c] = "batch" /\ cli[c].outcome = "Ok"
    <3>1. cmd = Batch[cli[c].line + 1]
      BY <1>1, <2>1 DEF NextLine
    <3> QED BY <2>1, <3>1, BatchFacts
  <2>2. CASE Kind[c] = "batch" /\ cli[c].outcome # "Ok"
    BY <1>1, <2>2 DEF NextLine
  <2> QED BY <2>1, <2>2
<1>7. /\ ghost'.verdict = ghost.verdict /\ ghost'.ever = ghost.ever
      /\ ghost'.lost = ghost.lost /\ DOMAIN ghost' = DOMAIN ghost
  <2>1. ghost' = ghost \/ \E said : ghost' = [ghost EXCEPT !.said[c] = said]
    BY DEF Run, Finish
  <2> QED BY <1>1, <2>1, GhostFrame
<1>8. ~(cli[c].mode = "configuration" /\ conn[c] = "open"
        /\ daemon.sessions[cli[c].session].gone)
  BY <1>1 DEF Mine, GoneInv
<1>9. PICK n \in Processes :
          /\ cli' = [cli EXCEPT ![c] = n]
          /\ n.mode = cli[c].mode /\ n.session = cli[c].session /\ n.cmd = cmd
          /\ Kind[c] = "batch" => n.line < Len(Batch)
          /\ \/ /\ n.pc \in {"refresh", "done"}
                /\ ~(cmd = "commit" /\ cli[c].mode = "configuration")
             \/ /\ n.pc = "call" /\ Fit(n.left, n.cmd, n.mode, n.session)
                /\ cmd = "exit" => n.left[1].op = "Compare"
                /\ n.outcome = cli[c].outcome /\ n.line = cli[c].line
  <2>1. CASE Calls(c, cmd) = <<>>
    <3>1. PICK o \in Local(c, cmd) : Finish(c, k, o)
      BY <2>1 DEF Run
    <3>2. o \in Outcomes
      BY DEF Local, Ping, Unknown, Outcomes
    <3> HIDE DEF k
    <3> DEFINE n == After(c, k, o)
    <3>3. /\ n \in Processes /\ n.pc \in {"refresh", "done"}
          /\ n.mode = k.mode /\ n.session = k.session /\ n.cmd = k.cmd
          /\ Kind[c] = "batch" => n.line < Len(Batch)
      BY <1>1, <1>4, <3>2, AfterFacts
    <3>4. cli' = [cli EXCEPT ![c] = n]
      BY <3>1 DEF Finish
    <3> HIDE DEF n
    <3> QED BY <1>4, <1>5, <2>1, <3>3, <3>4
  <2>2. CASE Calls(c, cmd) # <<>>
    <3>1. /\ Calls(c, cmd) \in Seq(Requests)
          /\ Fit(Calls(c, cmd), cmd, cli[c].mode, cli[c].session)
          /\ cmd = "exit" => Calls(c, cmd)[1].op = "Compare"
      BY <1>1, <2>2, CallsFacts
    <3> DEFINE n == [k EXCEPT !.pc = "call", !.left = Calls(c, cmd)]
    <3>2. cli' = [cli EXCEPT ![c] = n]
      BY <2>2 DEF Run
    <3> HIDE DEF k
    <3>3. /\ n \in Processes /\ n.mode = k.mode /\ n.session = k.session /\ n.cmd = k.cmd
          /\ n.outcome = k.outcome /\ n.line = k.line /\ n.pc = "call"
          /\ n.left = Calls(c, cmd)
      BY <1>4, <3>1 DEF Processes
    <3> HIDE DEF n
    <3> QED BY <1>1, <1>4, <3>1, <3>2, <3>3
  <2> QED BY <2>1, <2>2
<1>10. cli' \in [Clis -> Processes] /\ cli'[c] = n
  BY <1>1, <1>9 DEF Types, CliType
<1>11. Types' /\ \A d \in Clis \ {c} : Same(d)
  BY <1>1, <1>3, <1>7, <1>9, <1>10 DEF Types, CliType, DaemonType, FrameType, Same
<1>12. Mine(c)'
  <2>1. CliInv(c)'
    BY <1>1, <1>3, <1>6, <1>9, <1>10 DEF Mine, CliInv, Busy, CallsFit, Batch, NoSession
  <2>2. FrameInv(c)' /\ GoneInv(c)'
    BY <1>2, <1>3, <1>8, <1>9, <1>10 DEF FrameInv, GoneInv
  <2>3. AnswerInv(c)' /\ CodeInv(c)'
    BY <1>2, <1>3, <1>9, <1>10 DEF AnswerInv, CodeInv, Busy
  <2> QED BY <2>1, <2>2, <2>3 DEF Mine
<1>13. Holds(c)' \subseteq Holds(c)
  BY <1>2, <1>3, <1>9, <1>10 DEF Holds
<1> QED
  BY <1>3, <1>7, <1>11, <1>12, <1>13, OneMoves

\* What an answer comes to.
LEMMA VerdictFacts ==
    ASSUME NEW c \in Clis, NEW a, cli[c].left \in Seq(Requests), CallsFit(c)
    PROVE  /\ Verdict(c, a) \in Outcomes \cup {"go on"}
           /\ Verdict(c, a) = "go on" =>
                  \/ cli[c].cmd = "refresh"
                  \/ /\ cli[c].cmd # "refresh" /\ Len(cli[c].left) # 1 /\ a.kind # "failed"
                     /\ cli[c].cmd = "exit" => a.val # TRUE
                     /\ cli[c].left[1].op # "Close"
           /\ cli[c].cmd = "refresh" => Verdict(c, a) = "go on"
           /\ cli[c].cmd = "commit" /\ Verdict(c, a) = "Ok" => a.kind # "failed"
           /\ cli[c].cmd = "commit" /\ Verdict(c, a) = "ConfigError" => a.kind = "failed"
           /\ cli[c].cmd = "commit" /\ a.kind # "failed" => Verdict(c, a) = "Ok"
           /\ cli[c].left[1].op = "Open" /\ a.kind = "session" => Verdict(c, a) = "Ok"
           /\ cli[c].cmd # "refresh" /\ cli[c].left[1].op = "Close" => Verdict(c, a) = "Ok"
<1>1. Head(cli[c].left) = cli[c].left[1] /\ (Len(cli[c].left) > 1 => Len(cli[c].left) # 1)
  <2>1. Len(cli[c].left) \in {1, 2}
    BY DEF CallsFit, Fit
  <2> QED BY <2>1, OneOrTwo
<1>2. cli[c].cmd = "commit" => cli[c].left[1].op = "Commit" /\ Len(cli[c].left) = 1
  BY DEF CallsFit, Fit
<1>3. cli[c].left[1].op = "Open" => cli[c].cmd = "configure" /\ Len(cli[c].left) = 1
  BY DEF CallsFit, Fit
<1> QED BY <1>1, <1>2, <1>3 DEF Verdict, OutcomeOf, Outcomes

LEMMA ReplyStep ==
    ASSUME Vocabulary, Inv, NEW c \in Clis, Reply(c)
    PROVE  Inv'
<1> DEFINE a == resp[c][1]
           op == cli[c].left[1].op
           v == Verdict(c, a)
           rest == Tail(cli[c].left)
<1>1. /\ Types /\ Mine(c) /\ cli[c] \in Processes /\ FrameType /\ resp[c] # <<>>
      /\ cli[c].pc \in {"wait", "call"} /\ Busy(c) /\ CallsFit(c)
      /\ cli[c].left \in Seq(Requests)
      /\ Kind[c] = "batch" => cli[c].line < Len(Batch)
  BY DEF Inv, Types, CliType, Mine, CliInv, Reply, Busy, Processes
<1>2. req[c] = <<>>
  BY <1>1 DEF Mine, FrameInv
<1>3. UNCHANGED <<conn, req, daemon>> /\ resp' = [resp EXCEPT ![c] = <<>>] /\ resp'[c] = <<>>
  BY <1>1 DEF Reply, FrameType
<1>4. Len(cli[c].left) \in {1, 2} /\ Head(cli[c].left) = cli[c].left[1]
  BY <1>1, OneOrTwo DEF CallsFit, Fit
<1>5. /\ ghost'.verdict = ghost.verdict /\ ghost'.ever = ghost.ever
      /\ ghost'.lost = ghost.lost /\ DOMAIN ghost' = DOMAIN ghost
  <2>1. PICK told, said : \/ ghost' = [ghost EXCEPT !.told[c] = told]
                          \/ ghost' = [ghost EXCEPT !.told[c] = told, !.said[c] = said]
    BY DEF Reply
  <2>2. CASE ghost' = [ghost EXCEPT !.told[c] = told]
    BY <1>1, <2>2, GhostFrame
  <2>3. CASE ghost' = [ghost EXCEPT !.told[c] = told, !.said[c] = said]
    BY <1>1, <2>3, GhostFrame
  <2> QED BY <2>1, <2>2, <2>3
<1>6. CASE v = "go on"
  <2>1. \/ cli[c].cmd = "refresh"
        \/ /\ cli[c].cmd # "refresh" /\ Len(cli[c].left) # 1 /\ a.kind # "failed"
           /\ cli[c].cmd = "exit" => a.val # TRUE
           /\ op # "Close"
    BY <1>1, <1>6, VerdictFacts
  <2>2. cli[c].cmd # "commit" /\ op # "Close"
    BY <1>1, <2>1 DEF CallsFit, Fit
  <2>3. /\ rest \in Seq(Requests)
        /\ Len(cli[c].left) = 1 => rest = <<>>
        /\ Len(cli[c].left) # 1 => Len(rest) = 1 /\ rest[1] = cli[c].left[2]
    BY <1>1, <1>4, OneOrTwo
  <2>4. PICK pc \in {"shell", "ready", "call"} :
            /\ cli' = [cli EXCEPT ![c] = [cli[c] EXCEPT !.left = rest, !.pc = pc]]
            /\ pc # "ready" => Len(cli[c].left) # 1
    <3> DEFINE pc == IF op = "ShellEnter" THEN "shell" ELSE IF rest = <<>> THEN "ready" ELSE "call"
    <3>1. cli' = [cli EXCEPT ![c].left = rest, ![c].pc = pc]
      BY <1>4, <1>6 DEF Reply
    <3>2. cli' = [cli EXCEPT ![c] = [cli[c] EXCEPT !.left = rest, !.pc = pc]]
      BY <1>1, <3>1 DEF Types, CliType
    <3>3. pc # "ready" => Len(cli[c].left) # 1
      BY <1>1, <1>4, <2>1, <2>3 DEF CallsFit, Fit
    <3> QED BY <3>2, <3>3
  <2>5. /\ cli' \in [Clis -> Processes] /\ cli'[c].left = rest /\ cli'[c].pc = pc
        /\ cli'[c].cmd = cli[c].cmd /\ cli'[c].mode = cli[c].mode
        /\ cli'[c].session = cli[c].session /\ cli'[c].outcome = cli[c].outcome
        /\ cli'[c].line = cli[c].line
    BY <1>1, <2>3, <2>4 DEF Types, CliType, Processes
  <2>6. Types' /\ \A d \in Clis \ {c} : Same(d)
    BY <1>1, <1>3, <1>5, <2>4, <2>5 DEF Types, CliType, DaemonType, FrameType, Same
  <2>7. Busy(c)' => CallsFit(c)'
    <3> SUFFICES ASSUME Busy(c)' PROVE Fit(rest, cli[c].cmd, cli[c].mode, cli[c].session)
      BY <2>5 DEF CallsFit
    <3>1. Len(cli[c].left) # 1 /\ Len(rest) = 1 /\ rest[1] = cli[c].left[2]
      BY <2>3, <2>4, <2>5 DEF Busy
    <3>2. /\ rest[1].session = cli[c].session
          /\ rest[1].op \in {"ShowCandidate", "ShowRunning", "ShellLeave", "Close"}
          /\ rest[1].op = "Close" <=> cli[c].cmd = "exit"
          /\ cli[c].cmd = "exit" => cli[c].mode = "configuration"
          /\ cli[c].cmd # "configure"
          /\ cli[c].cmd = "refresh" => rest[1].op = "ShowCandidate"
      BY <1>1, <3>1 DEF CallsFit, Fit
    <3> QED BY <2>2, <3>1, <3>2 DEF Fit
  <2>8. CliInv(c)'
    BY <1>1, <1>3, <2>2, <2>4, <2>5, <2>7 DEF Mine, CliInv, Busy, Batch, NoSession
  <2>9. FrameInv(c)' /\ CodeInv(c)'
    BY <1>2, <1>3, <2>2, <2>5 DEF FrameInv, CodeInv
  <2>10. GoneInv(c)'
    BY <1>1, <1>3, <2>2, <2>5 DEF Mine, GoneInv
  <2>11. AnswerInv(c)'
    <3>1. ASSUME cli[c].cmd = "exit" PROVE daemon.sessions[cli[c].session].cand \in ghost.ever
      <4>1. op = "Compare" /\ a.kind # "failed" /\ a.val # TRUE /\ cli[c].mode = "configuration"
        BY <1>1, <2>1, <3>1 DEF CallsFit, Fit
      <4> QED BY <1>1, <4>1 DEF Mine, AnswerInv
    <3> QED BY <1>3, <1>5, <2>5, <3>1 DEF AnswerInv
  <2>12. Holds(c)' \subseteq Holds(c)
    BY <1>3, <2>5 DEF Holds
  <2> QED BY <1>3, <1>5, <2>6, <2>8, <2>9, <2>10, <2>11, <2>12, OneMoves DEF Mine
<1>7. CASE v # "go on"
  <2> DEFINE k == IF op = "Open" /\ a.kind = "session"
                  THEN [cli[c] EXCEPT !.session = a.val, !.mode = "configuration", !.prefix = FALSE]
                  ELSE IF op = "Close"
                  THEN [cli[c] EXCEPT !.session = NoSession, !.mode = "operational", !.prefix = FALSE]
                  ELSE cli[c]
           n == After(c, k, v)
  <2>1. cli' = [cli EXCEPT ![c] = n]
    BY <1>4, <1>7 DEF Reply
  <2>2. v \in Outcomes /\ cli[c].cmd # "refresh"
    BY <1>1, <1>7, VerdictFacts
  <2>3. a.kind = "session" => op = "Open" /\ a.val \in Nat \ {0} /\ ~daemon.sessions[a.val].gone
    BY <1>1 DEF Mine, AnswerInv
  <2>4. /\ k \in Processes /\ k.cmd = cli[c].cmd /\ k.line = cli[c].line
        /\ a.kind = "session" => k.session = a.val /\ k.mode = "configuration"
        /\ a.kind # "session" /\ op = "Close" => k.session = NoSession /\ k.mode = "operational"
        /\ a.kind # "session" /\ op # "Close" => k.session = cli[c].session /\ k.mode = cli[c].mode
    BY <1>1, <2>3 DEF Processes, NoSession
  <2> HIDE DEF k
  <2>5. /\ n \in Processes /\ n.pc \in {"refresh", "done"}
        /\ n.mode = k.mode /\ n.session = k.session /\ n.cmd = cli[c].cmd
        /\ Kind[c] # "batch" => n.outcome = v
        /\ cli[c].outcome = "Ok" /\ cli[c].line + 1 # Len(Batch) => n.outcome = v
        /\ Kind[c] = "batch" => n.line < Len(Batch)
    BY <1>1, <2>2, <2>4, AfterFacts
  <2> HIDE DEF n
  <2>6. cli' \in [Clis -> Processes] /\ cli'[c] = n
    BY <1>1, <2>1, <2>5 DEF Types, CliType
  <2>7. Types' /\ \A d \in Clis \ {c} : Same(d)
    BY <1>1, <1>3, <1>5, <2>1, <2>6 DEF Types, CliType, DaemonType, FrameType, Same
  <2>8. CliInv(c)'
    BY <1>1, <1>3, <2>3, <2>4, <2>5, <2>6 DEF Mine, CliInv, Busy, Batch, NoSession
  <2>9. FrameInv(c)' /\ AnswerInv(c)'
    BY <1>2, <1>3, <2>5, <2>6 DEF FrameInv, AnswerInv, Busy
  <2>10. GoneInv(c)'
    BY <1>1, <1>3, <2>3, <2>4, <2>5, <2>6 DEF Mine, GoneInv
  <2>11. CodeInv(c)'
    <3>1. ASSUME cli[c].cmd = "commit"
          PROVE  n.outcome = v /\ a.kind = ghost.verdict[c] /\ a.kind \in {"committed", "failed"}
                 /\ (v = "Ok" => a.kind # "failed") /\ (v = "ConfigError" => a.kind = "failed")
      <4>1. n.outcome = v
        BY <1>1, <2>5, <3>1 DEF Mine, CliInv
      <4>2. op = "Commit"
        BY <1>1, <3>1 DEF CallsFit, Fit
      <4>3. a.kind = ghost.verdict[c] /\ a.kind \in {"committed", "failed"}
        BY <1>1, <4>2 DEF Mine, AnswerInv
      <4> QED BY <1>1, <3>1, <4>1, <4>3, VerdictFacts
    <3> QED BY <1>5, <2>5, <2>6, <3>1 DEF CodeInv
  <2>12. Holds(c)' \subseteq Holds(c)
    BY <1>1, <1>3, <2>3, <2>4, <2>5, <2>6 DEF Holds
  <2> QED BY <1>3, <1>5, <2>7, <2>8, <2>9, <2>10, <2>11, <2>12, OneMoves DEF Mine
<1> QED BY <1>6, <1>7

-----------------------------------------------------------------------------
(* Steps of the daemon *)

\* A connection that ends loses frames and nothing else.
LEMMA ConnectionsEnd ==
    ASSUME Inv, Types', cli' = cli, daemon'.sessions = daemon.sessions,
           daemon'.running = daemon.running, ghost'.verdict = ghost.verdict,
           ghost'.ever = ghost.ever, ghost'.lost = ghost.lost,
           \A d \in Clis :
               /\ conn'[d] = conn[d] \/ (conn[d] = "open" /\ conn'[d] = "closed")
               /\ req'[d] = <<>> \/ (req'[d] = req[d] /\ conn'[d] = conn[d])
               /\ resp'[d] = resp[d] \/ (resp'[d] = <<>> /\ conn'[d] # "open")
    PROVE  Inv'
<1>1. ASSUME NEW d \in Clis PROVE Mine(d)' /\ Holds(d)' \subseteq Holds(d)
  <2>1. Mine(d)
    BY DEF Inv
  <2>2. CliInv(d)'
    <3>1. Busy(d)' = Busy(d) /\ (CallsFit(d) => CallsFit(d)') /\ Len(Batch)' = Len(Batch)
      BY DEF Busy, CallsFit, Fit, Batch
    <3> QED BY <2>1, <3>1 DEF Mine, CliInv, NoSession
  <2>3. FrameInv(d)'
    BY <2>1 DEF Mine, FrameInv, Failed, Answer
  <2>4. GoneInv(d)' /\ AnswerInv(d)' /\ CodeInv(d)'
    BY <2>1 DEF Mine, GoneInv, AnswerInv, CodeInv, Busy
  <2>5. Holds(d)' \subseteq Holds(d)
    BY DEF Holds
  <2> QED BY <2>2, <2>3, <2>4, <2>5 DEF Mine
<1>2. SessionInv'
  BY <1>1 DEF Inv, SessionInv, Owned
<1> QED BY <1>1, <1>2 DEF Inv, ExitKeepsWork

LEMMA EndStep ==
    ASSUME Inv,
           \/ Shutdown \/ Drained \/ Crash \/ Start
           \/ \E c \in Clis : IdleTimeout(c) \/ ServeTooLarge(c)
    PROVE  Inv'
<1>1. Types /\ cli' = cli
  BY DEF Inv, Shutdown, Drained, Crash, Start, IdleTimeout, ServeTooLarge
<1>2. /\ daemon' \in Daemons /\ daemon'.sessions = daemon.sessions
      /\ daemon'.running = daemon.running
  BY <1>1 DEF Daemons, Types, DaemonType, Shutdown, Drained, Crash, Start, IdleTimeout, ServeTooLarge
<1>3. /\ ghost'.verdict = ghost.verdict /\ ghost'.ever = ghost.ever
      /\ ghost'.lost = ghost.lost /\ DOMAIN ghost' = DOMAIN ghost
  BY <1>1 DEF Types, FrameType, Shutdown, Drained, Crash, Start, IdleTimeout, ServeTooLarge
<1>4. /\ conn' \in [Clis -> {"none", "open", "closed"}]
      /\ DOMAIN req' = Clis /\ DOMAIN resp' = Clis
      /\ \A d \in Clis :
               /\ conn'[d] = conn[d] \/ (conn[d] = "open" /\ conn'[d] = "closed")
               /\ req'[d] = <<>> \/ (req'[d] = req[d] /\ conn'[d] = conn[d])
               /\ resp'[d] = resp[d] \/ (resp'[d] = <<>> /\ conn'[d] # "open")
  <2>1. CASE Shutdown \/ Start
    BY <1>1, <2>1 DEF Types, FrameType, Shutdown, Start
  <2>2. CASE Drained \/ \E c \in Clis : IdleTimeout(c)
    BY <1>1, <2>2 DEF Types, FrameType, Drained, IdleTimeout, Cut
  <2>3. CASE Crash
    BY <1>1, <2>3 DEF Types, FrameType, Crash, Cut
  <2>4. CASE \E c \in Clis : ServeTooLarge(c)
    BY <1>1, <2>4 DEF Types, FrameType, ServeTooLarge
  <2> QED BY <2>1, <2>2, <2>3, <2>4
<1>5. Types'
  BY <1>1, <1>2, <1>3, <1>4 DEF Types, CliType, DaemonType, FrameType
<1> QED BY <1>1, <1>2, <1>3, <1>4, <1>5, ConnectionsEnd

\* One session of a sequence of them is replaced.
LEMMA OneReplaced ==
    ASSUME DaemonType, NEW s \in DOMAIN daemon.sessions, NEW session \in SessionRecords
    PROVE  LET D == With(s, session)
           IN  /\ D \in Daemons /\ DOMAIN D.sessions = DOMAIN daemon.sessions
               /\ D.sessions[s] = session
               /\ \A x \in DOMAIN daemon.sessions \ {s} : D.sessions[x] = daemon.sessions[x]
               /\ D.running = daemon.running /\ D.gen = daemon.gen
<1> DEFINE D == With(s, session)
           S == [daemon.sessions EXCEPT ![s] = session]
<1>1. daemon.sessions \in Seq(SessionRecords)
  BY DEF DaemonType, Daemons
<1>2. /\ S \in Seq(SessionRecords) /\ DOMAIN S = DOMAIN daemon.sessions /\ S[s] = session
      /\ \A x \in DOMAIN daemon.sessions \ {s} : S[x] = daemon.sessions[x]
  BY <1>1, ExceptSeq
<1>3. D = [daemon EXCEPT !.sessions = S]
  BY DEF With
<1> HIDE DEF S
<1>4. D \in Daemons /\ D.sessions = S /\ D.running = daemon.running /\ D.gen = daemon.gen
  BY <1>2, <1>3 DEF DaemonType, Daemons
<1> QED BY <1>2, <1>4

LEMMA Pair ==
    ASSUME NEW p, NEW a, NEW b, p = <<a, b>>
    PROVE  p[1] = a /\ p[2] = b
  OBVIOUS

\* A daemon that promotes or saves keeps its sessions.
LEMMA Promoted ==
    ASSUME NEW D \in Daemons, NEW v \in Values
    PROVE  /\ [D EXCEPT !.saved = v] \in Daemons /\ [D EXCEPT !.saved = v].sessions = D.sessions
           /\ [D EXCEPT !.running = v, !.gen = D.gen + 1] \in Daemons
           /\ [D EXCEPT !.running = v, !.gen = D.gen + 1].sessions = D.sessions
<1>1. D.gen + 1 \in Nat
  BY DEF Daemons
<1>2. [D EXCEPT !.saved = v] \in Daemons
  BY DEF Daemons
<1>3. [D EXCEPT !.saved = v].sessions = D.sessions
  BY DEF Daemons
<1>4. ASSUME NEW g \in Nat PROVE [D EXCEPT !.running = v, !.gen = g] \in Daemons
  BY DEF Daemons
<1>5. ASSUME NEW g \in Nat PROVE [D EXCEPT !.running = v, !.gen = g].sessions = D.sessions
  BY DEF Daemons
<1> QED BY <1>1, <1>2, <1>3, <1>4, <1>5

\* What a handler may do to the sessions and how it may answer.
LEMMA HandleFacts ==
    ASSUME Vocabulary, DaemonType, NEW c \in Clis, NEW r \in Requests
    PROVE  LET D == Handle(c, r)[1]
               A == Handle(c, r)[2]
               s == r.session
           IN  /\ D \in Daemons
               /\ r.op = "Open" =>
                    /\ A.kind = "session" /\ A.val = Len(daemon.sessions) + 1
                    /\ D.sessions = Append(daemon.sessions,
                            [owner |-> Uid[c], cand |-> daemon.running, base |-> daemon.gen,
                             gone |-> FALSE])
               /\ r.op # "Open" =>
                    /\ A.kind # "session" /\ DOMAIN D.sessions = DOMAIN daemon.sessions
                    /\ \A x \in DOMAIN daemon.sessions :
                         /\ D.sessions[x].owner = daemon.sessions[x].owner
                         /\ x # s => D.sessions[x] = daemon.sessions[x]
                         /\ r.op # "Close" => D.sessions[x].gone = daemon.sessions[x].gone
                         /\ r.op \in {"Close", "Compare"} =>
                                D.sessions[x].cand = daemon.sessions[x].cand
               /\ r.op = "Commit" => A.kind \in {"committed", "failed"}
               /\ r.op = "Compare" /\ A.kind # "failed" => A = Compared(s)
<1> DEFINE H == Handle(c, r)
           s == r.session
           it == daemon.sessions[s]
           gone == r.op \in {"Set", "Compare", "Discard", "Commit", "Close", "Load", "ShowCandidate"}
                   /\ (~Owned(c, s) \/ it.gone)
<1>1. daemon \in Daemons /\ daemon.sessions \in Seq(SessionRecords) /\ daemon.gen \in Nat
      /\ daemon.running \in Values /\ daemon.saved \in Values
  BY DEF DaemonType, Daemons
<1>2. CASE gone
  <2>1. H = <<daemon, Failed("Request")>>
    BY <1>2 DEF Handle
  <2> QED BY <1>1, <1>2, <2>1 DEF Failed, Answer
<1>3. CASE ~gone /\ r.op = "Open"
  <2> DEFINE new == [owner |-> Uid[c], cand |-> daemon.running, base |-> daemon.gen, gone |-> FALSE]
             S == Append(daemon.sessions, new)
  <2>1. H = <<[daemon EXCEPT !.sessions = S], Answer("session", Len(daemon.sessions) + 1)>>
    BY <1>3 DEF Handle, Opened
  <2>2. new \in SessionRecords
    BY <1>1 DEF SessionRecords, Owners
  <2>3. S \in Seq(SessionRecords)
    BY <1>1, <2>2
  <2> HIDE DEF S
  <2>4. [daemon EXCEPT !.sessions = S] \in Daemons /\ [daemon EXCEPT !.sessions = S].sessions = S
    BY <1>1, <2>3 DEF Daemons
  <2>5. H[1] = [daemon EXCEPT !.sessions = S]
    BY <2>1
  <2>6. H[2].kind = "session" /\ H[2].val = Len(daemon.sessions) + 1
    BY <2>1 DEF Answer
  <2>7. H[1] \in Daemons /\ H[1].sessions = Append(daemon.sessions, new)
    BY <2>4, <2>5 DEF S
  <2> HIDE DEF H
  <2> QED BY <1>3, <2>6, <2>7 DEF H
<1>4. ASSUME ~gone, r.op \in {"Set", "Load", "Discard", "Close", "Commit", "Compare", "ShowCandidate"}
      PROVE  s \in DOMAIN daemon.sessions /\ it \in SessionRecords
  BY <1>1, <1>4 DEF Owned
<1>5. ASSUME NEW session \in SessionRecords, ~gone,
             r.op \in {"Set", "Load", "Discard", "Close", "Commit"},
             session.owner = it.owner,
             r.op # "Close" => session.gone = it.gone,
             r.op = "Close" => session.cand = it.cand
      PROVE  LET D == With(s, session)
             IN  /\ D \in Daemons /\ DOMAIN D.sessions = DOMAIN daemon.sessions
                 /\ \A x \in DOMAIN daemon.sessions :
                      /\ D.sessions[x].owner = daemon.sessions[x].owner
                      /\ x # s => D.sessions[x] = daemon.sessions[x]
                      /\ r.op # "Close" => D.sessions[x].gone = daemon.sessions[x].gone
                      /\ r.op \in {"Close", "Compare"} =>
                             D.sessions[x].cand = daemon.sessions[x].cand
  <2> DEFINE D == With(s, session)
  <2>1. /\ D \in Daemons /\ DOMAIN D.sessions = DOMAIN daemon.sessions /\ D.sessions[s] = session
        /\ \A x \in DOMAIN daemon.sessions \ {s} : D.sessions[x] = daemon.sessions[x]
    BY <1>4, <1>5, OneReplaced
  <2> HIDE DEF D
  <2>2. ASSUME NEW x \in DOMAIN daemon.sessions
        PROVE  /\ D.sessions[x].owner = daemon.sessions[x].owner
               /\ x # s => D.sessions[x] = daemon.sessions[x]
               /\ r.op # "Close" => D.sessions[x].gone = daemon.sessions[x].gone
               /\ r.op \in {"Close", "Compare"} => D.sessions[x].cand = daemon.sessions[x].cand
    <3>1. CASE x = s
      BY <1>5, <2>1, <3>1
    <3>2. CASE x # s
      BY <2>1, <3>2
    <3> QED BY <3>1, <3>2
  <2> QED BY <2>1, <2>2 DEF D
<1>6. CASE ~gone /\ r.op \in {"Set", "Load", "Discard", "Close"}
  <2> DEFINE session == CASE r.op = "Set" -> [it EXCEPT !.cand = r.val]
                          [] r.op = "Load" -> [it EXCEPT !.cand = daemon.saved]
                          [] r.op = "Close" -> [it EXCEPT !.gone = TRUE]
                          [] OTHER -> [it EXCEPT !.cand = daemon.running, !.base = daemon.gen]
  <2>1. H = <<With(s, session), Answer("ok", "")>>
    BY <1>6 DEF Handle, Edited
  <2>2. it \in SessionRecords /\ r.val \in Values
    BY <1>4, <1>6 DEF Requests
  <2>3. /\ session \in SessionRecords /\ session.owner = it.owner
        /\ r.op # "Close" => session.gone = it.gone
        /\ r.op = "Close" => session.cand = it.cand
    BY <1>1, <1>6, <2>2 DEF SessionRecords
  <2> HIDE DEF session
  <2>4. H[1] = With(s, session) /\ H[2].kind = "ok"
    <3>1. H[1] = With(s, session) /\ H[2] = Answer("ok", "")
      BY <2>1, Pair, Zenon
    <3>2. Answer("ok", "").kind = "ok"
      BY DEF Answer
    <3> QED BY <3>1, <3>2, Zenon
  <2> DEFINE D == With(s, session)
  <2>5. /\ D \in Daemons /\ DOMAIN D.sessions = DOMAIN daemon.sessions
        /\ \A x \in DOMAIN daemon.sessions :
             /\ D.sessions[x].owner = daemon.sessions[x].owner
             /\ x # s => D.sessions[x] = daemon.sessions[x]
             /\ r.op # "Close" => D.sessions[x].gone = daemon.sessions[x].gone
             /\ r.op \in {"Close", "Compare"} => D.sessions[x].cand = daemon.sessions[x].cand
    BY <1>5, <1>6, <2>3
  <2> HIDE DEF D, H
  <2> QED BY <1>6, <2>4, <2>5 DEF D, H
<1>7. CASE ~gone /\ r.op = "Commit"
  <2>1. H = Committed(c, s)
    BY <1>7 DEF Handle
  <2>2. CASE H[1] = daemon /\ H[2].kind \in {"committed", "failed"}
    BY <1>1, <1>7, <2>2
  <2>3. CASE ~(H[1] = daemon /\ H[2].kind \in {"committed", "failed"})
    <3> DEFINE session == [it EXCEPT !.base = daemon.gen + 1]
               D == With(s, session)
    <3>1. H = <<[D EXCEPT !.running = it.cand, !.gen = @ + 1], Answer("committed", "changes")>>
      BY <2>1, <2>3 DEF Committed, Failed, Answer
    <3>2. session \in SessionRecords /\ session.owner = it.owner /\ session.gone = it.gone
          /\ it.cand \in Values
      <4>1. it \in SessionRecords /\ daemon.gen + 1 \in Nat
        BY <1>1, <1>4, <1>7
      <4> HIDE DEF it
      <4> QED BY <4>1 DEF SessionRecords
    <3> HIDE DEF session
    <3>3. /\ D \in Daemons /\ DOMAIN D.sessions = DOMAIN daemon.sessions
          /\ \A x \in DOMAIN daemon.sessions :
               /\ D.sessions[x].owner = daemon.sessions[x].owner
               /\ x # s => D.sessions[x] = daemon.sessions[x]
               /\ D.sessions[x].gone = daemon.sessions[x].gone
      BY <1>5, <1>7, <3>2
    <3> HIDE DEF D
    <3>4. /\ H[1] \in Daemons /\ H[1].sessions = D.sessions
          /\ H[2].kind = "committed"
      <4>1. H[1] = [D EXCEPT !.running = it.cand, !.gen = D.gen + 1] /\ H[2].kind = "committed"
        BY <3>1 DEF Answer
      <4> HIDE DEF H, it
      <4>2. /\ [D EXCEPT !.running = it.cand, !.gen = D.gen + 1] \in Daemons
            /\ [D EXCEPT !.running = it.cand, !.gen = D.gen + 1].sessions = D.sessions
        BY <3>2, <3>3, Promoted
      <4> QED BY <4>1, <4>2
    <3> QED BY <1>7, <3>3, <3>4
  <2> QED BY <2>2, <2>3
<1>8. CASE ~gone /\ r.op \notin {"Open", "Set", "Load", "Discard", "Close", "Commit"}
  <2>1. /\ H[1] \in Daemons /\ H[1].sessions = daemon.sessions /\ H[2].kind # "session"
        /\ r.op = "Compare" => H[2] = Compared(s)
    <3>1. CASE r.op = "Save"
      <4>1. H = <<[daemon EXCEPT !.saved = daemon.running], Answer("ok", "")>>
        BY <1>8, <3>1 DEF Handle
      <4>2. H[1] = [daemon EXCEPT !.saved = daemon.running] /\ H[2].kind = "ok"
        <5>1. H[1] = [daemon EXCEPT !.saved = daemon.running] /\ H[2] = Answer("ok", "")
          BY <4>1, Pair, Zenon
        <5>2. Answer("ok", "").kind = "ok"
          BY DEF Answer
        <5> QED BY <5>1, <5>2, Zenon
      <4>3. /\ [daemon EXCEPT !.saved = daemon.running] \in Daemons
            /\ [daemon EXCEPT !.saved = daemon.running].sessions = daemon.sessions
        BY <1>1, Promoted
      <4> HIDE DEF H
      <4> QED BY <3>1, <4>2, <4>3
    <3>2. CASE r.op # "Save"
      BY <1>1, <1>8, <3>2 DEF Handle, Compared, ShellSession, Shown, OpShown, Answer
    <3> QED BY <3>1, <3>2
  <2> QED BY <1>8, <2>1
<1> QED BY <1>2, <1>3, <1>6, <1>7, <1>8

\* A process's session is not the one another process's request is for.
LEMMA Apart ==
    ASSUME Inv, NEW c \in Clis, NEW d \in Clis \ {c}, NEW s \in Holds(d)
    PROVE  s \in DOMAIN daemon.sessions /\ s # cli[c].session
<1>1. s \in DOMAIN daemon.sessions /\ s \in Nat
  BY DEF Inv, SessionInv, Owned, Holds
<1>2. CASE cli[c].mode = "configuration"
  <2>1. cli[c].session \in Nat
    BY DEF Inv, Types, CliType, Processes
  <2>2. cli[c].session \in Holds(c)
    BY <1>2, <2>1 DEF Holds
  <2>3. Holds(c) \cap Holds(d) = {}
    BY DEF Inv, SessionInv
  <2> QED BY <1>1, <2>2, <2>3
<1>3. CASE cli[c].mode # "configuration"
  <2>1. cli[c].session = 0
    BY <1>3 DEF Inv, Mine, CliInv, NoSession
  <2>2. daemon.sessions \in Seq(SessionRecords)
    BY DEF Inv, Types, DaemonType, Daemons
  <2> QED BY <1>1, <2>1, <2>2
<1> QED BY <1>2, <1>3

LEMMA ServeStep ==
    ASSUME Vocabulary, Inv, NEW c \in Clis, Serve(c)
    PROVE  Inv'
<1> DEFINE r == req[c][1]
           D == Handle(c, r)[1]
           A == Handle(c, r)[2]
<1>1. /\ Types /\ Mine(c) /\ CliType /\ DaemonType /\ FrameType /\ cli[c] \in Processes
      /\ daemon.sessions \in Seq(SessionRecords)
  BY DEF Inv, Types, CliType, DaemonType, Daemons
<1>2. /\ req[c] = <<cli[c].left[1]>> /\ resp[c] = <<>> /\ cli[c].pc = "wait" /\ conn[c] = "open"
  BY <1>1 DEF Mine, FrameInv, Serve
<1>3. Busy(c) /\ CallsFit(c) /\ cli[c].left \in Seq(Requests)
  BY <1>1, <1>2 DEF Busy, Mine, CliInv, Processes
<1>4. r = cli[c].left[1] /\ r \in Requests /\ r.session = cli[c].session
  <2>1. r = cli[c].left[1]
    BY <1>2
  <2>2. Len(cli[c].left) \in {1, 2} /\ cli[c].left[1].session = cli[c].session
    BY <1>3 DEF CallsFit, Fit
  <2>3. cli[c].left[1] \in Requests
    BY <1>3, <2>2, OneOrTwo
  <2> QED BY <2>1, <2>2, <2>3
<1> HIDE DEF r
<1>5. /\ cli' = cli /\ conn' = conn /\ daemon' = D
      /\ resp' = [resp EXCEPT ![c] = <<A>>] /\ req' = [req EXCEPT ![c] = <<>>]
  BY DEF Serve, r
<1>6. /\ ghost'.ever = ghost.ever \cup {D.running} /\ DOMAIN ghost' = DOMAIN ghost
      /\ DOMAIN ghost'.verdict = Clis
      /\ ghost'.verdict[c] = IF r.op = "Commit" THEN A.kind ELSE ghost.verdict[c]
      /\ \A d \in Clis \ {c} : ghost'.verdict[d] = ghost.verdict[d]
  BY <1>1 DEF Serve, FrameType, r
<1>7. ghost'.lost = (ghost.lost \/ (r.op = "Close" /\ A.kind = "ok" /\ cli[c].cmd = "exit"
                                    /\ daemon.sessions[r.session].cand \notin ghost.ever))
  BY <1>1 DEF Serve, FrameType, r
<1> DEFINE old == daemon.sessions
<1>8. /\ D \in Daemons
      /\ r.op = "Open" =>
           /\ A.kind = "session" /\ A.val = Len(old) + 1
           /\ D.sessions = Append(old, [owner |-> Uid[c], cand |-> daemon.running,
                                        base |-> daemon.gen, gone |-> FALSE])
      /\ r.op # "Open" =>
           /\ A.kind # "session" /\ DOMAIN D.sessions = DOMAIN old
           /\ \A x \in DOMAIN old :
                /\ D.sessions[x].owner = old[x].owner
                /\ x # r.session => D.sessions[x] = old[x]
                /\ r.op # "Close" => D.sessions[x].gone = old[x].gone
                /\ r.op \in {"Close", "Compare"} => D.sessions[x].cand = old[x].cand
      /\ r.op = "Commit" => A.kind \in {"committed", "failed"}
      /\ r.op = "Compare" /\ A.kind # "failed" => A = Compared(r.session)
  BY <1>1, <1>4, HandleFacts
<1> HIDE DEF D, A
\* A new session is the next number, and the old ones stay as they are.
<1>9. ASSUME r.op = "Open"
      PROVE  /\ Len(old) + 1 \in Nat \ {0} /\ Len(old) + 1 \notin DOMAIN old
             /\ DOMAIN D.sessions = DOMAIN old \cup {Len(old) + 1}
             /\ D.sessions[Len(old) + 1].owner = Uid[c] /\ ~D.sessions[Len(old) + 1].gone
             /\ \A x \in DOMAIN old : D.sessions[x] = old[x]
  <2> DEFINE new == [owner |-> Uid[c], cand |-> daemon.running, base |-> daemon.gen, gone |-> FALSE]
  <2>1. D.sessions = Append(old, new) /\ old \in Seq(SessionRecords) /\ Len(old) \in Nat
        /\ DOMAIN old = 1..Len(old)
    BY <1>1, <1>8, <1>9
  <2>2. new.owner = Uid[c] /\ ~new.gone
    OBVIOUS
  <2> HIDE DEF new
  <2>3. /\ DOMAIN D.sessions = 1..(Len(old) + 1) /\ D.sessions[Len(old) + 1] = new
        /\ \A x \in 1..Len(old) : D.sessions[x] = old[x]
    BY <2>1
  <2> QED BY <2>1, <2>2, <2>3
<1>10. ASSUME NEW x \in DOMAIN old PROVE x \in DOMAIN D.sessions /\ D.sessions[x].owner = old[x].owner
  BY <1>8, <1>9
<1>11. Types'
  <2>1. CliType' /\ DaemonType'
    BY <1>1, <1>5, <1>8 DEF CliType, DaemonType
  <2>2. FrameType'
    BY <1>1, <1>5, <1>6 DEF FrameType
  <2> QED BY <2>1, <2>2 DEF Types
<1>12. resp'[c] = <<A>> /\ resp'[c][1] = A /\ resp'[c] # <<>> /\ req'[c] = <<>>
       /\ cli'[c] = cli[c] /\ conn'[c] = conn[c]
  BY <1>1, <1>5 DEF FrameType
<1>13. ASSUME NEW d \in Clis PROVE CliInv(d)'
  <2>1. cli'[d] = cli[d] /\ conn'[d] = conn[d] /\ CliInv(d)
    BY <1>5 DEF Inv, Mine
  <2>2. Busy(d)' = Busy(d)
    BY <2>1 DEF Busy
  <2>3. CallsFit(d) => CallsFit(d)'
    BY <2>1 DEF CallsFit, Fit
  <2>4. Len(Batch)' = Len(Batch)
    BY DEF Batch
  <2> QED BY <2>1, <2>2, <2>3, <2>4 DEF CliInv, NoSession
\* In configuration mode the request is for the session of the process.
<1>14. ASSUME cli[c].mode = "configuration"
       PROVE  r.op # "Open" /\ r.session \in DOMAIN old /\ r.session \in Holds(c)
  <2>1. r.op # "Open"
    BY <1>3, <1>4, <1>14 DEF CallsFit, Fit
  <2>2. r.session \in Holds(c)
    BY <1>1, <1>4, <1>14 DEF Holds, Processes
  <2> QED BY <2>1, <2>2 DEF Inv, SessionInv, Owned
<1>15. FrameInv(c)' /\ CodeInv(c)'
  BY <1>2, <1>12 DEF FrameInv, CodeInv
<1>16. GoneInv(c)'
  <2> SUFFICES ASSUME cli[c].mode = "configuration", D.sessions[r.session].gone, r.op # "Close"
               PROVE  FALSE
    BY <1>2, <1>4, <1>5, <1>12 DEF GoneInv
  <2>1. old[r.session].gone
    BY <1>8, <1>14
  <2> QED BY <1>1, <1>2, <1>4, <2>1 DEF Mine, GoneInv
<1>17. AnswerInv(c)'
  <2>1. A.kind = "session" => /\ r.op = "Open" /\ A.val \in Nat \ {0} /\ ~D.sessions[A.val].gone
    BY <1>8, <1>9
  <2>2. r.op = "Commit" => A.kind = ghost'.verdict[c] /\ A.kind \in {"committed", "failed"}
    BY <1>6, <1>8
  <2>3. ASSUME r.op = "Compare", A.kind # "failed", cli[c].mode = "configuration"
        PROVE  A.val = TRUE \/ D.sessions[r.session].cand \in ghost'.ever
    <3>1. A.val = (old[r.session].cand # daemon.running)
      BY <1>8, <2>3 DEF Compared, Answer
    <3>2. D.sessions[r.session].cand = old[r.session].cand
      BY <1>8, <1>14, <2>3
    <3>3. daemon.running \in ghost'.ever
      BY <1>6 DEF Inv
    <3>4. CASE old[r.session].cand = daemon.running
      BY <3>2, <3>3, <3>4
    <3>5. CASE old[r.session].cand # daemon.running
      BY <3>1, <3>5, Zenon
    <3> QED BY <3>4, <3>5
  <2>4. ASSUME cli[c].cmd = "exit", r.op = "Close"
        PROVE  D.sessions[r.session].cand \in ghost'.ever
    <3>1. cli[c].mode = "configuration"
      BY <1>3, <2>4 DEF CallsFit, Fit
    <3>2. D.sessions[r.session].cand = old[r.session].cand
      BY <1>8, <1>14, <2>4, <3>1
    <3>3. old[r.session].cand \in ghost.ever
      BY <1>1, <1>3, <1>4, <2>4 DEF Mine, AnswerInv
    <3> QED BY <1>6, <3>2, <3>3
  <2> QED BY <1>4, <1>5, <1>12, <2>1, <2>2, <2>3, <2>4 DEF AnswerInv
\* Another process's session is not touched.
<1>18. ASSUME NEW d \in Clis \ {c}, NEW s \in Holds(d)
       PROVE  s \in DOMAIN old /\ D.sessions[s] = old[s]
  <2>1. s \in DOMAIN old /\ s # r.session
    BY <1>4, Apart
  <2> QED BY <1>8, <1>9, <2>1
<1>19. ASSUME NEW d \in Clis \ {c}
       PROVE  FrameInv(d)' /\ GoneInv(d)' /\ AnswerInv(d)' /\ CodeInv(d)' /\ Holds(d)' = Holds(d)
  <2>1. /\ cli'[d] = cli[d] /\ conn'[d] = conn[d] /\ req'[d] = req[d] /\ resp'[d] = resp[d]
        /\ ghost'.verdict[d] = ghost.verdict[d] /\ Mine(d) /\ cli[d] \in Processes
    BY <1>1, <1>5, <1>6 DEF Inv, FrameType, CliType
  <2>2. FrameInv(d)' /\ CodeInv(d)' /\ Holds(d)' = Holds(d)
    BY <2>1 DEF Mine, FrameInv, CodeInv, Holds
  <2>3. ASSUME cli[d].mode = "configuration" PROVE D.sessions[cli[d].session] = old[cli[d].session]
    BY <1>18, <2>1, <2>3 DEF Holds, Processes
  <2>4. GoneInv(d)'
    BY <1>5, <2>1, <2>3 DEF Mine, GoneInv
  <2>5. Busy(d)' = Busy(d) /\ ghost.ever \subseteq ghost'.ever
    BY <1>6, <2>1 DEF Busy
  <2>6. Busy(d) /\ cli[d].cmd = "exit" => cli[d].mode = "configuration"
    BY <2>1 DEF Mine, CliInv, CallsFit, Fit
  <2>7. ASSUME resp[d] # <<>>, resp[d][1].kind = "session"
        PROVE  D.sessions[resp[d][1].val] = old[resp[d][1].val]
    <3>1. resp[d][1].val \in Nat
      BY <2>1, <2>7 DEF Mine, AnswerInv
    <3> QED BY <1>18, <2>7, <3>1 DEF Holds
  <2>8. AnswerInv(d)'
    BY <1>5, <2>1, <2>3, <2>5, <2>6, <2>7 DEF Mine, AnswerInv
  <2> QED BY <2>2, <2>4, <2>8
<1>20. SessionInv'
  <2>1. ASSUME NEW s \in Holds(c)' PROVE s \in Holds(c) \/ (r.op = "Open" /\ s = Len(old) + 1)
    BY <1>8, <1>12 DEF Holds
  <2>2. ASSUME NEW d \in Clis, NEW s \in Holds(d) PROVE s \in DOMAIN old /\ old[s].owner = Uid[d]
    BY DEF Inv, SessionInv, Owned
  <2>3. ASSUME NEW d \in Clis, NEW s \in Holds(d)'
        PROVE  s \in DOMAIN D.sessions /\ D.sessions[s].owner = Uid[d]
    <3>1. CASE s \in Holds(d)
      BY <1>10, <2>2, <3>1
    <3>2. CASE s \notin Holds(d)
      <4>1. d = c /\ r.op = "Open" /\ s = Len(old) + 1
        BY <1>19, <2>1, <3>2
      <4> QED BY <1>9, <4>1
    <3> QED BY <3>1, <3>2
  <2>4. ASSUME NEW d \in Clis \ {c} PROVE Holds(c)' \cap Holds(d)' = {}
    <3>1. Holds(d)' = Holds(d) /\ Holds(c) \cap Holds(d) = {}
      BY <1>19 DEF Inv, SessionInv
    <3>2. ASSUME r.op = "Open" PROVE Len(old) + 1 \notin Holds(d)
      BY <1>9, <2>2, <3>2
    <3> QED BY <2>1, <3>1, <3>2
  <2>5. ASSUME NEW d \in Clis, NEW e \in Clis \ {d} PROVE Holds(d)' \cap Holds(e)' = {}
    <3>1. CASE d = c
      BY <2>4, <3>1
    <3>2. CASE e = c
      BY <2>4, <3>2
    <3>3. CASE d # c /\ e # c
      BY <1>19, <3>3 DEF Inv, SessionInv
    <3> QED BY <3>1, <3>2, <3>3
  <2>6. ASSUME NEW d \in Clis, NEW s \in Holds(d)' PROVE Owned(d, s)'
    BY <1>5, <2>3 DEF Owned
  <2> QED BY <2>5, <2>6 DEF SessionInv
<1>21. (daemon.running \in ghost.ever)'
  BY <1>5, <1>6
<1>22. ExitKeepsWork'
  <2>1. ASSUME r.op = "Close", cli[c].cmd = "exit" PROVE old[r.session].cand \in ghost.ever
    BY <1>1, <1>3, <1>4, <2>1 DEF Mine, AnswerInv
  <2> QED BY <1>7, <2>1 DEF Inv, ExitKeepsWork
<1>23. ASSUME NEW d \in Clis PROVE Mine(d)'
  <2>1. CASE d = c
    BY <1>13, <1>15, <1>16, <1>17, <2>1 DEF Mine
  <2>2. CASE d # c
    BY <1>13, <1>19, <2>2 DEF Mine
  <2> QED BY <2>1, <2>2
<1> QED BY <1>11, <1>20, <1>21, <1>22, <1>23 DEF Inv

-----------------------------------------------------------------------------
(* The theorems *)

LEMMA InvStarts == ASSUME Vocabulary PROVE Init => Inv
<1> SUFFICES ASSUME Init PROVE Inv
  OBVIOUS
<1>1. Cli0 \in Processes
  BY DEF Cli0, Processes, Commands, Outcomes, NoSession
<1>2. Types
  <2>1. CliType /\ FrameType
    BY <1>1 DEF Init, CliType, FrameType, Ghost0
  <2>2. <<>> \in Seq(SessionRecords)
    OBVIOUS
  <2>3. DaemonType
    BY <2>2 DEF Init, DaemonType, Daemons, Vocabulary
  <2> QED BY <2>1, <2>3 DEF Types
<1>3. ASSUME NEW c \in Clis
      PROVE  /\ cli[c].pc = "off" /\ cli[c].mode = "operational" /\ cli[c].session = NoSession
             /\ cli[c].line = 0 /\ conn[c] = "none"
             /\ req[c] = <<>> /\ resp[c] = <<>>
  BY DEF Init, Cli0
<1>4. Len(Batch) \in Nat \ {0}
  BY BatchFacts
<1>5. ASSUME NEW c \in Clis PROVE Mine(c) /\ Holds(c) = {}
  <2>1. CliInv(c)
    <3>1. ~Busy(c)
      BY <1>3 DEF Busy
    <3>2. cli[c].line < Len(Batch)
      <4>1. cli[c].line = 0
        BY <1>3
      <4>2. ASSUME NEW n \in Nat \ {0} PROVE 0 < n
        OBVIOUS
      <4> QED BY <1>4, <4>1, <4>2
    <3> QED BY <1>3, <3>1, <3>2 DEF CliInv
  <2>2. FrameInv(c) /\ GoneInv(c) /\ AnswerInv(c) /\ CodeInv(c) /\ Holds(c) = {}
    BY <1>3 DEF FrameInv, GoneInv, AnswerInv, CodeInv, Holds, Busy
  <2> QED BY <2>1, <2>2 DEF Mine
<1>6. SessionInv
  BY <1>5 DEF SessionInv
<1>7. daemon.running \in ghost.ever /\ ExitKeepsWork
  BY DEF Init, Ghost0, ExitKeepsWork
<1> QED BY <1>2, <1>5, <1>6, <1>7 DEF Inv

\* Every line a process runs is a line.
LEMMA LinesRun ==
    ASSUME Vocabulary
    PROVE  Typed \cup ToSet(Batch) \cup {"show", "exit discard"} \subseteq Lines
<1>1. ToSet(Batch) \subseteq Lines
  <2>1. Batch \in Seq(Lines)
    BY BatchFacts
  <2> QED BY <2>1 DEF ToSet
<1> QED BY <1>1 DEF Vocabulary, Lines, Verbs

LEMMA InvStuttered == ASSUME Inv, UNCHANGED vars PROVE Inv'
<1>1. \A d \in Clis : Same(d)
  BY DEF vars, Same
<1>2. Types'
  BY DEF Inv, Types, CliType, DaemonType, FrameType, vars
<1>3. CASE Clis = {}
  BY <1>2, <1>3 DEF Inv, SessionInv, ExitKeepsWork, vars
<1>4. ASSUME NEW c \in Clis PROVE Inv'
  <2>1. Mine(c)' /\ Holds(c)' = Holds(c)
    <3>1. Mine(c) /\ Len(Batch)' = Len(Batch)
      BY DEF Inv, Batch
    <3>2. Busy(c)' = Busy(c) /\ (CallsFit(c) => CallsFit(c)') /\ Holds(c)' = Holds(c)
      BY DEF Busy, CallsFit, Fit, Holds, vars
    <3>3. CliInv(c)'
      BY <3>1, <3>2 DEF Mine, CliInv, NoSession, vars
    <3>4. FrameInv(c)' /\ GoneInv(c)'
      BY <3>1 DEF Mine, FrameInv, GoneInv, vars
    <3>5. AnswerInv(c)' /\ CodeInv(c)'
      BY <3>1, <3>2 DEF Mine, AnswerInv, CodeInv, vars
    <3> QED BY <3>2, <3>3, <3>4, <3>5 DEF Mine
  <2> QED BY <1>1, <1>2, <2>1, OneMoves DEF vars
<1> QED BY <1>3, <1>4

LEMMA InvStep == ASSUME Vocabulary PROVE Inv /\ [Next]_vars => Inv'
<1> SUFFICES ASSUME Inv, [Next]_vars PROVE Inv'
  OBVIOUS
<1>1. CASE UNCHANGED vars
  BY <1>1, InvStuttered
<1>2. CASE Shutdown \/ Drained \/ Crash \/ Start
  BY <1>2, EndStep
<1>3. ASSUME NEW c \in Clis,
             \/ Connect(c) \/ ConnectFails(c) \/ Refresh(c) \/ Send(c) \/ Severed(c) \/ Reply(c)
             \/ LeaveShell(c) \/ Reconnect(c) \/ Serve(c) \/ ServeTooLarge(c) \/ IdleTimeout(c)
      PROVE  Inv'
  <2>1. CASE Connect(c) \/ ConnectFails(c)
    BY <2>1, ConnectStep
  <2>2. CASE Refresh(c)
    BY <2>2, RefreshStep
  <2>3. CASE Send(c) \/ LeaveShell(c)
    BY <2>3, SendStep
  <2>4. CASE Severed(c)
    BY <2>4, SeveredStep
  <2>5. CASE Reply(c)
    BY <2>5, ReplyStep
  <2>6. CASE Reconnect(c)
    BY <2>6, ReconnectStep
  <2>7. CASE Serve(c)
    BY <2>7, ServeStep
  <2>8. CASE ServeTooLarge(c) \/ IdleTimeout(c)
    BY <2>8, EndStep
  <2> QED BY <1>3, <2>1, <2>2, <2>3, <2>4, <2>5, <2>6, <2>7, <2>8
<1>4. ASSUME NEW c \in Clis, NEW cmd \in Typed \cup ToSet(Batch) \cup {"show", "exit discard"},
             Run(c, cmd)
      PROVE  Inv'
  BY <1>4, LinesRun, RunStep
<1> QED BY <1>1, <1>2, <1>3, <1>4 DEF Next

\* The processes, their connections and the daemon's sessions agree in every state: the
\* invariant the theorems below rest on (repl.rs Cli, server.rs serve).
THEOREM SessionsAgree ==
    ASSUME Vocabulary
    PROVE  Spec => []Inv
BY InvStarts, InvStep, PTL DEF Spec

\* A process in configuration mode has a session, which the daemon opened for its operator
\* and no other process is in, and which stays open while the connection does: what
\* repl.rs relies on where it says expect("configuration mode has a session").
THEOREM ModesHaveSessions ==
    ASSUME Vocabulary
    PROVE  Spec => []ModeHasItsSession
<1>1. Inv => ModeHasItsSession
  <2> SUFFICES ASSUME Inv, NEW c \in Clis, cli[c].mode = "configuration"
               PROVE  /\ Owned(c, cli[c].session)
                      /\ \A d \in Clis \ {c} :
                           cli[d].mode = "configuration" => cli[d].session # cli[c].session
                      /\ conn[c] = "open" /\ daemon.sessions[cli[c].session].gone =>
                             cli[c].pc = "wait" /\ Head(cli[c].left).op = "Close"
    BY DEF ModeHasItsSession
  <2>1. ASSUME NEW d \in Clis, cli[d].mode = "configuration" PROVE cli[d].session \in Holds(d)
    BY <2>1 DEF Inv, Types, CliType, Processes, Holds
  <2>2. Owned(c, cli[c].session)
    BY <2>1 DEF Inv, SessionInv
  <2>3. ASSUME NEW d \in Clis \ {c}, cli[d].mode = "configuration"
        PROVE  cli[d].session # cli[c].session
    BY <2>1, <2>3 DEF Inv, SessionInv
  <2>4. ASSUME conn[c] = "open", daemon.sessions[cli[c].session].gone
        PROVE  cli[c].pc = "wait" /\ Head(cli[c].left).op = "Close"
    <3>1. cli[c].pc = "wait" /\ cli[c].left[1].op = "Close" /\ Busy(c)
      BY <2>4 DEF Inv, Mine, GoneInv, Busy
    <3>2. Len(cli[c].left) \in {1, 2} /\ cli[c].left \in Seq(Requests)
      BY <3>1 DEF Inv, Types, CliType, Processes, Mine, CliInv, CallsFit, Fit
    <3> QED BY <3>1, <3>2, OneOrTwo
  <2> QED BY <2>2, <2>3, <2>4
<1> QED BY <1>1, SessionsAgree, PTL

\* A plain `exit` never closes a session whose candidate has not been running (repl.rs:
\* "refusing to lose work"), whatever other operators commit between its two calls and
\* whenever the daemon stops, dies or starts.
THEOREM ExitsKeepWork ==
    ASSUME Vocabulary
    PROVE  Spec => []ExitKeepsWork
<1>1. Inv => ExitKeepsWork
  BY DEF Inv
<1> QED BY <1>1, SessionsAgree, PTL

\* The outcome of a `commit` is the daemon's verdict on it (repl.rs commit, Outcome::of):
\* success only for what was committed, a configuration error only for what was refused.
THEOREM CommitCodesAreTrue ==
    ASSUME Vocabulary
    PROVE  Spec => []CommitCodeIsTrue
<1>1. Inv => CommitCodeIsTrue
  BY DEF Inv, Mine, CodeInv, CommitCodeIsTrue
<1> QED BY <1>1, SessionsAgree, PTL

-----------------------------------------------------------------------------
(* A batch is committed as a whole or thrown away *)

\* A file of edits: its commit is the one batch() makes after the last line.
NoCommitInFile == "commit" \notin ToSet(Script)

\* The connection ended under a call, whose answer will not be read.
CutOff(c) == cli[c].pc = "wait" /\ conn[c] = "closed" /\ resp[c] = <<>>

\* The daemon has made the commit of the batch, which has not read the answer.
Committing(c) ==
    /\ cli[c].pc = "wait" /\ cli[c].cmd = "commit"
    /\ resp[c] = <<>> => conn[c] = "closed"
    /\ resp[c] # <<>> => resp[c][1].kind = "committed"

\* Where a batch is: in the line it runs, or after a failure in the exit discard.
LineInv(c) ==
    /\ cli[c].pc = "off" => cli[c].line = 0
    /\ cli[c].line = 0 => cli[c].mode = "operational"
    /\ Busy(c) /\ cli[c].cmd # "refresh" =>
           IF cli[c].outcome = "Ok" THEN cli[c].cmd = Batch[cli[c].line + 1]
           ELSE cli[c].mode = "configuration" /\ cli[c].left[1].op = "Close"
    /\ cli[c].outcome = "Ok" /\ cli[c].line + 1 = Len(Batch) => ghost.verdict[c] = "committed"
    /\ cli[c].outcome = "Ok" /\ cli[c].pc = "done" => cli[c].line + 1 = Len(Batch)

\* A close that was answered has closed.
CloseInv(c) ==
    cli[c].mode = "configuration" /\ cli[c].pc = "wait" /\ cli[c].left[1].op = "Close"
      /\ resp[c] # <<>> => daemon.sessions[cli[c].session].gone

\* While its connection lasts: a batch that has failed has left configuration mode when
\* it ends, it has committed only in its last two lines, and of the sessions it opened
\* at most the one it is in is open.
WholeInv(c) ==
    ~ghost.severed[c] =>
        /\ cli[c].outcome # "Ok" /\ cli[c].pc = "done" => cli[c].mode = "operational"
        /\ \/ ghost.committed[c] = 0
           \/ cli[c].outcome = "Ok" /\ (cli[c].line + 1 = Len(Batch) \/ Committing(c))
        /\ \A s \in ghost.opened[c] :
               s \in Holds(c) \/ daemon.sessions[s].gone \/ CutOff(c)

OfBatch(c) == Kind[c] = "batch" => LineInv(c) /\ CloseInv(c) /\ WholeInv(c)

GhostType ==
    /\ {"verdict", "committed", "opened", "severed"} \subseteq DOMAIN ghost
    /\ DOMAIN ghost.committed = Clis /\ DOMAIN ghost.opened = Clis
    /\ DOMAIN ghost.severed = Clis /\ DOMAIN ghost.verdict = Clis

BatchInv ==
    /\ GhostType
    /\ \A c \in Clis : ghost.opened[c] \subseteq DOMAIN daemon.sessions
    /\ \A c \in Clis : OfBatch(c)

\* What batch() runs: `configure` first, then nothing that commits, then `commit` and
\* `exit`.
LEMMA BatchLines ==
    ASSUME Vocabulary, NoCommitInFile
    PROVE  /\ Len(Batch) \in Nat /\ Len(Batch) >= 3
           /\ Batch[Len(Batch) - 1] = "commit" /\ Batch[Len(Batch)] = "exit"
           /\ \A i \in 1..Len(Batch) : Batch[i] = "commit" => i = Len(Batch) - 1
<1> DEFINE first == <<"configure">>
           end == <<"commit", "exit">>
           start == first \o Script
<1>1. Script \in Seq(Lines) /\ first \in Seq(Lines) /\ end \in Seq(Lines)
  <2>1. Script \in Seq(Lines) /\ "configure" \in Lines /\ "commit" \in Lines /\ "exit" \in Lines
    BY DEF Vocabulary, Lines, Verbs
  <2> QED BY <2>1
<1>2. /\ Len(first) = 1 /\ first[1] = "configure" /\ Len(end) = 2
      /\ end[1] = "commit" /\ end[2] = "exit"
  OBVIOUS
<1> HIDE DEF first, end
<1>3. /\ start \in Seq(Lines) /\ Len(start) = 1 + Len(Script)
      /\ \A i \in 1..Len(start) : start[i] = IF i <= 1 THEN first[i] ELSE Script[i - 1]
  BY <1>1, <1>2, ConcatProperties
<1>4. \A i \in 1..Len(start) : start[i] # "commit"
  <2>1. \A i \in 1..Len(Script) : Script[i] # "commit"
    BY <1>1 DEF NoCommitInFile, ToSet
  <2>2. Len(Script) \in Nat
    BY <1>1
  <2> QED BY <1>2, <1>3, <2>1, <2>2
<1> HIDE DEF start
<1>5. Batch = start \o end
  BY DEF Batch, start, first, end
<1>6. /\ Len(Batch) = Len(start) + 2
      /\ \A i \in 1..Len(Batch) :
           Batch[i] = IF i <= Len(start) THEN start[i] ELSE end[i - Len(start)]
  <2>1. /\ Len(start \o end) = Len(start) + Len(end)
        /\ \A i \in 1..(Len(start) + Len(end)) :
             (start \o end)[i] = IF i <= Len(start) THEN start[i] ELSE end[i - Len(start)]
    BY <1>1, <1>3, ConcatProperties
  <2> QED BY <1>2, <1>5, <2>1
<1>7. Len(start) \in Nat /\ Len(start) >= 1
  BY <1>1, <1>3
<1> QED BY <1>2, <1>4, <1>6, <1>7

LEMMA LastButOne ==
    ASSUME NEW m \in Nat, NEW l \in Nat
    PROVE  m + 2 = l <=> m + 1 = l - 1
  OBVIOUS

\* Where a finished command leaves a batch.
LEMMA AfterBatch ==
    ASSUME Vocabulary, NoCommitInFile, NEW c \in Clis, Kind[c] = "batch",
           NEW k \in Processes, NEW o \in Outcomes, cli[c] \in Processes,
           k.line = cli[c].line, k.outcome = cli[c].outcome, cli[c].line < Len(Batch)
    PROVE  LET n == After(c, k, o)
           IN  /\ cli[c].outcome # "Ok" =>
                      n.pc = "done" /\ n.outcome = cli[c].outcome /\ n.line = cli[c].line
               /\ cli[c].outcome = "Ok" /\ cli[c].line + 1 = Len(Batch) =>
                      n.pc = "done" /\ n.outcome = "Ok" /\ n.line = cli[c].line
               /\ cli[c].outcome = "Ok" /\ cli[c].line + 1 # Len(Batch) /\ o = "Ok" =>
                      n.pc = "refresh" /\ n.outcome = "Ok" /\ n.line = cli[c].line + 1
               /\ cli[c].outcome = "Ok" /\ cli[c].line + 1 # Len(Batch) /\ o # "Ok" =>
                      /\ n.outcome = o /\ n.line = cli[c].line
                      /\ n.pc = "done" => cli[c].line = 0
<1>1. Len(Batch) \in Nat /\ Len(Batch) >= 3
  BY BatchLines
<1>2. cli[c].line \in Nat
  BY DEF Processes
<1> QED BY <1>1, <1>2 DEF After, Processes

\* Sessions are opened and closed and never go.
Kept ==
    \A s \in DOMAIN daemon.sessions :
        s \in DOMAIN daemon'.sessions /\ (daemon.sessions[s].gone => daemon'.sessions[s].gone)

\* A batch that does not move.
LEMMA BatchWaits ==
    ASSUME Inv, BatchInv, NEW d \in Clis, Same(d), Kept,
           ghost'.committed[d] = ghost.committed[d], ghost'.opened[d] = ghost.opened[d],
           ghost'.severed[d] = ghost.severed[d]
    PROVE  OfBatch(d)'
<1> SUFFICES ASSUME Kind[d] = "batch" PROVE LineInv(d)' /\ CloseInv(d)' /\ WholeInv(d)'
  BY DEF OfBatch
<1>1. LineInv(d) /\ CloseInv(d) /\ WholeInv(d) /\ ghost.opened[d] \subseteq DOMAIN daemon.sessions
  BY DEF BatchInv, OfBatch
<1>2. Busy(d)' = Busy(d) /\ Batch' = Batch /\ Holds(d)' = Holds(d) /\ CutOff(d)' = CutOff(d)
      /\ Committing(d)' = Committing(d)
  BY DEF Busy, Batch, Holds, CutOff, Committing, Same
<1>3. LineInv(d)'
  BY <1>1, <1>2 DEF LineInv, Same
<1>4. cli[d].mode = "configuration" => cli[d].session \in DOMAIN daemon.sessions
  BY DEF Inv, Types, CliType, Processes, SessionInv, Owned, Holds
<1>5. CloseInv(d)'
  BY <1>1, <1>4 DEF CloseInv, Same, Kept
<1>6. WholeInv(d)'
  BY <1>1, <1>2 DEF WholeInv, Same, Kept
<1> QED BY <1>3, <1>5, <1>6

\* A step of one process that leaves the daemon alone.
LEMMA BatchMoves ==
    ASSUME Inv, BatchInv, NEW c \in Clis, daemon' = daemon, \A d \in Clis \ {c} : Same(d),
           GhostType', ghost'.committed = ghost.committed, ghost'.opened = ghost.opened,
           \A d \in Clis \ {c} : ghost'.severed[d] = ghost.severed[d], OfBatch(c)'
    PROVE  BatchInv'
<1>1. Kept
  BY DEF Kept
<1>2. ASSUME NEW d \in Clis \ {c} PROVE OfBatch(d)'
  BY <1>1, BatchWaits
<1> QED BY <1>2 DEF BatchInv
\* A command of the batch comes to outcome o, in the mode and the session of k.
LEMMA BatchFinishes ==
    ASSUME Vocabulary, NoCommitInFile, Inv, BatchInv, NEW c \in Clis, Kind[c] = "batch",
           NEW k \in Processes, NEW o \in Outcomes,
           k.line = cli[c].line, k.outcome = cli[c].outcome,
           cli'[c] = After(c, k, o), daemon' = daemon, resp'[c] = <<>>,
           ghost'.verdict = ghost.verdict, ghost'.committed = ghost.committed,
           ghost'.opened = ghost.opened,
           k.mode \in {cli[c].mode, "operational"} \/ (o = "Ok" /\ cli[c].outcome = "Ok"),
           cli[c].outcome = "Ok" /\ cli[c].line + 2 = Len(Batch) /\ o = "Ok" =>
               ghost.verdict[c] = "committed",
           ~ghost'.severed[c] =>
               /\ cli[c].outcome # "Ok" => k.mode = "operational"
               /\ \/ ghost.committed[c] = 0
                  \/ /\ cli[c].outcome = "Ok"
                     /\ \/ cli[c].line + 1 = Len(Batch)
                        \/ o = "Ok" /\ cli[c].line + 2 = Len(Batch)
               /\ \A s \in ghost.opened[c] :
                      \/ daemon.sessions[s].gone
                      \/ k.mode = "configuration" /\ s = k.session
    PROVE  OfBatch(c)'
<1> DEFINE n == After(c, k, o)
<1>1. /\ cli[c] \in Processes /\ cli[c].line \in Nat /\ cli[c].line < Len(Batch)
      /\ LineInv(c) /\ k.session \in Nat
  BY DEF Inv, Types, CliType, Mine, CliInv, BatchInv, OfBatch, Processes
<1>2. Len(Batch) \in Nat /\ Len(Batch) >= 3 /\ Batch' = Batch
  BY BatchLines DEF Batch
<1>3. /\ n \in Processes /\ n.pc \in {"refresh", "done"} /\ n.mode = k.mode
      /\ n.session = k.session
  BY <1>1, AfterFacts
<1>4. /\ cli[c].outcome # "Ok" =>
             n.pc = "done" /\ n.outcome = cli[c].outcome /\ n.line = cli[c].line
      /\ cli[c].outcome = "Ok" /\ cli[c].line + 1 = Len(Batch) =>
             n.pc = "done" /\ n.outcome = "Ok" /\ n.line = cli[c].line
      /\ cli[c].outcome = "Ok" /\ cli[c].line + 1 # Len(Batch) /\ o = "Ok" =>
             n.pc = "refresh" /\ n.outcome = "Ok" /\ n.line = cli[c].line + 1
      /\ cli[c].outcome = "Ok" /\ cli[c].line + 1 # Len(Batch) /\ o # "Ok" =>
             /\ n.outcome = o /\ n.line = cli[c].line
             /\ n.pc = "done" => cli[c].line = 0
  BY <1>1, AfterBatch
<1> HIDE DEF n
<1>5. cli'[c] = n
  BY DEF n
<1>6. n.line = 0 => cli[c].line = 0 /\ n.mode = "operational"
  BY <1>1, <1>2, <1>3, <1>4 DEF LineInv
<1>7. n.outcome = "Ok" /\ n.line + 1 = Len(Batch) => ghost.verdict[c] = "committed"
  BY <1>1, <1>2, <1>4 DEF LineInv
<1>8. n.outcome = "Ok" /\ n.pc = "done" => n.line + 1 = Len(Batch)
  BY <1>4
<1>9. LineInv(c)' /\ CloseInv(c)'
  BY <1>2, <1>3, <1>5, <1>6, <1>7, <1>8 DEF LineInv, CloseInv, Busy
<1>10. ASSUME ~ghost'.severed[c] PROVE n.outcome # "Ok" /\ n.pc = "done" => n.mode = "operational"
  BY <1>1, <1>3, <1>4, <1>6, <1>10
<1>11. ASSUME ~ghost'.severed[c]
       PROVE  ghost.committed[c] = 0 \/ (n.outcome = "Ok" /\ n.line + 1 = Len(Batch))
  BY <1>1, <1>2, <1>4, <1>11
<1>12. ASSUME ~ghost'.severed[c], NEW s \in ghost.opened[c]
       PROVE  s \in Holds(c)' \/ daemon.sessions[s].gone
  BY <1>1, <1>3, <1>5, <1>12 DEF Holds
<1>13. WholeInv(c)'
  BY <1>2, <1>5, <1>10, <1>11, <1>12 DEF WholeInv
<1> QED BY <1>9, <1>13 DEF OfBatch

\* A step of the process that finishes no command.
LEMMA BatchGoesOn ==
    ASSUME Inv, BatchInv, NEW c \in Clis, Kind[c] = "batch", daemon' = daemon,
           ghost'.verdict = ghost.verdict, ghost'.committed = ghost.committed,
           ghost'.opened = ghost.opened,
           cli'[c].pc \in {"call", "wait", "ready", "shell"},
           resp'[c] # <<>> => cli'[c].pc = "call",
           cli'[c].mode = cli[c].mode, cli'[c].session = cli[c].session,
           cli'[c].line = cli[c].line, cli'[c].outcome = cli[c].outcome,
           Busy(c)' /\ cli'[c].cmd # "refresh" =>
               IF cli[c].outcome = "Ok" THEN cli'[c].cmd = Batch[cli[c].line + 1]
               ELSE cli[c].mode = "configuration" /\ cli'[c].left[1].op = "Close",
           ~ghost'.severed[c] =>
               /\ ~ghost.severed[c] /\ ~Committing(c) /\ ~CutOff(c)
               /\ resp[c] # <<>> => resp[c][1].kind # "session"
    PROVE  OfBatch(c)'
<1>1. LineInv(c) /\ WholeInv(c) /\ Batch' = Batch
  BY DEF BatchInv, OfBatch, Batch
<1>2. LineInv(c)'
  BY <1>1 DEF LineInv
<1>3. CloseInv(c)'
  BY DEF CloseInv
<1>4. ASSUME ~ghost'.severed[c] PROVE Holds(c) \subseteq Holds(c)'
  BY <1>4 DEF Holds
<1>5. WholeInv(c)'
  BY <1>1, <1>4 DEF WholeInv
<1> QED BY <1>2, <1>3, <1>5 DEF OfBatch

LEMMA BatchConnects ==
    ASSUME Vocabulary, NoCommitInFile, Inv, BatchInv, NEW c \in Clis,
           Connect(c) \/ ConnectFails(c) \/ Refresh(c)
    PROVE  BatchInv'
<1>1. /\ Types /\ Mine(c) /\ cli[c] \in Processes /\ cli[c].pc \in {"off", "refresh"}
  BY DEF Inv, Types, CliType, Connect, ConnectFails, Refresh
<1>2. /\ daemon' = daemon /\ ghost' = ghost
      /\ \A d \in Clis \ {c} : Same(d)
  BY <1>1 DEF Connect, ConnectFails, Refresh, Same, Types, CliType, FrameType
<1>3. resp[c] = <<>> /\ ~Committing(c) /\ ~CutOff(c)
  BY <1>1 DEF Mine, FrameInv, Committing, CutOff
<1>4. CASE Connect(c) \/ Refresh(c)
  <2>1. /\ cli'[c].mode = cli[c].mode /\ cli'[c].session = cli[c].session
        /\ cli'[c].line = cli[c].line /\ cli'[c].outcome = cli[c].outcome
        /\ cli'[c].pc = "call" /\ cli'[c].cmd = "refresh"
    BY <1>1, <1>4 DEF Connect, Refresh, Types, CliType, Processes
  <2>2. OfBatch(c)'
    BY <1>2, <1>3, <2>1, BatchGoesOn DEF OfBatch
  <2> QED BY <1>2, <2>2, BatchMoves DEF BatchInv, GhostType
<1>5. CASE ConnectFails(c)
  <2>1. /\ cli'[c].mode = cli[c].mode /\ cli'[c].session = cli[c].session
        /\ cli'[c].line = cli[c].line /\ cli'[c].outcome = "CommandError"
        /\ cli'[c].pc = "done" /\ resp'[c] = <<>> /\ cli[c].pc = "off"
    BY <1>1, <1>3, <1>5 DEF ConnectFails, Types, CliType, Processes
  <2>2. cli[c].mode = "operational"
    BY <1>1, <2>1 DEF Mine, CliInv, Processes
  <2>3. ASSUME Kind[c] = "batch" PROVE LineInv(c)' /\ CloseInv(c)' /\ WholeInv(c)'
    <3>1. LineInv(c) /\ WholeInv(c)
      BY <2>3 DEF BatchInv, OfBatch
    <3>2. cli[c].line = 0 /\ cli[c].line \in Nat /\ Len(Batch) \in Nat /\ Len(Batch) >= 3
      BY <1>1, <2>1, <3>1, BatchLines DEF LineInv, Processes
    <3>3. cli[c].line + 1 # Len(Batch)
      <4>1. ASSUME NEW l \in Nat, l >= 3 PROVE 0 + 1 # l
        BY <4>1
      <4> QED BY <3>2, <4>1
    <3>4. LineInv(c)' /\ CloseInv(c)'
      BY <2>1, <2>2 DEF LineInv, CloseInv, Busy
    <3>5. Holds(c) = {}
      BY <1>3, <2>2 DEF Holds
    <3>6. ASSUME ~ghost.severed[c]
          PROVE  /\ ghost.committed[c] = 0
                 /\ \A s \in ghost.opened[c] : daemon.sessions[s].gone
      BY <1>3, <3>1, <3>3, <3>5, <3>6 DEF WholeInv
    <3>7. WholeInv(c)'
      BY <1>2, <2>1, <2>2, <3>6 DEF WholeInv
    <3> QED BY <3>4, <3>7
  <2>4. OfBatch(c)'
    BY <2>3 DEF OfBatch
  <2> QED BY <1>2, <2>4, BatchMoves DEF BatchInv, GhostType
<1> QED BY <1>4, <1>5

LEMMA BatchSends ==
    ASSUME Inv, BatchInv, NEW c \in Clis, Send(c) \/ LeaveShell(c)
    PROVE  BatchInv'
<1>1. /\ Types /\ Mine(c) /\ cli[c] \in Processes /\ cli[c].pc \in {"call", "shell"}
  BY DEF Inv, Types, CliType, Send, LeaveShell
<1>2. /\ daemon' = daemon /\ ghost' = ghost /\ resp' = resp
      /\ \A d \in Clis \ {c} : Same(d)
  BY <1>1 DEF Send, LeaveShell, Same, Types, CliType, FrameType
<1>3. resp[c] = <<>> /\ ~Committing(c) /\ ~CutOff(c) /\ Busy(c)
  BY <1>1 DEF Mine, FrameInv, Committing, CutOff, Busy, Send, LeaveShell
<1>4. /\ cli'[c].mode = cli[c].mode /\ cli'[c].session = cli[c].session
      /\ cli'[c].line = cli[c].line /\ cli'[c].outcome = cli[c].outcome
      /\ cli'[c].pc \in {"call", "wait"} /\ cli'[c].cmd = cli[c].cmd
      /\ cli'[c].left = cli[c].left
  BY <1>1 DEF Send, LeaveShell, Types, CliType, Processes
<1>5. Kind[c] = "batch" => LineInv(c)
  BY DEF BatchInv, OfBatch
<1>6. OfBatch(c)'
  BY <1>2, <1>3, <1>4, <1>5, BatchGoesOn DEF OfBatch, LineInv
<1> QED BY <1>2, <1>6, BatchMoves DEF BatchInv, GhostType

LEMMA BatchSevered ==
    ASSUME Vocabulary, NoCommitInFile, Inv, BatchInv, NEW c \in Clis, Severed(c)
    PROVE  BatchInv'
<1>1. /\ Types /\ cli[c] \in Processes /\ resp[c] = <<>> /\ GhostType /\ FrameType
  BY DEF Inv, Types, CliType, BatchInv, Severed
<1>2. /\ GhostType' /\ ghost'.verdict = ghost.verdict
      /\ ghost'.committed = ghost.committed /\ ghost'.opened = ghost.opened
      /\ \A d \in Clis \ {c} : ghost'.severed[d] = ghost.severed[d]
      /\ ghost'.severed[c] = TRUE
  <2>1. PICK said : \/ ghost' = [ghost EXCEPT !.severed[c] = TRUE]
                    \/ ghost' = [ghost EXCEPT !.severed[c] = TRUE, !.said[c] = said]
    BY DEF Severed
  <2>2. CASE ghost' = [ghost EXCEPT !.severed[c] = TRUE]
    BY <1>1, <2>2 DEF GhostType
  <2>3. CASE ghost' = [ghost EXCEPT !.severed[c] = TRUE, !.said[c] = said]
    BY <1>1, <2>3 DEF GhostType
  <2> QED BY <2>1, <2>2, <2>3
<1>3. daemon' = daemon /\ resp' = resp /\ \A d \in Clis \ {c} : Same(d)
  BY <1>1, <1>2 DEF Severed, Same, Types, CliType, FrameType
<1>4. CASE cli[c].cmd = "refresh"
  <2>1. /\ cli'[c].mode = cli[c].mode /\ cli'[c].session = cli[c].session
        /\ cli'[c].line = cli[c].line /\ cli'[c].outcome = cli[c].outcome
        /\ cli'[c].pc = "ready" /\ cli'[c].cmd = "refresh"
    BY <1>1, <1>4 DEF Severed, Types, CliType, Processes
  <2>2. OfBatch(c)'
    BY <1>1, <1>2, <1>3, <2>1, BatchGoesOn DEF OfBatch
  <2> QED BY <1>2, <1>3, <2>2, BatchMoves
<1>5. CASE cli[c].cmd # "refresh"
  <2>1. cli'[c] = After(c, cli[c], "CommandError") /\ "CommandError" \in Outcomes
    BY <1>1, <1>5 DEF Severed, Types, CliType, Outcomes
  <2>2. ASSUME Kind[c] = "batch" PROVE OfBatch(c)'
    <3>1. PICK k \in Processes : k = cli[c]
      BY <1>1
    <3>2. PICK o \in Outcomes : o = "CommandError"
      BY <2>1
    <3>3. resp'[c] = <<>> /\ o # "Ok" /\ ghost'.severed[c]
      BY <1>1, <1>2, <1>3, <3>2
    <3>4. cli'[c] = After(c, k, o)
      BY <2>1, <3>1, <3>2
    <3>5. k.line = cli[c].line /\ k.outcome = cli[c].outcome /\ k.mode \in {cli[c].mode, "operational"}
      BY <3>1
    <3> QED BY <1>2, <1>3, <2>2, <3>3, <3>4, <3>5, BatchFinishes
  <2>3. OfBatch(c)'
    BY <2>2 DEF OfBatch
  <2> QED BY <1>2, <1>3, <2>3, BatchMoves
<1> QED BY <1>4, <1>5

LEMMA BatchRuns ==
    ASSUME Vocabulary, NoCommitInFile, Inv, BatchInv, NEW c \in Clis, NEW cmd \in Lines,
           Run(c, cmd)
    PROVE  BatchInv'
<1>1. /\ Types /\ Mine(c) /\ cli[c] \in Processes /\ FrameType /\ cli[c].pc = "ready"
      /\ cmd \in NextLine(c) /\ GhostType
  BY DEF Inv, Types, CliType, Run, BatchInv
<1>2. resp[c] = <<>> /\ ~Committing(c) /\ ~CutOff(c)
  BY <1>1 DEF Mine, FrameInv, Committing, CutOff
<1>3. /\ GhostType' /\ ghost'.verdict = ghost.verdict
      /\ ghost'.committed = ghost.committed /\ ghost'.opened = ghost.opened
      /\ ghost'.severed = ghost.severed
  <2>1. PICK said : ghost' = ghost \/ ghost' = [ghost EXCEPT !.said[c] = said]
    BY DEF Run, Finish
  <2>2. CASE ghost' = [ghost EXCEPT !.said[c] = said]
    BY <1>1, <2>2 DEF GhostType
  <2> QED BY <1>1, <2>1, <2>2 DEF GhostType
<1> DEFINE k == [cli[c] EXCEPT !.cmd = cmd, !.typed = IF @ < MaxCommands THEN @ + 1 ELSE @]
<1>4. /\ k \in Processes /\ k.mode = cli[c].mode /\ k.session = cli[c].session
      /\ k.cmd = cmd /\ k.line = cli[c].line /\ k.outcome = cli[c].outcome
  <2> DEFINE typed == IF cli[c].typed < MaxCommands THEN cli[c].typed + 1 ELSE cli[c].typed
  <2>1. typed \in Nat
    BY <1>1 DEF Processes
  <2> HIDE DEF typed
  <2>2. k = [cli[c] EXCEPT !.cmd = cmd, !.typed = typed]
    BY DEF typed
  <2>5. cmd \in Commands
    BY DEF Commands
  <2> HIDE DEF k
  <2> QED BY <1>1, <2>1, <2>2, <2>5 DEF Processes
<1>5. /\ daemon' = daemon /\ resp' = resp
      /\ \A d \in Clis \ {c} : Same(d)
  <2>1. UNCHANGED <<conn, req, resp, daemon>> /\ \E n : cli' = [cli EXCEPT ![c] = n]
    BY DEF Run, Finish
  <2> QED BY <1>1, <1>3, <2>1 DEF Same, Types, CliType
<1>6. ASSUME Kind[c] = "batch" PROVE OfBatch(c)'
  <2>1. /\ cli[c].outcome = "Ok" => cmd = Batch[cli[c].line + 1]
        /\ cli[c].outcome # "Ok" => cmd = "exit discard"
        /\ LineInv(c) /\ WholeInv(c) /\ cli[c].line \in Nat /\ cli[c].line < Len(Batch)
        /\ cli[c].mode \in {"operational", "configuration"}
    BY <1>1, <1>6 DEF NextLine, BatchInv, OfBatch, Processes, Mine, CliInv
  <2>2. ASSUME ~ghost.severed[c]
        PROVE  /\ ghost.committed[c] = 0 \/ (cli[c].outcome = "Ok" /\ cli[c].line + 1 = Len(Batch))
               /\ \A s \in ghost.opened[c] :
                      \/ daemon.sessions[s].gone
                      \/ cli[c].mode = "configuration" /\ s = cli[c].session
    BY <1>2, <2>1, <2>2 DEF WholeInv, Holds
  <2>3. "exit discard" \notin Values
    BY DEF Vocabulary, Verbs
  <2>4. ASSUME cmd = "exit discard", cli[c].mode = "configuration"
        PROVE  Calls(c, cmd) # <<>> /\ Calls(c, cmd)[1].op = "Close"
    <3> DEFINE l == Calls(c, cmd)
               r == Request(c, "Close", First)
    <3>1. l = <<r>>
      BY <2>3, <2>4 DEF Calls, Configuration, LeaveConfiguration
    <3>2. r.op = "Close"
      BY DEF Request
    <3> HIDE DEF l, r
    <3>3. l # <<>> /\ l[1].op = "Close"
      BY <3>1, <3>2
    <3> QED BY <3>3 DEF l
  <2>5. CASE Calls(c, cmd) = <<>>
    <3>1. PICK o \in Local(c, cmd) : Finish(c, k, o)
      BY <2>5 DEF Run
    <3>2. o \in Outcomes
      BY DEF Local, Ping, Unknown, Outcomes
    <3>3. cmd = "exit discard" => cli[c].mode = "operational"
      BY <2>1, <2>4, <2>5
    <3>4. cmd = "commit" => cli[c].mode = "operational" /\ o # "Ok"
      <4>1. cmd = "commit" => cli[c].mode = "operational"
        BY <2>1, <2>5 DEF Calls, Configuration, Commit, Vocabulary, Verbs
      <4> QED BY <4>1 DEF Local, Unknown
    <3>5. cli[c].line + 2 = Len(Batch) => Batch[cli[c].line + 1] = "commit"
      BY <2>1, BatchLines, LastButOne
    <3>6. cli'[c] = After(c, k, o)
      BY <1>1, <3>1 DEF Finish, Types, CliType
    <3> HIDE DEF k
    <3>7. ~(cli[c].outcome = "Ok" /\ cli[c].line + 2 = Len(Batch) /\ o = "Ok")
      BY <2>1, <3>4, <3>5
    <3>8. ASSUME ~ghost'.severed[c]
          PROVE  /\ cli[c].outcome # "Ok" => k.mode = "operational"
                 /\ \/ ghost.committed[c] = 0
                    \/ /\ cli[c].outcome = "Ok"
                       /\ \/ cli[c].line + 1 = Len(Batch)
                          \/ o = "Ok" /\ cli[c].line + 2 = Len(Batch)
                 /\ \A s \in ghost.opened[c] :
                        \/ daemon.sessions[s].gone
                        \/ k.mode = "configuration" /\ s = k.session
      BY <1>3, <1>4, <2>1, <2>2, <3>3, <3>8
    <3> QED BY <1>2, <1>3, <1>4, <1>5, <1>6, <3>2, <3>6, <3>7, <3>8, BatchFinishes
  <2>6. CASE Calls(c, cmd) # <<>>
    <3> DEFINE n == [k EXCEPT !.pc = "call", !.left = Calls(c, cmd)]
    <3>1. cli'[c] = n
      BY <1>1, <2>6 DEF Run, Types, CliType
    <3> HIDE DEF k
    <3>2. /\ cli'[c].mode = cli[c].mode /\ cli'[c].session = cli[c].session
          /\ cli'[c].line = cli[c].line /\ cli'[c].outcome = cli[c].outcome
          /\ cli'[c].pc = "call" /\ cli'[c].cmd = cmd /\ cli'[c].left = Calls(c, cmd)
      BY <1>4, <3>1 DEF Processes
    <3>3. cmd = "exit discard" => cli[c].mode = "configuration" /\ Calls(c, cmd)[1].op = "Close"
      <4>1. ASSUME cmd = "exit discard", cli[c].mode = "operational" PROVE FALSE
        BY <2>6, <4>1 DEF Calls, Operational
      <4> QED BY <2>1, <2>4, <4>1
    <3> QED BY <1>2, <1>3, <1>5, <1>6, <2>1, <3>2, <3>3, BatchGoesOn
  <2> QED BY <2>5, <2>6
<1>7. OfBatch(c)'
  BY <1>6 DEF OfBatch
<1> QED BY <1>3, <1>5, <1>7, BatchMoves

LEMMA BatchReads ==
    ASSUME Vocabulary, NoCommitInFile, Inv, BatchInv, NEW c \in Clis, Reply(c)
    PROVE  BatchInv'
<1> DEFINE a == resp[c][1]
           op == cli[c].left[1].op
           v == Verdict(c, a)
           rest == Tail(cli[c].left)
<1>1. /\ Types /\ Mine(c) /\ cli[c] \in Processes /\ FrameType /\ resp[c] # <<>>
      /\ Busy(c) /\ CallsFit(c) /\ cli[c].left \in Seq(Requests) /\ GhostType
  BY DEF Inv, Types, CliType, Mine, CliInv, Reply, Busy, Processes, BatchInv
<1>2. UNCHANGED <<conn, req, daemon>> /\ resp' = [resp EXCEPT ![c] = <<>>] /\ resp'[c] = <<>>
  BY <1>1 DEF Reply, FrameType
<1>3. Len(cli[c].left) \in {1, 2} /\ Head(cli[c].left) = cli[c].left[1]
  BY <1>1, OneOrTwo DEF CallsFit, Fit
<1>4. /\ GhostType' /\ ghost'.verdict = ghost.verdict
      /\ ghost'.committed = ghost.committed /\ ghost'.opened = ghost.opened
      /\ ghost'.severed = ghost.severed
  <2>1. PICK told, said : \/ ghost' = [ghost EXCEPT !.told[c] = told]
                          \/ ghost' = [ghost EXCEPT !.told[c] = told, !.said[c] = said]
    BY DEF Reply
  <2>2. CASE ghost' = [ghost EXCEPT !.told[c] = told]
    BY <1>1, <2>2 DEF GhostType
  <2>3. CASE ghost' = [ghost EXCEPT !.told[c] = told, !.said[c] = said]
    BY <1>1, <2>3 DEF GhostType
  <2> QED BY <2>1, <2>2, <2>3
<1>5. \A d \in Clis \ {c} : Same(d)
  <2>1. \A d \in Clis \ {c} : cli'[d] = cli[d]
    BY <1>1 DEF Reply, Types, CliType
  <2> QED BY <1>1, <1>2, <1>4, <2>1 DEF Same, FrameType
<1>6. a.kind = "session" => op = "Open" /\ a.val \in Nat \ {0}
  BY <1>1 DEF Mine, AnswerInv
<1>7. /\ op = "Open" /\ a.kind = "session" => v = "Ok"
      /\ cli[c].cmd # "refresh" /\ op = "Close" => v = "Ok"
      /\ cli[c].cmd = "commit" /\ a.kind # "failed" => v = "Ok"
      /\ cli[c].cmd = "commit" /\ v = "Ok" => a.kind # "failed"
      /\ cli[c].cmd = "refresh" => v = "go on"
      /\ v \in Outcomes \cup {"go on"}
      /\ v = "go on" =>
             \/ cli[c].cmd = "refresh"
             \/ cli[c].cmd # "refresh" /\ Len(cli[c].left) # 1 /\ op # "Close"
  BY <1>1, VerdictFacts
<1>8. /\ op = "Open" => cli[c].cmd = "configure" /\ cli[c].mode = "operational"
                       /\ Len(cli[c].left) = 1
      /\ cli[c].cmd = "commit" => op = "Commit" /\ Len(cli[c].left) = 1
  BY <1>1 DEF CallsFit, Fit
<1>9. ASSUME Kind[c] = "batch" PROVE OfBatch(c)'
  <2>1. /\ LineInv(c) /\ CloseInv(c) /\ WholeInv(c) /\ cli[c].line \in Nat
        /\ cli[c].mode \in {"operational", "configuration"} /\ ~CutOff(c)
    BY <1>1, <1>9 DEF BatchInv, OfBatch, Processes, CutOff
  <2>2. CASE v = "go on"
    <3>1. cli[c].cmd # "commit" /\ a.kind # "session" /\ op # "Close"
      <4>1. CASE cli[c].cmd = "refresh"
        BY <1>1, <1>6, <4>1 DEF CallsFit, Fit
      <4>2. CASE cli[c].cmd # "refresh"
        BY <1>6, <1>7, <1>8, <2>2, <4>2
      <4> QED BY <4>1, <4>2
    <3>2. /\ cli'[c].mode = cli[c].mode /\ cli'[c].session = cli[c].session
          /\ cli'[c].line = cli[c].line /\ cli'[c].outcome = cli[c].outcome
          /\ cli'[c].pc \in {"shell", "ready", "call"} /\ cli'[c].cmd = cli[c].cmd
      <4> DEFINE pc == IF op = "ShellEnter" THEN "shell" ELSE IF rest = <<>> THEN "ready" ELSE "call"
      <4>1. cli' = [cli EXCEPT ![c].left = rest, ![c].pc = pc]
        BY <1>3, <2>2 DEF Reply
      <4>2. pc \in {"shell", "ready", "call"}
        OBVIOUS
      <4> HIDE DEF pc, rest
      <4>3. cli'[c] = [cli[c] EXCEPT !.left = rest, !.pc = pc]
        BY <1>1, <4>1 DEF Types, CliType
      <4> QED BY <1>1, <4>2, <4>3 DEF Processes
    <3>3. cli[c].cmd # "refresh" => cli[c].outcome = "Ok" /\ cli[c].cmd = Batch[cli[c].line + 1]
      BY <1>1, <2>1, <3>1 DEF LineInv
    <3>4. ~Committing(c)
      BY <3>1 DEF Committing
    <3> QED BY <1>2, <1>4, <1>9, <2>1, <3>1, <3>2, <3>3, <3>4, BatchGoesOn
  <2>3. CASE v # "go on"
    <3> DEFINE k == IF op = "Open" /\ a.kind = "session"
                    THEN [cli[c] EXCEPT !.session = a.val, !.mode = "configuration", !.prefix = FALSE]
                    ELSE IF op = "Close"
                    THEN [cli[c] EXCEPT !.session = NoSession, !.mode = "operational", !.prefix = FALSE]
                    ELSE cli[c]
    <3>1. cli'[c] = After(c, k, v)
      BY <1>1, <1>3, <2>3 DEF Reply, Types, CliType
    <3>2. v \in Outcomes /\ cli[c].cmd # "refresh"
      BY <1>7, <2>3
    <3>3. /\ k \in Processes /\ k.line = cli[c].line /\ k.outcome = cli[c].outcome
          /\ a.kind = "session" => k.session = a.val /\ k.mode = "configuration"
          /\ a.kind # "session" /\ op = "Close" => k.session = NoSession /\ k.mode = "operational"
          /\ a.kind # "session" /\ op # "Close" => k.session = cli[c].session /\ k.mode = cli[c].mode
      BY <1>1, <1>6 DEF Processes, NoSession
    <3> HIDE DEF k, v
    <3>4. IF cli[c].outcome = "Ok" THEN cli[c].cmd = Batch[cli[c].line + 1]
          ELSE cli[c].mode = "configuration" /\ op = "Close"
      BY <1>1, <2>1, <3>2 DEF LineInv
    <3>5. cli[c].pc = "wait"
      BY <1>1, <3>2 DEF Mine, FrameInv
    <3>6. k.mode \in {cli[c].mode, "operational"} \/ (v = "Ok" /\ cli[c].outcome = "Ok")
      BY <1>6, <1>7, <1>8, <3>3, <3>4
    <3>7. ASSUME cli[c].outcome = "Ok", cli[c].line + 2 = Len(Batch), v = "Ok"
          PROVE  ghost.verdict[c] = "committed"
      <4>1. cli[c].cmd = "commit"
        BY <2>1, <3>4, <3>7, BatchLines, LastButOne
      <4> QED BY <1>1, <1>7, <1>8, <3>7, <4>1 DEF Mine, AnswerInv
    <3>8. ASSUME ~ghost'.severed[c]
          PROVE  /\ cli[c].outcome # "Ok" => k.mode = "operational"
                 /\ \/ ghost.committed[c] = 0
                    \/ /\ cli[c].outcome = "Ok"
                       /\ \/ cli[c].line + 1 = Len(Batch)
                          \/ v = "Ok" /\ cli[c].line + 2 = Len(Batch)
                 /\ \A s \in ghost.opened[c] :
                        \/ daemon.sessions[s].gone
                        \/ k.mode = "configuration" /\ s = k.session
      <4>1. cli[c].outcome # "Ok" => k.mode = "operational"
        BY <1>6, <3>3, <3>4
      <4>2. ASSUME cli[c].outcome = "Ok", Committing(c)
            PROVE  v = "Ok" /\ cli[c].line + 2 = Len(Batch)
        <5>1. v = "Ok" /\ cli[c].cmd = "commit"
          BY <1>1, <1>7, <4>2 DEF Committing
        <5>2. cli[c].line + 1 \in 1..Len(Batch) /\ Batch[cli[c].line + 1] = "commit"
          <6>1. cli[c].line < Len(Batch)
            BY <1>1, <1>9 DEF Mine, CliInv
          <6> QED BY <2>1, <3>4, <4>2, <5>1, <6>1, BatchLines
        <5>3. cli[c].line + 1 = Len(Batch) - 1
          BY <5>2, BatchLines
        <5> QED BY <2>1, <5>1, <5>3, BatchLines, LastButOne
      <4>3. ASSUME NEW s \in ghost.opened[c]
            PROVE  daemon.sessions[s].gone \/ (k.mode = "configuration" /\ s = k.session)
        <5>1. s \in Holds(c) \/ daemon.sessions[s].gone
          BY <1>4, <2>1, <3>8, <4>3 DEF WholeInv
        <5>2. CASE a.kind = "session" /\ s = a.val
          BY <3>3, <5>2
        <5>3. CASE cli[c].mode = "configuration" /\ s = cli[c].session
          BY <1>1, <1>6, <1>8, <2>1, <3>3, <3>5, <5>3 DEF CloseInv
        <5> QED BY <5>1, <5>2, <5>3 DEF Holds
      <4> QED BY <1>4, <2>1, <3>8, <4>1, <4>2, <4>3 DEF WholeInv
    <3> QED BY <1>2, <1>4, <1>9, <3>1, <3>2, <3>3, <3>6, <3>7, <3>8, BatchFinishes
  <2> QED BY <2>2, <2>3
<1>10. OfBatch(c)'
  BY <1>9 DEF OfBatch
<1> QED BY <1>2, <1>4, <1>5, <1>10, BatchMoves

\* A close closes the operator's session, and no handler opens one again.
LEMMA CloseCloses ==
    ASSUME DaemonType, NEW c \in Clis, NEW r \in Requests, r.op = "Close"
    PROVE  /\ Owned(c, r.session) => Handle(c, r)[1].sessions[r.session].gone
           /\ \A x \in DOMAIN daemon.sessions :
                  daemon.sessions[x].gone => Handle(c, r)[1].sessions[x].gone
<1> DEFINE s == r.session
           it == daemon.sessions[s]
           closed == [it EXCEPT !.gone = TRUE]
           H == Handle(c, r)
<1>1. CASE ~Owned(c, s) \/ it.gone
  <2>1. H = <<daemon, Failed("Request")>>
    BY <1>1 DEF Handle
  <2>2. H[1] = daemon
    BY <2>1, Pair
  <2> HIDE DEF H
  <2> QED BY <1>1, <2>2 DEF H
<1>2. CASE Owned(c, s) /\ ~it.gone
  <2>1. H = <<With(s, closed), Answer("ok", "")>>
    BY <1>2 DEF Handle
  <2>2. H[1] = With(s, closed)
    BY <2>1, Pair
  <2>3. s \in DOMAIN daemon.sessions /\ it \in SessionRecords
    <3>1. daemon.sessions \in Seq(SessionRecords)
      BY DEF DaemonType, Daemons
    <3> QED BY <1>2, <3>1 DEF Owned
  <2>4. closed \in SessionRecords /\ closed.gone
    BY <2>3 DEF SessionRecords
  <2> HIDE DEF H, closed
  <2>5. /\ DOMAIN H[1].sessions = DOMAIN daemon.sessions
        /\ H[1].sessions[s] = closed
        /\ \A x \in DOMAIN daemon.sessions \ {s} : H[1].sessions[x] = daemon.sessions[x]
    BY <2>2, <2>3, <2>4, OneReplaced
  <2>6. ASSUME NEW x \in DOMAIN daemon.sessions, daemon.sessions[x].gone
        PROVE  H[1].sessions[x].gone
    BY <2>4, <2>5, <2>6
  <2> QED BY <2>4, <2>5, <2>6 DEF H
<1> QED BY <1>1, <1>2

LEMMA BatchServed ==
    ASSUME Vocabulary, NoCommitInFile, Inv, BatchInv, NEW c \in Clis, Serve(c)
    PROVE  BatchInv'
<1> DEFINE r == req[c][1]
           D == Handle(c, r)[1]
           A == Handle(c, r)[2]
           old == daemon.sessions
<1>1. /\ Types /\ Mine(c) /\ CliType /\ DaemonType /\ FrameType /\ cli[c] \in Processes
      /\ GhostType /\ old \in Seq(SessionRecords) /\ SessionInv
  BY DEF Inv, Types, CliType, BatchInv, DaemonType, Daemons
<1>2. /\ req[c] = <<cli[c].left[1]>> /\ resp[c] = <<>> /\ cli[c].pc = "wait" /\ conn[c] = "open"
  BY <1>1 DEF Mine, FrameInv, Serve
<1>3. Busy(c) /\ CallsFit(c) /\ cli[c].left \in Seq(Requests)
  BY <1>1, <1>2 DEF Busy, Mine, CliInv, Processes
<1>4. r = cli[c].left[1] /\ r \in Requests /\ r.session = cli[c].session
      /\ (r.op = "Commit" => cli[c].cmd = "commit")
  <2>1. r = cli[c].left[1]
    BY <1>2
  <2>2. Len(cli[c].left) \in {1, 2} /\ cli[c].left[1].session = cli[c].session
        /\ (cli[c].left[1].op = "Commit" => cli[c].cmd = "commit")
    BY <1>3 DEF CallsFit, Fit
  <2>3. cli[c].left[1] \in Requests
    BY <1>3, <2>2, OneOrTwo
  <2> QED BY <2>1, <2>2, <2>3
<1> HIDE DEF r
<1>5. /\ cli' = cli /\ conn' = conn /\ daemon' = D
      /\ resp' = [resp EXCEPT ![c] = <<A>>] /\ req' = [req EXCEPT ![c] = <<>>]
  BY DEF Serve, r
<1>6. /\ GhostType'
      /\ ghost'.severed = ghost.severed
      /\ \A d \in Clis \ {c} : /\ ghost'.verdict[d] = ghost.verdict[d]
                               /\ ghost'.committed[d] = ghost.committed[d]
                               /\ ghost'.opened[d] = ghost.opened[d]
  BY <1>1 DEF Serve, GhostType
<1>7. /\ ghost'.verdict[c] = IF r.op = "Commit" THEN A.kind ELSE ghost.verdict[c]
      /\ ghost'.opened[c] = IF A.kind = "session" THEN ghost.opened[c] \cup {A.val} ELSE ghost.opened[c]
      /\ \/ ghost'.committed[c] = ghost.committed[c]
         \/ r.op = "Commit" /\ A = Answer("committed", "changes")
  BY <1>1 DEF Serve, GhostType, r
<1>8. /\ r.op = "Open" =>
           /\ A.kind = "session" /\ A.val = Len(old) + 1
           /\ D.sessions = Append(old, [owner |-> Uid[c], cand |-> daemon.running,
                                        base |-> daemon.gen, gone |-> FALSE])
      /\ r.op # "Open" =>
           /\ A.kind # "session" /\ DOMAIN D.sessions = DOMAIN old
           /\ \A x \in DOMAIN old : r.op # "Close" => D.sessions[x].gone = old[x].gone
  BY <1>1, <1>4, HandleFacts
<1>9. r.op = "Close" =>
           /\ Owned(c, r.session) => D.sessions[r.session].gone
           /\ \A x \in DOMAIN old : old[x].gone => D.sessions[x].gone
  BY <1>1, <1>4, CloseCloses
<1> HIDE DEF D, A
<1>10. /\ Kept
       /\ A.kind = "session" => A.val \in Nat /\ A.val \in DOMAIN daemon'.sessions
  <2>1. CASE r.op = "Open"
    <3> DEFINE new == [owner |-> Uid[c], cand |-> daemon.running, base |-> daemon.gen, gone |-> FALSE]
    <3>1. D.sessions = Append(old, new)
      BY <1>8, <2>1
    <3> HIDE DEF new
    <3>2. /\ DOMAIN D.sessions = 1..(Len(old) + 1) /\ DOMAIN old = 1..Len(old) /\ Len(old) \in Nat
          /\ \A x \in 1..Len(old) : D.sessions[x] = old[x]
      BY <1>1, <3>1
    <3> QED BY <1>5, <1>8, <2>1, <3>2 DEF Kept
  <2>2. CASE r.op = "Close"
    BY <1>5, <1>8, <1>9, <2>2 DEF Kept
  <2>3. CASE r.op \notin {"Open", "Close"}
    BY <1>5, <1>8, <2>3 DEF Kept
  <2> QED BY <2>1, <2>2, <2>3
<1>11. resp'[c] # <<>> /\ resp'[c][1] = A
  BY <1>1, <1>5 DEF FrameType
<1>12. ASSUME Kind[c] = "batch" PROVE LineInv(c)' /\ CloseInv(c)' /\ WholeInv(c)'
  <2>1. /\ LineInv(c) /\ WholeInv(c) /\ ghost.opened[c] \subseteq DOMAIN old
        /\ Batch' = Batch /\ Busy(c)' = Busy(c)
        /\ r.op = "Commit" => cli[c].outcome = "Ok" /\ cli[c].line + 1 # Len(Batch)
    BY <1>1, <1>3, <1>4, <1>5, <1>12 DEF BatchInv, OfBatch, Batch, Busy, Mine, CliInv
  <2>2. LineInv(c)'
    BY <1>2, <1>5, <1>7, <2>1 DEF LineInv
  <2>3. cli[c].mode = "configuration" => cli[c].session \in Holds(c) /\ Owned(c, cli[c].session)
    BY <1>1 DEF Holds, SessionInv, Processes
  <2>4. CloseInv(c)'
    BY <1>4, <1>5, <1>9, <2>3 DEF CloseInv
  <2>5. ~Committing(c) /\ ~CutOff(c) /\ cli'[c].pc = "wait"
    BY <1>2, <1>5 DEF Committing, CutOff
  <2>6. ASSUME r.op = "Commit", A = Answer("committed", "changes") PROVE Committing(c)'
    <3>1. A.kind = "committed"
      BY <2>6 DEF Answer
    <3> QED BY <1>4, <1>5, <1>11, <2>5, <2>6, <3>1 DEF Committing
  <2>7. Holds(c) \subseteq Holds(c)' /\ (A.kind = "session" => A.val \in Holds(c)')
    BY <1>2, <1>5, <1>10, <1>11 DEF Holds
  <2>8. ASSUME ~ghost.severed[c]
        PROVE  \/ ghost'.committed[c] = 0
               \/ cli[c].outcome = "Ok" /\ (cli[c].line + 1 = Len(Batch) \/ Committing(c)')
    BY <1>7, <2>1, <2>5, <2>6, <2>8 DEF WholeInv
  <2>9. ASSUME ~ghost.severed[c], NEW s \in ghost'.opened[c]
        PROVE  s \in Holds(c)' \/ daemon'.sessions[s].gone
    BY <1>7, <1>10, <2>1, <2>5, <2>7, <2>9 DEF WholeInv, Kept
  <2>10. WholeInv(c)'
    BY <1>5, <1>6, <2>1, <2>5, <2>8, <2>9 DEF WholeInv
  <2> QED BY <2>2, <2>4, <2>10
<1>13. ASSUME NEW d \in Clis \ {c} PROVE OfBatch(d)'
  <2>1. Same(d)
    BY <1>1, <1>5, <1>6 DEF Same, FrameType
  <2> QED BY <1>6, <1>10, <2>1, BatchWaits
<1>14. ASSUME NEW d \in Clis PROVE ghost'.opened[d] \subseteq DOMAIN daemon'.sessions
  BY <1>6, <1>7, <1>10 DEF BatchInv, Kept
<1> QED BY <1>6, <1>12, <1>13, <1>14 DEF BatchInv, OfBatch

\* A connection that ends under a batch cuts it off.
LEMMA BatchCut ==
    ASSUME Inv, BatchInv,
           \/ Shutdown \/ Drained \/ Crash \/ Start
           \/ \E c \in Clis : IdleTimeout(c) \/ ServeTooLarge(c)
    PROVE  BatchInv'
<1>1. Types /\ GhostType /\ cli' = cli
  BY DEF Inv, BatchInv, Shutdown, Drained, Crash, Start, IdleTimeout, ServeTooLarge
<1>2. daemon'.sessions = daemon.sessions
  BY <1>1 DEF Daemons, Types, DaemonType, Shutdown, Drained, Crash, Start, IdleTimeout, ServeTooLarge
<1>3. /\ GhostType' /\ ghost'.verdict = ghost.verdict /\ ghost'.committed = ghost.committed
      /\ ghost'.opened = ghost.opened /\ ghost'.severed = ghost.severed
  <2>1. ghost' = ghost \/ ghost' = [ghost EXCEPT !.starts = ghost.starts + 1]
    BY DEF Shutdown, Drained, Crash, Start, IdleTimeout, ServeTooLarge
  <2> QED BY <1>1, <2>1 DEF GhostType
<1>4. \A d \in Clis :
          /\ conn'[d] = conn[d] \/ (conn[d] = "open" /\ conn'[d] = "closed")
          /\ resp'[d] = resp[d] \/ (resp'[d] = <<>> /\ conn'[d] # "open")
  <2>1. CASE Shutdown \/ Start
    BY <1>1, <2>1 DEF Types, FrameType, Shutdown, Start
  <2>2. CASE Drained \/ \E c \in Clis : IdleTimeout(c)
    BY <1>1, <2>2 DEF Types, FrameType, Drained, IdleTimeout, Cut
  <2>3. CASE Crash
    BY <1>1, <2>3 DEF Types, FrameType, Crash, Cut
  <2>4. CASE \E c \in Clis : ServeTooLarge(c)
    BY <1>1, <2>4 DEF Types, FrameType, ServeTooLarge
  <2> QED BY <2>1, <2>2, <2>3, <2>4
<1>5. ASSUME NEW d \in Clis, Kind[d] = "batch" PROVE LineInv(d)' /\ CloseInv(d)' /\ WholeInv(d)'
  <2>1. /\ LineInv(d) /\ CloseInv(d) /\ WholeInv(d) /\ Mine(d)
        /\ Batch' = Batch /\ Busy(d)' = Busy(d)
        /\ conn[d] \in {"none", "open", "closed"}
    BY <1>1, <1>5 DEF BatchInv, OfBatch, Batch, Busy, Inv, Types, FrameType
  <2>2. LineInv(d)' /\ CloseInv(d)'
    BY <1>1, <1>2, <1>3, <1>4, <2>1 DEF LineInv, CloseInv
  <2>3. cli[d].pc = "wait" => conn[d] # "none"
    BY <2>1 DEF Mine, CliInv
  <2>4. Committing(d) => Committing(d)'
    BY <1>1, <1>4, <2>1, <2>3 DEF Committing
  <2>5. CutOff(d) => CutOff(d)'
    BY <1>1, <1>4, <2>1 DEF CutOff
  <2>6. ASSUME NEW s \in Holds(d) PROVE s \in Holds(d)' \/ CutOff(d)'
    <3>1. CASE cli[d].mode = "configuration" /\ s = cli[d].session
      BY <1>1, <2>6, <3>1 DEF Holds
    <3>2. CASE resp[d] # <<>> /\ resp[d][1].kind = "session" /\ s = resp[d][1].val
      <4>1. cli[d].pc = "wait"
        BY <2>1, <3>2 DEF Mine, FrameInv, Failed, Answer
      <4>2. CASE resp'[d] = resp[d]
        BY <2>6, <3>2, <4>2 DEF Holds
      <4>3. CASE resp'[d] = <<>> /\ conn'[d] # "open"
        BY <1>1, <1>4, <2>1, <2>3, <4>1, <4>3 DEF CutOff
      <4> QED BY <1>4, <4>2, <4>3
    <3> QED BY <2>6, <3>1, <3>2 DEF Holds
  <2>7. WholeInv(d)'
    BY <1>1, <1>2, <1>3, <2>1, <2>4, <2>5, <2>6 DEF WholeInv
  <2> QED BY <2>2, <2>7
<1> QED BY <1>2, <1>3, <1>5 DEF BatchInv, OfBatch

\* No batch starts again.
LEMMA BatchReconnects ==
    ASSUME Inv, BatchInv, NEW c \in Clis, Reconnect(c)
    PROVE  BatchInv'
<1>1. Types /\ FrameType /\ GhostType /\ Kind[c] = "interactive" /\ daemon' = daemon
  BY DEF Inv, Types, BatchInv, Reconnect
<1>2. /\ GhostType' /\ ghost'.verdict = ghost.verdict
      /\ ghost'.committed = ghost.committed /\ ghost'.opened = ghost.opened
      /\ \A d \in Clis \ {c} : ghost'.severed[d] = ghost.severed[d]
  BY <1>1 DEF Reconnect, GhostType
<1>3. \A d \in Clis \ {c} : Same(d)
  BY <1>1, <1>2 DEF Reconnect, Same, Types, CliType, FrameType
<1>4. OfBatch(c)'
  BY <1>1 DEF OfBatch
<1> QED BY <1>1, <1>2, <1>3, <1>4, BatchMoves

LEMMA BatchStuttered == ASSUME Inv, BatchInv, UNCHANGED vars PROVE BatchInv'
<1>1. cli' = cli /\ conn' = conn /\ req' = req /\ resp' = resp /\ daemon' = daemon /\ ghost' = ghost
  BY DEF vars
<1>2. Kept /\ GhostType'
  BY <1>1 DEF Kept, BatchInv, GhostType
<1>3. ASSUME NEW d \in Clis PROVE OfBatch(d)'
  <2>1. Same(d)
    BY <1>1 DEF Same
  <2> QED BY <1>1, <1>2, <2>1, BatchWaits
<1> QED BY <1>1, <1>2, <1>3 DEF BatchInv

LEMMA BatchStarts == ASSUME Vocabulary, NoCommitInFile PROVE Init => BatchInv
<1> SUFFICES ASSUME Init PROVE BatchInv
  OBVIOUS
<1>1. /\ GhostType
      /\ \A c \in Clis : ghost.committed[c] = 0 /\ ghost.opened[c] = {}
  BY DEF Init, Ghost0, GhostType
<1>2. ASSUME NEW c \in Clis PROVE LineInv(c) /\ CloseInv(c) /\ WholeInv(c)
  <2>1. /\ cli[c].pc = "off" /\ cli[c].line = 0 /\ cli[c].mode = "operational"
    BY DEF Init, Cli0
  <2>2. cli[c].line + 1 # Len(Batch)
    <3>1. ASSUME NEW l \in Nat, l >= 3 PROVE 0 + 1 # l
      BY <3>1
    <3> QED BY <2>1, <3>1, BatchLines
  <2>3. LineInv(c)
    BY <2>1, <2>2 DEF LineInv, Busy
  <2>4. CloseInv(c) /\ WholeInv(c)
    BY <1>1, <2>1 DEF CloseInv, WholeInv
  <2> QED BY <2>3, <2>4
<1> QED BY <1>1, <1>2 DEF BatchInv, OfBatch

LEMMA BatchStep ==
    ASSUME Vocabulary, NoCommitInFile
    PROVE  Inv /\ BatchInv /\ [Next]_vars => BatchInv'
<1> SUFFICES ASSUME Inv, BatchInv, [Next]_vars PROVE BatchInv'
  OBVIOUS
<1>1. CASE UNCHANGED vars
  BY <1>1, BatchStuttered
<1>2. ASSUME Shutdown \/ Drained \/ Crash \/ Start PROVE BatchInv'
  BY <1>2, BatchCut
<1>3. ASSUME NEW c \in Clis,
             \/ Connect(c) \/ ConnectFails(c) \/ Refresh(c) \/ Send(c) \/ Severed(c) \/ Reply(c)
             \/ LeaveShell(c) \/ Reconnect(c) \/ Serve(c) \/ ServeTooLarge(c) \/ IdleTimeout(c)
      PROVE  BatchInv'
  BY <1>3, BatchConnects, BatchSends, BatchSevered, BatchReads, BatchReconnects, BatchServed,
     BatchCut
<1>4. ASSUME NEW c \in Clis, NEW cmd \in Typed \cup ToSet(Batch) \cup {"show", "exit discard"},
             Run(c, cmd)
      PROVE  BatchInv'
  BY <1>4, LinesRun, BatchRuns
<1> QED BY <1>1, <1>2, <1>3, <1>4 DEF Next

\* A batch is whole (main.rs batch()): when its file makes no commit of its own and its
\* connection lasts to the end, one that failed has committed nothing and every session
\* the daemon opened for it is closed, and one that succeeded has been committed,
\* whatever other operators and the daemon's restarts do in between.
THEOREM BatchesAreWhole ==
    ASSUME Vocabulary, NoCommitInFile
    PROVE  Spec => []BatchIsWhole
<1>1. Inv /\ BatchInv => BatchIsWhole
  <2> SUFFICES ASSUME Inv, BatchInv, NEW c \in Clis, Kind[c] = "batch", cli[c].pc = "done",
                      ~ghost.severed[c]
               PROVE  IF cli[c].outcome = "Ok" THEN ghost.verdict[c] = "committed"
                      ELSE /\ ghost.committed[c] = 0
                           /\ \A s \in ghost.opened[c] : daemon.sessions[s].gone
    BY DEF BatchIsWhole
  <2>1. LineInv(c) /\ WholeInv(c)
    BY DEF BatchInv, OfBatch
  <2>2. CASE cli[c].outcome = "Ok"
    BY <2>1, <2>2 DEF LineInv
  <2>3. CASE cli[c].outcome # "Ok"
    <3>1. cli[c].mode = "operational" /\ ~CutOff(c) /\ resp[c] = <<>>
      BY <2>1, <2>3 DEF WholeInv, CutOff, Inv, Mine, FrameInv
    <3>2. Holds(c) = {}
      BY <3>1 DEF Holds
    <3> QED BY <2>1, <2>3, <3>1, <3>2 DEF WholeInv
  <2> QED BY <2>2, <2>3
<1>2. Init => Inv /\ BatchInv
  BY InvStarts, BatchStarts
<1>3. Inv /\ BatchInv /\ [Next]_vars => Inv' /\ BatchInv'
  BY InvStep, BatchStep
<1> QED BY <1>1, <1>2, <1>3, PTL DEF Spec
====
