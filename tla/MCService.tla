---- MODULE MCService ----
(***************************************************************************)
(* What runs around the state machine in the daemon: the interface monitor *)
(* in four small instances, operators and their connections in two, the    *)
(* socket in one.  The variables of the others stand still.                *)
(***************************************************************************)
EXTENDS InterfaceMonitor, TLC

VARIABLES
    part,
    cli, conn, req, resp, daemon, past,
    activated, path, listening, next, proc, stolen
sessionVars == <<cli, conn, req, resp, daemon, past>>
socketVars == <<activated, path, listening, next, proc, stolen>>
mcVars == <<part, vars, sessionVars, socketVars>>

(***************************************************************************)
(* The monitor.  The module itself is part "counts": a link that moves, a  *)
(* clear, a socket that overruns.                                          *)
(***************************************************************************)

\* Counters that run and are reset, two clears, a daemon that dies.
Clears == INSTANCE InterfaceMonitor WITH
    Opers <- {"up"}, Faults <- {"driver", "restart"}, MaxMoves <- 0, MaxOctets <- 3, MaxTime <- 0, MaxClears <- 2

\* Samples over three intervals, a file written at every other one, a daemon that dies.
Rating == INSTANCE InterfaceMonitor WITH
    Opers <- {"up"}, Clearers <- {}, PersistEvery <- 2, Faults <- {"restart"},
    MaxMoves <- 2, MaxTime <- 3, MaxClears <- 0

\* A device without statistics, whose events are lost, and a clock that is set back.
Resync == INSTANCE InterfaceMonitor WITH
    Counted <- {}, Clearers <- {}, PersistEvery <- 1,
    Faults <- {"overrun", "clock"}, MaxMoves <- 2, MaxClears <- 0

(***************************************************************************)
(* Operators                                                               *)
(***************************************************************************)

Both(one, other) == ("c1" :> one) @@ ("c2" :> other)
Administrators == {"alice", "bob"}
Settings == {"configure", "b", "commit", "exit"}

\* A batch beside one at a prompt; connections idle out and the daemon dies.
Sessions == INSTANCE OperatorSession WITH
    Clis <- {"c1", "c2"}, Kind <- Both("batch", "interactive"), Uid <- Both("alice", "bob"),
    Admins <- Administrators, Script <- <<"b", "c">>, Typed <- Settings \cup {"d"},
    Values <- {"a", "b", "c", "d"}, Refused <- {"d"}, First <- "a", Faults <- {"idle", "crash"},
    MaxSessions <- 2, MaxCommands <- 3, MaxStarts <- 1, ghost <- past

\* One at a prompt who runs every command, over a daemon that stops and large reports.
Answers == INSTANCE OperatorSession WITH
    Clis <- {"c1"}, Kind <- "c1" :> "interactive", Uid <- "c1" :> "alice",
    Admins <- Administrators, Script <- <<>>,
    Typed <- Settings \cup {"c", "exit discard", "shell", "show", "compare", "discard", "save",
                            "load", "edit", "top", "clear", "ping"},
    Values <- {"a", "b", "c"}, Refused <- {"c"}, First <- "a", Faults <- {"stop", "large"},
    MaxSessions <- 2, MaxCommands <- 3, MaxStarts <- 2, ghost <- past

\* What the theorems about operators ask of the words they type.
ASSUME OperatorsSpeak == Sessions!Vocabulary /\ Answers!Vocabulary

(***************************************************************************)
(* Two daemons and one path                                                *)
(***************************************************************************)

Socket == INSTANCE SocketBind WITH
    Procs <- {"p1", "p2"}, Overlap <- FALSE, MaxSockets <- 8, file <- path

(***************************************************************************)
(* One part; the variables of the others stand still                       *)
(***************************************************************************)

NoSessions == cli = 0 /\ conn = 0 /\ req = 0 /\ resp = 0 /\ daemon = 0 /\ past = 0
NoSocket == activated = 0 /\ path = 0 /\ listening = 0 /\ next = 0 /\ proc = 0 /\ stolen = 0

MCInit ==
    \/ part = "counts" /\ Init /\ NoSessions /\ NoSocket
    \/ part = "clears" /\ Clears!Init /\ NoSessions /\ NoSocket
    \/ part = "rates" /\ Rating!Init /\ NoSessions /\ NoSocket
    \/ part = "resync" /\ Resync!Init /\ NoSessions /\ NoSocket
    \/ part = "sessions" /\ Init /\ Sessions!Init /\ NoSocket
    \/ part = "answers" /\ Init /\ Answers!Init /\ NoSocket
    \/ part = "socket" /\ Init /\ NoSessions /\ Socket!Init

MCNext ==
    \/ part = "counts" /\ Next /\ UNCHANGED <<part, sessionVars, socketVars>>
    \/ part = "clears" /\ Clears!Next /\ UNCHANGED <<part, sessionVars, socketVars>>
    \/ part = "rates" /\ Rating!Next /\ UNCHANGED <<part, sessionVars, socketVars>>
    \/ part = "resync" /\ Resync!Next /\ UNCHANGED <<part, sessionVars, socketVars>>
    \/ part = "sessions" /\ Sessions!Next /\ UNCHANGED <<part, vars, socketVars>>
    \/ part = "answers" /\ Answers!Next /\ UNCHANGED <<part, vars, socketVars>>
    \/ part = "socket" /\ Socket!Next /\ UNCHANGED <<part, vars, sessionVars>>

\* Steps of the two parts that have to make progress.  Each thread of the monitor and of
\* the CLI goes on when it can (Fairness of InterfaceMonitor and of OperatorSession; the
\* steps of one thread exclude each other), a dump that can be read is read, and a
\* connection with a request is polled.
Watching(A) == part = "resync" /\ A /\ UNCHANGED <<part, sessionVars, socketVars>>
Calling(A) == part = "answers" /\ A /\ UNCHANGED <<part, vars, socketVars>>
Sampler == Resync!SamplerApply \/ Resync!SamplerOpen \/ Resync!SamplerWrite \/ Resync!SamplerRename
           \/ Resync!SamplerSleep
Caller == Answers!Send("c1") \/ Answers!Severed("c1") \/ Answers!Reply("c1") \/ Answers!Refresh("c1")

MCFairness ==
    /\ WF_mcVars(Watching(Resync!Watch)) /\ WF_mcVars(Watching(Resync!Reopen))
    /\ SF_mcVars(Watching(Resync!SamplerRead)) /\ WF_mcVars(Watching(Sampler))
    /\ WF_mcVars(Calling(Caller))
    /\ WF_mcVars(Calling(Answers!Serve("c1") \/ Answers!ServeTooLarge("c1")))

MCSpec == MCInit /\ [][MCNext]_mcVars /\ MCFairness

(***************************************************************************)
(* Properties: those of the modules, each of the parts that can break it   *)
(***************************************************************************)

\* CountsTransitions and ReportsSinceClear of InterfaceMonitor are properties of the run as
\* they stand: every part's monitor has them, "counts" and "clears" are those that could
\* break them.

\* Rates are over the whole interval asked for, an answered clear is in what the next start
\* loads, and the file it loads is never half written when there is one writer
\* (InterfaceMonitor).
MonitorKeeps ==
    /\ part = "counts" => TypeOK
    /\ part = "clears" => Clears!TypeOK /\ Clears!ClearSurvivesRestart
    /\ part = "rates" => Rating!TypeOK /\ Rating!RateSpansTheInterval /\ Rating!FileIsWhole
    /\ part = "resync" => Resync!TypeOK

\* Configuration mode has its own session, and a plain exit loses no work
\* (OperatorSession).
SessionKept ==
    /\ part = "sessions" => Sessions!TypeOK /\ Sessions!ModeHasItsSession /\ Sessions!ExitKeepsWork
    /\ part = "answers" => Answers!TypeOK

\* The exit code of a commit is what the daemon did, and a batch is committed as a whole
\* or thrown away (OperatorSession).
CodeIsTrue == part = "sessions" => Sessions!CommitCodeIsTrue /\ Sessions!BatchIsWhole

\* Who connects reaches the daemon that serves, and no served socket is removed
\* (SocketBind).
SocketReached == part = "socket" => Socket!SocketReached

\* Whatever events were lost, the tracker settles on the kernel's state (InterfaceMonitor).
Resynchronised ==
    <>[](part = "resync" /\ kernel["eth0"].oper # "gone" =>
            "eth0" \in DOMAIN tracker.history /\ tracker.history["eth0"].oper = kernel["eth0"].oper)

\* Every call of an operator's CLI returns (OperatorSession).
CallsReturn == (part = "answers" /\ cli["c1"].pc = "wait") ~> (part = "answers" => cli["c1"].pc # "wait")
====
