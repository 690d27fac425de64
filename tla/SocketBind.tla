---- MODULE SocketBind ----
(***************************************************************************)
(* Where configd's listener comes from and what becomes of the socket file *)
(* (nightshade-configd server.rs Bound and the end of Server::run, main.rs *)
(* run).  The system calls of create() are actions of their own: another   *)
(* process may start, stop or die between any two.  A socket outlives the  *)
(* process that bound it as a file nobody listens on.                      *)
(***************************************************************************)
EXTENDS Naturals, FiniteSets

CONSTANTS
    Procs,      \* daemons that may run at one time
    Overlap,    \* whether one may start while another is still binding
    MaxSockets  \* bound on the sockets ever bound

VARIABLES
    activated,  \* systemd holds the socket and hands it over
    file,       \* the socket at the path, 0 when there is none
    listening,  \* sockets something listens on
    next,       \* the next socket
    proc,       \* proc[p]: [pc, own, took], own the socket p has bound
    stolen      \* a file somebody was listening on has been removed

vars == <<activated, file, listening, next, proc, stolen>>

NoFile == 0
Systemd == 1
Down == [pc |-> "down", own |-> NoFile]
Binding == {"exists", "try", "probe", "remove", "clear", "bind", "listen", "restrict"}

Init ==
    /\ activated \in BOOLEAN
    /\ file = IF activated THEN Systemd ELSE NoFile
    /\ listening = IF activated THEN {Systemd} ELSE {}
    /\ next = 2 /\ proc = [p \in Procs |-> Down] /\ stolen = FALSE

At(p, pc) == proc[p].pc = pc
Go(p, pc) == proc' = [proc EXCEPT ![p].pc = pc]

\* main::run: systemd's socket if there is one.  The service manager starts no second
\* daemon while one is starting, unless Overlap.
Start(p) ==
    /\ At(p, "down")
    /\ Overlap \/ \A q \in Procs : proc[q].pc \notin Binding
    /\ next < MaxSockets
    /\ Go(p, IF activated THEN "serving" ELSE "exists")
    /\ UNCHANGED <<activated, file, listening, next, stolen>>

\* remove_file, whatever is there by now.
RemoveFile(p) ==
    /\ file' = NoFile
    /\ stolen' = (stolen \/ (file \in listening /\ file # proc[p].own))

Exists(p) ==
    /\ At(p, "exists")
    /\ Go(p, IF file = NoFile THEN "bind" ELSE "try")
    /\ UNCHANGED <<activated, file, listening, next, stolen>>

\* A bind to a path that exists fails; the file may have gone since, and then this one is
\* dropped and its file removed.
TryBind(p) ==
    /\ At(p, "try")
    /\ IF file = NoFile THEN file' = next /\ next' = next + 1 /\ Go(p, "clear")
       ELSE Go(p, "probe") /\ UNCHANGED <<file, next>>
    /\ UNCHANGED <<activated, listening, stolen>>

\* A connection that is accepted means the path is served; refused, or no file, is stale.
Probe(p) ==
    /\ At(p, "probe")
    /\ IF file \in listening THEN proc' = [proc EXCEPT ![p] = Down] ELSE Go(p, "remove")
    /\ UNCHANGED <<activated, file, listening, next, stolen>>

RemoveStale(p) ==
    /\ At(p, "remove")
    /\ IF file = NoFile THEN proc' = [proc EXCEPT ![p] = Down] /\ UNCHANGED <<file, stolen>>
       ELSE RemoveFile(p) /\ Go(p, "clear")
    /\ UNCHANGED <<activated, listening, next>>

\* let _ = remove_file(path)
Clear(p) ==
    /\ At(p, "clear")
    /\ RemoveFile(p) /\ Go(p, "bind")
    /\ UNCHANGED <<activated, listening, next>>

Bind(p) ==
    /\ At(p, "bind")
    /\ IF file = NoFile
       THEN /\ file' = next /\ next' = next + 1
            /\ proc' = [proc EXCEPT ![p] = [pc |-> "listen", own |-> next]]
       ELSE proc' = [proc EXCEPT ![p] = Down] /\ UNCHANGED <<file, next>>
    /\ UNCHANGED <<activated, listening, stolen>>

Listen(p) ==
    /\ At(p, "listen")
    /\ listening' = listening \cup {proc[p].own} /\ Go(p, "restrict")
    /\ UNCHANGED <<activated, file, next, stolen>>

\* The mode and the group; a failure ends the daemon and leaves the file.
Restrict(p, ok) ==
    /\ At(p, "restrict")
    /\ IF ok THEN Go(p, "serving") /\ UNCHANGED listening
       ELSE proc' = [proc EXCEPT ![p] = Down] /\ listening' = listening \ {proc[p].own}
    /\ UNCHANGED <<activated, file, next, stolen>>

\* Wrong variant of Owned: the path is removed whoever made it.
OwnedAlways(p) == TRUE

\* owned_path, which an activated socket has not.
Owned(p) == proc[p].own # NoFile

\* The end of Server::run: the file is removed, then the listener dropped.
Unlink(p) ==
    /\ At(p, "serving") /\ Go(p, "unlinked")
    /\ IF Owned(p) THEN RemoveFile(p) ELSE UNCHANGED <<file, stolen>>
    /\ UNCHANGED <<activated, listening, next>>

Gone(p) == proc' = [proc EXCEPT ![p] = Down] /\ listening' = listening \ {proc[p].own}

Close(p) == At(p, "unlinked") /\ Gone(p) /\ UNCHANGED <<activated, file, next, stolen>>

Crash(p) == ~At(p, "down") /\ Gone(p) /\ UNCHANGED <<activated, file, next, stolen>>

Next ==
    \E p \in Procs :
        \/ Start(p) \/ Exists(p) \/ TryBind(p) \/ Probe(p) \/ RemoveStale(p) \/ Clear(p)
        \/ Bind(p) \/ Listen(p) \/ (\E ok \in BOOLEAN : Restrict(p, ok))
        \/ Unlink(p) \/ Close(p) \/ Crash(p)

Spec == Init /\ [][Next]_vars

(***************************************************************************)
(* Properties                                                              *)
(***************************************************************************)

\* Clients reach the daemon that serves: the file is its own socket, or systemd's
\* (server.rs create).
Reachable ==
    \A p \in Procs : At(p, "serving") =>
        file \in listening /\ file = IF activated THEN Systemd ELSE proc[p].own

\* No file somebody listens on is removed by another (server.rs: "Removing one that
\* something is still listening on would steal its clients, so it is only removed once a
\* connection to it is refused"; "unlinking it on exit would break the next activation").
NothingStolen == ~stolen

\* Both: who connects reaches the daemon that serves, and no served socket is removed.
SocketReached == Reachable /\ NothingStolen
====
