---- MODULE SocketBindProofs ----
(***************************************************************************)
(* Theorems about SocketBind: for any number of daemons, as long as the    *)
(* service manager starts none while another is binding (~Overlap), the    *)
(* socket file is the listener's that serves, and no file somebody listens *)
(* on is removed.                                                          *)
(***************************************************************************)
EXTENDS SocketBind, TLAPS

\* Where a daemon can be, with and without a socket of its own.
Without == {"down", "exists", "try", "probe", "remove", "clear", "bind"}
Holding == {"listen", "restrict", "serving", "unlinked"}

\* The types, and that sockets are numbered in the order they are bound.
SocketTypes ==
    /\ next \in Nat /\ next > Systemd
    /\ file \in Nat /\ file < next
    /\ listening \subseteq 1..(next - 1)
    /\ proc \in [Procs -> [pc : Without \cup Holding, own : Nat]]
    /\ \A p \in Procs : proc[p].own < next

\* An activated daemon takes what systemd holds and touches no file.
ActivatedInv ==
    activated =>
        /\ file = Systemd /\ listening = {Systemd}
        /\ \A p \in Procs : /\ proc[p].pc \in {"down", "serving", "unlinked"}
                            /\ proc[p].own = NoFile

\* A socket belongs to one daemon, which listens on it from listen() to its end.
OwnInv ==
    ~activated =>
        /\ \A p \in Procs : proc[p].own = NoFile <=> proc[p].pc \in Without
        /\ \A p, q \in Procs :
              (proc[p].own = proc[q].own /\ proc[p].own # NoFile) => p = q
        /\ \A p \in Procs :
              proc[p].pc \in {"restrict", "serving", "unlinked"} => proc[p].own \in listening
        /\ \A n \in listening : \E p \in Procs :
              proc[p].own = n /\ proc[p].pc \in {"restrict", "serving", "unlinked"}

\* The file is the socket of the daemon that has bound it, until that daemon removes it.
FileInv ==
    ~activated =>
        \A p \in Procs :
            /\ proc[p].pc \in {"listen", "restrict", "serving"} => file = proc[p].own
            /\ proc[p].pc = "unlinked" => file # proc[p].own

\* One daemon binds at a time, and one that has found the path free or stale is alone
\* but for daemons on their way out.
AloneInv ==
    \A p, q \in Procs : p # q =>
        /\ ~(proc[p].pc \in Binding /\ proc[q].pc \in Binding)
        /\ proc[p].pc \in {"remove", "clear", "bind", "listen", "restrict"} =>
              proc[q].pc \in {"down", "unlinked"}

Inv == SocketTypes /\ ActivatedInv /\ OwnInv /\ FileInv /\ AloneInv /\ NothingStolen

-----------------------------------------------------------------------------
(* Every step keeps Inv. *)

\* A daemon that has found the path free or stale removes no file that is listened on.
LEMMA NobodyListens ==
    ASSUME Inv, NEW p \in Procs, proc[p].pc \in {"remove", "clear"}
    PROVE  file \notin listening
<1> SUFFICES ASSUME file \in listening PROVE FALSE
  OBVIOUS
<1>1. ~activated
  BY DEF Inv, ActivatedInv
<1>2. PICK q \in Procs : /\ proc[q].own = file
                         /\ proc[q].pc \in {"restrict", "serving", "unlinked"}
  BY <1>1 DEF Inv, OwnInv
<1>3. proc[q].pc = "unlinked"
  BY <1>2 DEF Inv, AloneInv
<1> QED BY <1>1, <1>2, <1>3 DEF Inv, FileInv

\* Inv is inductive.
LEMMA InvStep ==
    ASSUME ~Overlap, Inv, [Next]_vars
    PROVE  Inv'
<1> USE DEF NoFile, Systemd, Binding, Without, Holding
<1>1. ASSUME NEW p \in Procs, Start(p) PROVE Inv'
  <2>1. SocketTypes'
    BY <1>1 DEF Start, Go, At, Inv, SocketTypes
  <2>2. ActivatedInv'
    BY <1>1 DEF Start, Go, At, Inv, ActivatedInv
  <2>3. OwnInv'
    BY <1>1 DEF Start, Go, At, Inv, OwnInv
  <2>4. FileInv'
    BY <1>1 DEF Start, Go, At, Inv, FileInv
  <2>5. AloneInv'
    BY <1>1 DEF Start, Go, At, Inv, AloneInv
  <2>6. NothingStolen'
    BY <1>1 DEF Start, Go, At, Inv, NothingStolen
  <2> QED BY <2>1, <2>2, <2>3, <2>4, <2>5, <2>6 DEF Inv
<1>2. ASSUME NEW p \in Procs, Exists(p) PROVE Inv'
  <2>1. SocketTypes'
    BY <1>2 DEF Exists, Go, At, Inv, SocketTypes
  <2>2. ActivatedInv'
    BY <1>2 DEF Exists, Go, At, Inv, ActivatedInv
  <2>3. OwnInv'
    BY <1>2 DEF Exists, Go, At, Inv, OwnInv
  <2>4. FileInv'
    BY <1>2 DEF Exists, Go, At, Inv, FileInv
  <2>5. AloneInv'
    BY <1>2 DEF Exists, Go, At, Inv, SocketTypes, ActivatedInv, OwnInv, FileInv,
        AloneInv
  <2>6. NothingStolen'
    BY <1>2 DEF Exists, Go, At, Inv, NothingStolen
  <2> QED BY <2>1, <2>2, <2>3, <2>4, <2>5, <2>6 DEF Inv
<1>3. ASSUME NEW p \in Procs, TryBind(p) PROVE Inv'
  <2>1. SocketTypes'
    BY <1>3 DEF TryBind, Go, At, Inv, SocketTypes
  <2>2. ActivatedInv'
    BY <1>3 DEF TryBind, Go, At, Inv, ActivatedInv
  <2>3. OwnInv'
    BY <1>3 DEF TryBind, Go, At, Inv, SocketTypes, OwnInv
  <2>4. FileInv'
    BY <1>3 DEF TryBind, Go, At, Inv, SocketTypes, OwnInv, FileInv
  <2>5. AloneInv'
    BY <1>3 DEF TryBind, Go, At, Inv, SocketTypes, ActivatedInv, OwnInv, FileInv,
        AloneInv
  <2>6. NothingStolen'
    BY <1>3 DEF TryBind, Go, At, Inv, NothingStolen
  <2> QED BY <2>1, <2>2, <2>3, <2>4, <2>5, <2>6 DEF Inv
<1>4. ASSUME NEW p \in Procs, Probe(p) PROVE Inv'
  <2>1. SocketTypes'
    BY <1>4 DEF Probe, Go, At, Down, Inv, SocketTypes
  <2>2. ActivatedInv'
    BY <1>4 DEF Probe, Go, At, Down, Inv, ActivatedInv
  <2>3. OwnInv'
    BY <1>4 DEF Probe, Go, At, Down, Inv, SocketTypes, OwnInv
  <2>4. FileInv'
    BY <1>4 DEF Probe, Go, At, Down, Inv, SocketTypes, FileInv
  <2>5. AloneInv'
    BY <1>4 DEF Probe, Go, At, Down, Inv, SocketTypes, ActivatedInv, OwnInv, FileInv,
        AloneInv
  <2>6. NothingStolen'
    BY <1>4 DEF Probe, Go, At, Down, Inv, NothingStolen
  <2> QED BY <2>1, <2>2, <2>3, <2>4, <2>5, <2>6 DEF Inv
<1>5. ASSUME NEW p \in Procs, RemoveStale(p) PROVE Inv'
  <2>1. SocketTypes'
    BY <1>5 DEF RemoveStale, RemoveFile, Go, At, Down, Inv, SocketTypes
  <2>2. ActivatedInv'
    BY <1>5 DEF RemoveStale, RemoveFile, Go, At, Down, Inv, ActivatedInv
  <2>3. OwnInv'
    BY <1>5 DEF RemoveStale, RemoveFile, Go, At, Down, Inv, SocketTypes, OwnInv
  <2>4. FileInv'
    BY <1>5 DEF RemoveStale, RemoveFile, Go, At, Down, Inv, SocketTypes, OwnInv,
        FileInv, AloneInv
  <2>5. AloneInv'
    BY <1>5 DEF RemoveStale, RemoveFile, Go, At, Down, Inv, SocketTypes, AloneInv
  <2>6. NothingStolen'
    BY <1>5, NobodyListens DEF RemoveStale, RemoveFile, Go, At, Down, Inv, NothingStolen
  <2> QED BY <2>1, <2>2, <2>3, <2>4, <2>5, <2>6 DEF Inv
<1>6. ASSUME NEW p \in Procs, Clear(p) PROVE Inv'
  <2>1. SocketTypes'
    BY <1>6 DEF Clear, RemoveFile, Go, At, Inv, SocketTypes
  <2>2. ActivatedInv'
    BY <1>6 DEF Clear, RemoveFile, Go, At, Inv, ActivatedInv
  <2>3. OwnInv'
    BY <1>6 DEF Clear, RemoveFile, Go, At, Inv, OwnInv
  <2>4. FileInv'
    BY <1>6 DEF Clear, RemoveFile, Go, At, Inv, OwnInv, FileInv, AloneInv
  <2>5. AloneInv'
    BY <1>6 DEF Clear, RemoveFile, Go, At, Inv, AloneInv
  <2>6. NothingStolen'
    BY <1>6, NobodyListens DEF Clear, RemoveFile, Go, At, Inv, NothingStolen
  <2> QED BY <2>1, <2>2, <2>3, <2>4, <2>5, <2>6 DEF Inv
<1>7. ASSUME NEW p \in Procs, Bind(p) PROVE Inv'
  <2>1. SocketTypes'
    BY <1>7 DEF Bind, At, Down, Inv, SocketTypes
  <2>2. ActivatedInv'
    BY <1>7 DEF Bind, At, Down, Inv, ActivatedInv
  <2>3. OwnInv'
    BY <1>7 DEF Bind, At, Down, Inv, SocketTypes, OwnInv
  <2>4. FileInv'
    BY <1>7 DEF Bind, At, Down, Inv, SocketTypes, FileInv, AloneInv
  <2>5. AloneInv'
    BY <1>7 DEF Bind, At, Down, Inv, SocketTypes, AloneInv
  <2>6. NothingStolen'
    BY <1>7 DEF Bind, At, Down, Inv, NothingStolen
  <2> QED BY <2>1, <2>2, <2>3, <2>4, <2>5, <2>6 DEF Inv
<1>8. ASSUME NEW p \in Procs, Listen(p) PROVE Inv'
  <2>1. SocketTypes'
    BY <1>8 DEF Listen, Go, At, Inv, SocketTypes, ActivatedInv, OwnInv
  <2>2. ActivatedInv'
    BY <1>8 DEF Listen, Go, At, Inv, ActivatedInv
  <2>3. OwnInv'
    BY <1>8 DEF Listen, Go, At, Inv, SocketTypes, OwnInv
  <2>4. FileInv'
    BY <1>8 DEF Listen, Go, At, Inv, FileInv
  <2>5. AloneInv'
    BY <1>8 DEF Listen, Go, At, Inv, AloneInv
  <2>6. NothingStolen'
    BY <1>8 DEF Listen, Go, At, Inv, NothingStolen
  <2> QED BY <2>1, <2>2, <2>3, <2>4, <2>5, <2>6 DEF Inv
<1>9. ASSUME NEW p \in Procs, Unlink(p) PROVE Inv'
  <2>1. SocketTypes'
    BY <1>9 DEF Unlink, Owned, RemoveFile, Go, At, Inv, SocketTypes
  <2>2. ActivatedInv'
    BY <1>9 DEF Unlink, Owned, RemoveFile, Go, At, Inv, ActivatedInv
  <2>3. OwnInv'
    BY <1>9 DEF Unlink, Owned, RemoveFile, Go, At, Inv, OwnInv
  <2>4. FileInv'
    BY <1>9 DEF Unlink, Owned, RemoveFile, Go, At, Inv, SocketTypes, OwnInv, FileInv
  <2>5. AloneInv'
    BY <1>9 DEF Unlink, Owned, RemoveFile, Go, At, Inv, AloneInv
  <2>6. NothingStolen'
    BY <1>9 DEF Unlink, Owned, RemoveFile, Go, At, Inv, ActivatedInv, FileInv,
        NothingStolen
  <2> QED BY <2>1, <2>2, <2>3, <2>4, <2>5, <2>6 DEF Inv
<1>10. ASSUME NEW p \in Procs, NEW ok \in BOOLEAN, Restrict(p, ok) PROVE Inv'
  <2>1. SocketTypes'
    BY <1>10 DEF Restrict, Go, At, Down, Inv, SocketTypes
  <2>2. ActivatedInv'
    BY <1>10 DEF Restrict, Go, At, Down, Inv, ActivatedInv
  <2>3. OwnInv'
    BY <1>10 DEF Restrict, Go, At, Down, Inv, SocketTypes, OwnInv
  <2>4. FileInv'
    BY <1>10 DEF Restrict, Go, At, Down, Inv, SocketTypes, FileInv
  <2>5. AloneInv'
    BY <1>10 DEF Restrict, Go, At, Down, Inv, SocketTypes, AloneInv
  <2>6. NothingStolen'
    BY <1>10 DEF Restrict, Go, At, Down, Inv, NothingStolen
  <2> QED BY <2>1, <2>2, <2>3, <2>4, <2>5, <2>6 DEF Inv
<1>11. ASSUME NEW p \in Procs, Close(p) \/ Crash(p) PROVE Inv'
  <2>a. Gone(p) /\ UNCHANGED <<activated, file, next, stolen>>
    BY <1>11 DEF Close, Crash
  <2>1. SocketTypes'
    <3>1. listening' \subseteq listening /\ next' = next /\ file' = file
      BY <2>a DEF Gone
    <3>2. proc' = [proc EXCEPT ![p] = Down]
      BY <2>a DEF Gone
    <3> QED BY <3>1, <3>2 DEF Down, Inv, SocketTypes
  <2>2. ActivatedInv'
    <3>1. ASSUME activated PROVE listening' = {Systemd}
      <4>1. proc[p].own = NoFile /\ listening = {Systemd}
        BY <3>1 DEF Inv, ActivatedInv
      <4>2. listening' = {Systemd} \ {NoFile}
        BY <2>a, <4>1 DEF Gone
      <4> QED BY <4>2
    <3> QED BY <2>a, <3>1 DEF Gone, Down, Inv, SocketTypes, ActivatedInv
  <2>3. OwnInv'
    BY <2>a DEF Gone, Down, Inv, SocketTypes, OwnInv
  <2>4. FileInv'
    BY <2>a DEF Gone, Down, Inv, FileInv
  <2>5. AloneInv'
    BY <2>a DEF Gone, Down, Inv, AloneInv
  <2>6. NothingStolen'
    BY <2>a DEF Gone, Down, Inv, NothingStolen
  <2> QED BY <2>1, <2>2, <2>3, <2>4, <2>5, <2>6 DEF Inv
<1>12. CASE UNCHANGED vars
  BY <1>12 DEF vars, Inv, SocketTypes, ActivatedInv, OwnInv, FileInv, AloneInv,
               NothingStolen
<1> QED
  BY <1>1, <1>2, <1>3, <1>4, <1>5, <1>6, <1>7, <1>8, <1>9, <1>10, <1>11, <1>12 DEF Next

-----------------------------------------------------------------------------
(* Theorems. *)

\* Inv holds throughout.
LEMMA Invariant ==
    ASSUME ~Overlap
    PROVE  Spec => []Inv
<1>1. Init => Inv
  BY DEF Init, Inv, SocketTypes, ActivatedInv, OwnInv, FileInv, AloneInv, NothingStolen,
         Down, NoFile, Systemd, Binding, Without, Holding
<1>2. Inv /\ [Next]_vars => Inv'
  BY InvStep
<1> QED BY <1>1, <1>2, PTL DEF Spec

\* server.rs create() and the end of Server::run, over any number of daemons that start,
\* stop and die between any two system calls, with the socket systemd's or their own:
\* who connects reaches the daemon that serves, and no daemon removes a file another
\* listens on.  The service manager starts no daemon while another is binding; without
\* that a probe can be stale when the file it was about is removed.
THEOREM SocketIsReached ==
    ASSUME ~Overlap
    PROVE  Spec => []SocketReached
<1>1. Inv => Reachable
  BY DEF Inv, SocketTypes, ActivatedInv, OwnInv, FileInv, Reachable, At, Systemd, NoFile,
         Without, Holding
<1>2. Inv => NothingStolen
  BY DEF Inv
<1> QED BY <1>1, <1>2, Invariant, PTL DEF SocketReached
====
