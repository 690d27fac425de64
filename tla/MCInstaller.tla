---- MODULE MCInstaller ----
(***************************************************************************)
(* The installer with two disks that may be mirrored and the one the live  *)
(* system runs from; and beside it its three inquiries, each over every    *)
(* machine of a small kind: the PAM files of the target, the mounts that   *)
(* tell where the live system is, the ports to be named.                   *)
(***************************************************************************)
EXTENDS Installer

VARIABLES
    part,
    table, backing, lines, live, blocks, found, nets, ports,
    tree, installed, entries, stack, seen, missingFiles, missingModules
scanVars == <<table, backing, lines, live, blocks, found, nets, ports>>
pamVars == <<tree, installed, entries, stack, seen, missingFiles, missingModules>>
mcVars == <<part, vars, scanVars, pamVars>>

TwoAndMedium == {1, 2, 3}
Sizes == <<100, 80, 100>>
OnlyThree == {3}
Typed == {<<>>, <<1>>, <<1, 2>>, <<2, 2>>, <<0>>, <<1, 2, 3>>, <<9>>}
First == {1}

(***************************************************************************)
(* login and sudo, and a file either may include                           *)
(***************************************************************************)

PamFiles == {"login", "sudo", "common"}
Include(f) == [include |-> f]
Rule(dash, control) == [module |-> "pam_unix", dash |-> dash, control |-> control]
SomeRules == {Rule(FALSE, {"required"}), Rule(TRUE, {"required"}), Rule(FALSE, {"success=1", "default=die"}),
              Rule(FALSE, {"success=1", "default=die", "module_unknown=ignore"})}
SomeLines == {Include(f) : f \in PamFiles} \cup SomeRules
Short == {<< <<l>> >> : l \in SomeLines} \cup {<< <<>> >>, <<>>}
Long == {<< <<l, k>> >> : l \in {Include(f) : f \in PamFiles}, k \in SomeLines}
AllTrees == {[login |-> a, sudo |-> b, common |-> c] : a \in Long, b \in Short, c \in Short \cup Long}

Pam == INSTANCE PamWalk WITH
    Files <- PamFiles, Entries <- <<"login", "sudo">>, Trees <- AllTrees, Modules <- {"pam_unix"},
    Words <- {"required", "success=1", "default=die", "module_unknown=ignore"}

\* What the theorems about the walk ask of the files.
ASSUME PamWritten == Pam!WellFormed

(***************************************************************************)
(* A machine disk and a live medium, a loop device; four network devices   *)
(***************************************************************************)

Points == {<<>>, <<"run">>, <<"run", "live", "medium">>, <<"run", "live", "rootfs">>}
Files == {[loop0 |-> <<"run", "live", "medium", "fs">>], [loop0 |-> <<"runner", "fs">>],
          [loop0 |-> <<"run", "live", "medium2", "fs">>]}
SomeMounts == {[source |-> s, target |-> t] : s \in {"sda1", "sdb1", "sdb", "loop0", "tmpfs"}, t \in Points}

\* No two mounts on one mount point.
SomeTables == {t \in BoundedSeq(SomeMounts, 3) : \A i, j \in DOMAIN t : i # j => t[i].target # t[j].target}

Port(n, s, permanent) == [name |-> n, slot |-> s, physical |-> TRUE, permanent |-> permanent, mac |-> "m"]
FourPorts == {Port(1, <<2>>, TRUE), Port(2, <<1>>, TRUE), Port(3, <<1>>, TRUE), Port(4, <<0>>, FALSE)}

Scan(Tables, Ports) == INSTANCE InstallScan WITH
    Blocks <- {"sda", "sdb", "loop0"}, Virtual <- {"loop0"}, Backings <- Files,
    DiskOf <- [sda1 |-> "sda", sdb1 |-> "sdb"],
    Begins <- {<<"run", "runner">>, <<"medium", "medium2">>}, mounts <- lines, disks <- found

(***************************************************************************)
(* One of the four; the variables of the others stand still                *)
(***************************************************************************)

NoScan == table = 0 /\ backing = 0 /\ lines = 0 /\ live = 0 /\ blocks = 0 /\ found = 0 /\ nets = 0 /\ ports = 0
NoPam == tree = 0 /\ installed = 0 /\ entries = 0 /\ stack = 0 /\ seen = 0 /\ missingFiles = 0 /\ missingModules = 0

MCInit ==
    \/ part = "installer" /\ Init /\ NoScan /\ NoPam
    \/ part = "pam" /\ Init /\ NoScan /\ Pam!Init
    \/ part = "medium" /\ Init /\ Scan(SomeTables, {})!Init /\ NoPam
    \/ part = "ports" /\ Init /\ Scan({<<>>}, FourPorts)!Init /\ NoPam

MCNext ==
    \/ part = "installer" /\ Next /\ UNCHANGED <<part, scanVars, pamVars>>
    \/ part = "pam" /\ Pam!Next /\ UNCHANGED <<part, vars, scanVars>>
    \/ part = "medium" /\ Scan(SomeTables, {})!Next /\ UNCHANGED <<part, vars, pamVars>>
    \/ part = "ports" /\ Scan({<<>>}, FourPorts)!Next /\ UNCHANGED <<part, vars, pamVars>>

MCSpec == MCInit /\ [][MCNext]_mcVars

\* The walk over the PAM files ends, include cycles or not, and its verdict is what a login
\* would meet (PamWalk).
PamVerdict == part = "pam" => Pam!VerdictRight /\ Pam!DepthBounded

\* No disk the live system runs from is offered and no other is hidden, and the name of a
\* port does not depend on the order of the listing (InstallScan).
ScanRight ==
    /\ part = "medium" => Scan(SomeTables, {})!MediumHidden
    /\ part = "ports" => Scan({<<>>}, FourPorts)!NamesDetermined
====
