---- MODULE InstallScan ----
(***************************************************************************)
(* What the installer finds on the machine before it offers or writes      *)
(* anything: the disks, less the one the live system runs from             *)
(* (nightshade-installer disk.rs enumerate, live_medium_disks,             *)
(* resolve_to_disk, mount_source_for_path), and the ports in the order     *)
(* they are named (engine/seed.rs enumerate_ports, assign_names).          *)
(*                                                                         *)
(* Directories are read in whatever order the kernel lists them.  A path   *)
(* is a sequence of names; a mount table is a sequence, later mounts last. *)
(***************************************************************************)
EXTENDS Naturals, Sequences, SequencesExt, FiniteSets

CONSTANTS
    Blocks,         \* /sys/block: kernel names of whole devices, virtual ones too
    Virtual,        \* those with a skipped prefix
    DiskOf,         \* DiskOf[partition]
    Begins,         \* pairs of names, the first a prefix of the second as text
    Tables,         \* mount tables
    Backings,       \* what file a loop device may have, [loop -> path]
    Ports           \* /sys/class/net: [name, slot, physical, permanent, mac]

VARIABLES
    table, backing,
    mounts,     \* lines of /proc/mounts still to be read
    live,       \* disks found to back the live medium
    blocks,     \* entries still to be read
    disks,      \* what is offered
    nets, ports \* entries still to be read, and ports found

vars == <<table, backing, mounts, live, blocks, disks, nets, ports>>

\* A loop device is mounted after the filesystem its file is on, which is on a device,
\* and nothing is mounted over the file afterwards.
Mountable ==
    \A k \in DOMAIN table : table[k].source \in DOMAIN backing =>
        /\ \E i \in 1..(k - 1) : IsPrefix(table[i].target, backing[table[k].source])
        /\ \A i \in DOMAIN table : IsPrefix(table[i].target, backing[table[k].source]) =>
               i < k /\ table[i].source \notin DOMAIN backing

Init ==
    /\ table \in Tables /\ backing \in Backings /\ Mountable
    /\ mounts = table /\ live = {} /\ blocks = Blocks /\ disks = {}
    /\ nets = Ports /\ ports = {}

None == ""
IsLoop(dev) == dev \in DOMAIN backing

(***************************************************************************)
(* Disks                                                                   *)
(***************************************************************************)

\* starts_with, on the text: the last name may only begin like the path's.
TextPrefix(t, p) ==
    /\ Len(t) <= Len(p)
    /\ \A i \in DOMAIN t : t[i] = p[i] \/ (i = Len(t) /\ <<t[i], p[i]>> \in Begins)

\* "/run" must not match "/runner".
Boundary(t, p) == IsPrefix(t, p)

\* Wrong variant of MountSourceForPath: without the boundary.
MountSourceForPathText(p) ==
    LET Better(best, m) ==
          IF TextPrefix(m.target, p) /\ (best = <<>> \/ Len(m.target) > Len(best[1].target)) THEN <<m>> ELSE best
        best == FoldLeft(Better, <<>>, table)
    IN  IF best = <<>> THEN None ELSE best[1].source

\* The longest mount point, and of equals the first in the table.
MountSourceForPath(p) ==
    LET Better(best, m) ==
          IF /\ TextPrefix(m.target, p) /\ Boundary(m.target, p)
             /\ best = <<>> \/ Len(m.target) > Len(best[1].target)
          THEN <<m>> ELSE best
        best == FoldLeft(Better, <<>>, table)
    IN  IF best = <<>> THEN None ELSE best[1].source

\* A partition's parent, a whole disk itself; tmpfs and overlay are no device.
Direct(dev) ==
    IF dev \in DOMAIN DiskOf THEN DiskOf[dev] ELSE IF dev \in Blocks THEN dev ELSE None

\* A loop device through its backing file, and not further than one.
ResolveToDisk(dev) ==
    IF ~IsLoop(dev) THEN Direct(dev)
    ELSE LET holder == MountSourceForPath(backing[dev])
         IN  IF holder = None \/ IsLoop(holder) THEN None ELSE Direct(holder)

Interesting(target) == Len(target) >= 2 /\ target[1] = "run" /\ target[2] = "live"

\* live_medium_disks, one line.
ReadMount ==
    /\ mounts # <<>>
    /\ mounts' = Tail(mounts)
    /\ LET m == Head(mounts)
           disk == ResolveToDisk(m.source)
       IN  live' = IF Interesting(m.target) /\ disk # None THEN live \cup {disk} ELSE live
    /\ UNCHANGED <<table, backing, blocks, disks, nets, ports>>

\* enumerate, one entry; the list is sorted by name in the end.
ReadBlock(b) ==
    /\ mounts = <<>> /\ b \in blocks
    /\ blocks' = blocks \ {b}
    /\ disks' = IF b \in Virtual \cup live THEN disks ELSE disks \cup {b}
    /\ UNCHANGED <<table, backing, mounts, live, nets, ports>>

(***************************************************************************)
(* Ports                                                                   *)
(***************************************************************************)

\* str::cmp: a slot is a sequence of digits.
TextBefore(a, b) ==
    \/ IsStrictPrefix(a, b)
    \/ \E i \in DOMAIN a \cap DOMAIN b : a[i] < b[i] /\ \A j \in 1..(i - 1) : a[j] = b[j]

\* By slot, then by name.
Before(p, q) == TextBefore(p.slot, q.slot) \/ (p.slot = q.slot /\ p.name < q.name)

\* A port has a device, an address burned in, and an address.
ReadPort(p) ==
    /\ p \in nets
    /\ nets' = nets \ {p}
    /\ ports' = IF p.physical /\ p.permanent /\ p.mac # None THEN ports \cup {p} ELSE ports
    /\ UNCHANGED <<table, backing, mounts, live, blocks, disks>>

\* assign_names: the ports in order, whose index is the number of the name; of two the
\* order does not tell apart either may be first.
NamingsOf(ps) ==
    {s \in [1..Cardinality(ps) -> ps] : \A i, j \in DOMAIN s : i < j => s[i] # s[j] /\ ~Before(s[j], s[i])}

Next ==
    \/ ReadMount
    \/ \E b \in Blocks : ReadBlock(b)
    \/ \E p \in Ports : ReadPort(p)

Spec == Init /\ [][Next]_vars

(***************************************************************************)
(* Properties                                                              *)
(***************************************************************************)

Value(slot) == FoldLeft(LAMBDA v, d : 10 * v + d, 0, slot)
Covers(p) == {i \in DOMAIN table : IsPrefix(table[i].target, p)}

\* The filesystem a path is on: of the mounts that cover it, the deepest, and of those on
\* one mount point the last.
Holder(p) ==
    LET tops == {i \in Covers(p) : \A j \in Covers(p) :
                   Len(table[j].target) < Len(table[i].target)
                   \/ (Len(table[j].target) = Len(table[i].target) /\ j <= i)}
    IN  IF tops = {} THEN None ELSE table[CHOOSE i \in tops : TRUE].source

\* The disks the live system runs from, by a device or through a file on one.
Media ==
    {Direct(IF IsLoop(m.source) THEN Holder(backing[m.source]) ELSE m.source) :
        m \in {n \in ToSet(table) : Interesting(n.target)}} \ {None}

\* No disk the live system runs from is offered, and no other is hidden (disk.rs: "a loop
\* mount is resolved through its backing file to whatever filesystem holds that file, and
\* a partition is resolved up to its parent disk").
MediumHidden == mounts = <<>> => live = Media /\ disks \cap Media = {}

\* The name of a port depends on the ports there are and not on the order they were
\* listed in (seed.rs: "rather than whichever readdir returned first").
NamesDetermined == nets = {} => Cardinality(NamingsOf(ports)) = 1

\* A claim that does not hold (README, "Where the code and its words part").
\* eth0 is the lowest-numbered port (seed.rs: "`eth0` is the lowest-numbered port on the
\* lowest-numbered bus").
NamesFollowNumbers ==
    nets = {} => \A s \in NamingsOf(ports), i, j \in 1..Cardinality(ports) :
                    i < j => Value(s[i].slot) <= Value(s[j].slot)
====
