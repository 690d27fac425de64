---- MODULE InstallEngine ----
(***************************************************************************)
(* The destructive phase of the installer (nightshade-installer            *)
(* engine/mod.rs install and Session, partition.rs, zfs.rs, boot.rs,       *)
(* rootfs.rs, target.rs, seed.rs, cmd.rs).                                 *)
(*                                                                         *)
(* One action per function of the engine, run in the order install() calls *)
(* them; a function that mounts or creates several things is one action    *)
(* per thing, because the ? of a failed command leaves the ones before it  *)
(* behind.  The tools are external: each may fail, and those whose exit    *)
(* status the code does not trust may also report success and do nothing.  *)
(* The installed system is the set of facts that decide whether it boots   *)
(* and can be logged into.                                                 *)
(***************************************************************************)
EXTENDS Naturals, Sequences, SequencesExt, FiniteSets

CONSTANTS
    Disks,          \* kernel names
    FaultyAttempts, \* the attempts whose tools may fail
    MaxAttempts

ASSUME EngineAssumption == MaxAttempts \in Nat \ {0} /\ FaultyAttempts \subseteq 1..MaxAttempts

VARIABLES
    media,      \* media[d]: partition table, and what is on the ESP
    mounts,     \* what is mounted under TARGET
    imported,   \* pools
    session,    \* Session: mounts, binds and pools to unwind
    target,     \* facts of the installed system
    eng,        \* [pc, todo, disks, index, attempt, warned]
    left        \* what the unwinding left: [lost, refused, told]

engineVars == <<media, mounts, imported, session, target, eng, left>>

BPOOL == "bpool"
RPOOL == "rpool"
Binds == <<"dev", "sys", "run", "proc">>
EspPoints == {"efi", "efi2"}
EspPoint(i) == IF i = 1 THEN "efi" ELSE "efi2"

\* Mounts inside a dataset, which keep it and its pool busy.
Strays == EspPoints \cup ToSet(Binds)

\* STEPS, and the loaders grub-install puts on an ESP.
StepTotal == 12
Loaders == {"named", "fallback"}

EmptySession == [mounts |-> <<>>, binds |-> <<>>, pools |-> <<>>]

\* lost: mounts in no list of the Session at its teardown.  refused: mounts a umount of
\* this attempt, and pools an export of it, did not let go.  told: pools still imported
\* that a log said could not be exported.
NothingLeft == [lost |-> {}, refused |-> {}, told |-> {}]
Untouched == [d \in Disks |-> [table |-> "old", esp |-> {}]]

Idle == [pc |-> "idle", todo |-> <<>>, disks |-> <<>>, index |-> 0, attempt |-> 0, warned |-> {}]

EngineInit ==
    /\ media = Untouched /\ mounts = {} /\ imported = {} /\ session = EmptySession /\ target = {}
    /\ eng = Idle /\ left = NothingLeft

(***************************************************************************)
(* install(): the calls in their order.  Step begins a numbered step.      *)
(***************************************************************************)

Op(name, i) == [op |-> name, i |-> i, begins |-> FALSE]
Step(name) == [op |-> name, i |-> 0, begins |-> TRUE]
Each(name, n) == [i \in 1..n |-> Op(name, i)]

Partitioning(n) == <<Step("release")>> \o Each("prepare", n) \o <<Op("settle", 0)>>
Filling(n) == <<Step("bpool"), Step("rpool"), Step("datasets"), Step("esps")>> \o Each("esp", n)
              \o <<Op("track esps", n), Step("copy")>> \o Each("bind", Len(Binds)) \o <<Op("track binds", 0)>>
Configuring == <<Step("strip"), Op("pam", 0), Step("configure"), Step("account"), Step("seed")>>
Sync(n) == IF n >= 2 THEN <<Op("sync", 2)>> ELSE <<>>

\* Wrong variant of Booting: the initramfs is built before the pool cache is written.
BootingEarly(n) ==
    <<Step("initramfs"), Op("cachefile", 0), Step("grub")>> \o Each("loader", n) \o Tail(Each("entry", n))
    \o <<Op("menu", 0)>> \o Sync(n) \o <<Step("log")>>

Booting(n) ==
    <<Step("cachefile"), Op("initramfs", 0), Step("grub")>> \o Each("loader", n) \o Tail(Each("entry", n))
    \o <<Op("menu", 0)>> \o Sync(n) \o <<Step("log")>>

Plan(n) == Partitioning(n) \o Filling(n) \o Configuring \o Booting(n)

\* run() has its confirmations: install() starts with an empty Session.
Begin(ds) ==
    /\ eng.pc = "idle" /\ eng.attempt < MaxAttempts
    /\ eng' = [eng EXCEPT !.pc = "install", !.todo = Plan(Len(ds)), !.disks = ds, !.attempt = @ + 1]
    /\ session' = EmptySession
    /\ UNCHANGED <<media, mounts, imported, target, left>>

\* The next call is this one; after it the engine goes on, or unwinds.
At(name) == eng.pc = "install" /\ eng.todo # <<>> /\ Head(eng.todo).op = name
Index == Head(eng.todo).i
Disk == eng.disks[Index]
MayFail == eng.attempt \in FaultyAttempts
Counted == IF Head(eng.todo).begins THEN eng.index + 1 ELSE eng.index
Warning(w) == eng' = [eng EXCEPT !.todo = Tail(@), !.index = Counted, !.warned = @ \cup w]
Ok == Warning({})
Fail == eng' = [eng EXCEPT !.pc = "failing", !.index = Counted]
Broken == MayFail /\ Fail

(***************************************************************************)
(* The pools and what is mounted in them, as zfs and the kernel have it:   *)
(* the outcomes of the commands that undo, none of which stops the engine. *)
(* A state of them is [m |-> mounts, pools |-> imported, refused |-> ...]. *)
(***************************************************************************)

Dataset(p) == IF p = BPOOL THEN "boot" ELSE "root"

\* zfs unmount -a: a dataset with something mounted in it stays, and a failure may leave
\* either of them.
UnmountBoot(m) == IF m \cap EspPoints = {} THEN m \ {"boot"} ELSE m
UnmountAll(m) == IF UnmountBoot(m) \subseteq {"root"} THEN {} ELSE UnmountBoot(m)
ZfsUnmount(m) == {UnmountAll(m)} \cup (IF MayFail THEN {m, UnmountBoot(m)} ELSE {})

\* zpool export: busy while anything is mounted inside, or the boot pool is.
Exportable(p, m, pools) ==
    IF p = BPOOL THEN m \cap EspPoints = {} ELSE m \subseteq {"root"} /\ BPOOL \notin pools

\* It unmounts the dataset first.  One that is refused: a lazy umount or a reference
\* that zfs still counts.  In a teardown this is three tries, the last with -f.
Exports(s, p) ==
    LET free == s.m \ {Dataset(p)}
    IN  IF ~Exportable(p, s.m, s.pools) THEN {s}
        ELSE {[s EXCEPT !.m = free, !.pools = @ \ {p}]}
             \cup (IF MayFail THEN {[s EXCEPT !.m = m, !.refused = @ \cup {p}] : m \in {s.m, free}} ELSE {})

\* zfs::release_existing_pools, one of the two names: only one that zpool lists.
Releases(s, p) ==
    IF p \notin s.pools THEN {s}
    ELSE (UNION {Exports([s EXCEPT !.m = m], p) : m \in ZfsUnmount(s.m)})
         \cup (IF MayFail THEN {[s EXCEPT !.refused = @ \cup {p}]} ELSE {})

\* Wrong variant of ReleaseOrder: the pool of the root first.
ReleaseOrderRootFirst == <<RPOOL, BPOOL>>

ReleaseOrder == <<BPOOL, RPOOL>>

\* A pool that is gone needs no more warning.
Undone(s, lost, told) ==
    /\ mounts' = s.m /\ imported' = s.pools
    /\ left' = [lost |-> lost, refused |-> s.refused, told |-> told \cap s.pools]

Undoing(m, refused) == [m |-> m, pools |-> imported, refused |-> refused]

ReleaseExistingPools ==
    /\ At("release") /\ Ok
    /\ \E first \in Releases(Undoing(mounts, left.refused), ReleaseOrder[1]) :
          \E s \in Releases(first, ReleaseOrder[2]) : Undone(s, left.lost, left.told)
    /\ UNCHANGED <<media, session, target>>

(***************************************************************************)
(* Disks, pools, datasets and ESPs                                         *)
(***************************************************************************)

\* partition::prepare: zapped, wiped, and the three partitions.
Prepare ==
    /\ At("prepare")
    /\ \/ Ok /\ media' = [media EXCEPT ![Disk] = [table |-> "new", esp |-> {}]]
       \/ Broken /\ \E t \in {"old", "zapped"} : media' = [media EXCEPT ![Disk].table = t]
    /\ UNCHANGED <<mounts, imported, session, target, left>>

\* partition::settle: every partition of every disk appears, or the deadline does.
Settle ==
    /\ At("settle") /\ (Ok \/ Broken)
    /\ UNCHANGED <<media, mounts, imported, session, target, left>>

\* zpool create refuses a name that is imported.
CreatePool(name, p) ==
    /\ At(name)
    /\ \/ /\ p \notin imported /\ Ok
          /\ imported' = imported \cup {p}
          /\ session' = [session EXCEPT !.pools = Append(@, p)]
       \/ (MayFail \/ p \in imported) /\ Fail /\ UNCHANGED <<imported, session>>
    /\ UNCHANGED <<media, mounts, target, left>>

CreateBpool == CreatePool("bpool", BPOOL)
CreateRpool == CreatePool("rpool", RPOOL)

CreateDatasets ==
    /\ At("datasets")
    /\ \/ Ok /\ mounts' = mounts \cup {"root", "boot"}
       \/ Broken /\ \E m \in {{}, {"root"}, {"root", "boot"}} : mounts' = mounts \cup m
    /\ UNCHANGED <<media, imported, session, target, left>>

\* boot::format_esps, one disk: mkfs, mount, and the UUID read back.  Nothing is
\* in the Session before every disk has been through it.
FormatEsps ==
    /\ At("esps") /\ Ok /\ UNCHANGED <<media, mounts, imported, session, target, left>>

FormatEsp ==
    /\ At("esp")
    /\ \/ Ok /\ mounts' = mounts \cup {EspPoint(Index)}
       \/ Broken /\ \E m \in {{}, {EspPoint(Index)}} : mounts' = mounts \cup m
    /\ media' = [media EXCEPT ![Disk].esp = {}]
    /\ UNCHANGED <<imported, session, target, left>>

TrackEsps ==
    /\ At("track esps") /\ Ok
    /\ session' = [session EXCEPT !.mounts = [i \in 1..Index |-> EspPoint(i)]]
    /\ UNCHANGED <<media, mounts, imported, target, left>>

(***************************************************************************)
(* The copied system                                                       *)
(***************************************************************************)

Copied(facts) == target' = target \cup facts

\* rootfs::copy_to_target: cp may say it is done when it is not, and what must be there
\* is looked for.
CopySystem ==
    /\ At("copy")
    /\ \/ Ok /\ Copied({"system", "pam", "live"})
       \/ Broken /\ UNCHANGED target
    /\ UNCHANGED <<media, mounts, imported, session, left>>

\* target::bind_pseudo_filesystems, one of them: mounted, then made a slave.  The list is
\* the Session's when all four are.
Bind ==
    /\ At("bind")
    /\ \/ Ok /\ mounts' = mounts \cup {Binds[Index]}
       \/ Broken /\ \E m \in {{}, {Binds[Index]}} : mounts' = mounts \cup m
    /\ UNCHANGED <<media, imported, session, target, left>>

TrackBinds ==
    /\ At("track binds") /\ Ok
    /\ session' = [session EXCEPT !.binds = Binds]
    /\ UNCHANGED <<media, mounts, imported, target, left>>

\* rootfs::strip_live_layer fails only when apt-get cannot be started; a purge may take a PAM module with it.
StripLiveLayer ==
    /\ At("strip")
    /\ \/ Ok /\ target' = target \ {"live"}
       \/ MayFail /\ Ok /\ target' = target \ {"live", "pam"}
       \/ MayFail /\ Warning({"live"}) /\ UNCHANGED target
       \/ Broken /\ UNCHANGED target
    /\ UNCHANGED <<media, mounts, imported, session, left>>

VerifyPamStack ==
    /\ At("pam")
    /\ ("pam" \in target /\ Ok) \/ ("pam" \notin target /\ Fail)
    /\ UNCHANGED <<media, mounts, imported, session, target, left>>

\* write_fstab, set_hostname, enable_zfs_services: the units are lenient.
Configure ==
    /\ At("configure")
    /\ \/ Ok /\ Copied({"fstab", "hostname", "zfs units"})
       \/ MayFail /\ Warning({"zfs units"}) /\ Copied({"fstab", "hostname"})
       \/ Broken /\ \E f \in SUBSET {"fstab", "hostname"} : Copied(f)
    /\ UNCHANGED <<media, mounts, imported, session, left>>

\* target::create_account: useradd, chpasswd, the proof that it took, root locked, sudo
\* granted and checked.  chpasswd may succeed and change nothing.
CreateAccount ==
    /\ At("account")
    /\ \/ Ok /\ Copied({"account", "password", "root locked", "sudo"})
       \/ Broken /\ \E f \in {{}, {"account"}, {"account", "password"},
                              {"account", "password", "root locked"}} : Copied(f)
    /\ UNCHANGED <<media, mounts, imported, session, left>>

\* seed::write_configuration: the hash the target's shadow has, or none.
WriteConfiguration ==
    /\ At("seed")
    /\ \/ Ok /\ Copied({"config.boot", "link files"} \cup (IF "password" \in target THEN {"hash"} ELSE {}))
       \/ Broken /\ \E f \in {{}, {"config.boot"}} : Copied(f)
    /\ UNCHANGED <<media, mounts, imported, session, left>>

(***************************************************************************)
(* Booting it                                                              *)
(***************************************************************************)

WriteCachefile ==
    /\ At("cachefile")
    /\ (Ok /\ Copied({"cache"})) \/ (Broken /\ UNCHANGED target)
    /\ UNCHANGED <<media, mounts, imported, session, left>>

\* update-initramfs copies the cache that is there.
RegenerateInitramfs ==
    /\ At("initramfs")
    /\ \/ Ok /\ Copied({"initramfs"} \cup (IF "cache" \in target THEN {"cache in initramfs"} ELSE {}))
       \/ Broken /\ UNCHANGED target
    /\ UNCHANGED <<media, mounts, imported, session, left>>

ConfigureGrub ==
    /\ At("grub")
    /\ (Ok /\ Copied({"default grub"})) \/ (Broken /\ UNCHANGED target)
    /\ UNCHANGED <<media, mounts, imported, session, left>>

\* boot::install_to_esps, one disk: the named loader, then the fallback.
InstallLoader ==
    /\ At("loader")
    /\ \/ Ok /\ media' = [media EXCEPT ![Disk].esp = Loaders]
       \/ Broken /\ \E l \in {{}, {"named"}} : media' = [media EXCEPT ![Disk].esp = l]
    /\ UNCHANGED <<mounts, imported, session, target, left>>

\* A firmware entry for a further disk is wanted, not needed.
InstallEntry ==
    /\ At("entry") /\ (Ok \/ Broken \/ (MayFail /\ Warning({"entry"})))
    /\ UNCHANGED <<media, mounts, imported, session, target, left>>

\* update-grub may write a menu without the root dataset, which is refused.
GenerateMenu ==
    /\ At("menu")
    /\ (Ok /\ Copied({"menu"})) \/ (Broken /\ UNCHANGED target)
    /\ UNCHANGED <<media, mounts, imported, session, left>>

\* boot::install_esp_sync, and the first run of its script, which removes before it
\* copies; its failure is a warning.
InstallEspSync ==
    /\ At("sync")
    /\ \/ Ok /\ Copied({"sync"}) /\ media' = [media EXCEPT ![Disk].esp = media[eng.disks[1]].esp]
       \/ MayFail /\ Warning({"sync"}) /\ Copied({"sync"})
          /\ \E l \in {{}, media[Disk].esp} : media' = [media EXCEPT ![Disk].esp = l]
       \/ Broken /\ UNCHANGED <<target, media>>
    /\ UNCHANGED <<mounts, imported, session, left>>

SaveLog ==
    /\ At("log") /\ (Ok \/ (MayFail /\ Warning({"log"})))
    /\ UNCHANGED <<media, mounts, imported, session, target, left>>

(***************************************************************************)
(* Session::teardown                                                       *)
(***************************************************************************)

\* Wrong variant of ExportOrder: as everything else, in reverse.
ExportOrderReversed == Reverse(session.pools)

\* bpool was pushed first and is mounted inside rpool.
ExportOrder == session.pools

\* One export after another, of the two pools there can be.
ExportsOf(s, order) ==
    LET first == IF Len(order) > 0 THEN Exports(s, order[1]) ELSE {s}
    IN  IF Len(order) > 1 THEN UNION {Exports(t, order[2]) : t \in first} ELSE first

Recorded == ToSet(session.binds) \cup ToSet(session.mounts)

\* What umount -R and then -lR, or umount, did not unmount.
Stuck == IF MayFail THEN SUBSET (mounts \cap Recorded) ELSE {{}}

Teardown ==
    /\ eng.pc = "failing" \/ (eng.pc = "install" /\ eng.todo = <<>>)
    /\ \E stuck \in Stuck : \E m \in ZfsUnmount((mounts \ Recorded) \cup stuck) :
         \E s \in ExportsOf(Undoing(m, left.refused \cup stuck), ExportOrder) :
            Undone(s, (mounts \ {"root", "boot"}) \ Recorded, left.told \cup ToSet(session.pools))
    /\ eng' = [eng EXCEPT !.pc = IF eng.pc = "failing" THEN "failed" ELSE "installed", !.todo = <<>>]
    /\ session' = EmptySession
    /\ UNCHANGED <<media, target>>

\* The process has ended, and what it knew with it; the operator starts it again.
Again ==
    /\ eng.pc \in {"failed", "installed"}
    /\ eng' = [Idle EXCEPT !.attempt = eng.attempt]
    /\ target' = {} /\ left' = [NothingLeft EXCEPT !.told = left.told]
    /\ UNCHANGED <<media, mounts, imported, session>>

Install ==
    \/ ReleaseExistingPools \/ Prepare \/ Settle \/ CreateBpool \/ CreateRpool \/ CreateDatasets
    \/ FormatEsps \/ FormatEsp \/ TrackEsps \/ CopySystem \/ Bind \/ TrackBinds \/ StripLiveLayer
    \/ VerifyPamStack \/ Configure \/ CreateAccount \/ WriteConfiguration \/ WriteCachefile
    \/ RegenerateInitramfs \/ ConfigureGrub \/ InstallLoader \/ InstallEntry \/ GenerateMenu
    \/ InstallEspSync \/ SaveLog \/ Teardown

(***************************************************************************)
(* Properties                                                              *)
(***************************************************************************)

EngineTypeOK ==
    /\ \A d \in Disks : media[d].table \in {"old", "zapped", "new"} /\ media[d].esp \subseteq Loaders
    /\ mounts \subseteq {"root", "boot"} \cup EspPoints \cup ToSet(Binds)
    /\ imported \subseteq {BPOOL, RPOOL}
    /\ eng.pc \in {"idle", "install", "failing", "failed", "installed"}
    /\ eng.attempt \in 0..MaxAttempts
    /\ left \in [lost : SUBSET Strays, refused : SUBSET (Strays \cup {BPOOL, RPOOL}), told : SUBSET {BPOOL, RPOOL}]

\* Teardown unwinds, from whichever call failed and whatever earlier attempts left
\* (engine/mod.rs: "Unwind in strict reverse dependency order").  A mount in a dataset stays
\* only if it was made and not yet recorded or a umount refused it; with neither, and no
\* refused export, nothing is mounted and no pool imported; and a pool that does stay
\* imported is one a warning in the log is about.
Unwound ==
    eng.pc \in {"failed", "installed"} =>
        /\ mounts \subseteq {"root", "boot"} \cup left.lost \cup left.refused
        /\ left.lost = {} /\ left.refused = {} => mounts = {} /\ imported = {}
        /\ imported \subseteq left.told

\* What an earlier attempt left is put right before a pool is created (zfs.rs: "Without
\* this, a second run fails at zpool create"), in a new process that knows nothing of it:
\* past the release the only pools imported are those this attempt created, unless
\* something is still mounted inside a dataset or a command of the release was refused.
RerunStarts ==
    left.refused = {} /\ mounts \cap Strays = {} /\ eng.pc = "install" /\ ~At("release") =>
        imported = ToSet(session.pools)

\* An install that reports success has a system that finds its root: the pool cache went
\* into the initramfs, the menu names the root dataset, every chosen disk has its
\* partitions, and a pool that was not exported for it has been warned about
\* (engine/mod.rs install, Session::teardown).
InstalledBoots ==
    eng.pc = "installed" =>
        /\ {"system", "fstab", "cache in initramfs", "menu"} \subseteq target
        /\ \A i \in DOMAIN eng.disks : media[eng.disks[i]].table = "new"
        /\ imported \subseteq left.told

\* An install that reports success can be logged into: root is locked, so the account's
\* password took, its PAM stack is whole and sudo accepts it, and the configuration the
\* box boots with knows the password (target.rs create_account, verify_pam_stack).
InstalledLogsIn ==
    eng.pc = "installed" => {"account", "password", "pam", "sudo", "root locked", "hash"} \subseteq target

\* Each disk of a mirror boots by itself (boot.rs: "This is what makes a degraded mirror
\* actually boot"): the first always, every other unless its first synchronisation was
\* reported to have failed.
EachDiskBoots ==
    eng.pc = "installed" =>
        \A i \in DOMAIN eng.disks :
            i = 1 \/ "sync" \notin eng.warned => "fallback" \in media[eng.disks[i]].esp

\* A claim that does not hold (README, "Where the code and its words part").
\* The same of every install that reports success.
EachDiskAlwaysBoots ==
    eng.pc = "installed" => \A i \in DOMAIN eng.disks : "fallback" \in media[eng.disks[i]].esp

\* A claim that does not hold (README, "Where the code and its words part").
\* Success means exported pools (engine/mod.rs: "On success this leaves the pools exported
\* so the new system imports them cleanly on first boot").
InstalledIsExported == eng.pc = "installed" => imported = {}

\* A claim that does not hold (README, "Where the code and its words part").
\* After a failure running again works (engine/mod.rs: "on failure it leaves the machine
\* in a state where re-running works"): the pools are free to be created.
RerunWorks == At("bpool") => imported = {}

\* A claim that does not hold (README, "Where the code and its words part").
\* Progress is counted against the number of steps there are (engine/mod.rs STEPS).
StepNumbersFit == eng.index <= StepTotal
====
