---- MODULE InstallerProofs ----
(***************************************************************************)
(* The installer keeps its promises, for any disks and any number of runs. *)
(* First the engine: the plan of an installation is sorted by stage; a     *)
(* call that is no longer ahead has left its facts behind, and no later    *)
(* call undoes them.  Then the whole: what the screens have collected when *)
(* the engine starts, and what the engine does with it.                    *)
(***************************************************************************)
EXTENDS Installer, SequenceTheorems, FiniteSetTheorems, TLAPS

-----------------------------------------------------------------------------
(* The calls and their order. *)

CallNames ==
    {"release", "prepare", "settle", "bpool", "rpool", "datasets", "esps", "esp",
     "track esps", "copy", "bind", "track binds", "strip", "pam", "configure", "account",
     "seed", "cachefile", "initramfs", "grub", "loader", "entry", "menu", "sync", "log"}

\* The stage of a call in install().
Stage == [name \in CallNames |->
    CASE name = "release" -> 1
      [] name = "prepare" -> 2
      [] name = "settle" -> 3
      [] name = "bpool" -> 4
      [] name = "rpool" -> 5
      [] name = "datasets" -> 6
      [] name = "esps" -> 7
      [] name = "esp" -> 8
      [] name = "track esps" -> 9
      [] name = "copy" -> 10
      [] name = "bind" -> 11
      [] name = "track binds" -> 12
      [] name = "strip" -> 13
      [] name = "pam" -> 14
      [] name = "configure" -> 15
      [] name = "account" -> 16
      [] name = "seed" -> 17
      [] name = "cachefile" -> 18
      [] name = "initramfs" -> 19
      [] name = "grub" -> 20
      [] name = "loader" -> 21
      [] name = "entry" -> 22
      [] name = "menu" -> 23
      [] name = "sync" -> 24
      [] name = "log" -> 25]

\* The calls of an installation on n disks: what works on a disk names one of them.
Calls(n) ==
    {c \in [op : CallNames, i : Nat, begins : BOOLEAN] :
        /\ c.op \in {"prepare", "esp", "loader", "sync"} => c.i \in 1..n
        /\ c.op = "sync" => c.i # 1
        /\ c.op = "bind" => c.i \in 1..4
        /\ c.op = "track esps" => c.i = n}

\* A stretch of the plan: its calls, in the order of their stages, from one to another.
Stretch(s, n, from, to) ==
    /\ s \in Seq(Calls(n))
    /\ \A k \in 1..Len(s) : from <= Stage[s[k].op] /\ Stage[s[k].op] <= to
    /\ \A j, k \in 1..Len(s) : j < k => Stage[s[j].op] <= Stage[s[k].op]

\* The call is still to be made, for the i-th disk or at all.
AheadIn(s, name, i) == \E k \in 1..Len(s) : s[k].op = name /\ s[k].i = i
AnyIn(s, name) == \E k \in 1..Len(s) : s[k].op = name
Ahead(name) == AnyIn(eng.todo, name)
AheadOn(name, i) == AheadIn(eng.todo, name, i)

-----------------------------------------------------------------------------
(* The invariant. *)

Fact == {"system", "pam", "live", "fstab", "hostname", "zfs units", "account", "password",
         "root locked", "sudo", "config.boot", "link files", "hash", "cache", "initramfs",
         "cache in initramfs", "default grub", "menu", "sync"}
Warnings == {"live", "zfs units", "entry", "sync", "log"}
MountPoints == {"root", "boot"} \cup Strays

\* Two disks at most, and one at least.
Selections == {ds \in Seq(Disks) : Len(ds) \in 1..2}
Mirrors == {ds \in Selections : Len(ds) = 2 => ds[1] # ds[2]}

\* What the unwinding can leave.
LeftKind == [lost : SUBSET Strays, refused : SUBSET (Strays \cup {BPOOL, RPOOL}), told : SUBSET {BPOOL, RPOOL}]

EngineTypes ==
    /\ media \in [Disks -> [table : {"old", "zapped", "new"}, esp : SUBSET Loaders]]
    /\ mounts \subseteq MountPoints
    /\ imported \subseteq {BPOOL, RPOOL}
    /\ session \in [mounts : Seq(EspPoints), binds : {<<>>, Binds},
                    pools : {<<>>, <<BPOOL>>, <<BPOOL, RPOOL>>}]
    /\ target \subseteq Fact
    /\ eng \in [pc : {"idle", "install", "failing", "failed", "installed"},
                todo : Seq(Calls(Len(eng.disks))), disks : {<<>>} \cup Selections,
                index : Nat, attempt : 0..MaxAttempts,
                warned : SUBSET Warnings]
    /\ left \in LeftKind

\* What is left of the plan is in order.
PlanInv ==
    /\ eng.pc \in {"install", "failing"} => eng.disks \in Mirrors
    /\ eng.pc = "install" => Stretch(eng.todo, Len(eng.disks), 1, 25)

\* What is mounted is in a pool that is imported.
Backed(m, pools) ==
    /\ m \cap Strays # {} => RPOOL \in pools
    /\ "root" \in m => RPOOL \in pools
    /\ "boot" \in m => BPOOL \in pools

\* The Session has the pools this run created, in that order.  Another is one an earlier
\* teardown told of; past the release there is none, unless a mount in a dataset keeps it
\* busy or a command was refused.
PoolInv ==
    /\ eng.pc \in {"idle", "failed", "installed"} => session = EmptySession
    /\ ToSet(session.pools) \subseteq imported
    /\ imported \subseteq ToSet(session.pools) \cup left.told
    /\ imported \subseteq ToSet(session.pools) \/ (session.mounts = <<>> /\ session.binds = <<>>)
    /\ Backed(mounts, imported)
    /\ eng.pc \in {"install", "failing"} /\ ~Ahead("release") =>
          \/ imported \subseteq ToSet(session.pools)
          \/ mounts \cap Strays # {}
          \/ left.refused # {}
    /\ eng.pc = "failing" => ~Ahead("release")
    /\ eng.pc = "install" =>
          /\ session.pools # <<>> => ~Ahead("release")
          /\ ~Ahead("bpool") => session.pools # <<>>
          /\ ~Ahead("rpool") => session.pools = <<BPOOL, RPOOL>>

\* A run that gets as far as its own mounts has no others, and records them.
MountInv ==
    eng.pc = "install" =>
        /\ ~Ahead("rpool") =>
              mounts \cap EspPoints \subseteq {EspPoint(i) : i \in 1..Len(eng.disks)}
        /\ ~Ahead("track esps") =>
              ToSet(session.mounts) = {EspPoint(i) : i \in 1..Len(eng.disks)}
        /\ ~Ahead("track binds") => session.binds = Binds

\* What each call leaves in the installed system.
FactInv ==
    eng.pc = "install" =>
        /\ ~Ahead("copy") => "system" \in target
        /\ ~Ahead("pam") => "pam" \in target /\ ~Ahead("strip")
        /\ ~Ahead("configure") => "fstab" \in target
        /\ ~Ahead("account") => {"account", "password", "root locked", "sudo"} \subseteq target
        /\ ~Ahead("seed") => "hash" \in target
        /\ ~Ahead("cachefile") => "cache" \in target
        /\ ~Ahead("initramfs") => "cache in initramfs" \in target
        /\ ~Ahead("menu") => "menu" \in target

\* What each call leaves on its disk.
MediaInv ==
    eng.pc = "install" =>
        \A i \in 1..Len(eng.disks) :
            /\ ~AheadOn("prepare", i) => media[eng.disks[i]].table = "new"
            /\ ~AheadOn("loader", i) =>
                  /\ ~Ahead("prepare") /\ ~Ahead("esp")
                  /\ "fallback" \in media[eng.disks[i]].esp \/ ("sync" \in eng.warned /\ i # 1)

\* What an installation that has ended has left.
EndInv == Unwound /\ InstalledBoots /\ InstalledLogsIn /\ EachDiskBoots

EngineInv ==
    EngineTypes /\ PlanInv /\ PoolInv /\ MountInv /\ FactInv /\ MediaInv /\ EndInv

-----------------------------------------------------------------------------
(* The plan. *)

LEMMA StageValues ==
    /\ Stage["release"] = 1 /\ Stage["prepare"] = 2 /\ Stage["settle"] = 3
    /\ Stage["bpool"] = 4 /\ Stage["rpool"] = 5 /\ Stage["datasets"] = 6
    /\ Stage["esps"] = 7 /\ Stage["esp"] = 8 /\ Stage["track esps"] = 9
    /\ Stage["copy"] = 10 /\ Stage["bind"] = 11 /\ Stage["track binds"] = 12
    /\ Stage["strip"] = 13 /\ Stage["pam"] = 14 /\ Stage["configure"] = 15
    /\ Stage["account"] = 16 /\ Stage["seed"] = 17 /\ Stage["cachefile"] = 18
    /\ Stage["initramfs"] = 19 /\ Stage["grub"] = 20 /\ Stage["loader"] = 21
    /\ Stage["entry"] = 22 /\ Stage["menu"] = 23 /\ Stage["sync"] = 24
    /\ Stage["log"] = 25
BY DEF Stage, CallNames

LEMMA StageOrder ==
    /\ Stage["release"] < Stage["bpool"] /\ Stage["release"] < Stage["rpool"]
    /\ Stage["bpool"] < Stage["rpool"] /\ Stage["rpool"] < Stage["datasets"]
    /\ Stage["rpool"] < Stage["esp"]
    /\ Stage["rpool"] < Stage["track esps"] /\ Stage["rpool"] < Stage["bind"]
    /\ Stage["rpool"] < Stage["track binds"] /\ Stage["strip"] < Stage["pam"]
    /\ Stage["account"] < Stage["seed"] /\ Stage["cachefile"] < Stage["initramfs"]
    /\ Stage["prepare"] < Stage["loader"] /\ Stage["esp"] < Stage["loader"]
    /\ Stage["loader"] < Stage["sync"]
BY DEF Stage, CallNames

LEMMA StageType == Stage \in [CallNames -> 1..25]
BY DEF Stage, CallNames

LEMMA LaterType ==
    [x \in CallNames |-> IF x = "release" THEN 2 ELSE Stage[x]] \in [CallNames -> 2..25]
BY DEF Stage, CallNames

LEMMA FirstStage ==
    ASSUME NEW name \in CallNames, name # "release" PROVE Stage["release"] < Stage[name]
<1> DEFINE later == [x \in CallNames |-> IF x = "release" THEN 2 ELSE Stage[x]]
<1>1. later \in [CallNames -> 2..25]
  BY LaterType
<1>2. later[name] = Stage[name]
  OBVIOUS
<1>3. Stage["release"] = 1
  BY DEF Stage, CallNames
<1> HIDE DEF later
<1> QED BY <1>1, <1>2, <1>3

LEMMA StageNat == \A name \in CallNames : Stage[name] \in Nat
BY StageType

\* Two stretches, one after the other.
LEMMA StretchCat ==
    ASSUME NEW n, NEW s, NEW t, NEW a \in Nat, NEW b \in Nat, NEW c \in Nat, NEW d \in Nat,
           Stretch(s, n, a, b), Stretch(t, n, c, d), a <= c, b <= c, b <= d
    PROVE  Stretch(s \o t, n, a, d)
<1> DEFINE u == s \o t
<1>1. s \in Seq(Calls(n)) /\ t \in Seq(Calls(n))
  BY DEF Stretch
<1>2. /\ u \in Seq(Calls(n)) /\ Len(u) = Len(s) + Len(t)
      /\ \A k \in 1..Len(u) : u[k] = IF k <= Len(s) THEN s[k] ELSE t[k - Len(s)]
  BY <1>1, ConcatProperties
<1>3. Len(s) \in Nat /\ Len(t) \in Nat
  BY <1>1, LenProperties
<1>4. \A k \in 1..Len(u) : u[k].op \in CallNames
  <2> TAKE k \in 1..Len(u)
  <2>1. u[k] \in Calls(n)
    BY <1>2, ElementOfSeq
  <2> QED BY <2>1 DEF Calls
<1> HIDE DEF u
<1>5. \A k \in 1..Len(u) : Stage[u[k].op] \in Nat
  BY <1>4, StageNat
<1>6. \A k \in 1..Len(u) :
         \/ k \in 1..Len(s) /\ u[k] = s[k]
         \/ k - Len(s) \in 1..Len(t) /\ k > Len(s) /\ u[k] = t[k - Len(s)]
  BY <1>2, <1>3
<1>7. ASSUME NEW k \in 1..Len(u) PROVE a <= Stage[u[k].op] /\ Stage[u[k].op] <= d
  <2>1. CASE k \in 1..Len(s) /\ u[k] = s[k]
    <3>1. a <= Stage[u[k].op] /\ Stage[u[k].op] <= b
      BY <2>1 DEF Stretch
    <3> QED BY <3>1, <1>5
  <2>2. CASE k - Len(s) \in 1..Len(t) /\ u[k] = t[k - Len(s)]
    <3>1. c <= Stage[u[k].op] /\ Stage[u[k].op] <= d
      BY <2>2 DEF Stretch
    <3> QED BY <3>1, <1>5
  <2> QED BY <1>6, <2>1, <2>2
<1>8. ASSUME NEW j \in 1..Len(u), NEW k \in 1..Len(u), j < k
      PROVE  Stage[u[j].op] <= Stage[u[k].op]
  <2>1. CASE k \in 1..Len(s)
    <3>1. j \in 1..Len(s) /\ u[j] = s[j] /\ u[k] = s[k]
      BY <1>2, <1>3, <1>8, <2>1
    <3> QED BY <3>1, <2>1, <1>8 DEF Stretch
  <2>2. CASE j > Len(s)
    <3>1. /\ j - Len(s) \in 1..Len(t) /\ k - Len(s) \in 1..Len(t)
          /\ u[j] = t[j - Len(s)] /\ u[k] = t[k - Len(s)] /\ j - Len(s) < k - Len(s)
      BY <1>2, <1>3, <1>8, <2>2
    <3> QED BY <3>1 DEF Stretch
  <2>3. CASE j \in 1..Len(s) /\ k > Len(s)
    <3>1. u[j] = s[j] /\ k - Len(s) \in 1..Len(t) /\ u[k] = t[k - Len(s)]
      BY <1>2, <1>3, <2>3
    <3>2. Stage[u[j].op] <= b /\ c <= Stage[u[k].op]
      BY <2>3, <3>1 DEF Stretch
    <3> QED BY <3>2, <1>5
  <2> QED BY <1>3, <2>1, <2>2, <2>3
<1>9. Stretch(u, n, a, d)
  BY <1>2, <1>7, <1>8 DEF Stretch
<1> QED BY <1>9 DEF u

\* A call of either is a call of both.
LEMMA AheadCat ==
    ASSUME NEW S, NEW s \in Seq(S), NEW t \in Seq(S)
    PROVE  \A name, i : AheadIn(s, name, i) \/ AheadIn(t, name, i) => AheadIn(s \o t, name, i)
<1> TAKE name, i
<1> HAVE AheadIn(s, name, i) \/ AheadIn(t, name, i)
<1>1. /\ Len(s \o t) = Len(s) + Len(t) /\ Len(s) \in Nat /\ Len(t) \in Nat
      /\ \A k \in 1..Len(s) + Len(t) :
            (s \o t)[k] = IF k <= Len(s) THEN s[k] ELSE t[k - Len(s)]
  BY ConcatProperties, LenProperties
<1>2. CASE AheadIn(s, name, i)
  <2>1. PICK k \in 1..Len(s) : s[k].op = name /\ s[k].i = i
    BY <1>2 DEF AheadIn
  <2>2. k \in 1..Len(s \o t) /\ (s \o t)[k] = s[k]
    BY <1>1
  <2> QED BY <2>1, <2>2 DEF AheadIn
<1>3. CASE AheadIn(t, name, i)
  <2>1. PICK k \in 1..Len(t) : t[k].op = name /\ t[k].i = i
    BY <1>3 DEF AheadIn
  <2>2. k + Len(s) \in 1..Len(s \o t) /\ (s \o t)[k + Len(s)] = t[k]
    BY <1>1
  <2> QED BY <2>1, <2>2 DEF AheadIn
<1> QED BY <1>2, <1>3

\* A function on 1..m is a sequence of length m.
LEMMA FunctionSeq ==
    ASSUME NEW S, NEW m \in Nat, NEW e \in [1..m -> S]
    PROVE  e \in Seq(S) /\ Len(e) = m
<1>1. e \in Seq(S)
  BY SeqDef
<1>2. DOMAIN e = 1..m /\ DOMAIN e = 1..Len(e) /\ Len(e) \in Nat
  BY <1>1, LenProperties
<1> QED BY <1>1, <1>2

\* One call for each disk, or for each of a few things.
LEMMA EachStretch ==
    ASSUME NEW n, NEW m \in Nat, NEW name \in CallNames,
           \A i \in 1..m : Op(name, i) \in Calls(n)
    PROVE  /\ Stretch(Each(name, m), n, Stage[name], Stage[name])
           /\ \A i \in 1..m : AheadIn(Each(name, m), name, i)
           /\ Len(Each(name, m)) = m
<1>1. Stage[name] \in Nat
  BY StageNat
<1>2. PICK e : e = Each(name, m)
  OBVIOUS
<1>3. e \in [1..m -> Calls(n)]
  BY <1>2 DEF Each
<1>4. e \in Seq(Calls(n)) /\ Len(e) = m
  BY <1>3, FunctionSeq
<1>5. \A i \in 1..m : e[i].op = name /\ e[i].i = i
  BY <1>2 DEF Each, Op
<1>6. Stretch(e, n, Stage[name], Stage[name])
  BY <1>1, <1>4, <1>5 DEF Stretch
<1>7. \A i \in 1..m : AheadIn(e, name, i)
  BY <1>4, <1>5 DEF AheadIn
<1> QED BY <1>2, <1>4, <1>6, <1>7

\* One call.
LEMMA OneStretch ==
    ASSUME NEW n, NEW c \in Calls(n)
    PROVE  /\ Stretch(<<c>>, n, Stage[c.op], Stage[c.op])
           /\ AheadIn(<<c>>, c.op, c.i)
<1>1. c.op \in CallNames
  BY DEF Calls
<1>2. Stage[c.op] \in Nat
  BY <1>1, StageNat
<1>3. PICK e : e = <<c>>
  OBVIOUS
<1>4. e \in Seq(Calls(n)) /\ Len(e) = 1 /\ e[1] = c
  BY <1>3
<1>5. Stretch(e, n, Stage[c.op], Stage[c.op])
  BY <1>2, <1>4 DEF Stretch
<1>6. AheadIn(e, c.op, c.i)
  BY <1>4 DEF AheadIn
<1> QED BY <1>3, <1>5, <1>6

\* The calls that are about no disk.
General == CallNames \ {"prepare", "esp", "loader", "sync", "bind", "track esps"}

LEMMA GeneralStretch ==
    ASSUME NEW n, NEW name \in General, NEW c \in {Step(name), Op(name, 0)}
    PROVE  Stretch(<<c>>, n, Stage[name], Stage[name]) /\ AheadIn(<<c>>, name, 0)
<1>1. c.op = name /\ c.i = 0
  BY DEF Step, Op
<1>2. name \in CallNames
  BY DEF General
<1>3. c \in [op : CallNames, i : Nat, begins : BOOLEAN]
  <2>1. CASE c = Step(name)
    BY <1>2, <2>1 DEF Step
  <2>2. CASE c = Op(name, 0)
    BY <1>2, <2>2 DEF Op
  <2> QED BY <2>1, <2>2
<1>4. c.op \notin {"prepare", "esp", "loader", "sync", "bind", "track esps"}
  BY <1>1 DEF General
<1>5. c \in Calls(n)
  BY <1>3, <1>4 DEF Calls
<1> QED BY <1>1, <1>5, OneStretch

\* Tuples, a call at a time.
LEMMA TuplePrefix ==
    ASSUME NEW S, NEW a \in S, NEW t \in Seq(S), NEW u \in Seq(S), Len(u) = Len(t) + 1,
           u[1] = a, \A k \in 1..Len(t) : u[k + 1] = t[k]
    PROVE  u = <<a>> \o t
<1>1. <<a>> \in Seq(S) /\ Len(<<a>>) = 1 /\ <<a>>[1] = a
  OBVIOUS
<1>2. /\ <<a>> \o t \in Seq(S) /\ Len(<<a>> \o t) = 1 + Len(t)
      /\ \A k \in 1..1 + Len(t) : (<<a>> \o t)[k] = IF k <= 1 THEN a ELSE t[k - 1]
  BY <1>1, ConcatProperties
<1>3. Len(t) \in Nat
  BY LenProperties
<1>4. \A k \in 1..Len(u) : u[k] = (<<a>> \o t)[k]
  BY <1>2, <1>3
<1> QED BY <1>2, <1>3, <1>4, SeqEqual

LEMMA Pair == ASSUME NEW a, NEW b PROVE <<a, b>> = <<a>> \o <<b>>
<1> DEFINE S == {a, b}
<1>1. <<b>> \in Seq(S) /\ Len(<<b>>) = 1 /\ <<b>>[1] = b
  OBVIOUS
<1>2. <<a, b>> \in Seq(S) /\ Len(<<a, b>>) = 2 /\ <<a, b>>[1] = a /\ <<a, b>>[2] = b
  OBVIOUS
<1>3. \A k \in 1..Len(<<b>>) : <<a, b>>[k + 1] = <<b>>[k]
  BY <1>1, <1>2
<1>4. Len(<<a, b>>) = Len(<<b>>) + 1
  BY <1>1, <1>2
<1>5. a \in S
  OBVIOUS
<1> HIDE DEF S
<1> QED BY <1>1, <1>2, <1>3, <1>4, <1>5, TuplePrefix

LEMMA Triple == ASSUME NEW a, NEW b, NEW c PROVE <<a, b, c>> = <<a>> \o (<<b>> \o <<c>>)
<1> DEFINE S == {a, b, c}
<1>1. a \in S /\ <<b, c>> \in Seq(S) /\ <<a, b, c>> \in Seq(S)
  OBVIOUS
<1>2. \A k \in 1..2 : <<a, b, c>>[k + 1] = <<b, c>>[k]
  OBVIOUS
<1> HIDE DEF S
<1>3. <<a, b, c>> = <<a>> \o <<b, c>>
  BY <1>1, <1>2, TuplePrefix
<1>4. <<b, c>> = <<b>> \o <<c>>
  BY Pair
<1> QED BY <1>3, <1>4

LEMMA Quadruple ==
    ASSUME NEW a, NEW b, NEW c, NEW d
    PROVE  <<a, b, c, d>> = <<a>> \o (<<b>> \o (<<c>> \o <<d>>))
<1> DEFINE S == {a, b, c, d}
<1>1. a \in S /\ <<b, c, d>> \in Seq(S) /\ <<a, b, c, d>> \in Seq(S)
  OBVIOUS
<1>2. \A k \in 1..3 : <<a, b, c, d>>[k + 1] = <<b, c, d>>[k]
  OBVIOUS
<1> HIDE DEF S
<1>3. <<a, b, c, d>> = <<a>> \o <<b, c, d>>
  BY <1>1, <1>2, TuplePrefix
<1>4. <<b, c, d>> = <<b>> \o (<<c>> \o <<d>>)
  BY Triple
<1> QED BY <1>3, <1>4

LEMMA Quintuple ==
    ASSUME NEW a, NEW b, NEW c, NEW d, NEW e
    PROVE  <<a, b, c, d, e>> = <<a>> \o (<<b>> \o (<<c>> \o (<<d>> \o <<e>>)))
<1> DEFINE S == {a, b, c, d, e}
<1>1. a \in S /\ <<b, c, d, e>> \in Seq(S) /\ <<a, b, c, d, e>> \in Seq(S)
  OBVIOUS
<1>2. \A k \in 1..4 : <<a, b, c, d, e>>[k + 1] = <<b, c, d, e>>[k]
  OBVIOUS
<1> HIDE DEF S
<1>3. <<a, b, c, d, e>> = <<a>> \o <<b, c, d, e>>
  BY <1>1, <1>2, TuplePrefix
<1>4. <<b, c, d, e>> = <<b>> \o (<<c>> \o (<<d>> \o <<e>>))
  BY Quadruple
<1> QED BY <1>3, <1>4

\* A stretch with another after it has the calls of both.
LEMMA Joined ==
    ASSUME NEW n, NEW s, NEW t, NEW a, NEW b, NEW c, NEW d,
           Stretch(s, n, a, b), Stretch(t, n, c, d)
    PROVE  /\ \A x, i : AheadIn(s, x, i) => AheadIn(s \o t, x, i)
           /\ \A x, i : AheadIn(t, x, i) => AheadIn(s \o t, x, i)
<1>1. s \in Seq(Calls(n)) /\ t \in Seq(Calls(n))
  BY DEF Stretch
<1> QED BY <1>1, AheadCat

LEMMA GeneralNames ==
    {"release", "settle", "bpool", "rpool", "datasets", "esps", "copy", "track binds",
     "strip", "pam", "configure", "account", "seed", "cachefile", "initramfs", "grub",
     "entry", "menu", "log"} \subseteq General
BY DEF General, CallNames

LEMMA OpRecord ==
    ASSUME NEW name \in CallNames, NEW i \in Nat
    PROVE  Op(name, i) \in [op : CallNames, i : Nat, begins : BOOLEAN]
BY DEF Op

\* One call for each disk.
DiskNames == {"prepare", "esp", "loader", "entry"}

LEMMA DiskCalls ==
    ASSUME NEW n \in Nat, NEW name \in DiskNames
    PROVE  /\ Stretch(Each(name, n), n, Stage[name], Stage[name])
           /\ \A i \in 1..n : AheadIn(Each(name, n), name, i)
           /\ Len(Each(name, n)) = n
<1>1. name \in CallNames
  BY DEF DiskNames, CallNames
<1>2. ASSUME NEW i \in 1..n PROVE Op(name, i) \in Calls(n)
  <2>1. Op(name, i).op = name /\ Op(name, i).i = i
    BY DEF Op
  <2>2. Op(name, i) \in [op : CallNames, i : Nat, begins : BOOLEAN]
    BY <1>1, OpRecord
  <2>3. name # "bind" /\ name # "track esps" /\ name # "sync"
    BY DEF DiskNames
  <2> QED BY <2>1, <2>2, <2>3 DEF Calls
<1> QED BY <1>1, <1>2, EachStretch

\* Stretches of install(), each with the calls later ones count on.
LEMMA PartitioningStretch ==
    ASSUME NEW n \in Nat
    PROVE  /\ Stretch(Partitioning(n), n, 1, 3)
           /\ \A i \in 1..n : AheadIn(Partitioning(n), "prepare", i)
           /\ AheadIn(Partitioning(n), "release", 0)
<1> DEFINE r == <<Step("release")>>
           p == Each("prepare", n)
           t == <<Op("settle", 0)>>
<1>1. Stretch(r, n, 1, 1) /\ Stretch(t, n, 3, 3) /\ AheadIn(r, "release", 0)
  BY GeneralNames, GeneralStretch, StageValues
<1>2. Stretch(p, n, 2, 2) /\ \A i \in 1..n : AheadIn(p, "prepare", i)
  <2>1. "prepare" \in DiskNames
    BY DEF DiskNames
  <2> QED BY <2>1, DiskCalls, StageValues
<1>3. Partitioning(n) = (r \o p) \o t
  BY DEF Partitioning
<1> HIDE DEF r, p, t
<1>4. Stretch(r \o p, n, 1, 2) /\ Stretch((r \o p) \o t, n, 1, 3)
  BY <1>1, <1>2, StretchCat
<1>5. \A x, i : AheadIn(p, x, i) \/ AheadIn(r, x, i) => AheadIn(r \o p, x, i)
  BY <1>1, <1>2, Joined
<1>6. \A x, i : AheadIn(r \o p, x, i) => AheadIn((r \o p) \o t, x, i)
  BY <1>1, <1>4, Joined
<1> QED BY <1>1, <1>2, <1>3, <1>4, <1>5, <1>6

LEMMA FillingStretch ==
    ASSUME NEW n \in Nat
    PROVE  /\ Stretch(Filling(n), n, 4, 12)
           /\ AheadIn(Filling(n), "bpool", 0) /\ AheadIn(Filling(n), "rpool", 0)
           /\ AheadIn(Filling(n), "track esps", n) /\ AheadIn(Filling(n), "copy", 0)
           /\ AheadIn(Filling(n), "track binds", 0)
<1> DEFINE u == <<Step("bpool"), Step("rpool"), Step("datasets"), Step("esps")>>
           e == Each("esp", n)
           t == <<Op("track esps", n), Step("copy")>>
           b == Each("bind", Len(Binds))
           z == <<Op("track binds", 0)>>
<1>1. Stretch(u, n, 4, 7) /\ AheadIn(u, "bpool", 0) /\ AheadIn(u, "rpool", 0)
  <2> DEFINE w == <<Step("esps")>>
             v == <<Step("datasets")>>
             q == <<Step("rpool")>>
             p == <<Step("bpool")>>
  <2>1. Stretch(w, n, 7, 7) /\ Stretch(v, n, 6, 6) /\ Stretch(q, n, 5, 5) /\ Stretch(p, n, 4, 4)
    BY GeneralNames, GeneralStretch, StageValues
  <2>2. AheadIn(q, "rpool", 0) /\ AheadIn(p, "bpool", 0)
    BY GeneralNames, GeneralStretch
  <2>3. u = p \o (q \o (v \o w))
    BY Quadruple
  <2> HIDE DEF u, w, v, q, p
  <2>4. Stretch(v \o w, n, 6, 7)
    BY <2>1, StretchCat
  <2>5. Stretch(q \o (v \o w), n, 5, 7)
    BY <2>1, <2>4, StretchCat
  <2>6. Stretch(p \o (q \o (v \o w)), n, 4, 7)
    BY <2>1, <2>5, StretchCat
  <2>7. \A x, i : AheadIn(q, x, i) => AheadIn(q \o (v \o w), x, i)
    BY <2>1, <2>4, Joined
  <2>8. /\ \A x, i : AheadIn(p, x, i) => AheadIn(u, x, i)
        /\ \A x, i : AheadIn(q \o (v \o w), x, i) => AheadIn(u, x, i)
    BY <2>1, <2>3, <2>5, Joined
  <2> QED BY <2>2, <2>3, <2>6, <2>7, <2>8
<1>2. Stretch(e, n, 8, 8)
  <2>1. "esp" \in DiskNames
    BY DEF DiskNames
  <2> QED BY <2>1, DiskCalls, StageValues
<1>3. Stretch(t, n, 9, 10) /\ AheadIn(t, "track esps", n) /\ AheadIn(t, "copy", 0)
  <2> DEFINE c == Op("track esps", n)
             d == <<Step("copy")>>
  <2>1. c.op = "track esps" /\ c.i = n
    BY DEF Op
  <2>2. c \in [op : CallNames, i : Nat, begins : BOOLEAN]
    BY DEF Op, CallNames
  <2>3. c \in Calls(n)
    BY <2>1, <2>2 DEF Calls
  <2>4. Stretch(<<c>>, n, 9, 9) /\ AheadIn(<<c>>, "track esps", n)
    BY <2>1, <2>3, OneStretch, StageValues
  <2>5. Stretch(d, n, 10, 10) /\ AheadIn(d, "copy", 0)
    BY GeneralNames, GeneralStretch, StageValues
  <2>6. t = <<c>> \o d
    BY Pair
  <2> HIDE DEF t, c, d
  <2>7. Stretch(t, n, 9, 10)
    <3>1. Stretch(<<c>>, n, 9, 9) /\ Stretch(d, n, 10, 10)
      BY <2>4, <2>5
    <3>2. Stretch(<<c>> \o d, n, 9, 10)
      BY <3>1, StretchCat
    <3> QED BY <3>2, <2>6
  <2>8. /\ \A x, i : AheadIn(<<c>>, x, i) => AheadIn(t, x, i)
        /\ \A x, i : AheadIn(d, x, i) => AheadIn(t, x, i)
    BY <2>4, <2>5, <2>6, Joined
  <2> QED BY <2>4, <2>5, <2>7, <2>8
<1>4. Stretch(b, n, 11, 11)
  <2>1. ASSUME NEW i \in 1..4 PROVE Op("bind", i) \in Calls(n)
    <3>1. Op("bind", i).op = "bind" /\ Op("bind", i).i = i
      BY DEF Op
    <3>2. Op("bind", i) \in [op : CallNames, i : Nat, begins : BOOLEAN]
      BY DEF Op, CallNames
    <3> QED BY <3>1, <3>2 DEF Calls
  <2>2. "bind" \in CallNames /\ Len(Binds) = 4
    BY DEF CallNames, Binds
  <2> QED BY <2>1, <2>2, EachStretch, StageValues
<1>5. Stretch(z, n, 12, 12) /\ AheadIn(z, "track binds", 0)
  BY GeneralNames, GeneralStretch, StageValues
<1>6. Filling(n) = (((u \o e) \o t) \o b) \o z
  BY DEF Filling
<1> HIDE DEF u, e, t, b, z
<1>7. Stretch(u, n, 4, 7) /\ Stretch(t, n, 9, 10) /\ Stretch(z, n, 12, 12)
  BY <1>1, <1>3, <1>5
<1>8. Stretch(u \o e, n, 4, 8)
  BY <1>2, <1>7, StretchCat
<1>9. \A x, i : AheadIn(u, x, i) => AheadIn(u \o e, x, i)
  BY <1>2, <1>7, Joined
<1> DEFINE f == (u \o e) \o t
<1>10. Stretch(f, n, 4, 10)
  BY <1>7, <1>8, StretchCat
<1>11. /\ \A x, i : AheadIn(u \o e, x, i) => AheadIn(f, x, i)
       /\ \A x, i : AheadIn(t, x, i) => AheadIn(f, x, i)
  BY <1>7, <1>8, Joined
<1> DEFINE g == f \o b
<1> HIDE DEF f
<1>12. Stretch(g, n, 4, 11)
  BY <1>4, <1>10, StretchCat
<1>13. \A x, i : AheadIn(f, x, i) => AheadIn(g, x, i)
  BY <1>4, <1>10, Joined
<1> HIDE DEF g
<1>14. Filling(n) = g \o z
  BY <1>6 DEF f, g
<1>15. Stretch(g \o z, n, 4, 12)
  BY <1>7, <1>12, StretchCat
<1>16. /\ \A x, i : AheadIn(g, x, i) => AheadIn(g \o z, x, i)
       /\ \A x, i : AheadIn(z, x, i) => AheadIn(g \o z, x, i)
  BY <1>7, <1>12, Joined
<1> QED BY <1>1, <1>3, <1>5, <1>9, <1>11, <1>13, <1>14, <1>15, <1>16

LEMMA ConfiguringStretch ==
    ASSUME NEW n \in Nat
    PROVE  /\ Stretch(Configuring, n, 13, 17)
           /\ AheadIn(Configuring, "pam", 0) /\ AheadIn(Configuring, "configure", 0)
           /\ AheadIn(Configuring, "account", 0) /\ AheadIn(Configuring, "seed", 0)
<1> DEFINE a == <<Step("strip")>>
           b == <<Op("pam", 0)>>
           c == <<Step("configure")>>
           d == <<Step("account")>>
           e == <<Step("seed")>>
<1>1. /\ Stretch(a, n, 13, 13) /\ Stretch(b, n, 14, 14) /\ Stretch(c, n, 15, 15)
      /\ Stretch(d, n, 16, 16) /\ Stretch(e, n, 17, 17)
  BY GeneralNames, GeneralStretch, StageValues
<1>2. /\ AheadIn(b, "pam", 0) /\ AheadIn(c, "configure", 0)
      /\ AheadIn(d, "account", 0) /\ AheadIn(e, "seed", 0)
  BY GeneralNames, GeneralStretch
<1>3. Configuring = a \o (b \o (c \o (d \o e)))
  BY Quintuple DEF Configuring
<1> HIDE DEF a, b, c, d, e
<1> DEFINE w == d \o e
<1>4. Stretch(w, n, 16, 17)
  BY <1>1, StretchCat
<1>5. /\ \A x, i : AheadIn(d, x, i) => AheadIn(w, x, i)
      /\ \A x, i : AheadIn(e, x, i) => AheadIn(w, x, i)
  BY <1>1, Joined
<1> DEFINE v == c \o w
<1> HIDE DEF w
<1>6. Stretch(v, n, 15, 17)
  BY <1>1, <1>4, StretchCat
<1>7. /\ \A x, i : AheadIn(c, x, i) => AheadIn(v, x, i)
      /\ \A x, i : AheadIn(w, x, i) => AheadIn(v, x, i)
  BY <1>1, <1>4, Joined
<1> DEFINE u == b \o v
<1> HIDE DEF v
<1>8. Stretch(u, n, 14, 17)
  BY <1>1, <1>6, StretchCat
<1>9. /\ \A x, i : AheadIn(b, x, i) => AheadIn(u, x, i)
      /\ \A x, i : AheadIn(v, x, i) => AheadIn(u, x, i)
  BY <1>1, <1>6, Joined
<1> HIDE DEF u
<1>10. Configuring = a \o u
  BY <1>3 DEF u, v, w
<1>11. Stretch(a \o u, n, 13, 17)
  BY <1>1, <1>8, StretchCat
<1>12. \A x, i : AheadIn(u, x, i) => AheadIn(a \o u, x, i)
  BY <1>1, <1>8, Joined
<1> QED BY <1>2, <1>5, <1>7, <1>9, <1>10, <1>11, <1>12

LEMMA BootingStretch ==
    ASSUME NEW n \in 1..2
    PROVE  /\ Stretch(Booting(n), n, 18, 25)
           /\ AheadIn(Booting(n), "cachefile", 0) /\ AheadIn(Booting(n), "initramfs", 0)
           /\ \A i \in 1..n : AheadIn(Booting(n), "loader", i)
           /\ AheadIn(Booting(n), "menu", 0)
<1> DEFINE a == <<Step("cachefile")>>
           b == <<Op("initramfs", 0)>>
           c == <<Step("grub")>>
           d == <<Step("cachefile"), Op("initramfs", 0), Step("grub")>>
           l == Each("loader", n)
           e == Tail(Each("entry", n))
           m == <<Op("menu", 0)>>
           y == Sync(n)
           z == <<Step("log")>>
<1>1. /\ Stretch(a, n, 18, 18) /\ Stretch(b, n, 19, 19) /\ Stretch(c, n, 20, 20)
      /\ Stretch(m, n, 23, 23) /\ Stretch(z, n, 25, 25)
  BY GeneralNames, GeneralStretch, StageValues
<1>2. AheadIn(a, "cachefile", 0) /\ AheadIn(b, "initramfs", 0) /\ AheadIn(m, "menu", 0)
  BY GeneralNames, GeneralStretch
<1>3. Stretch(l, n, 21, 21) /\ \A i \in 1..n : AheadIn(l, "loader", i)
  <2>1. "loader" \in DiskNames
    BY DEF DiskNames
  <2>2. n \in Nat
    OBVIOUS
  <2> QED BY <2>1, <2>2, DiskCalls, StageValues
<1>4. Stretch(e, n, 22, 22)
  <2>1. "entry" \in DiskNames
    BY DEF DiskNames
  <2>2. PICK f : f = Each("entry", n)
    OBVIOUS
  <2>3. Stretch(f, n, 22, 22) /\ Len(f) = n
    <3>1. n \in Nat
      OBVIOUS
    <3> QED BY <2>1, <2>2, <3>1, DiskCalls, StageValues
  <2>4. f \in Seq(Calls(n)) /\ f # <<>>
    BY <2>3 DEF Stretch
  <2>5. /\ Tail(f) \in Seq(Calls(n)) /\ Len(Tail(f)) = Len(f) - 1
        /\ \A k \in 1..Len(Tail(f)) : Tail(f)[k] = f[k + 1]
    BY <2>4, HeadTailProperties
  <2>6. \A k \in 1..Len(Tail(f)) : k + 1 \in 1..Len(f)
    BY <2>3, <2>5
  <2>7. Stretch(Tail(f), n, 22, 22)
    BY <2>3, <2>5, <2>6 DEF Stretch
  <2> QED BY <2>2, <2>7
<1>5. Stretch(y, n, 24, 24)
  <2>1. CASE n = 1
    <3>1. y = <<>>
      BY <2>1 DEF Sync
    <3>2. <<>> \in Seq(Calls(n)) /\ Len(<<>>) = 0
      OBVIOUS
    <3> QED BY <3>1, <3>2 DEF Stretch
  <2>2. CASE n = 2
    <3> DEFINE q == Op("sync", 2)
    <3>1. y = <<q>>
      BY <2>2 DEF Sync
    <3>2. q.op = "sync" /\ q.i = 2 /\ q.i # 1
      BY DEF Op
    <3>3. q \in [op : CallNames, i : Nat, begins : BOOLEAN]
      BY DEF Op, CallNames
    <3>4. q \in Calls(n)
      BY <2>2, <3>2, <3>3 DEF Calls
    <3> QED BY <3>1, <3>2, <3>4, OneStretch, StageValues
  <2> QED BY <2>1, <2>2
<1>6. Booting(n) = ((((d \o l) \o e) \o m) \o y) \o z
  BY DEF Booting
<1>7. d = a \o (b \o c)
  BY Triple
<1>8. Stretch(l, n, 21, 21)
  BY <1>3
<1> HIDE DEF a, b, c, d, l, e, m, y, z
<1>9. Stretch(b \o c, n, 19, 20)
  BY <1>1, StretchCat
<1>10. \A x, i : AheadIn(b, x, i) => AheadIn(b \o c, x, i)
  BY <1>1, Joined
<1>11. Stretch(a \o (b \o c), n, 18, 20)
  BY <1>1, <1>9, StretchCat
<1>12. /\ \A x, i : AheadIn(a, x, i) => AheadIn(a \o (b \o c), x, i)
       /\ \A x, i : AheadIn(b \o c, x, i) => AheadIn(a \o (b \o c), x, i)
  BY <1>1, <1>9, Joined
<1>13. /\ Stretch(d, n, 18, 20)
       /\ \A x, i : AheadIn(a, x, i) \/ AheadIn(b, x, i) => AheadIn(d, x, i)
  BY <1>7, <1>10, <1>11, <1>12
<1>14. Stretch(d, n, 18, 20)
  BY <1>13
<1> DEFINE s1 == d \o l
           s2 == s1 \o e
           s3 == s2 \o m
           s4 == s3 \o y
           s5 == s4 \o z
<1>15. Booting(n) = s5
  BY <1>6
<1> HIDE DEF s1, s2, s3, s4, s5
<1>16. Stretch(s1, n, 18, 21)
  BY <1>8, <1>14, StretchCat DEF s1
<1>17. /\ \A x, i : AheadIn(d, x, i) => AheadIn(s1, x, i)
       /\ \A x, i : AheadIn(l, x, i) => AheadIn(s1, x, i)
  BY <1>8, <1>14, Joined DEF s1
<1>18. Stretch(s2, n, 18, 22)
  BY <1>4, <1>16, StretchCat DEF s2
<1>19. \A x, i : AheadIn(s1, x, i) => AheadIn(s2, x, i)
  BY <1>4, <1>16, Joined DEF s2
<1>20. Stretch(s3, n, 18, 23)
  BY <1>1, <1>18, StretchCat DEF s3
<1>21. /\ \A x, i : AheadIn(s2, x, i) => AheadIn(s3, x, i)
       /\ \A x, i : AheadIn(m, x, i) => AheadIn(s3, x, i)
  BY <1>1, <1>18, Joined DEF s3
<1>22. Stretch(s4, n, 18, 24)
  BY <1>5, <1>20, StretchCat DEF s4
<1>23. \A x, i : AheadIn(s3, x, i) => AheadIn(s4, x, i)
  BY <1>5, <1>20, Joined DEF s4
<1>24. Stretch(s5, n, 18, 25)
  BY <1>1, <1>22, StretchCat DEF s5
<1>25. \A x, i : AheadIn(s4, x, i) => AheadIn(s5, x, i)
  BY <1>1, <1>22, Joined DEF s5
<1>26. /\ \A x, i : AheadIn(d, x, i) => AheadIn(s5, x, i)
       /\ \A x, i : AheadIn(l, x, i) => AheadIn(s5, x, i)
       /\ \A x, i : AheadIn(m, x, i) => AheadIn(s5, x, i)
  BY <1>17, <1>19, <1>21, <1>23, <1>25
<1> QED BY <1>2, <1>3, <1>13, <1>15, <1>24, <1>26

LEMMA AnyAhead == ASSUME NEW s, NEW name, NEW i, AheadIn(s, name, i) PROVE AnyIn(s, name)
BY DEF AheadIn, AnyIn

\* The whole plan, with the calls the invariant counts on.
LEMMA PlanStretch ==
    ASSUME NEW n \in 1..2
    PROVE  /\ Stretch(Plan(n), n, 1, 25)
           /\ \A i \in 1..n : AheadIn(Plan(n), "prepare", i) /\ AheadIn(Plan(n), "loader", i)
           /\ AnyIn(Plan(n), "release")
           /\ AnyIn(Plan(n), "bpool") /\ AnyIn(Plan(n), "rpool") /\ AnyIn(Plan(n), "track esps")
           /\ AnyIn(Plan(n), "track binds") /\ AnyIn(Plan(n), "copy") /\ AnyIn(Plan(n), "pam")
           /\ AnyIn(Plan(n), "configure") /\ AnyIn(Plan(n), "account") /\ AnyIn(Plan(n), "seed")
           /\ AnyIn(Plan(n), "cachefile") /\ AnyIn(Plan(n), "initramfs") /\ AnyIn(Plan(n), "menu")
<1>1. n \in Nat
  OBVIOUS
<1> DEFINE p == Partitioning(n)
           f == Filling(n)
           c == Configuring
           b == Booting(n)
           s1 == p \o f
           s2 == s1 \o c
           s3 == s2 \o b
<1>2. Plan(n) = s3
  BY DEF Plan
<1>3. Stretch(p, n, 1, 3) /\ Stretch(f, n, 4, 12) /\ Stretch(c, n, 13, 17) /\ Stretch(b, n, 18, 25)
  BY <1>1, PartitioningStretch, FillingStretch, ConfiguringStretch, BootingStretch
<1> HIDE DEF p, f, c, b, s1, s2, s3
<1>4. Stretch(s1, n, 1, 12)
  BY <1>3, StretchCat DEF s1
<1>5. Stretch(s2, n, 1, 17)
  BY <1>3, <1>4, StretchCat DEF s2
<1>6. Stretch(s3, n, 1, 25)
  BY <1>3, <1>5, StretchCat DEF s3
<1>7. /\ \A x, i : AheadIn(p, x, i) => AheadIn(s1, x, i)
      /\ \A x, i : AheadIn(f, x, i) => AheadIn(s1, x, i)
  BY <1>3, Joined DEF s1
<1>8. /\ \A x, i : AheadIn(s1, x, i) => AheadIn(s2, x, i)
      /\ \A x, i : AheadIn(c, x, i) => AheadIn(s2, x, i)
  BY <1>3, <1>4, Joined DEF s2
<1>9. /\ \A x, i : AheadIn(s2, x, i) => AheadIn(s3, x, i)
      /\ \A x, i : AheadIn(b, x, i) => AheadIn(s3, x, i)
  BY <1>3, <1>5, Joined DEF s3
<1>10. /\ \A i \in 1..n : AheadIn(s3, "prepare", i)
       /\ \A i \in 1..n : AheadIn(s3, "loader", i)
  <2>1. \A i \in 1..n : AheadIn(p, "prepare", i)
    BY <1>1, PartitioningStretch DEF p
  <2>2. \A i \in 1..n : AheadIn(b, "loader", i)
    BY BootingStretch DEF b
  <2> QED BY <2>1, <2>2, <1>7, <1>8, <1>9
<1>11. /\ AnyIn(s3, "bpool") /\ AnyIn(s3, "rpool") /\ AnyIn(s3, "track esps")
       /\ AnyIn(s3, "track binds") /\ AnyIn(s3, "copy")
  <2>1. /\ AheadIn(f, "bpool", 0) /\ AheadIn(f, "rpool", 0) /\ AheadIn(f, "track esps", n)
        /\ AheadIn(f, "copy", 0) /\ AheadIn(f, "track binds", 0)
    BY <1>1, FillingStretch DEF f
  <2>2. /\ AheadIn(s3, "bpool", 0) /\ AheadIn(s3, "rpool", 0) /\ AheadIn(s3, "track esps", n)
        /\ AheadIn(s3, "copy", 0) /\ AheadIn(s3, "track binds", 0)
    BY <2>1, <1>7, <1>8, <1>9
  <2> QED BY <2>2, AnyAhead
<1>12. /\ AnyIn(s3, "pam") /\ AnyIn(s3, "configure") /\ AnyIn(s3, "account") /\ AnyIn(s3, "seed")
  <2>1. /\ AheadIn(c, "pam", 0) /\ AheadIn(c, "configure", 0)
        /\ AheadIn(c, "account", 0) /\ AheadIn(c, "seed", 0)
    BY <1>1, ConfiguringStretch DEF c
  <2>2. /\ AheadIn(s3, "pam", 0) /\ AheadIn(s3, "configure", 0)
        /\ AheadIn(s3, "account", 0) /\ AheadIn(s3, "seed", 0)
    BY <2>1, <1>8, <1>9
  <2> QED BY <2>2, AnyAhead
<1>13. /\ AnyIn(s3, "cachefile") /\ AnyIn(s3, "initramfs") /\ AnyIn(s3, "menu")
  <2>1. AheadIn(b, "cachefile", 0) /\ AheadIn(b, "initramfs", 0) /\ AheadIn(b, "menu", 0)
    BY BootingStretch DEF b
  <2>2. AheadIn(s3, "cachefile", 0) /\ AheadIn(s3, "initramfs", 0) /\ AheadIn(s3, "menu", 0)
    BY <2>1, <1>9
  <2> QED BY <2>2, AnyAhead
<1>14. AnyIn(s3, "release")
  <2>1. AheadIn(p, "release", 0)
    BY <1>1, PartitioningStretch DEF p
  <2>2. AheadIn(s3, "release", 0)
    BY <2>1, <1>7, <1>8, <1>9
  <2> QED BY <2>2, AnyAhead
<1> QED BY <1>2, <1>6, <1>10, <1>11, <1>12, <1>13, <1>14

\* A call is made: the rest is in order, nothing of an earlier stage is ahead, and nothing
\* but the call is behind that was ahead.
LEMMA Advance ==
    ASSUME NEW n, NEW s, Stretch(s, n, 1, 25), s # <<>>
    PROVE  /\ Head(s) \in Calls(n)
           /\ Stretch(Tail(s), n, 1, 25)
           /\ \A x : AnyIn(Tail(s), x) => AnyIn(s, x)
           /\ \A x, i : AheadIn(Tail(s), x, i) => AheadIn(s, x, i)
           /\ \A x : AnyIn(s, x) => AnyIn(Tail(s), x) \/ x = Head(s).op
           /\ \A x, i : AheadIn(s, x, i) => AheadIn(Tail(s), x, i) \/ (x = Head(s).op /\ i = Head(s).i)
           /\ \A x \in CallNames : Stage[x] < Stage[Head(s).op] => ~AnyIn(s, x)
<1>1. s \in Seq(Calls(n))
  BY DEF Stretch
<1>2. /\ Tail(s) \in Seq(Calls(n)) /\ Head(s) \in Calls(n)
      /\ Len(Tail(s)) = Len(s) - 1 /\ Head(s) = s[1]
      /\ \A k \in 1..Len(Tail(s)) : Tail(s)[k] = s[k + 1]
  BY <1>1, HeadTailProperties
<1>3. Len(s) \in Nat /\ Len(s) > 0
  BY <1>1, LenProperties, EmptySeq
<1> DEFINE t == Tail(s)
<1> HIDE DEF t
<1>4. /\ t \in Seq(Calls(n)) /\ Len(t) = Len(s) - 1
      /\ \A k \in 1..Len(t) : k + 1 \in 1..Len(s) /\ t[k] = s[k + 1]
      /\ \A k \in 1..Len(s) : k = 1 \/ (k - 1 \in 1..Len(t) /\ s[k] = t[k - 1])
  BY <1>2, <1>3 DEF t
<1>5. Stretch(t, n, 1, 25)
  <2>1. \A k \in 1..Len(t) : 1 <= Stage[t[k].op] /\ Stage[t[k].op] <= 25
    BY <1>4 DEF Stretch
  <2>2. ASSUME NEW j \in 1..Len(t), NEW k \in 1..Len(t), j < k
        PROVE  Stage[t[j].op] <= Stage[t[k].op]
    <3>1. j + 1 \in 1..Len(s) /\ k + 1 \in 1..Len(s) /\ j + 1 < k + 1
      BY <1>4, <2>2
    <3> QED BY <3>1, <1>4 DEF Stretch
  <2> QED BY <1>4, <2>1, <2>2 DEF Stretch
<1>6. /\ \A x : AnyIn(t, x) => AnyIn(s, x)
      /\ \A x, i : AheadIn(t, x, i) => AheadIn(s, x, i)
  BY <1>4 DEF AnyIn, AheadIn
<1>7. ASSUME NEW x, AnyIn(s, x) PROVE AnyIn(t, x) \/ x = Head(s).op
  BY <1>2, <1>4, <1>7 DEF AnyIn
<1>8. ASSUME NEW x, NEW i, AheadIn(s, x, i)
      PROVE  AheadIn(t, x, i) \/ (x = Head(s).op /\ i = Head(s).i)
  BY <1>2, <1>4, <1>8 DEF AheadIn
<1>9. ASSUME NEW x \in CallNames, Stage[x] < Stage[Head(s).op], AnyIn(s, x) PROVE FALSE
  <2>1. PICK k \in 1..Len(s) : s[k].op = x
    BY <1>9 DEF AnyIn
  <2>2. Stage[s[1].op] <= Stage[s[k].op]
    <3>1. CASE k = 1
      <4>1. s[1] \in Calls(n)
        BY <1>2
      <4>2. s[1].op \in CallNames
        BY <4>1 DEF Calls
      <4>3. Stage[s[1].op] \in Nat
        BY <4>2, StageNat
      <4> QED BY <3>1, <4>3
    <3>2. CASE k # 1
      <4>1. 1 \in 1..Len(s) /\ 1 < k
        BY <1>3, <3>2
      <4> QED BY <4>1 DEF Stretch
    <3> QED BY <3>1, <3>2
  <2>3. Head(s).op \in CallNames
    BY <1>2 DEF Calls
  <2>4. Stage[x] \in Nat /\ Stage[Head(s).op] \in Nat
    BY <2>3, StageNat
  <2> QED BY <1>2, <1>9, <2>1, <2>2, <2>4
<1> QED BY <1>2, <1>5, <1>6, <1>7, <1>8, <1>9 DEF t

-----------------------------------------------------------------------------
(* A call that succeeds, and one that fails. *)

LEMMA EngFields ==
    ASSUME EngineTypes
    PROVE  /\ eng.pc \in {"idle", "install", "failing", "failed", "installed"}
           /\ eng.todo \in Seq(Calls(Len(eng.disks))) /\ eng.disks \in {<<>>} \cup Selections
           /\ eng.index \in Nat /\ eng.attempt \in 0..MaxAttempts
           /\ eng.warned \subseteq Warnings
BY DEF EngineTypes

\* The engine goes on: the rest of the plan is in order.
LEMMA Onward ==
    ASSUME EngineTypes, PlanInv, eng.pc = "install", eng.todo # <<>>,
           NEW w \in SUBSET Warnings, Warning(w)
    PROVE  /\ eng' \in [pc : {"idle", "install", "failing", "failed", "installed"},
                        todo : Seq(Calls(Len(eng'.disks))), disks : {<<>>} \cup Selections,
                        index : Nat, attempt : 0..MaxAttempts,
                        warned : SUBSET Warnings]
           /\ PlanInv' /\ EndInv'
           /\ eng'.pc = "install" /\ eng'.disks = eng.disks
           /\ eng'.warned = eng.warned \cup w
           /\ Len(eng.disks) \in 1..2 /\ eng.disks \in Seq(Disks)
           /\ Head(eng.todo) \in Calls(Len(eng.disks))
           /\ \A x : AnyIn(eng'.todo, x) => AnyIn(eng.todo, x)
           /\ \A x : AnyIn(eng.todo, x) => AnyIn(eng'.todo, x) \/ x = Head(eng.todo).op
           /\ \A x, i : AheadIn(eng.todo, x, i) =>
                 AheadIn(eng'.todo, x, i) \/ (x = Head(eng.todo).op /\ i = Head(eng.todo).i)
           /\ \A x \in CallNames : Stage[x] < Stage[Head(eng.todo).op] => ~AnyIn(eng.todo, x)
<1>1. eng.disks \in Mirrors /\ Stretch(eng.todo, Len(eng.disks), 1, 25)
  BY DEF PlanInv
<1>2. Len(eng.disks) \in 1..2 /\ eng.disks \in Seq(Disks)
  BY <1>1 DEF Selections, Mirrors
<1>3. eng' = [eng EXCEPT !.todo = Tail(eng.todo), !.index = Counted, !.warned = eng.warned \cup w]
  BY DEF Warning
<1>4. Counted \in Nat
  BY EngFields DEF Counted
<1>5. /\ eng'.pc = "install" /\ eng'.todo = Tail(eng.todo) /\ eng'.disks = eng.disks
      /\ eng'.index = Counted /\ eng'.attempt = eng.attempt
      /\ eng'.warned = eng.warned \cup w
  BY <1>3 DEF EngineTypes
<1>6. DOMAIN eng' = DOMAIN eng /\ DOMAIN eng = {"pc", "todo", "disks", "index", "attempt", "warned"}
  BY <1>3 DEF EngineTypes
<1>7. Stretch(eng'.todo, Len(eng'.disks), 1, 25)
  BY <1>1, <1>5, Advance
<1>8. eng'.todo \in Seq(Calls(Len(eng'.disks)))
  BY <1>7 DEF Stretch
<1>9. eng' \in [pc : {"idle", "install", "failing", "failed", "installed"},
               todo : Seq(Calls(Len(eng'.disks))), disks : {<<>>} \cup Selections,
               index : Nat, attempt : 0..MaxAttempts,
               warned : SUBSET Warnings]
  <2>1. eng' = [pc |-> eng.pc, todo |-> Tail(eng.todo), disks |-> eng.disks, index |-> Counted,
                attempt |-> eng.attempt, warned |-> eng.warned \cup w]
    BY <1>3 DEF EngineTypes
  <2>2. eng.warned \cup w \in SUBSET Warnings
    BY EngFields
  <2> QED BY <2>1, <2>2, <1>4, <1>5, <1>8, EngFields
<1>10. PlanInv' /\ EndInv'
  BY <1>1, <1>5, <1>7
  DEF PlanInv, EndInv, Unwound, InstalledBoots, InstalledLogsIn, EachDiskBoots
<1>11. /\ Head(eng.todo) \in Calls(Len(eng.disks))
       /\ \A x : AnyIn(eng'.todo, x) => AnyIn(eng.todo, x)
       /\ \A x : AnyIn(eng.todo, x) => AnyIn(eng'.todo, x) \/ x = Head(eng.todo).op
       /\ \A x, i : AheadIn(eng.todo, x, i) =>
             AheadIn(eng'.todo, x, i) \/ (x = Head(eng.todo).op /\ i = Head(eng.todo).i)
       /\ \A x \in CallNames : Stage[x] < Stage[Head(eng.todo).op] => ~AnyIn(eng.todo, x)
  <2>1. PICK s : s = eng.todo
    OBVIOUS
  <2>2. Stretch(s, Len(eng.disks), 1, 25) /\ s # <<>> /\ eng'.todo = Tail(s)
    BY <1>1, <1>5, <2>1
  <2>3. /\ Head(s) \in Calls(Len(eng.disks))
        /\ \A x : AnyIn(Tail(s), x) => AnyIn(s, x)
        /\ \A x : AnyIn(s, x) => AnyIn(Tail(s), x) \/ x = Head(s).op
        /\ \A x, i : AheadIn(s, x, i) =>
              AheadIn(Tail(s), x, i) \/ (x = Head(s).op /\ i = Head(s).i)
        /\ \A x \in CallNames : Stage[x] < Stage[Head(s).op] => ~AnyIn(s, x)
    BY <2>2, Advance
  <2> QED BY <2>1, <2>2, <2>3
<1> QED BY <1>2, <1>5, <1>9, <1>10, <1>11

LEMMA HeadAhead == ASSUME EngineTypes, NEW name, At(name) PROVE Ahead(name)
<1>1. eng.todo \in Seq(Calls(Len(eng.disks))) /\ eng.todo # <<>>
  BY EngFields DEF At
<1>2. Len(eng.todo) \in Nat /\ Len(eng.todo) > 0
  BY <1>1, LenProperties, EmptySeq
<1>3. Head(eng.todo) = eng.todo[1]
  BY <1>1, HeadTailProperties
<1> QED BY <1>2, <1>3 DEF Ahead, AnyIn, At

\* What comes before the call is behind it.
LEMMA EarlierBehind ==
    ASSUME EngineTypes, PlanInv, NEW name \in CallNames, At(name), NEW x \in CallNames,
           Stage[x] < Stage[name]
    PROVE  ~Ahead(x)
<1>1. eng.pc = "install" /\ eng.todo # <<>> /\ Head(eng.todo).op = name
  BY DEF At
<1>2. Stretch(eng.todo, Len(eng.disks), 1, 25)
  BY <1>1 DEF PlanInv
<1>3. PICK s : s = eng.todo
  OBVIOUS
<1>4. Stretch(s, Len(eng.disks), 1, 25) /\ s # <<>> /\ Head(s).op = name
  BY <1>1, <1>2, <1>3
<1>5. \A y \in CallNames : Stage[y] < Stage[Head(s).op] => ~AnyIn(s, y)
  BY <1>4, Advance
<1> QED BY <1>3, <1>4, <1>5 DEF Ahead

\* A plan that is done has nothing ahead.
LEMMA NothingAhead ==
    ASSUME eng.todo = <<>> PROVE (\A x : ~Ahead(x)) /\ (\A x, i : ~AheadOn(x, i))
BY DEF Ahead, AheadOn, AnyIn, AheadIn

\* The release is the first call.
LEMMA Released ==
    ASSUME EngineTypes, PlanInv, eng.pc = "install", ~At("release")
    PROVE  ~Ahead("release")
<1>1. CASE eng.todo = <<>>
  BY <1>1, NothingAhead
<1>2. CASE eng.todo # <<>>
  <2> DEFINE name == Head(eng.todo).op
  <2>1. At(name) /\ name # "release"
    BY <1>2 DEF At
  <2>2. Head(eng.todo) \in Calls(Len(eng.disks))
    BY <1>2, EngFields, HeadTailProperties
  <2>3. name \in CallNames
    BY <2>2 DEF Calls
  <2> HIDE DEF name
  <2>4. "release" \in CallNames /\ Stage["release"] < Stage[name]
    BY <2>1, <2>3, FirstStage DEF CallNames
  <2> QED BY <2>1, <2>3, <2>4, EarlierBehind
<1> QED BY <1>1, <1>2

\* A call fails: what it left half done is all that changed.
LEMMA FailStep ==
    ASSUME EngineInv, NEW name, At(name), name # "release", Fail,
           media' \in [Disks -> [table : {"old", "zapped", "new"}, esp : SUBSET Loaders]],
           mounts \subseteq mounts', mounts' \subseteq MountPoints, target' \subseteq Fact,
           imported' = imported, session' = session, left' = left,
           mounts' = mounts \/ {BPOOL, RPOOL} \subseteq imported
    PROVE  EngineInv'
<1>1. EngineTypes /\ PlanInv /\ PoolInv
  BY DEF EngineInv
<1>2. Counted \in Nat
  BY <1>1, EngFields DEF Counted
<1>3. eng' = [pc |-> "failing", todo |-> eng.todo, disks |-> eng.disks, index |-> Counted,
              attempt |-> eng.attempt, warned |-> eng.warned]
  BY <1>1 DEF EngineTypes, Fail
<1>4. eng.pc = "install" /\ eng'.pc = "failing" /\ eng'.disks = eng.disks /\ eng'.todo = eng.todo
  BY <1>3 DEF At
<1>5. eng' \in [pc : {"idle", "install", "failing", "failed", "installed"},
               todo : Seq(Calls(Len(eng'.disks))), disks : {<<>>} \cup Selections,
               index : Nat, attempt : 0..MaxAttempts,
               warned : SUBSET Warnings]
  BY <1>1, <1>2, <1>3, <1>4, EngFields
<1>6. EngineTypes'
  BY <1>1, <1>5 DEF EngineTypes
<1>7. PlanInv' /\ MountInv' /\ FactInv' /\ MediaInv' /\ EndInv'
  BY <1>1, <1>4
  DEF PlanInv, MountInv, FactInv, MediaInv, EndInv, Unwound, InstalledBoots, InstalledLogsIn,
      EachDiskBoots
<1>8. PoolInv'
  <2>1. ~At("release")
    BY DEF At
  <2>2. ~Ahead("release") /\ ~Ahead("release")'
    BY <1>1, <1>4, <2>1, Released DEF Ahead
  <2>3. Backed(mounts', imported')
    BY <1>1 DEF PoolInv, Backed
  <2>4. mounts \cap Strays # {} => mounts' \cap Strays # {}
    OBVIOUS
  <2> QED BY <1>1, <1>4, <2>2, <2>3, <2>4 DEF PoolInv
<1> QED BY <1>6, <1>7, <1>8 DEF EngineInv

LEMMA Behind ==
    ASSUME EngineTypes, PlanInv
    PROVE  /\ At("bpool") => ~Ahead("release")
           /\ At("rpool") => ~Ahead("release") /\ ~Ahead("bpool")
           /\ At("datasets") => ~Ahead("rpool")
           /\ At("esp") => ~Ahead("rpool")
           /\ At("track esps") => ~Ahead("rpool")
           /\ At("bind") => ~Ahead("rpool")
           /\ At("track binds") => ~Ahead("rpool")
           /\ At("pam") => ~Ahead("strip")
           /\ At("seed") => ~Ahead("account")
           /\ At("initramfs") => ~Ahead("cachefile")
           /\ At("loader") => ~Ahead("prepare") /\ ~Ahead("esp")
           /\ At("sync") => ~Ahead("loader")
<1>1. /\ "bpool" \in CallNames /\ "release" \in CallNames /\ "rpool" \in CallNames
      /\ "esp" \in CallNames /\ "track esps" \in CallNames /\ "bind" \in CallNames
      /\ "track binds" \in CallNames /\ "pam" \in CallNames /\ "strip" \in CallNames
      /\ "seed" \in CallNames /\ "account" \in CallNames /\ "initramfs" \in CallNames
      /\ "cachefile" \in CallNames /\ "loader" \in CallNames /\ "prepare" \in CallNames
      /\ "sync" \in CallNames /\ "datasets" \in CallNames
  BY DEF CallNames
<1>2. At("bpool") => ~Ahead("release")
  BY <1>1, StageOrder, EarlierBehind
<1>3. At("rpool") => ~Ahead("release") /\ ~Ahead("bpool")
  BY <1>1, StageOrder, EarlierBehind
<1>4. At("esp") => ~Ahead("rpool")
  BY <1>1, StageOrder, EarlierBehind
<1>5. At("track esps") => ~Ahead("rpool")
  BY <1>1, StageOrder, EarlierBehind
<1>6. At("bind") => ~Ahead("rpool")
  BY <1>1, StageOrder, EarlierBehind
<1>7. At("track binds") => ~Ahead("rpool")
  BY <1>1, StageOrder, EarlierBehind
<1>8. At("pam") => ~Ahead("strip")
  BY <1>1, StageOrder, EarlierBehind
<1>9. At("seed") => ~Ahead("account")
  BY <1>1, StageOrder, EarlierBehind
<1>10. At("initramfs") => ~Ahead("cachefile")
  BY <1>1, StageOrder, EarlierBehind
<1>11. At("loader") => ~Ahead("prepare") /\ ~Ahead("esp")
  BY <1>1, StageOrder, EarlierBehind
<1>12. At("sync") => ~Ahead("loader")
  BY <1>1, StageOrder, EarlierBehind
<1>13. At("datasets") => ~Ahead("rpool")
  BY <1>1, StageOrder, EarlierBehind
<1> QED
  BY <1>2, <1>3, <1>4, <1>5, <1>6, <1>7, <1>8, <1>9, <1>10, <1>11, <1>12, <1>13

\* The call that is made, and what is ahead after it.
LEMMA Made ==
    ASSUME EngineTypes, PlanInv, NEW name, At(name), NEW w \in SUBSET Warnings, Warning(w)
    PROVE  /\ eng.pc = "install" /\ eng'.pc = "install" /\ eng'.disks = eng.disks
           /\ eng'.warned = eng.warned \cup w
           /\ \A x : Ahead(x)' => Ahead(x)
           /\ \A x : x # name /\ Ahead(x) => Ahead(x)'
           /\ \A x, i : (x # name \/ i # Index) /\ AheadOn(x, i) => AheadOn(x, i)'
<1>1. eng.pc = "install" /\ eng.todo # <<>> /\ Head(eng.todo).op = name
  BY DEF At
<1>2. /\ eng'.pc = "install" /\ eng'.disks = eng.disks /\ eng'.warned = eng.warned \cup w
  BY <1>1, Onward
<1>3. \A x : AnyIn(eng'.todo, x) => AnyIn(eng.todo, x)
  BY <1>1, Onward
<1>4. \A x : AnyIn(eng.todo, x) => AnyIn(eng'.todo, x) \/ x = Head(eng.todo).op
  BY <1>1, Onward
<1>5. \A x, i : AheadIn(eng.todo, x, i) =>
         AheadIn(eng'.todo, x, i) \/ (x = Head(eng.todo).op /\ i = Head(eng.todo).i)
  BY <1>1, Onward
<1> QED BY <1>1, <1>2, <1>3, <1>4, <1>5 DEF Ahead, AheadOn, Index

\* A call leaves its facts and takes none away, but for what strip may purge.
LEMMA StepFacts ==
    ASSUME EngineTypes, PlanInv, FactInv,
           NEW name, At(name), NEW w \in SUBSET Warnings, Warning(w),
           target \ {"live", "pam"} \subseteq target',
           "pam" \in target => "pam" \in target' \/ name = "strip",
           name = "copy" => "system" \in target',
           name = "pam" => "pam" \in target',
           name = "configure" => "fstab" \in target',
           name = "account" => {"account", "password", "root locked", "sudo"} \subseteq target',
           name = "seed" => "hash" \in target',
           name = "cachefile" => "cache" \in target',
           name = "initramfs" => "cache in initramfs" \in target',
           name = "menu" => "menu" \in target'
    PROVE  FactInv'
<1>1. /\ eng.pc = "install" /\ \A x : Ahead(x)' => Ahead(x)
      /\ \A x : x # name /\ Ahead(x) => Ahead(x)'
  BY Made
<1>2. name = "pam" => ~Ahead("strip")
  BY Behind
<1>3. ~Ahead("strip") => name # "strip"
  BY HeadAhead
<1>4. ~Ahead("copy")' => "system" \in target'
  BY <1>1 DEF FactInv
<1>5. ~Ahead("pam")' => "pam" \in target' /\ ~Ahead("strip")'
  BY <1>1, <1>2, <1>3 DEF FactInv
<1>6. ~Ahead("configure")' => "fstab" \in target'
  BY <1>1 DEF FactInv
<1>7. ~Ahead("account")' => {"account", "password", "root locked", "sudo"} \subseteq target'
  BY <1>1 DEF FactInv
<1>8. ~Ahead("seed")' => "hash" \in target'
  BY <1>1 DEF FactInv
<1>9. ~Ahead("cachefile")' => "cache" \in target'
  BY <1>1 DEF FactInv
<1>10. ~Ahead("initramfs")' => "cache in initramfs" \in target'
  BY <1>1 DEF FactInv
<1>11. ~Ahead("menu")' => "menu" \in target'
  BY <1>1 DEF FactInv
<1> QED BY <1>4, <1>5, <1>6, <1>7, <1>8, <1>9, <1>10, <1>11 DEF FactInv

\* The disks stay as they are.
LEMMA StepMedia ==
    ASSUME EngineTypes, PlanInv, MediaInv,
           NEW name, At(name), NEW w \in SUBSET Warnings, Warning(w),
           media' = media, name # "prepare", name # "loader"
    PROVE  MediaInv'
<1>1. /\ eng.pc = "install" /\ eng'.disks = eng.disks /\ eng'.warned = eng.warned \cup w
      /\ \A x : Ahead(x)' => Ahead(x)
      /\ \A x, i : (x # name \/ i # Index) /\ AheadOn(x, i) => AheadOn(x, i)'
  BY Made
<1>2. /\ \A i : AheadOn("prepare", i) => AheadOn("prepare", i)'
      /\ \A i : AheadOn("loader", i) => AheadOn("loader", i)'
  BY <1>1
<1> QED BY <1>1, <1>2 DEF MediaInv

\* The pools and what of a run is mounted stay as they are.
LEMMA StepPools ==
    ASSUME EngineTypes, PlanInv, PoolInv, MountInv,
           NEW name, At(name), NEW w \in SUBSET Warnings, Warning(w),
           mounts' \cap Strays = mounts \cap Strays, imported' = imported, session' = session,
           mounts' = mounts \/ {BPOOL, RPOOL} \subseteq imported, left' = left, name # "release",
           name # "bpool", name # "rpool", name # "track esps", name # "track binds"
    PROVE  PoolInv' /\ MountInv'
<1>1. /\ eng.pc = "install" /\ eng'.pc = "install" /\ eng'.disks = eng.disks
      /\ \A x : Ahead(x)' => Ahead(x)
      /\ \A x : x # name /\ Ahead(x) => Ahead(x)'
  BY Made
<1>2. mounts' \cap EspPoints = mounts \cap EspPoints
  BY DEF Strays
<1>3. /\ Ahead("release")' => Ahead("release")
      /\ Ahead("bpool") => Ahead("bpool")'
      /\ Ahead("rpool") => Ahead("rpool")'
      /\ Ahead("track esps") => Ahead("track esps")'
      /\ Ahead("track binds") => Ahead("track binds")'
  BY <1>1
<1>4. PoolInv'
  <2>1. Backed(mounts', imported')
    BY DEF PoolInv, Backed
  <2>2. ~Ahead("release")
    <3>1. ~At("release")
      BY DEF At
    <3> QED BY <1>1, <3>1, Released
  <2> QED BY <1>1, <1>3, <2>1, <2>2 DEF PoolInv
<1>5. MountInv'
  BY <1>1, <1>2, <1>3 DEF MountInv
<1> QED BY <1>4, <1>5

\* What is left to show of a call that succeeds.
LEMMA StepOn ==
    ASSUME EngineInv, NEW name, At(name), NEW w \in SUBSET Warnings, Warning(w),
           media' \in [Disks -> [table : {"old", "zapped", "new"}, esp : SUBSET Loaders]],
           mounts' \subseteq MountPoints, imported' \subseteq {BPOOL, RPOOL},
           session' \in [mounts : Seq(EspPoints), binds : {<<>>, Binds},
                         pools : {<<>>, <<BPOOL>>, <<BPOOL, RPOOL>>}],
           target' \subseteq Fact, left' \in LeftKind,
           PoolInv', MountInv', FactInv', MediaInv'
    PROVE  EngineInv'
<1>1. EngineTypes /\ PlanInv
  BY DEF EngineInv
<1>2. eng.pc = "install" /\ eng.todo # <<>>
  BY DEF At
<1>3. /\ eng' \in [pc : {"idle", "install", "failing", "failed", "installed"},
                  todo : Seq(Calls(Len(eng'.disks))), disks : {<<>>} \cup Selections,
                  index : Nat, attempt : 0..MaxAttempts,
                  warned : SUBSET Warnings]
      /\ PlanInv' /\ EndInv'
  BY <1>1, <1>2, Onward
<1>4. EngineTypes'
  BY <1>3 DEF EngineTypes
<1> QED BY <1>3, <1>4 DEF EngineInv

\* The call succeeds, with or without a warning.
Goes == \E w \in SUBSET Warnings : Warning(w)

LEMMA GoesOn ==
    /\ Ok => Goes
    /\ Warning({"live"}) => Goes
    /\ Warning({"zfs units"}) => Goes
    /\ Warning({"entry"}) => Goes
    /\ Warning({"sync"}) => Goes
    /\ Warning({"log"}) => Goes
<1>1. {} \in SUBSET Warnings
  OBVIOUS
<1>2. /\ {"live"} \in SUBSET Warnings /\ {"zfs units"} \in SUBSET Warnings
      /\ {"entry"} \in SUBSET Warnings /\ {"sync"} \in SUBSET Warnings
      /\ {"log"} \in SUBSET Warnings
  BY DEF Warnings
<1> QED BY <1>1, <1>2 DEF Goes, Ok

\* The call only changes the installed system, leaves its facts there, and takes none away
\* but for what strip may purge.
Leaves(name) ==
    /\ UNCHANGED <<media, mounts, imported, session, left>> /\ target' \subseteq Fact
    /\ name \notin {"release", "prepare", "loader", "bpool", "rpool", "track esps", "track binds"}
    /\ target \ {"live", "pam"} \subseteq target'
    /\ "pam" \in target => "pam" \in target' \/ name = "strip"
    /\ name = "copy" => "system" \in target'
    /\ name = "pam" => "pam" \in target'
    /\ name = "configure" => "fstab" \in target'
    /\ name = "account" => {"account", "password", "root locked", "sudo"} \subseteq target'
    /\ name = "seed" => "hash" \in target'
    /\ name = "cachefile" => "cache" \in target'
    /\ name = "initramfs" => "cache in initramfs" \in target'
    /\ name = "menu" => "menu" \in target'

LEMMA Proceeds ==
    ASSUME EngineInv, NEW name, At(name), Goes, Leaves(name)
    PROVE  EngineInv'
<1>1. EngineTypes /\ PlanInv /\ PoolInv /\ MountInv /\ FactInv /\ MediaInv
  BY DEF EngineInv
<1>2. PICK w \in SUBSET Warnings : Warning(w)
  BY DEF Goes
<1>3. FactInv'
  BY <1>1, <1>2, StepFacts DEF Leaves
<1>4. MediaInv'
  BY <1>1, <1>2, StepMedia DEF Leaves
<1>5. PoolInv' /\ MountInv'
  BY <1>1, <1>2, StepPools DEF Leaves
<1>6. /\ media' \in [Disks -> [table : {"old", "zapped", "new"}, esp : SUBSET Loaders]]
      /\ mounts' \subseteq MountPoints /\ imported' \subseteq {BPOOL, RPOOL}
      /\ session' \in [mounts : Seq(EspPoints), binds : {<<>>, Binds},
                       pools : {<<>>, <<BPOOL>>, <<BPOOL, RPOOL>>}]
  BY <1>1 DEF EngineTypes, Leaves
<1>7. target' \subseteq Fact /\ left' \in LeftKind
  BY <1>1 DEF Leaves, EngineTypes
<1> QED BY <1>2, <1>3, <1>4, <1>5, <1>6, <1>7, StepOn

\* A call that fails and has only changed the installed system, or nothing.
LEMMA PlainFail ==
    ASSUME EngineInv, NEW name, At(name), name # "release", Fail,
           UNCHANGED <<media, mounts, imported, session, left>>, target' \subseteq Fact
    PROVE  EngineInv'
<1>1. EngineTypes /\ PoolInv
  BY DEF EngineInv
<1>2. /\ media' \in [Disks -> [table : {"old", "zapped", "new"}, esp : SUBSET Loaders]]
      /\ mounts' \subseteq MountPoints
  BY <1>1 DEF EngineTypes
<1> QED BY <1>2, FailStep

-----------------------------------------------------------------------------
(* The calls. *)

LEMMA InvParts ==
    ASSUME EngineInv
    PROVE  /\ EngineTypes /\ PlanInv /\ PoolInv /\ MountInv /\ FactInv /\ MediaInv
           /\ media \in [Disks -> [table : {"old", "zapped", "new"}, esp : SUBSET Loaders]]
           /\ mounts \subseteq MountPoints /\ imported \subseteq {BPOOL, RPOOL}
           /\ session \in [mounts : Seq(EspPoints), binds : {<<>>, Binds},
                           pools : {<<>>, <<BPOOL>>, <<BPOOL, RPOOL>>}]
           /\ target \subseteq Fact /\ left \in LeftKind
BY DEF EngineInv, EngineTypes

\* Nothing is changed but the place in the plan.
LEMMA IdleStep ==
    ASSUME EngineInv, Settle \/ FormatEsps \/ InstallEntry \/ SaveLog
    PROVE  EngineInv'
<1>1. target \subseteq Fact
  BY InvParts
<1>2. CASE Settle
  <2>1. At("settle") /\ eng.pc = "install" /\ UNCHANGED <<media, mounts, imported, session, target, left>>
    BY <1>2 DEF Settle, At
  <2>2. CASE Ok
    <3>1. Leaves("settle")
      BY <1>1, <2>1, <2>2 DEF Leaves
    <3> QED BY <2>1, <2>2, <3>1, GoesOn, Proceeds
  <2>3. CASE Broken
    BY <1>1, <2>1, <2>3, PlainFail DEF Broken
  <2> QED BY <1>2, <2>2, <2>3 DEF Settle
<1>3. CASE FormatEsps
  <2>1. At("esps") /\ Ok /\ UNCHANGED <<media, mounts, imported, session, target, left>>
    BY <1>3 DEF FormatEsps
  <2>2. Leaves("esps")
    BY <1>1, <2>1 DEF Leaves
  <2> QED BY <2>1, <2>2, GoesOn, Proceeds
<1>4. CASE InstallEntry
  <2>1. At("entry") /\ eng.pc = "install" /\ UNCHANGED <<media, mounts, imported, session, target, left>>
    BY <1>4 DEF InstallEntry, At
  <2>2. CASE Ok
    <3>1. Leaves("entry")
      BY <1>1, <2>1, <2>2 DEF Leaves
    <3> QED BY <2>1, <2>2, <3>1, GoesOn, Proceeds
  <2>3. CASE Broken
    BY <1>1, <2>1, <2>3, PlainFail DEF Broken
  <2>4. CASE Warning({"entry"})
    <3>1. Leaves("entry")
      BY <1>1, <2>1, <2>4 DEF Leaves
    <3>2. Goes
      BY <2>4, GoesOn
    <3> QED BY <2>1, <3>1, <3>2, Proceeds
  <2> QED BY <1>4, <2>2, <2>3, <2>4 DEF InstallEntry
<1>5. CASE SaveLog
  <2>1. At("log") /\ UNCHANGED <<media, mounts, imported, session, target, left>>
    BY <1>5 DEF SaveLog
  <2>2. CASE Ok
    <3>1. Leaves("log")
      BY <1>1, <2>1, <2>2 DEF Leaves
    <3> QED BY <2>1, <2>2, <3>1, GoesOn, Proceeds
  <2>3. CASE Warning({"log"})
    <3>1. Leaves("log")
      BY <1>1, <2>1, <2>3 DEF Leaves
    <3>2. Goes
      BY <2>3, GoesOn
    <3> QED BY <2>1, <3>1, <3>2, Proceeds
  <2> QED BY <1>5, <2>2, <2>3 DEF SaveLog
<1> QED BY <1>2, <1>3, <1>4, <1>5

\* The system is copied, stripped and configured.
LEMMA SystemStep ==
    ASSUME EngineInv, CopySystem \/ StripLiveLayer \/ VerifyPamStack \/ Configure
    PROVE  EngineInv'
<1>1. target \subseteq Fact /\ EngineTypes /\ PlanInv /\ FactInv
  BY InvParts
<1>2. CASE CopySystem
  <2>1. At("copy") /\ eng.pc = "install" /\ UNCHANGED <<media, mounts, imported, session, left>>
    BY <1>2 DEF CopySystem, At
  <2>2. CASE Ok /\ Copied({"system", "pam", "live"})
    <3>1. target' = target \cup {"system", "pam", "live"}
      BY <2>2 DEF Copied
    <3>2. target' \subseteq Fact
      BY <1>1, <3>1 DEF Fact
    <3>3. Leaves("copy")
      BY <2>1, <2>2, <3>1, <3>2 DEF Leaves
    <3> QED BY <2>1, <2>2, <3>3, GoesOn, Proceeds
  <2>3. CASE Broken /\ UNCHANGED target
    BY <1>1, <2>1, <2>3, PlainFail DEF Broken
  <2> QED BY <1>2, <2>2, <2>3 DEF CopySystem
<1>3. CASE StripLiveLayer
  <2>1. At("strip") /\ eng.pc = "install" /\ UNCHANGED <<media, mounts, imported, session, left>>
    BY <1>3 DEF StripLiveLayer, At
  <2>2. CASE Ok /\ (target' = target \ {"live"} \/ target' = target \ {"live", "pam"})
    <3>1. target' \subseteq Fact
      BY <1>1, <2>2
    <3>2. target \ {"live", "pam"} \subseteq target'
      BY <2>2
    <3>3. Leaves("strip")
      BY <2>1, <2>2, <3>1, <3>2 DEF Leaves
    <3> QED BY <2>1, <2>2, <3>3, GoesOn, Proceeds
  <2>3. CASE Warning({"live"}) /\ UNCHANGED target
    <3>1. Leaves("strip")
      BY <1>1, <2>1, <2>3 DEF Leaves
    <3>2. Goes
      BY <2>3, GoesOn
    <3> QED BY <2>1, <3>1, <3>2, Proceeds
  <2>4. CASE Broken /\ UNCHANGED target
    BY <1>1, <2>1, <2>4, PlainFail DEF Broken
  <2> QED BY <1>3, <2>2, <2>3, <2>4 DEF StripLiveLayer
<1>4. CASE VerifyPamStack
  <2>1. At("pam") /\ eng.pc = "install" /\ UNCHANGED <<media, mounts, imported, session, target, left>>
    BY <1>4 DEF VerifyPamStack, At
  <2>2. CASE "pam" \in target /\ Ok
    <3>1. Leaves("pam")
      BY <1>1, <2>1, <2>2 DEF Leaves
    <3> QED BY <2>1, <2>2, <3>1, GoesOn, Proceeds
  <2>3. CASE Fail
    BY <1>1, <2>1, <2>3, PlainFail
  <2> QED BY <1>4, <2>2, <2>3 DEF VerifyPamStack
<1>5. CASE Configure
  <2>1. At("configure") /\ eng.pc = "install" /\ UNCHANGED <<media, mounts, imported, session, left>>
    BY <1>5 DEF Configure, At
  <2>2. CASE Ok /\ Copied({"fstab", "hostname", "zfs units"})
    <3>1. target' = target \cup {"fstab", "hostname", "zfs units"}
      BY <2>2 DEF Copied
    <3>2. target' \subseteq Fact
      BY <1>1, <3>1 DEF Fact
    <3>3. Leaves("configure")
      BY <2>1, <2>2, <3>1, <3>2 DEF Leaves
    <3> QED BY <2>1, <2>2, <3>3, GoesOn, Proceeds
  <2>3. CASE Warning({"zfs units"}) /\ Copied({"fstab", "hostname"})
    <3>1. target' = target \cup {"fstab", "hostname"}
      BY <2>3 DEF Copied
    <3>2. target' \subseteq Fact
      BY <1>1, <3>1 DEF Fact
    <3>3. Leaves("configure")
      BY <2>1, <2>3, <3>1, <3>2 DEF Leaves
    <3>4. Goes
      BY <2>3, GoesOn
    <3> QED BY <2>1, <3>3, <3>4, Proceeds
  <2>4. CASE Broken /\ \E f \in SUBSET {"fstab", "hostname"} : Copied(f)
    <3>1. target' \subseteq Fact
      BY <1>1, <2>4 DEF Copied, Fact
    <3> QED BY <2>1, <2>4, <3>1, PlainFail DEF Broken
  <2> QED BY <1>5, <2>2, <2>3, <2>4 DEF Configure
<1> QED BY <1>2, <1>3, <1>4, <1>5

\* The account, and the configuration that knows its password.
LEMMA AccountStep ==
    ASSUME EngineInv, CreateAccount \/ WriteConfiguration
    PROVE  EngineInv'
<1>1. target \subseteq Fact /\ EngineTypes /\ PlanInv /\ FactInv
  BY InvParts
<1>2. CASE CreateAccount
  <2>1. At("account") /\ eng.pc = "install" /\ UNCHANGED <<media, mounts, imported, session, left>>
    BY <1>2 DEF CreateAccount, At
  <2>2. CASE Ok /\ Copied({"account", "password", "root locked", "sudo"})
    <3>1. target' = target \cup {"account", "password", "root locked", "sudo"}
      BY <2>2 DEF Copied
    <3>2. target' \subseteq Fact
      BY <1>1, <3>1 DEF Fact
    <3>3. Leaves("account")
      BY <2>1, <2>2, <3>1, <3>2 DEF Leaves
    <3> QED BY <2>1, <2>2, <3>3, GoesOn, Proceeds
  <2>3. CASE Broken /\ \E f \in {{}, {"account"}, {"account", "password"},
                                {"account", "password", "root locked"}} : Copied(f)
    <3>1. target' \subseteq Fact
      BY <1>1, <2>3 DEF Copied, Fact
    <3> QED BY <2>1, <2>3, <3>1, PlainFail DEF Broken
  <2> QED BY <1>2, <2>2, <2>3 DEF CreateAccount
<1>3. CASE WriteConfiguration
  <2>1. At("seed") /\ eng.pc = "install" /\ UNCHANGED <<media, mounts, imported, session, left>>
    BY <1>3 DEF WriteConfiguration, At
  <2>2. "password" \in target
    BY <1>1, <2>1, Behind DEF FactInv
  <2>3. CASE /\ Ok
             /\ Copied({"config.boot", "link files"} \cup (IF "password" \in target THEN {"hash"} ELSE {}))
    <3>1. target' = target \cup {"config.boot", "link files", "hash"}
      BY <2>2, <2>3 DEF Copied
    <3>2. target' \subseteq Fact
      BY <1>1, <3>1 DEF Fact
    <3>3. Leaves("seed")
      BY <2>1, <2>3, <3>1, <3>2 DEF Leaves
    <3> QED BY <2>1, <2>3, <3>3, GoesOn, Proceeds
  <2>4. CASE Broken /\ \E f \in {{}, {"config.boot"}} : Copied(f)
    <3>1. target' \subseteq Fact
      BY <1>1, <2>4 DEF Copied, Fact
    <3> QED BY <2>1, <2>4, <3>1, PlainFail DEF Broken
  <2> QED BY <1>3, <2>3, <2>4 DEF WriteConfiguration
<1> QED BY <1>2, <1>3

\* The pool cache, the initramfs that has it, and the menu.
LEMMA BootFilesStep ==
    ASSUME EngineInv, WriteCachefile \/ RegenerateInitramfs \/ ConfigureGrub \/ GenerateMenu
    PROVE  EngineInv'
<1>1. target \subseteq Fact /\ EngineTypes /\ PlanInv /\ FactInv
  BY InvParts
<1>2. CASE WriteCachefile
  <2>1. At("cachefile") /\ eng.pc = "install" /\ UNCHANGED <<media, mounts, imported, session, left>>
    BY <1>2 DEF WriteCachefile, At
  <2>2. CASE Ok /\ Copied({"cache"})
    <3>1. target' = target \cup {"cache"} /\ target' \subseteq Fact
      BY <1>1, <2>2 DEF Copied, Fact
    <3>2. Leaves("cachefile")
      BY <2>1, <2>2, <3>1 DEF Leaves
    <3> QED BY <2>1, <2>2, <3>2, GoesOn, Proceeds
  <2>3. CASE Broken /\ UNCHANGED target
    BY <1>1, <2>1, <2>3, PlainFail DEF Broken
  <2> QED BY <1>2, <2>2, <2>3 DEF WriteCachefile
<1>3. CASE RegenerateInitramfs
  <2>1. At("initramfs") /\ eng.pc = "install" /\ UNCHANGED <<media, mounts, imported, session, left>>
    BY <1>3 DEF RegenerateInitramfs, At
  <2>2. "cache" \in target
    BY <1>1, <2>1, Behind DEF FactInv
  <2>3. CASE Ok /\ Copied({"initramfs"} \cup (IF "cache" \in target THEN {"cache in initramfs"} ELSE {}))
    <3>1. target' = target \cup {"initramfs", "cache in initramfs"} /\ target' \subseteq Fact
      BY <1>1, <2>2, <2>3 DEF Copied, Fact
    <3>2. Leaves("initramfs")
      BY <2>1, <2>3, <3>1 DEF Leaves
    <3> QED BY <2>1, <2>3, <3>2, GoesOn, Proceeds
  <2>4. CASE Broken /\ UNCHANGED target
    BY <1>1, <2>1, <2>4, PlainFail DEF Broken
  <2> QED BY <1>3, <2>3, <2>4 DEF RegenerateInitramfs
<1>4. CASE ConfigureGrub
  <2>1. At("grub") /\ eng.pc = "install" /\ UNCHANGED <<media, mounts, imported, session, left>>
    BY <1>4 DEF ConfigureGrub, At
  <2>2. CASE Ok /\ Copied({"default grub"})
    <3>1. target' = target \cup {"default grub"} /\ target' \subseteq Fact
      BY <1>1, <2>2 DEF Copied, Fact
    <3>3. Leaves("grub")
      BY <2>1, <2>2, <3>1 DEF Leaves
    <3> QED BY <2>1, <2>2, <3>3, GoesOn, Proceeds
  <2>3. CASE Broken /\ UNCHANGED target
    BY <1>1, <2>1, <2>3, PlainFail DEF Broken
  <2> QED BY <1>4, <2>2, <2>3 DEF ConfigureGrub
<1>5. CASE GenerateMenu
  <2>1. At("menu") /\ eng.pc = "install" /\ UNCHANGED <<media, mounts, imported, session, left>>
    BY <1>5 DEF GenerateMenu, At
  <2>2. CASE Ok /\ Copied({"menu"})
    <3>1. target' = target \cup {"menu"} /\ target' \subseteq Fact
      BY <1>1, <2>2 DEF Copied, Fact
    <3>3. Leaves("menu")
      BY <2>1, <2>2, <3>1 DEF Leaves
    <3> QED BY <2>1, <2>2, <3>3, GoesOn, Proceeds
  <2>3. CASE Broken /\ UNCHANGED target
    BY <1>1, <2>1, <2>3, PlainFail DEF Broken
  <2> QED BY <1>5, <2>2, <2>3 DEF GenerateMenu
<1> QED BY <1>2, <1>3, <1>4, <1>5

\* The disk a call names is one of the chosen.
LEMMA DiskOf ==
    ASSUME EngineTypes, PlanInv
    PROVE  /\ At("prepare") \/ At("esp") \/ At("loader") \/ At("sync") =>
                Index \in 1..Len(eng.disks) /\ Disk \in Disks
           /\ At("bind") => Index \in 1..4
           /\ At("track esps") => Index = Len(eng.disks)
           /\ eng.pc = "install" =>
                Len(eng.disks) \in 1..2 /\ \A i \in 1..Len(eng.disks) : eng.disks[i] \in Disks
<1>1. ASSUME eng.pc = "install", eng.todo # <<>>
      PROVE  Head(eng.todo) \in Calls(Len(eng.disks))
  <2>1. Stretch(eng.todo, Len(eng.disks), 1, 25)
    BY <1>1 DEF PlanInv
  <2>2. PICK s : s = eng.todo
    OBVIOUS
  <2>3. Stretch(s, Len(eng.disks), 1, 25) /\ s # <<>>
    BY <1>1, <2>1, <2>2
  <2>4. Head(s) \in Calls(Len(eng.disks))
    BY <2>3, Advance
  <2> QED BY <2>2, <2>4
<1>2. ASSUME eng.pc = "install"
      PROVE  Len(eng.disks) \in 1..2 /\ \A i \in 1..Len(eng.disks) : eng.disks[i] \in Disks
  <2>1. eng.disks \in Seq(Disks) /\ Len(eng.disks) \in 1..2
    BY <1>2 DEF PlanInv, Selections, Mirrors
  <2> QED BY <2>1, ElementOfSeq
<1>3. At("prepare") \/ At("esp") \/ At("loader") \/ At("sync") => Index \in 1..Len(eng.disks)
  BY <1>1 DEF At, Index, Calls
<1>4. At("prepare") \/ At("esp") \/ At("loader") \/ At("sync") => Disk \in Disks
  BY <1>2, <1>3 DEF At, Disk
<1>5. At("bind") => Index \in 1..4
  BY <1>1 DEF At, Index, Calls
<1>6. At("track esps") => Index = Len(eng.disks)
  BY <1>1 DEF At, Index, Calls
<1> QED BY <1>2, <1>3, <1>4, <1>5, <1>6

LEMMA MediaChange ==
    ASSUME media \in [Disks -> [table : {"old", "zapped", "new"}, esp : SUBSET Loaders]],
           NEW d \in Disks, NEW r \in [table : {"old", "zapped", "new"}, esp : SUBSET Loaders],
           media' = [media EXCEPT ![d] = r]
    PROVE  /\ media' \in [Disks -> [table : {"old", "zapped", "new"}, esp : SUBSET Loaders]]
           /\ media'[d] = r /\ \A e \in Disks : e # d => media'[e] = media[e]
OBVIOUS

\* A call that changes nothing but the media of its disk, and is not undone by it.
LEMMA MediaOk ==
    ASSUME EngineInv, NEW name, At(name), Goes,
           name \in {"prepare", "loader"},
           media' \in [Disks -> [table : {"old", "zapped", "new"}, esp : SUBSET Loaders]],
           UNCHANGED <<mounts, imported, session, target, left>>, MediaInv'
    PROVE  EngineInv'
<1>1. /\ EngineTypes /\ PlanInv /\ PoolInv /\ MountInv /\ FactInv
      /\ mounts' \subseteq MountPoints /\ imported' \subseteq {BPOOL, RPOOL}
      /\ session' \in [mounts : Seq(EspPoints), binds : {<<>>, Binds},
                       pools : {<<>>, <<BPOOL>>, <<BPOOL, RPOOL>>}]
      /\ target' \subseteq Fact /\ left' \in LeftKind
  BY InvParts
<1>2. PICK w \in SUBSET Warnings : Warning(w)
  BY DEF Goes
<1>3. FactInv'
  BY <1>1, <1>2, StepFacts
<1>4. PoolInv' /\ MountInv'
  BY <1>1, <1>2, StepPools
<1> QED BY <1>1, <1>2, <1>3, <1>4, StepOn

LEMMA PrepareStep == ASSUME EngineInv, Prepare PROVE EngineInv'
<1>1. EngineTypes /\ PlanInv /\ PoolInv /\ MediaInv
  BY InvParts
<1>2. media \in [Disks -> [table : {"old", "zapped", "new"}, esp : SUBSET Loaders]]
  BY InvParts
<1>3. /\ At("prepare") /\ eng.pc = "install" /\ UNCHANGED <<mounts, imported, session, target, left>>
  BY DEF Prepare, At
<1>4. /\ Index \in 1..Len(eng.disks) /\ Disk \in Disks
      /\ \A i \in 1..Len(eng.disks) : eng.disks[i] \in Disks
  BY <1>1, <1>3, DiskOf
<1>5. CASE Ok /\ media' = [media EXCEPT ![Disk] = [table |-> "new", esp |-> {}]]
  <2>1. /\ media' \in [Disks -> [table : {"old", "zapped", "new"}, esp : SUBSET Loaders]]
        /\ media'[Disk].table = "new" /\ \A e \in Disks : e # Disk => media'[e] = media[e]
    BY <1>2, <1>4, <1>5, MediaChange
  <2>2. /\ eng'.disks = eng.disks /\ eng'.pc = "install"
        /\ \A x, i : (x # "prepare" \/ i # Index) /\ AheadOn(x, i) => AheadOn(x, i)'
    BY <1>1, <1>3, <1>5, Made DEF Ok
  <2>3. Ahead("prepare")
    BY <1>1, <1>3, HeadAhead
  <2>4. ASSUME NEW i \in 1..Len(eng.disks), ~AheadOn("prepare", i)'
        PROVE  media'[eng.disks[i]].table = "new"
    <3>1. CASE i = Index
      BY <2>1, <3>1 DEF Disk
    <3>2. CASE i # Index
      <4>1. media[eng.disks[i]].table = "new"
        BY <1>1, <1>3, <2>2, <2>4, <3>2 DEF MediaInv
      <4> QED BY <1>4, <2>1, <4>1
    <3> QED BY <3>1, <3>2
  <2>5. ASSUME NEW i \in 1..Len(eng.disks) PROVE AheadOn("loader", i)'
    BY <1>1, <1>3, <2>2, <2>3 DEF MediaInv
  <2>6. MediaInv'
    BY <2>2, <2>4, <2>5 DEF MediaInv
  <2>7. Goes
    BY <1>5, GoesOn
  <2> QED BY <1>3, <2>1, <2>6, <2>7, MediaOk
<1>6. CASE Broken /\ \E t \in {"old", "zapped"} : media' = [media EXCEPT ![Disk].table = t]
  <2>1. PICK t \in {"old", "zapped"} : media' = [media EXCEPT ![Disk].table = t]
    BY <1>6
  <2>2. media' \in [Disks -> [table : {"old", "zapped", "new"}, esp : SUBSET Loaders]]
    BY <1>2, <1>4, <2>1
  <2>3. mounts' \subseteq MountPoints /\ target' \subseteq Fact
    BY <1>3, InvParts
  <2> QED BY <1>3, <1>6, <2>2, <2>3, FailStep DEF Broken
<1> QED BY <1>5, <1>6 DEF Prepare

LEMMA LoaderStep == ASSUME EngineInv, InstallLoader PROVE EngineInv'
<1>1. EngineTypes /\ PlanInv /\ PoolInv /\ MediaInv
  BY InvParts
<1>2. media \in [Disks -> [table : {"old", "zapped", "new"}, esp : SUBSET Loaders]]
  BY InvParts
<1>3. /\ At("loader") /\ eng.pc = "install" /\ UNCHANGED <<mounts, imported, session, target, left>>
  BY DEF InstallLoader, At
<1>4. /\ Index \in 1..Len(eng.disks) /\ Disk \in Disks
      /\ \A i \in 1..Len(eng.disks) : eng.disks[i] \in Disks
  BY <1>1, <1>3, DiskOf
<1>5. CASE Ok /\ media' = [media EXCEPT ![Disk].esp = Loaders]
  <2>1. /\ media' \in [Disks -> [table : {"old", "zapped", "new"}, esp : SUBSET Loaders]]
        /\ media'[Disk].esp = Loaders /\ media'[Disk].table = media[Disk].table
        /\ \A e \in Disks : e # Disk => media'[e] = media[e]
    BY <1>2, <1>4, <1>5
  <2>2. "fallback" \in media'[Disk].esp
    BY <2>1 DEF Loaders
  <2>3. /\ eng'.disks = eng.disks /\ eng'.pc = "install" /\ eng'.warned = eng.warned
        /\ \A x : Ahead(x)' => Ahead(x)
        /\ \A x, i : (x # "loader" \/ i # Index) /\ AheadOn(x, i) => AheadOn(x, i)'
    BY <1>1, <1>3, <1>5, Made DEF Ok
  <2>4. ~Ahead("prepare") /\ ~Ahead("esp")
    BY <1>1, <1>3, Behind
  <2>5. ASSUME NEW i \in 1..Len(eng.disks), ~AheadOn("prepare", i)'
        PROVE  media'[eng.disks[i]].table = "new"
    <3>1. media[eng.disks[i]].table = "new"
      BY <1>1, <1>3, <2>3, <2>5 DEF MediaInv
    <3> QED BY <1>4, <2>1, <3>1
  <2>6. ASSUME NEW i \in 1..Len(eng.disks), ~AheadOn("loader", i)'
        PROVE  "fallback" \in media'[eng.disks[i]].esp \/ ("sync" \in eng.warned /\ i # 1)
    <3>1. CASE eng.disks[i] = Disk
      BY <2>2, <3>1
    <3>2. CASE eng.disks[i] # Disk
      <4>1. i # Index
        BY <3>2 DEF Disk
      <4>2. "fallback" \in media[eng.disks[i]].esp \/ ("sync" \in eng.warned /\ i # 1)
        BY <1>1, <1>3, <2>3, <2>6, <4>1 DEF MediaInv
      <4> QED BY <1>4, <2>1, <3>2, <4>2
    <3> QED BY <3>1, <3>2
  <2>7. MediaInv'
    BY <2>3, <2>4, <2>5, <2>6 DEF MediaInv
  <2>8. Goes
    BY <1>5, GoesOn
  <2> QED BY <1>3, <2>1, <2>7, <2>8, MediaOk
<1>6. CASE Broken /\ \E l \in {{}, {"named"}} : media' = [media EXCEPT ![Disk].esp = l]
  <2>1. PICK l \in {{}, {"named"}} : media' = [media EXCEPT ![Disk].esp = l]
    BY <1>6
  <2>2. l \in SUBSET Loaders
    BY DEF Loaders
  <2>3. media' \in [Disks -> [table : {"old", "zapped", "new"}, esp : SUBSET Loaders]]
    BY <1>2, <1>4, <2>1, <2>2
  <2>4. mounts' \subseteq MountPoints /\ target' \subseteq Fact
    BY <1>3, InvParts
  <2> QED BY <1>3, <1>6, <2>3, <2>4, FailStep DEF Broken
<1> QED BY <1>5, <1>6 DEF InstallLoader

LEMMA SyncStep == ASSUME EngineInv, InstallEspSync PROVE EngineInv'
<1>1. EngineTypes /\ PlanInv /\ PoolInv /\ MountInv /\ FactInv /\ MediaInv
  BY InvParts
<1>2. media \in [Disks -> [table : {"old", "zapped", "new"}, esp : SUBSET Loaders]]
  BY InvParts
<1>3. At("sync") /\ eng.pc = "install" /\ UNCHANGED <<mounts, imported, session, left>>
  BY DEF InstallEspSync, At
<1>4. /\ Index \in 1..Len(eng.disks) /\ Disk \in Disks /\ Len(eng.disks) \in 1..2
      /\ \A i \in 1..Len(eng.disks) : eng.disks[i] \in Disks
  BY <1>1, <1>3, DiskOf
<1>5. ~Ahead("loader")
  BY <1>1, <1>3, Behind
<1>6. \A i \in 1..Len(eng.disks) : ~AheadOn("loader", i)
  BY <1>5, AnyAhead DEF Ahead, AheadOn
<1>7. \A i \in 1..Len(eng.disks) :
         /\ ~Ahead("prepare") /\ ~Ahead("esp")
         /\ "fallback" \in media[eng.disks[i]].esp \/ ("sync" \in eng.warned /\ i # 1)
  BY <1>1, <1>3, <1>6 DEF MediaInv
<1>8. \A i \in 1..Len(eng.disks) : eng.disks[i] = Disk => i # 1
  <2>1. eng.disks \in Mirrors /\ eng.todo # <<>> /\ Head(eng.todo) \in Calls(Len(eng.disks))
    BY <1>1, <1>3, Onward, EngFields, HeadTailProperties DEF PlanInv, At
  <2>2. Index # 1
    BY <1>3, <2>1 DEF Index, Calls, At
  <2>3. \A i \in 1..Len(eng.disks) : i = Index \/ eng.disks[i] # eng.disks[Index]
    BY <1>4, <2>1, <2>2 DEF Mirrors
  <2> QED BY <2>2, <2>3 DEF Disk
<1>9. ASSUME NEW w \in SUBSET Warnings, Warning(w), Copied({"sync"}),
             NEW l \in SUBSET Loaders, media' = [media EXCEPT ![Disk].esp = l],
             "fallback" \in l \/ "sync" \in w
      PROVE  EngineInv'
  <2>1. /\ media' \in [Disks -> [table : {"old", "zapped", "new"}, esp : SUBSET Loaders]]
        /\ media'[Disk].esp = l /\ media'[Disk].table = media[Disk].table
        /\ \A e \in Disks : e # Disk => media'[e] = media[e]
    BY <1>2, <1>4, <1>9
  <2>2. /\ eng'.disks = eng.disks /\ eng'.pc = "install" /\ eng'.warned = eng.warned \cup w
        /\ \A x : Ahead(x)' => Ahead(x)
        /\ \A x, i : (x # "sync" \/ i # Index) /\ AheadOn(x, i) => AheadOn(x, i)'
    BY <1>1, <1>3, <1>9, Made
  <2>3. ASSUME NEW i \in 1..Len(eng.disks), ~AheadOn("prepare", i)'
        PROVE  media'[eng.disks[i]].table = "new"
    <3>1. media[eng.disks[i]].table = "new"
      BY <1>1, <1>3, <2>2, <2>3 DEF MediaInv
    <3> QED BY <1>4, <2>1, <3>1
  <2>4. ASSUME NEW i \in 1..Len(eng.disks)
        PROVE  "fallback" \in media'[eng.disks[i]].esp \/ ("sync" \in eng'.warned /\ i # 1)
    <3>1. CASE eng.disks[i] = Disk
      BY <1>8, <1>9, <2>1, <2>2, <3>1
    <3>2. CASE eng.disks[i] # Disk
      BY <1>4, <1>7, <2>1, <2>2, <3>2
    <3> QED BY <3>1, <3>2
  <2>5. MediaInv'
    BY <1>7, <2>2, <2>3, <2>4 DEF MediaInv
  <2>6. target' = target \cup {"sync"} /\ target' \subseteq Fact
    BY <1>9, InvParts DEF Copied, Fact
  <2>7. FactInv'
    BY <1>1, <1>3, <1>9, <2>6, StepFacts
  <2>8. PoolInv' /\ MountInv'
    <3>1. /\ mounts' = mounts /\ imported' = imported /\ session' = session /\ left' = left
          /\ At("sync") /\ Warning(w)
      BY <1>3, <1>9
    <3>2. "sync" # "release" /\ "sync" # "bpool" /\ "sync" # "rpool" /\ "sync" # "track esps" /\ "sync" # "track binds"
      OBVIOUS
    <3> QED BY <1>1, <3>1, <3>2, StepPools
  <2>9. /\ mounts' \subseteq MountPoints /\ imported' \subseteq {BPOOL, RPOOL}
        /\ session' \in [mounts : Seq(EspPoints), binds : {<<>>, Binds},
                         pools : {<<>>, <<BPOOL>>, <<BPOOL, RPOOL>>}]
        /\ left' \in LeftKind
    BY <1>3, InvParts
  <2> QED BY <1>3, <1>9, <2>1, <2>5, <2>6, <2>7, <2>8, <2>9, StepOn
<1>10. CASE Ok /\ Copied({"sync"}) /\ media' = [media EXCEPT ![Disk].esp = media[eng.disks[1]].esp]
  <2>1. 1 \in 1..Len(eng.disks)
    BY <1>4
  <2>2. media[eng.disks[1]].esp \in SUBSET Loaders
    BY <1>2, <1>4, <2>1
  <2>3. "fallback" \in media[eng.disks[1]].esp
    BY <1>7, <2>1
  <2> QED BY <1>9, <1>10, <2>2, <2>3 DEF Ok
<1>11. CASE /\ Warning({"sync"}) /\ Copied({"sync"})
            /\ \E l \in {{}, media[Disk].esp} : media' = [media EXCEPT ![Disk].esp = l]
  <2>1. PICK l \in {{}, media[Disk].esp} : media' = [media EXCEPT ![Disk].esp = l]
    BY <1>11
  <2>2. l \in SUBSET Loaders
    BY <1>2, <1>4
  <2>3. {"sync"} \in SUBSET Warnings
    BY DEF Warnings
  <2> QED BY <1>9, <1>11, <2>1, <2>2, <2>3
<1>12. CASE Broken /\ UNCHANGED <<target, media>>
  <2>1. target \subseteq Fact
    BY InvParts
  <2> QED BY <1>3, <1>12, <2>1, PlainFail DEF Broken
<1> QED BY <1>10, <1>11, <1>12 DEF InstallEspSync

-----------------------------------------------------------------------------
(* Pools and mounts. *)

LEMMA SetsOf ==
    /\ ToSet(<<>>) = {} /\ ToSet(<<BPOOL>>) = {BPOOL} /\ ToSet(<<BPOOL, RPOOL>>) = {BPOOL, RPOOL}
    /\ BPOOL # RPOOL /\ ToSet(Binds) = {"dev", "sys", "run", "proc"}
<1>1. ToSet(<<>>) = {}
  BY DEF ToSet
<1>2. ToSet(<<BPOOL>>) = {BPOOL}
  BY DEF ToSet
<1>3. ToSet(<<BPOOL, RPOOL>>) = {BPOOL, RPOOL}
  BY DEF ToSet
<1>4. ToSet(Binds) = {"dev", "sys", "run", "proc"}
  BY DEF ToSet, Binds
<1>5. BPOOL # RPOOL
  BY DEF BPOOL, RPOOL
<1> QED BY <1>1, <1>2, <1>3, <1>4, <1>5

\* Once rpool is created it is this run's, and so is every pool.
LEMMA OwnPools ==
    ASSUME EngineInv, eng.pc = "install", ~Ahead("rpool")
    PROVE  session.pools = <<BPOOL, RPOOL>> /\ imported = {BPOOL, RPOOL}
<1>1. PoolInv /\ imported \subseteq {BPOOL, RPOOL}
  BY InvParts
<1>2. session.pools = <<BPOOL, RPOOL>> /\ ToSet(session.pools) \subseteq imported
  BY <1>1 DEF PoolInv
<1> QED BY <1>1, <1>2, SetsOf

\* A call that mounts something, or records what is.
LEMMA MountOk ==
    ASSUME EngineInv, NEW name, At(name), Goes,
           name \in {"datasets", "esp", "track esps", "bind", "track binds"},
           mounts' \subseteq MountPoints,
           session' \in [mounts : Seq(EspPoints), binds : {<<>>, Binds},
                         pools : {<<>>, <<BPOOL>>, <<BPOOL, RPOOL>>}],
           media' \in [Disks -> [table : {"old", "zapped", "new"}, esp : SUBSET Loaders]],
           UNCHANGED <<imported, target, left>>, PoolInv', MountInv', MediaInv'
    PROVE  EngineInv'
<1>1. /\ EngineTypes /\ PlanInv /\ FactInv /\ imported' \subseteq {BPOOL, RPOOL}
      /\ target' \subseteq Fact /\ left' \in LeftKind
  BY InvParts
<1>2. PICK w \in SUBSET Warnings : Warning(w)
  BY DEF Goes
<1>3. FactInv'
  BY <1>1, <1>2, StepFacts
<1> QED BY <1>1, <1>2, <1>3, StepOn

LEMMA DatasetsStep == ASSUME EngineInv, CreateDatasets PROVE EngineInv'
<1>1. EngineTypes /\ PlanInv /\ PoolInv /\ MountInv /\ MediaInv
  BY InvParts
<1>2. /\ mounts \subseteq MountPoints
      /\ media \in [Disks -> [table : {"old", "zapped", "new"}, esp : SUBSET Loaders]]
      /\ session \in [mounts : Seq(EspPoints), binds : {<<>>, Binds},
                      pools : {<<>>, <<BPOOL>>, <<BPOOL, RPOOL>>}]
      /\ target \subseteq Fact
  BY InvParts
<1>3. At("datasets") /\ eng.pc = "install" /\ UNCHANGED <<media, imported, session, target, left>>
  BY DEF CreateDatasets, At
<1>4. {BPOOL, RPOOL} \subseteq imported
  <2>1. ~Ahead("rpool")
    BY <1>1, <1>3, Behind
  <2> QED BY <1>3, <2>1, OwnPools
<1>5. "root" \notin Strays /\ "boot" \notin Strays
  BY SetsOf DEF Strays, EspPoints
<1>6. ASSUME NEW m \in {{}, {"root"}, {"root", "boot"}}, mounts' = mounts \cup m
      PROVE  mounts' \subseteq MountPoints /\ mounts' \cap Strays = mounts \cap Strays
  <2>1. \A x \in m : x = "root" \/ x = "boot"
    OBVIOUS
  <2>2. {"root", "boot"} \subseteq MountPoints
    BY DEF MountPoints
  <2>3. m \subseteq MountPoints /\ m \cap Strays = {}
    BY <1>5, <2>1, <2>2
  <2> QED BY <1>2, <1>6, <2>3
<1>7. CASE Ok /\ mounts' = mounts \cup {"root", "boot"}
  <2>1. mounts' \subseteq MountPoints /\ mounts' \cap Strays = mounts \cap Strays
    <3>1. {"root", "boot"} \in {{}, {"root"}, {"root", "boot"}}
      OBVIOUS
    <3> QED BY <1>6, <1>7, <3>1
  <2>2. PICK w \in SUBSET Warnings : Warning(w)
    BY <1>7, GoesOn DEF Goes
  <2>3. PoolInv' /\ MountInv'
    <3>1. /\ At("datasets") /\ imported' = imported /\ session' = session /\ left' = left
          /\ {BPOOL, RPOOL} \subseteq imported
      BY <1>3, <1>4
    <3>2. /\ "datasets" # "release" /\ "datasets" # "bpool" /\ "datasets" # "rpool"
          /\ "datasets" # "track esps" /\ "datasets" # "track binds"
      OBVIOUS
    <3> QED BY <1>1, <2>1, <2>2, <3>1, <3>2, StepPools
  <2>4. MediaInv'
    BY <1>1, <1>3, <2>2, StepMedia
  <2>5. Goes
    BY <1>7, GoesOn
  <2> QED BY <1>2, <1>3, <2>1, <2>3, <2>4, <2>5, MountOk
<1>8. CASE Broken /\ \E m \in {{}, {"root"}, {"root", "boot"}} : mounts' = mounts \cup m
  <2>1. mounts' \subseteq MountPoints /\ mounts' \cap Strays = mounts \cap Strays /\ mounts \subseteq mounts'
    <3>1. PICK m \in {{}, {"root"}, {"root", "boot"}} : mounts' = mounts \cup m
      BY <1>8
    <3> QED BY <1>6, <3>1
  <2> QED BY <1>2, <1>3, <1>4, <1>8, <2>1, FailStep DEF Broken
<1> QED BY <1>7, <1>8 DEF CreateDatasets

\* After rpool a call leaves the pools as they are.
LEMMA OwnedStep ==
    ASSUME EngineInv, NEW name, At(name), Goes, ~Ahead("rpool"),
           imported' = imported, session'.pools = session.pools
    PROVE  PoolInv'
<1>1. EngineTypes /\ PlanInv /\ PoolInv
  BY InvParts
<1>2. PICK w \in SUBSET Warnings : Warning(w)
  BY DEF Goes
<1>3. eng.pc = "install" /\ eng'.pc = "install" /\ \A x : Ahead(x)' => Ahead(x)
  BY <1>1, <1>2, Made
<1>4. session.pools = <<BPOOL, RPOOL>> /\ imported = {BPOOL, RPOOL}
  BY <1>3, OwnPools
<1>5. session.pools # <<>> /\ ToSet(session.pools) = imported
  BY <1>4, SetsOf
<1>6. ~Ahead("release")
  BY <1>1, <1>3, <1>5 DEF PoolInv
<1>7. ~Ahead("release")'
  BY <1>3, <1>6
<1> QED BY <1>3, <1>4, <1>5, <1>7 DEF PoolInv, Backed

LEMMA FormatEspStep == ASSUME EngineInv, FormatEsp PROVE EngineInv'
<1>1. EngineTypes /\ PlanInv /\ PoolInv /\ MountInv /\ MediaInv
  BY InvParts
<1>2. /\ mounts \subseteq MountPoints
      /\ media \in [Disks -> [table : {"old", "zapped", "new"}, esp : SUBSET Loaders]]
      /\ session \in [mounts : Seq(EspPoints), binds : {<<>>, Binds},
                      pools : {<<>>, <<BPOOL>>, <<BPOOL, RPOOL>>}]
      /\ target \subseteq Fact
  BY InvParts
<1>3. /\ At("esp") /\ eng.pc = "install" /\ UNCHANGED <<imported, session, target, left>>
      /\ media' = [media EXCEPT ![Disk].esp = {}]
  BY DEF FormatEsp, At
<1>4. /\ Index \in 1..Len(eng.disks) /\ Disk \in Disks
      /\ \A i \in 1..Len(eng.disks) : eng.disks[i] \in Disks
  BY <1>1, <1>3, DiskOf
<1>5. ~Ahead("rpool") /\ Ahead("esp")
  BY <1>1, <1>3, Behind, HeadAhead
<1>6. {BPOOL, RPOOL} \subseteq imported
  BY <1>3, <1>5, OwnPools
<1>7. EspPoint(Index) \in EspPoints /\ EspPoints \subseteq MountPoints
  BY DEF EspPoint, EspPoints, MountPoints, Strays
<1>8. /\ media' \in [Disks -> [table : {"old", "zapped", "new"}, esp : SUBSET Loaders]]
      /\ \A e \in Disks : media'[e].table = media[e].table
  BY <1>2, <1>3, <1>4
<1>9. CASE Ok /\ mounts' = mounts \cup {EspPoint(Index)}
  <2>1. Goes
    BY <1>9, GoesOn
  <2>2. PICK w \in SUBSET Warnings : Warning(w)
    BY <2>1 DEF Goes
  <2>3. /\ eng'.disks = eng.disks /\ eng'.pc = "install"
        /\ \A x : x # "esp" /\ Ahead(x) => Ahead(x)'
        /\ \A x, i : (x # "esp" \/ i # Index) /\ AheadOn(x, i) => AheadOn(x, i)'
    BY <1>1, <1>3, <2>2, Made
  <2>4. PoolInv'
    BY <1>3, <1>5, <2>1, OwnedStep
  <2>5. MountInv'
    <3>1. mounts \cap EspPoints \subseteq {EspPoint(i) : i \in 1..Len(eng.disks)}
      BY <1>1, <1>3, <1>5 DEF MountInv
    <3>2. EspPoint(Index) \in {EspPoint(i) : i \in 1..Len(eng.disks)}
      BY <1>4
    <3>3. mounts' \cap EspPoints \subseteq {EspPoint(i) : i \in 1..Len(eng.disks)}
      BY <1>9, <3>1, <3>2
    <3>4. /\ ~Ahead("track esps")' => ToSet(session.mounts) = {EspPoint(i) : i \in 1..Len(eng.disks)}
          /\ ~Ahead("track binds")' => session.binds = Binds
      BY <1>1, <1>3, <2>3 DEF MountInv
    <3>5. session' = session
      BY <1>3
    <3> QED BY <2>3, <3>3, <3>4, <3>5 DEF MountInv
  <2>6. ASSUME NEW i \in 1..Len(eng.disks), ~AheadOn("prepare", i)'
        PROVE  media'[eng.disks[i]].table = "new"
    <3>1. media[eng.disks[i]].table = "new"
      BY <1>1, <1>3, <2>3, <2>6 DEF MediaInv
    <3> QED BY <1>4, <1>8, <3>1
  <2>7. ASSUME NEW i \in 1..Len(eng.disks) PROVE AheadOn("loader", i)'
    BY <1>1, <1>3, <1>5, <2>3 DEF MediaInv
  <2>8. MediaInv'
    BY <2>3, <2>6, <2>7 DEF MediaInv
  <2>9. mounts' \subseteq MountPoints
    BY <1>2, <1>7, <1>9
  <2> QED BY <1>2, <1>3, <1>8, <2>1, <2>4, <2>5, <2>8, <2>9, MountOk
<1>10. CASE Broken /\ \E m \in {{}, {EspPoint(Index)}} : mounts' = mounts \cup m
  <2>1. mounts \subseteq mounts' /\ mounts' \subseteq MountPoints
    BY <1>2, <1>7, <1>10
  <2> QED BY <1>2, <1>3, <1>6, <1>8, <1>10, <2>1, FailStep DEF Broken
<1> QED BY <1>9, <1>10 DEF FormatEsp

LEMMA TrackEspsStep == ASSUME EngineInv, TrackEsps PROVE EngineInv'
<1>1. EngineTypes /\ PlanInv /\ PoolInv /\ MountInv /\ MediaInv
  BY InvParts
<1>2. /\ mounts \subseteq MountPoints
      /\ media \in [Disks -> [table : {"old", "zapped", "new"}, esp : SUBSET Loaders]]
      /\ session \in [mounts : Seq(EspPoints), binds : {<<>>, Binds},
                      pools : {<<>>, <<BPOOL>>, <<BPOOL, RPOOL>>}]
  BY InvParts
<1>3. /\ At("track esps") /\ Ok /\ eng.pc = "install"
      /\ UNCHANGED <<media, mounts, imported, target, left>>
      /\ session' = [session EXCEPT !.mounts = [i \in 1..Index |-> EspPoint(i)]]
  BY DEF TrackEsps, At
<1>4. Index = Len(eng.disks) /\ Len(eng.disks) \in 1..2 /\ ~Ahead("rpool")
  BY <1>1, <1>3, DiskOf, Behind
<1> DEFINE e == [i \in 1..Index |-> EspPoint(i)]
<1>5. e \in [1..Index -> EspPoints] /\ ToSet(e) = {EspPoint(i) : i \in 1..Len(eng.disks)}
  BY <1>4 DEF EspPoint, EspPoints, ToSet
<1>6. e \in Seq(EspPoints)
  BY <1>4, <1>5, FunctionSeq
<1> HIDE DEF e
<1>7. /\ session' \in [mounts : Seq(EspPoints), binds : {<<>>, Binds},
                       pools : {<<>>, <<BPOOL>>, <<BPOOL, RPOOL>>}]
      /\ session'.mounts = e /\ session'.binds = session.binds /\ session'.pools = session.pools
  BY <1>2, <1>3, <1>6 DEF e
<1>8. Goes
  BY <1>3, GoesOn
<1>9. PICK w \in SUBSET Warnings : Warning(w)
  BY <1>8 DEF Goes
<1>10. /\ eng'.disks = eng.disks /\ eng'.pc = "install"
       /\ \A x : Ahead(x)' => Ahead(x)
       /\ \A x : x # "track esps" /\ Ahead(x) => Ahead(x)'
  BY <1>1, <1>3, <1>9, Made
<1>11. PoolInv'
  BY <1>3, <1>4, <1>7, <1>8, OwnedStep
<1>12. MountInv'
  <2>1. mounts \cap EspPoints \subseteq {EspPoint(i) : i \in 1..Len(eng.disks)}
    BY <1>1, <1>3, <1>4 DEF MountInv
  <2>2. ~Ahead("track binds")' => session.binds = Binds
    BY <1>1, <1>3, <1>10 DEF MountInv
  <2>3. mounts' = mounts
    BY <1>3
  <2> QED BY <1>5, <1>7, <1>10, <2>1, <2>2, <2>3 DEF MountInv
<1>13. MediaInv'
  <2>1. "track esps" # "prepare" /\ "track esps" # "loader"
    OBVIOUS
  <2>2. media' = media
    BY <1>3
  <2> QED BY <1>1, <1>3, <1>9, <2>1, <2>2, StepMedia
<1> QED BY <1>2, <1>3, <1>7, <1>8, <1>11, <1>12, <1>13, MountOk

LEMMA BindStep == ASSUME EngineInv, Bind PROVE EngineInv'
<1>1. EngineTypes /\ PlanInv /\ PoolInv /\ MountInv /\ MediaInv
  BY InvParts
<1>2. /\ mounts \subseteq MountPoints
      /\ media \in [Disks -> [table : {"old", "zapped", "new"}, esp : SUBSET Loaders]]
      /\ session \in [mounts : Seq(EspPoints), binds : {<<>>, Binds},
                      pools : {<<>>, <<BPOOL>>, <<BPOOL, RPOOL>>}]
      /\ target \subseteq Fact
  BY InvParts
<1>3. At("bind") /\ eng.pc = "install" /\ UNCHANGED <<media, imported, session, target, left>>
  BY DEF Bind, At
<1>4. Index \in 1..4 /\ ~Ahead("rpool")
  BY <1>1, <1>3, DiskOf, Behind
<1>5. {BPOOL, RPOOL} \subseteq imported
  BY <1>3, <1>4, OwnPools
<1>6. Binds[Index] \in {"dev", "sys", "run", "proc"}
  BY <1>4 DEF Binds
<1>7. Binds[Index] \in MountPoints /\ Binds[Index] \notin EspPoints
  BY <1>6, SetsOf DEF MountPoints, Strays, EspPoints
<1>8. CASE Ok /\ mounts' = mounts \cup {Binds[Index]}
  <2>1. Goes
    BY <1>8, GoesOn
  <2>2. PICK w \in SUBSET Warnings : Warning(w)
    BY <2>1 DEF Goes
  <2>3. /\ eng'.disks = eng.disks /\ eng'.pc = "install"
        /\ \A x : x # "bind" /\ Ahead(x) => Ahead(x)'
    BY <1>1, <1>3, <2>2, Made
  <2>4. PoolInv'
    BY <1>3, <1>4, <2>1, OwnedStep
  <2>5. MountInv'
    <3>1. mounts' \cap EspPoints = mounts \cap EspPoints
      BY <1>7, <1>8
    <3>2. mounts \cap EspPoints \subseteq {EspPoint(i) : i \in 1..Len(eng.disks)}
      BY <1>1, <1>3, <1>4 DEF MountInv
    <3>3. /\ ~Ahead("track esps")' => ToSet(session.mounts) = {EspPoint(i) : i \in 1..Len(eng.disks)}
          /\ ~Ahead("track binds")' => session.binds = Binds
      BY <1>1, <1>3, <2>3 DEF MountInv
    <3>4. session' = session
      BY <1>3
    <3> QED BY <2>3, <3>1, <3>2, <3>3, <3>4 DEF MountInv
  <2>6. MediaInv'
    <3>1. "bind" # "prepare" /\ "bind" # "loader"
      OBVIOUS
    <3>2. media' = media
      BY <1>3
    <3> QED BY <1>1, <1>3, <2>2, <3>1, <3>2, StepMedia
  <2>7. mounts' \subseteq MountPoints
    BY <1>2, <1>7, <1>8
  <2> QED BY <1>2, <1>3, <2>1, <2>4, <2>5, <2>6, <2>7, MountOk
<1>9. CASE Broken /\ \E m \in {{}, {Binds[Index]}} : mounts' = mounts \cup m
  <2>1. mounts \subseteq mounts' /\ mounts' \subseteq MountPoints
    BY <1>2, <1>7, <1>9
  <2> QED BY <1>2, <1>3, <1>5, <1>9, <2>1, FailStep DEF Broken
<1> QED BY <1>8, <1>9 DEF Bind

LEMMA TrackBindsStep == ASSUME EngineInv, TrackBinds PROVE EngineInv'
<1>1. EngineTypes /\ PlanInv /\ PoolInv /\ MountInv /\ MediaInv
  BY InvParts
<1>2. /\ mounts \subseteq MountPoints
      /\ media \in [Disks -> [table : {"old", "zapped", "new"}, esp : SUBSET Loaders]]
      /\ session \in [mounts : Seq(EspPoints), binds : {<<>>, Binds},
                      pools : {<<>>, <<BPOOL>>, <<BPOOL, RPOOL>>}]
  BY InvParts
<1>3. /\ At("track binds") /\ Ok /\ eng.pc = "install"
      /\ UNCHANGED <<media, mounts, imported, target, left>>
      /\ session' = [session EXCEPT !.binds = Binds]
  BY DEF TrackBinds, At
<1>4. ~Ahead("rpool")
  BY <1>1, <1>3, Behind
<1>5. /\ session' \in [mounts : Seq(EspPoints), binds : {<<>>, Binds},
                       pools : {<<>>, <<BPOOL>>, <<BPOOL, RPOOL>>}]
      /\ session'.mounts = session.mounts /\ session'.binds = Binds /\ session'.pools = session.pools
  BY <1>2, <1>3
<1>6. Goes
  BY <1>3, GoesOn
<1>7. PICK w \in SUBSET Warnings : Warning(w)
  BY <1>6 DEF Goes
<1>8. /\ eng'.disks = eng.disks /\ eng'.pc = "install"
      /\ \A x : x # "track binds" /\ Ahead(x) => Ahead(x)'
  BY <1>1, <1>3, <1>7, Made
<1>9. PoolInv'
  BY <1>3, <1>4, <1>5, <1>6, OwnedStep
<1>10. MountInv'
  <2>1. mounts \cap EspPoints \subseteq {EspPoint(i) : i \in 1..Len(eng.disks)}
    BY <1>1, <1>3, <1>4 DEF MountInv
  <2>2. ~Ahead("track esps")' => ToSet(session.mounts) = {EspPoint(i) : i \in 1..Len(eng.disks)}
    BY <1>1, <1>3, <1>8 DEF MountInv
  <2>3. mounts' = mounts
    BY <1>3
  <2> QED BY <1>5, <1>8, <2>1, <2>2, <2>3 DEF MountInv
<1>11. MediaInv'
  <2>1. "track binds" # "prepare" /\ "track binds" # "loader"
    OBVIOUS
  <2>2. media' = media
    BY <1>3
  <2> QED BY <1>1, <1>3, <1>7, <2>1, <2>2, StepMedia
<1> QED BY <1>2, <1>3, <1>5, <1>6, <1>9, <1>10, <1>11, MountOk

\* A call that changes the pools.
LEMMA PoolOk ==
    ASSUME EngineInv, NEW name, At(name), Goes,
           name \in {"release", "bpool", "rpool"},
           mounts' \subseteq MountPoints, imported' \subseteq {BPOOL, RPOOL},
           session' \in [mounts : Seq(EspPoints), binds : {<<>>, Binds},
                         pools : {<<>>, <<BPOOL>>, <<BPOOL, RPOOL>>}],
           UNCHANGED <<media, target>>, left' \in LeftKind, PoolInv', MountInv'
    PROVE  EngineInv'
<1>1. /\ EngineTypes /\ PlanInv /\ FactInv /\ MediaInv /\ target' \subseteq Fact
      /\ media' \in [Disks -> [table : {"old", "zapped", "new"}, esp : SUBSET Loaders]]
  BY InvParts
<1>2. PICK w \in SUBSET Warnings : Warning(w)
  BY DEF Goes
<1>3. FactInv'
  BY <1>1, <1>2, StepFacts
<1>4. MediaInv'
  BY <1>1, <1>2, StepMedia
<1> QED BY <1>1, <1>2, <1>3, <1>4, StepOn

LEMMA PoolFail ==
    ASSUME EngineInv, NEW name, At(name), name # "release", Fail,
           UNCHANGED <<media, mounts, imported, session, target, left>>
    PROVE  EngineInv'
<1>1. target \subseteq Fact
  BY InvParts
<1> QED BY <1>1, PlainFail

LEMMA BpoolStep == ASSUME EngineInv, CreateBpool PROVE EngineInv'
<1>1. EngineTypes /\ PlanInv /\ PoolInv /\ MountInv
  BY InvParts
<1>2. /\ mounts \subseteq MountPoints /\ imported \subseteq {BPOOL, RPOOL}
      /\ session \in [mounts : Seq(EspPoints), binds : {<<>>, Binds},
                      pools : {<<>>, <<BPOOL>>, <<BPOOL, RPOOL>>}]
  BY InvParts
<1>3. At("bpool") /\ eng.pc = "install" /\ UNCHANGED <<media, mounts, target, left>>
  BY DEF CreateBpool, CreatePool, At
<1>4. CASE /\ BPOOL \notin imported /\ Ok /\ imported' = imported \cup {BPOOL}
           /\ session' = [session EXCEPT !.pools = Append(session.pools, BPOOL)]
  <2>1. session.pools = <<>>
    <3>1. BPOOL \notin ToSet(session.pools)
      BY <1>1, <1>4 DEF PoolInv
    <3> QED BY <1>2, <3>1, SetsOf
  <2>2. /\ session' \in [mounts : Seq(EspPoints), binds : {<<>>, Binds},
                         pools : {<<>>, <<BPOOL>>, <<BPOOL, RPOOL>>}]
        /\ session'.mounts = session.mounts /\ session'.binds = session.binds
        /\ session'.pools = <<BPOOL>>
    BY <1>2, <1>4, <2>1
  <2>3. Goes
    BY <1>4, GoesOn
  <2>4. PICK w \in SUBSET Warnings : Warning(w)
    BY <2>3 DEF Goes
  <2>5. /\ eng'.disks = eng.disks /\ eng'.pc = "install"
        /\ \A x : Ahead(x)' => Ahead(x)
        /\ \A x : x # "bpool" /\ Ahead(x) => Ahead(x)'
    BY <1>1, <1>3, <2>4, Made
  <2>6. ~Ahead("release")
    BY <1>1, <1>3, Behind
  <2>7. Ahead("rpool")
    <3>1. <<>> # <<BPOOL, RPOOL>>
      OBVIOUS
    <3> QED BY <1>1, <1>3, <2>1, <3>1 DEF PoolInv
  <2>8. /\ ~Ahead("release")' /\ Ahead("rpool")'
        /\ ~Ahead("track esps")' => ~Ahead("track esps")
        /\ ~Ahead("track binds")' => ~Ahead("track binds")
    BY <2>5, <2>6, <2>7
  <2>9. PoolInv'
    <3>1. ToSet(session'.pools) = {BPOOL} /\ ToSet(session.pools) = {} /\ session'.pools # <<>>
      BY <2>1, <2>2, SetsOf
    <3>2. /\ imported' \subseteq {BPOOL} \cup left.told
          /\ imported' \subseteq {BPOOL} \/ (session.mounts = <<>> /\ session.binds = <<>>)
          /\ imported' \subseteq {BPOOL} \/ mounts \cap Strays # {} \/ left.refused # {}
      BY <1>1, <1>3, <1>4, <2>6, <3>1 DEF PoolInv
    <3>3. Backed(mounts, imported')
      BY <1>1, <1>4 DEF PoolInv, Backed
    <3>4. mounts' = mounts /\ left' = left /\ {BPOOL} \subseteq imported'
      BY <1>3, <1>4
    <3> QED BY <2>2, <2>5, <2>8, <3>1, <3>2, <3>3, <3>4 DEF PoolInv
  <2>10. MountInv'
    <3>1. mounts' = mounts
      BY <1>3
    <3> QED BY <1>1, <1>3, <2>2, <2>5, <2>8, <3>1 DEF MountInv
  <2>11. mounts' \subseteq MountPoints /\ imported' \subseteq {BPOOL, RPOOL} /\ left' \in LeftKind
    BY <1>2, <1>3, <1>4, InvParts
  <2> QED BY <1>3, <2>2, <2>3, <2>9, <2>10, <2>11, PoolOk
<1>5. CASE Fail /\ UNCHANGED <<imported, session>>
  BY <1>3, <1>5, PoolFail
<1> QED BY <1>4, <1>5 DEF CreateBpool, CreatePool

LEMMA RpoolStep == ASSUME EngineInv, CreateRpool PROVE EngineInv'
<1>1. EngineTypes /\ PlanInv /\ PoolInv /\ MountInv
  BY InvParts
<1>2. /\ mounts \subseteq MountPoints /\ imported \subseteq {BPOOL, RPOOL}
      /\ session \in [mounts : Seq(EspPoints), binds : {<<>>, Binds},
                      pools : {<<>>, <<BPOOL>>, <<BPOOL, RPOOL>>}]
  BY InvParts
<1>3. At("rpool") /\ eng.pc = "install" /\ UNCHANGED <<media, mounts, target, left>>
  BY DEF CreateRpool, CreatePool, At
<1>4. CASE /\ RPOOL \notin imported /\ Ok /\ imported' = imported \cup {RPOOL}
           /\ session' = [session EXCEPT !.pools = Append(session.pools, RPOOL)]
  <2>1. ~Ahead("release") /\ ~Ahead("bpool")
    BY <1>1, <1>3, Behind
  <2>2. session.pools = <<BPOOL>>
    <3>1. RPOOL \notin ToSet(session.pools) /\ session.pools # <<>>
      BY <1>1, <1>3, <1>4, <2>1 DEF PoolInv
    <3> QED BY <1>2, <3>1, SetsOf
  <2>3. /\ session' \in [mounts : Seq(EspPoints), binds : {<<>>, Binds},
                         pools : {<<>>, <<BPOOL>>, <<BPOOL, RPOOL>>}]
        /\ session'.mounts = session.mounts /\ session'.binds = session.binds
        /\ session'.pools = <<BPOOL, RPOOL>>
    <3>1. Append(session.pools, RPOOL) = <<BPOOL, RPOOL>>
      <4>1. <<BPOOL>> \in Seq({BPOOL, RPOOL}) /\ RPOOL \in {BPOOL, RPOOL}
        OBVIOUS
      <4>2. Append(<<BPOOL>>, RPOOL) = <<BPOOL>> \o <<RPOOL>>
        BY <4>1, AppendIsConcat
      <4> QED BY <2>2, <4>2, Pair
    <3>2. session' = [session EXCEPT !.pools = <<BPOOL, RPOOL>>]
      BY <1>4, <3>1
    <3> QED BY <1>2, <3>2
  <2>4. Goes
    BY <1>4, GoesOn
  <2>5. PICK w \in SUBSET Warnings : Warning(w)
    BY <2>4 DEF Goes
  <2>6. /\ eng'.disks = eng.disks /\ eng'.pc = "install"
        /\ \A x : Ahead(x)' => Ahead(x)
        /\ \A x : x # "rpool" /\ Ahead(x) => Ahead(x)'
    BY <1>1, <1>3, <2>5, Made
  <2>7. /\ ~Ahead("release")'
        /\ ~Ahead("track esps")' => ~Ahead("track esps")
        /\ ~Ahead("track binds")' => ~Ahead("track binds")
    BY <2>1, <2>6
  <2>8. mounts \cap Strays = {}
    BY <1>1, <1>4 DEF PoolInv, Backed
  <2>9. PoolInv'
    <3>1. ToSet(session'.pools) = {BPOOL, RPOOL} /\ session'.pools # <<>>
      BY <2>3, SetsOf
    <3>2. BPOOL \in imported
      <4>1. ToSet(session.pools) = {BPOOL}
        BY <2>2, SetsOf
      <4> QED BY <1>1, <4>1 DEF PoolInv
    <3>3. imported' = {BPOOL, RPOOL}
      BY <1>2, <1>4, <3>2
    <3>4. mounts' = mounts
      BY <1>3
    <3> QED BY <2>3, <2>6, <2>7, <3>1, <3>3, <3>4 DEF PoolInv, Backed
  <2>10. MountInv'
    <3>1. mounts' = mounts
      BY <1>3
    <3>2. mounts \cap EspPoints = {}
      BY <2>8 DEF Strays
    <3> QED BY <1>1, <1>3, <2>3, <2>6, <2>7, <3>1, <3>2 DEF MountInv
  <2>11. mounts' \subseteq MountPoints /\ imported' \subseteq {BPOOL, RPOOL} /\ left' \in LeftKind
    BY <1>2, <1>3, <1>4, InvParts
  <2> QED BY <1>3, <2>3, <2>4, <2>9, <2>10, <2>11, PoolOk
<1>5. CASE Fail /\ UNCHANGED <<imported, session>>
  BY <1>3, <1>5, PoolFail
<1> QED BY <1>4, <1>5 DEF CreateRpool, CreatePool

-----------------------------------------------------------------------------
(* Releasing and exporting. *)

Undoings == [m : SUBSET MountPoints, pools : SUBSET {BPOOL, RPOOL},
             refused : SUBSET (Strays \cup {BPOOL, RPOOL})]

\* A command that undoes mounts and imports nothing, keeps what is mounted in a dataset and
\* the pool under a mount, and forgets no refusal.
Undoes(s, t) ==
    /\ t.m \subseteq s.m /\ t.pools \subseteq s.pools /\ s.m \cap Strays \subseteq t.m
    /\ s.refused \subseteq t.refused
    /\ Backed(s.m, s.pools) => Backed(t.m, t.pools)

\* With nothing mounted in a dataset a pool goes, after bpool has, unless it is refused.
Freed(s, p, t) ==
    /\ s.m \cap Strays = {} /\ Backed(s.m, s.pools)
    /\ p = BPOOL \/ BPOOL \notin s.pools
    /\ t.refused = {}
    => p \notin t.pools

LEMMA StrayPoints == "root" \notin Strays /\ "boot" \notin Strays /\ EspPoints \subseteq Strays
BY SetsOf DEF Strays, EspPoints

LEMMA UndoneTwice ==
    ASSUME NEW s, NEW t, NEW u, Undoes(s, t), Undoes(t, u)
    PROVE  Undoes(s, u)
BY DEF Undoes

LEMMA UnmountKeeps ==
    ASSUME NEW m, NEW u \in ZfsUnmount(m)
    PROVE  u \subseteq m /\ m \cap Strays \subseteq u
<1>1. UnmountBoot(m) \subseteq m /\ m \cap Strays \subseteq UnmountBoot(m)
  BY StrayPoints DEF UnmountBoot
<1>2. UnmountAll(m) \subseteq m /\ m \cap Strays \subseteq UnmountAll(m)
  BY <1>1, StrayPoints DEF UnmountAll
<1>3. u = m \/ u = UnmountBoot(m) \/ u = UnmountAll(m)
  BY DEF ZfsUnmount
<1> QED BY <1>1, <1>2, <1>3

LEMMA ExportsUndo ==
    ASSUME NEW s \in Undoings, NEW p \in {BPOOL, RPOOL}, NEW t \in Exports(s, p)
    PROVE  t \in Undoings /\ Undoes(s, t) /\ Freed(s, p, t)
<1> DEFINE free == s.m \ {Dataset(p)}
<1>1. Dataset(p) \notin Strays
  BY StrayPoints DEF Dataset
<1>2. CASE ~Exportable(p, s.m, s.pools)
  <2>1. t = s
    BY <1>2 DEF Exports
  <2>2. Freed(s, p, t)
    <3> SUFFICES ASSUME s.m \cap Strays = {}, Backed(s.m, s.pools), p = BPOOL \/ BPOOL \notin s.pools
                 PROVE  FALSE
      BY DEF Freed
    <3>1. s.m \subseteq {"root", "boot"} /\ s.m \cap EspPoints = {}
      BY StrayPoints DEF Undoings, MountPoints
    <3>2. p # BPOOL => s.m \subseteq {"root"}
      BY <3>1 DEF Backed
    <3> QED BY <1>2, <3>1, <3>2 DEF Exportable
  <2> QED BY <2>1, <2>2 DEF Undoes
<1>3. CASE Exportable(p, s.m, s.pools) /\ t = [s EXCEPT !.m = free, !.pools = s.pools \ {p}]
  <2>1. t.m = free /\ t.pools = s.pools \ {p} /\ t.refused = s.refused /\ t \in Undoings
    BY <1>3 DEF Undoings
  <2>2. Backed(s.m, s.pools) => Backed(t.m, t.pools)
    <3>1. CASE p = BPOOL
      BY <2>1, <3>1, SetsOf DEF Backed, Dataset
    <3>2. CASE p = RPOOL
      <4>1. s.m \subseteq {"root"} /\ Dataset(p) = "root"
        BY <1>3, <3>2, SetsOf DEF Exportable, Dataset
      <4>2. t.m = {}
        BY <2>1, <4>1
      <4> QED BY <4>2 DEF Backed
    <3> QED BY <3>1, <3>2
  <2> QED BY <1>1, <2>1, <2>2 DEF Undoes, Freed
<1>4. ASSUME NEW m \in {s.m, free}, t = [s EXCEPT !.m = m, !.refused = s.refused \cup {p}]
      PROVE  t \in Undoings /\ Undoes(s, t) /\ Freed(s, p, t)
  <2>1. t.m = m /\ t.pools = s.pools /\ t.refused = s.refused \cup {p} /\ t \in Undoings
    BY <1>4 DEF Undoings
  <2>2. m \subseteq s.m /\ s.m \cap Strays \subseteq m
    BY <1>1
  <2> QED BY <2>1, <2>2 DEF Undoes, Freed, Backed
<1> QED BY <1>2, <1>3, <1>4 DEF Exports

LEMMA ReleasesOf ==
    ASSUME NEW s, NEW p, p \in s.pools, NEW t \in Releases(s, p)
    PROVE  \/ \E m \in ZfsUnmount(s.m) : t \in Exports([s EXCEPT !.m = m], p)
           \/ t = [s EXCEPT !.refused = s.refused \cup {p}]
<1> DEFINE all == UNION {Exports([s EXCEPT !.m = m], p) : m \in ZfsUnmount(s.m)}
           more == IF MayFail THEN {[s EXCEPT !.refused = s.refused \cup {p}]} ELSE {}
<1>1. Releases(s, p) = IF p \notin s.pools THEN {s} ELSE all \cup more
  BY DEF Releases
<1>2. t \in all => \E m \in ZfsUnmount(s.m) : t \in Exports([s EXCEPT !.m = m], p)
  OBVIOUS
<1>3. t \in more => t = [s EXCEPT !.refused = s.refused \cup {p}]
  OBVIOUS
<1> HIDE DEF all, more
<1>4. t \in all \/ t \in more
  BY <1>1
<1> QED BY <1>2, <1>3, <1>4

LEMMA ReleasesUndo ==
    ASSUME NEW s \in Undoings, NEW p \in {BPOOL, RPOOL}, NEW t \in Releases(s, p)
    PROVE  t \in Undoings /\ Undoes(s, t) /\ Freed(s, p, t)
<1>1. CASE p \notin s.pools
  <2>1. t = s
    BY <1>1 DEF Releases
  <2> QED BY <1>1, <2>1 DEF Undoes, Freed
<1>2. ASSUME NEW m \in ZfsUnmount(s.m), t \in Exports([s EXCEPT !.m = m], p)
      PROVE  t \in Undoings /\ Undoes(s, t) /\ Freed(s, p, t)
  <2> DEFINE u == [s EXCEPT !.m = m]
  <2>1. m \subseteq s.m /\ s.m \cap Strays \subseteq m
    BY UnmountKeeps
  <2>2. u \in Undoings /\ u.m = m /\ u.pools = s.pools /\ u.refused = s.refused
    BY <2>1 DEF Undoings
  <2>3. Undoes(s, u)
    BY <2>1, <2>2 DEF Undoes, Backed
  <2>4. t \in Exports(u, p)
    BY <1>2
  <2> HIDE DEF u
  <2>5. t \in Undoings /\ Undoes(u, t) /\ Freed(u, p, t)
    BY <2>2, <2>4, ExportsUndo
  <2>6. Freed(s, p, t)
    BY <2>1, <2>2, <2>3, <2>5 DEF Freed, Undoes
  <2> QED BY <2>3, <2>5, <2>6, UndoneTwice
<1>3. CASE t = [s EXCEPT !.refused = s.refused \cup {p}]
  <2>1. t.m = s.m /\ t.pools = s.pools /\ t.refused = s.refused \cup {p} /\ t \in Undoings
    BY <1>3 DEF Undoings
  <2> QED BY <2>1 DEF Undoes, Freed
<1>4. ASSUME p \in s.pools
      PROVE  \/ \E m \in ZfsUnmount(s.m) : t \in Exports([s EXCEPT !.m = m], p)
             \/ t = [s EXCEPT !.refused = s.refused \cup {p}]
  BY <1>4, ReleasesOf
<1> QED BY <1>1, <1>2, <1>3, <1>4

LEMMA ReleaseStep == ASSUME EngineInv, ReleaseExistingPools PROVE EngineInv'
<1>1. EngineTypes /\ PlanInv /\ PoolInv /\ MountInv
  BY InvParts
<1>2. /\ mounts \subseteq MountPoints /\ imported \subseteq {BPOOL, RPOOL}
      /\ session \in [mounts : Seq(EspPoints), binds : {<<>>, Binds},
                      pools : {<<>>, <<BPOOL>>, <<BPOOL, RPOOL>>}]
  BY InvParts
<1> DEFINE before == Undoing(mounts, left.refused)
<1>3. /\ At("release") /\ Ok /\ eng.pc = "install" /\ UNCHANGED <<media, session, target>>
      /\ \E first \in Releases(before, BPOOL) :
            \E s \in Releases(first, RPOOL) : Undone(s, left.lost, left.told)
  BY DEF ReleaseExistingPools, At, ReleaseOrder
<1>4. PICK first \in Releases(before, BPOOL) :
         \E s \in Releases(first, RPOOL) : Undone(s, left.lost, left.told)
  BY <1>3
<1>5. PICK s \in Releases(first, RPOOL) : Undone(s, left.lost, left.told)
  BY <1>4
<1>6. /\ before.m = mounts /\ before.pools = imported /\ before.refused = left.refused
      /\ before \in Undoings
  BY <1>1, <1>2 DEF Undoing, Undoings, EngineTypes, LeftKind
<1> HIDE DEF before
<1>7. first \in Undoings /\ Undoes(before, first) /\ Freed(before, BPOOL, first)
  BY <1>6, ReleasesUndo
<1>8. s \in Undoings /\ Undoes(first, s) /\ Freed(first, RPOOL, s)
  BY <1>7, ReleasesUndo
<1>9. /\ mounts' = s.m /\ imported' = s.pools /\ mounts' \subseteq mounts
      /\ imported' \subseteq imported /\ Backed(mounts', imported')
      /\ left' = [lost |-> left.lost, refused |-> s.refused, told |-> left.told \cap s.pools]
      /\ left' \in LeftKind
  <2>1. Undoes(before, s)
    BY <1>7, <1>8, UndoneTwice
  <2>2. Backed(mounts, imported)
    BY <1>1 DEF PoolInv
  <2>3. left' = [lost |-> left.lost, refused |-> s.refused, told |-> left.told \cap s.pools]
    BY <1>5 DEF Undone
  <2>4. left' \in LeftKind
    BY <1>1, <1>8, <2>3 DEF EngineTypes, LeftKind, Undoings
  <2> QED BY <1>5, <1>6, <2>1, <2>2, <2>3, <2>4 DEF Undone, Undoes
<1>10. Goes
  BY <1>3, GoesOn
<1>11. PICK w \in SUBSET Warnings : Warning(w)
  BY <1>10 DEF Goes
<1>12. /\ eng'.disks = eng.disks /\ eng'.pc = "install"
       /\ \A x : x # "release" /\ Ahead(x) => Ahead(x)'
  BY <1>1, <1>3, <1>11, Made
<1>13. Ahead("release")
  BY <1>1, <1>3, HeadAhead
<1>14. session.pools = <<>> /\ ToSet(session.pools) = {} /\ session' = session
  BY <1>1, <1>3, <1>13, SetsOf DEF PoolInv
<1>15. Ahead("bpool") /\ Ahead("rpool")
  <2>1. <<>> # <<BPOOL, RPOOL>>
    OBVIOUS
  <2> QED BY <1>1, <1>3, <1>14, <2>1 DEF PoolInv
<1>16. /\ Ahead("bpool")' /\ Ahead("rpool")'
       /\ ~Ahead("track esps")' => ~Ahead("track esps")
       /\ ~Ahead("track binds")' => ~Ahead("track binds")
  BY <1>12, <1>15
<1>17. PoolInv'
  <2>1. mounts' \cap Strays = {} /\ left'.refused = {} => imported' = {}
    <3> SUFFICES ASSUME s.m \cap Strays = {}, s.refused = {} PROVE s.pools = {}
      BY <1>9
    <3>1. mounts \cap Strays = {} /\ first.refused = {} /\ first.m \cap Strays = {}
      BY <1>6, <1>7, <1>8 DEF Undoes
    <3>2. Backed(mounts, imported) /\ Backed(first.m, first.pools)
      BY <1>1, <1>6, <1>7 DEF PoolInv, Undoes
    <3>3. BPOOL \notin first.pools
      BY <1>6, <1>7, <3>1, <3>2 DEF Freed
    <3>4. BPOOL \notin s.pools /\ RPOOL \notin s.pools
      BY <1>8, <3>1, <3>2, <3>3 DEF Freed, Undoes
    <3> QED BY <1>8, <3>4 DEF Undoings
  <2>2. imported' \subseteq left'.told
    BY <1>1, <1>9, <1>14 DEF PoolInv
  <2>3. imported' \subseteq {} \/ (session.mounts = <<>> /\ session.binds = <<>>)
    BY <1>1, <1>9, <1>14 DEF PoolInv
  <2> QED BY <1>9, <1>12, <1>14, <1>16, <2>1, <2>2, <2>3 DEF PoolInv
<1>18. MountInv'
  BY <1>1, <1>3, <1>12, <1>14, <1>16 DEF MountInv
<1>19. mounts' \subseteq MountPoints /\ imported' \subseteq {BPOOL, RPOOL}
  BY <1>2, <1>9
<1> QED BY <1>2, <1>3, <1>9, <1>10, <1>14, <1>17, <1>18, <1>19, PoolOk

LEMMA ExportsOfUndo ==
    ASSUME NEW s \in Undoings, NEW order \in {<<>>, <<BPOOL>>, <<BPOOL, RPOOL>>},
           NEW t \in ExportsOf(s, order)
    PROVE  /\ t \in Undoings /\ Undoes(s, t)
           /\ /\ s.m \cap Strays = {} /\ Backed(s.m, s.pools)
              /\ s.pools \subseteq ToSet(order) /\ t.refused = {}
              => t.pools = {}
<1>1. CASE order = <<>>
  <2>1. t = s
    BY <1>1 DEF ExportsOf
  <2> QED BY <1>1, <2>1, SetsOf DEF Undoes
<1>2. CASE order = <<BPOOL>>
  <2>1. t \in Exports(s, BPOOL)
    BY <1>2 DEF ExportsOf
  <2>2. t \in Undoings /\ Undoes(s, t) /\ Freed(s, BPOOL, t)
    BY <2>1, ExportsUndo
  <2>3. ToSet(order) = {BPOOL}
    BY <1>2, SetsOf
  <2> QED BY <2>2, <2>3 DEF Undoes, Freed
<1>3. CASE order = <<BPOOL, RPOOL>>
  <2>1. PICK u \in Exports(s, BPOOL) : t \in Exports(u, RPOOL)
    BY <1>3 DEF ExportsOf
  <2>2. u \in Undoings /\ Undoes(s, u) /\ Freed(s, BPOOL, u)
    BY <2>1, ExportsUndo
  <2>3. t \in Undoings /\ Undoes(u, t) /\ Freed(u, RPOOL, t)
    BY <2>1, <2>2, ExportsUndo
  <2>4. ASSUME s.m \cap Strays = {}, Backed(s.m, s.pools), t.refused = {}
        PROVE  t.pools = {}
    <3>1. u.refused = {} /\ u.m \cap Strays = {} /\ Backed(u.m, u.pools)
      BY <2>2, <2>3, <2>4 DEF Undoes
    <3>2. BPOOL \notin u.pools
      BY <2>2, <2>4, <3>1 DEF Freed
    <3>3. BPOOL \notin t.pools /\ RPOOL \notin t.pools
      BY <2>3, <2>4, <3>1, <3>2 DEF Freed, Undoes
    <3> QED BY <2>3, <3>3 DEF Undoings
  <2>5. Undoes(s, t)
    BY <2>2, <2>3, UndoneTwice
  <2> QED BY <2>3, <2>4, <2>5
<1> QED BY <1>1, <1>2, <1>3

LEMMA TeardownStep == ASSUME EngineInv, Teardown PROVE EngineInv'
<1>1. EngineTypes /\ PlanInv /\ PoolInv /\ MountInv /\ FactInv /\ MediaInv
  BY InvParts
<1>2. /\ mounts \subseteq MountPoints /\ imported \subseteq {BPOOL, RPOOL}
      /\ session \in [mounts : Seq(EspPoints), binds : {<<>>, Binds},
                      pools : {<<>>, <<BPOOL>>, <<BPOOL, RPOOL>>}]
      /\ target \subseteq Fact /\ left \in LeftKind
      /\ media \in [Disks -> [table : {"old", "zapped", "new"}, esp : SUBSET Loaders]]
  BY InvParts
<1> DEFINE lost == (mounts \ {"root", "boot"}) \ Recorded
           told == left.told \cup ToSet(session.pools)
<1>3. /\ eng.pc = "failing" \/ (eng.pc = "install" /\ eng.todo = <<>>)
      /\ session' = EmptySession
      /\ eng' = [eng EXCEPT !.pc = IF eng.pc = "failing" THEN "failed" ELSE "installed",
                            !.todo = <<>>]
      /\ media' = media /\ target' = target
  BY DEF Teardown
<1>4. PICK stuck \in Stuck : \E m \in ZfsUnmount((mounts \ Recorded) \cup stuck) :
         \E s \in ExportsOf(Undoing(m, left.refused \cup stuck), session.pools) : Undone(s, lost, told)
  BY DEF Teardown, ExportOrder
<1>5. PICK m \in ZfsUnmount((mounts \ Recorded) \cup stuck) :
         \E s \in ExportsOf(Undoing(m, left.refused \cup stuck), session.pools) : Undone(s, lost, told)
  BY <1>4
<1> DEFINE u == Undoing(m, left.refused \cup stuck)
<1>6. PICK s \in ExportsOf(u, session.pools) : Undone(s, lost, told)
  BY <1>5
<1>7. Recorded \subseteq Strays /\ stuck \subseteq mounts \cap Recorded
  <2>1. stuck \subseteq mounts \cap Recorded
    BY <1>4 DEF Stuck
  <2>2. ToSet(session.binds) \subseteq Strays
    BY <1>2, SetsOf DEF Strays
  <2>3. ToSet(session.mounts) \subseteq Strays
    <3>1. session.mounts \in Seq(EspPoints)
      BY <1>2
    <3> QED BY <3>1, ElementOfSeq DEF ToSet, Strays
  <2> QED BY <2>1, <2>2, <2>3 DEF Recorded
<1>8. /\ m \subseteq (mounts \ Recorded) \cup stuck /\ m \subseteq mounts
      /\ lost \subseteq Strays /\ lost \subseteq m /\ stuck \subseteq m
  <2>1. /\ m \subseteq (mounts \ Recorded) \cup stuck
        /\ ((mounts \ Recorded) \cup stuck) \cap Strays \subseteq m
    BY UnmountKeeps
  <2>2. lost \subseteq Strays
    BY <1>2 DEF MountPoints
  <2> QED BY <1>7, <2>1, <2>2
<1>9. u \in Undoings /\ u.m = m /\ u.pools = imported /\ u.refused = left.refused \cup stuck
  BY <1>2, <1>7, <1>8 DEF Undoing, Undoings, LeftKind
<1> HIDE DEF u
<1>10. /\ s \in Undoings /\ Undoes(u, s)
       /\ /\ m \cap Strays = {} /\ Backed(m, imported) /\ imported \subseteq ToSet(session.pools)
          /\ s.refused = {}
          => s.pools = {}
  <2>1. session.pools \in {<<>>, <<BPOOL>>, <<BPOOL, RPOOL>>}
    BY <1>2
  <2> QED BY <1>9, <2>1, ExportsOfUndo
<1>11. Backed(m, imported)
  BY <1>1, <1>8 DEF PoolInv, Backed
<1>12. /\ mounts' = s.m /\ imported' = s.pools /\ mounts' \subseteq m /\ imported' \subseteq imported
       /\ Backed(mounts', imported') /\ stuck \subseteq s.refused /\ left.refused \subseteq s.refused
       /\ left' = [lost |-> lost, refused |-> s.refused, told |-> told \cap s.pools]
       /\ imported' \subseteq left'.told /\ left' \in LeftKind
  <2>1. left' = [lost |-> lost, refused |-> s.refused, told |-> told \cap s.pools]
    BY <1>6 DEF Undone
  <2>2. /\ mounts' = s.m /\ imported' = s.pools /\ mounts' \subseteq m /\ imported' \subseteq imported
        /\ Backed(mounts', imported') /\ stuck \subseteq s.refused /\ left.refused \subseteq s.refused
    BY <1>6, <1>9, <1>10, <1>11 DEF Undone, Undoes
  <2>3. imported' \subseteq left'.told
    BY <1>1, <2>1, <2>2 DEF PoolInv
  <2>4. told \cap s.pools \subseteq {BPOOL, RPOOL}
    BY <1>10 DEF Undoings
  <2>5. left' \in LeftKind
    <3>1. s.refused \subseteq Strays \cup {BPOOL, RPOOL}
      BY <1>10 DEF Undoings
    <3> HIDE DEF lost, told
    <3> QED BY <1>8, <2>1, <2>4, <3>1 DEF LeftKind
  <2> QED BY <2>1, <2>2, <2>3, <2>5
<1>13. lost = {} /\ s.refused = {} => mounts' = {} /\ imported' = {}
  <2> SUFFICES ASSUME lost = {}, s.refused = {} PROVE mounts' = {} /\ imported' = {}
    OBVIOUS
  <2>1. m \subseteq {"root", "boot"} /\ m \cap Strays = {} /\ left.refused = {}
    BY <1>8, <1>12, StrayPoints
  <2>2. ~Ahead("release")
    BY <1>1, <1>3, NothingAhead DEF PoolInv
  <2>3. mounts \cap Strays # {} => session.mounts # <<>> \/ session.binds # <<>>
    <3>1. mounts \cap Strays \subseteq Recorded
      BY StrayPoints
    <3> QED BY <3>1, SetsOf DEF Recorded
  <2>4. imported \subseteq ToSet(session.pools)
    BY <1>1, <1>3, <2>1, <2>2, <2>3 DEF PoolInv
  <2>5. s.pools = {}
    BY <1>10, <1>11, <2>1, <2>4
  <2>6. imported' = {} /\ mounts' \subseteq {"root", "boot"} /\ Backed(mounts', {})
    BY <1>12, <2>1, <2>5
  <2> QED BY <2>6 DEF Backed
<1>14. eng' = [pc |-> IF eng.pc = "failing" THEN "failed" ELSE "installed", todo |-> <<>>,
               disks |-> eng.disks, index |-> eng.index, attempt |-> eng.attempt,
               warned |-> eng.warned]
  BY <1>1, <1>3 DEF EngineTypes
<1>15. EngineTypes'
  <2>1. eng'.disks = eng.disks /\ <<>> \in Seq(Calls(Len(eng.disks)))
    BY <1>14
  <2>2. eng' \in [pc : {"idle", "install", "failing", "failed", "installed"},
                 todo : Seq(Calls(Len(eng'.disks))), disks : {<<>>} \cup Selections,
                 index : Nat, attempt : 0..MaxAttempts,
                 warned : SUBSET Warnings]
    BY <1>1, <1>14, <2>1, EngFields
  <2>3. session' \in [mounts : Seq(EspPoints), binds : {<<>>, Binds},
                     pools : {<<>>, <<BPOOL>>, <<BPOOL, RPOOL>>}]
    BY <1>3 DEF EmptySession
  <2> QED BY <1>2, <1>3, <1>8, <1>12, <2>2, <2>3 DEF EngineTypes
<1>16. eng'.pc \in {"failed", "installed"}
  BY <1>14
<1>17. PlanInv' /\ MountInv' /\ FactInv' /\ MediaInv'
  BY <1>16 DEF PlanInv, MountInv, FactInv, MediaInv
<1>18. PoolInv'
  <2>1. ToSet(session'.pools) = {} /\ session'.mounts = <<>> /\ session'.binds = <<>>
    BY <1>3, SetsOf DEF EmptySession
  <2> QED BY <1>3, <1>12, <1>16, <2>1 DEF PoolInv
<1>19. Unwound'
  <2>1. mounts' \subseteq {"root", "boot"} \cup left'.lost \cup left'.refused
    BY <1>8, <1>12
  <2>2. left'.lost = {} /\ left'.refused = {} => mounts' = {} /\ imported' = {}
    BY <1>12, <1>13
  <2> QED BY <1>12, <2>1, <2>2 DEF Unwound
<1>20. ASSUME eng'.pc = "installed"
       PROVE  InstalledBoots' /\ InstalledLogsIn' /\ EachDiskBoots'
  <2>1. eng.pc = "install" /\ eng.todo = <<>>
    BY <1>3, <1>14, <1>20
  <2>2. (\A x : ~Ahead(x)) /\ (\A x, i : ~AheadOn(x, i))
    BY <2>1, NothingAhead
  <2>3. eng'.disks = eng.disks /\ DOMAIN eng.disks = 1..Len(eng.disks) /\ eng'.warned = eng.warned
    <3>1. eng.disks \in Seq(Disks)
      BY <1>1, <2>1 DEF PlanInv, Selections, Mirrors
    <3> QED BY <1>14, <3>1, LenProperties
  <2>4. InstalledBoots'
    <3>1. {"system", "fstab", "cache in initramfs", "menu"} \subseteq target
      BY <1>1, <2>1, <2>2 DEF FactInv
    <3>2. \A i \in 1..Len(eng.disks) : media[eng.disks[i]].table = "new"
      BY <1>1, <2>1, <2>2 DEF MediaInv
    <3> QED BY <1>3, <1>12, <2>3, <3>1, <3>2 DEF InstalledBoots
  <2>5. InstalledLogsIn'
    BY <1>1, <1>3, <2>1, <2>2 DEF FactInv, InstalledLogsIn
  <2>6. EachDiskBoots'
    <3>1. \A i \in 1..Len(eng.disks) :
             "fallback" \in media[eng.disks[i]].esp \/ ("sync" \in eng.warned /\ i # 1)
      BY <1>1, <2>1, <2>2 DEF MediaInv
    <3> QED BY <1>3, <2>3, <3>1 DEF EachDiskBoots
  <2> QED BY <2>4, <2>5, <2>6
<1>21. eng'.pc # "installed" => InstalledBoots' /\ InstalledLogsIn' /\ EachDiskBoots'
  BY DEF InstalledBoots, InstalledLogsIn, EachDiskBoots
<1> QED BY <1>15, <1>17, <1>18, <1>19, <1>20, <1>21 DEF EngineInv, EndInv

-----------------------------------------------------------------------------
(* Every step. *)

LEMMA InstallStep == ASSUME EngineInv, Install PROVE EngineInv'
<1>1. CASE ReleaseExistingPools
  BY <1>1, ReleaseStep
<1>2. CASE Prepare \/ InstallLoader \/ InstallEspSync
  BY <1>2, PrepareStep, LoaderStep, SyncStep
<1>3. CASE Settle \/ FormatEsps \/ InstallEntry \/ SaveLog
  BY <1>3, IdleStep
<1>4. CASE CreateBpool \/ CreateRpool \/ CreateDatasets
  BY <1>4, BpoolStep, RpoolStep, DatasetsStep
<1>5. CASE FormatEsp \/ TrackEsps \/ Bind \/ TrackBinds
  BY <1>5, FormatEspStep, TrackEspsStep, BindStep, TrackBindsStep
<1>6. CASE CopySystem \/ StripLiveLayer \/ VerifyPamStack \/ Configure
  BY <1>6, SystemStep
<1>7. CASE CreateAccount \/ WriteConfiguration
  BY <1>7, AccountStep
<1>8. CASE WriteCachefile \/ RegenerateInitramfs \/ ConfigureGrub \/ GenerateMenu
  BY <1>8, BootFilesStep
<1>9. CASE Teardown
  BY <1>9, TeardownStep
<1> QED BY <1>1, <1>2, <1>3, <1>4, <1>5, <1>6, <1>7, <1>8, <1>9 DEF Install

LEMMA BeginStep == ASSUME EngineInv, NEW ds \in Mirrors, Begin(ds) PROVE EngineInv'
<1>1. EngineTypes /\ PoolInv
  BY InvParts
<1>2. /\ mounts \subseteq MountPoints /\ imported \subseteq {BPOOL, RPOOL}
      /\ media \in [Disks -> [table : {"old", "zapped", "new"}, esp : SUBSET Loaders]]
      /\ target \subseteq Fact /\ left \in LeftKind
  BY InvParts
<1>3. /\ eng.pc = "idle" /\ eng.attempt < MaxAttempts
      /\ session' = EmptySession /\ UNCHANGED <<media, mounts, imported, target, left>>
  BY DEF Begin
<1>4. eng' = [pc |-> "install", todo |-> Plan(Len(ds)), disks |-> ds, index |-> eng.index,
              attempt |-> eng.attempt + 1, warned |-> eng.warned]
  BY <1>1 DEF Begin, EngineTypes
<1>5. Len(ds) \in 1..2 /\ ds \in Selections
  BY DEF Mirrors, Selections
<1>6. PICK n \in 1..2 : n = Len(ds)
  BY <1>5
<1>7. PICK plan : plan = Plan(n)
  OBVIOUS
<1>8. /\ eng'.pc = "install" /\ eng'.todo = plan /\ eng'.disks = ds
      /\ eng'.attempt = eng.attempt + 1
  BY <1>4, <1>6, <1>7
<1>9. /\ Stretch(plan, n, 1, 25)
      /\ \A i \in 1..n : AheadIn(plan, "prepare", i) /\ AheadIn(plan, "loader", i)
      /\ AnyIn(plan, "release") /\ AnyIn(plan, "bpool") /\ AnyIn(plan, "rpool") /\ AnyIn(plan, "track esps")
      /\ AnyIn(plan, "track binds") /\ AnyIn(plan, "copy") /\ AnyIn(plan, "pam")
      /\ AnyIn(plan, "configure") /\ AnyIn(plan, "account") /\ AnyIn(plan, "seed")
      /\ AnyIn(plan, "cachefile") /\ AnyIn(plan, "initramfs") /\ AnyIn(plan, "menu")
  BY <1>7, PlanStretch
<1>10. /\ Ahead("release")'
       /\ Ahead("bpool")' /\ Ahead("rpool")' /\ Ahead("track esps")' /\ Ahead("track binds")'
       /\ Ahead("copy")' /\ Ahead("pam")' /\ Ahead("configure")' /\ Ahead("account")'
       /\ Ahead("seed")' /\ Ahead("cachefile")' /\ Ahead("initramfs")' /\ Ahead("menu")'
  BY <1>8, <1>9 DEF Ahead
<1>11. \A i \in 1..n : AheadOn("prepare", i)' /\ AheadOn("loader", i)'
  BY <1>8, <1>9 DEF AheadOn
<1>12. plan \in Seq(Calls(n))
  BY <1>9 DEF Stretch
<1>13. eng.attempt + 1 \in 0..MaxAttempts
  BY <1>1, <1>3, EngFields, EngineAssumption
<1>14. eng' \in [pc : {"idle", "install", "failing", "failed", "installed"},
                todo : Seq(Calls(Len(eng'.disks))), disks : {<<>>} \cup Selections,
                index : Nat, attempt : 0..MaxAttempts,
                warned : SUBSET Warnings]
  BY <1>1, <1>4, <1>5, <1>6, <1>7, <1>8, <1>12, <1>13, EngFields
<1>15. EngineTypes'
  <2>1. session' \in [mounts : Seq(EspPoints), binds : {<<>>, Binds},
                     pools : {<<>>, <<BPOOL>>, <<BPOOL, RPOOL>>}]
    BY <1>3 DEF EmptySession
  <2> QED BY <1>2, <1>3, <1>14, <2>1 DEF EngineTypes
<1>16. PlanInv'
  BY <1>6, <1>8, <1>9 DEF PlanInv
<1>17. PoolInv'
  <2>1. /\ ToSet(session'.pools) = {} /\ session'.mounts = <<>> /\ session'.binds = <<>>
        /\ session'.pools = <<>>
    BY <1>3, SetsOf DEF EmptySession
  <2>2. session = EmptySession
    BY <1>1, <1>3 DEF PoolInv
  <2>3. ToSet(session.pools) = {}
    BY <2>2, SetsOf DEF EmptySession
  <2>4. imported' \subseteq left'.told /\ Backed(mounts', imported')
    BY <1>1, <1>3, <2>3 DEF PoolInv
  <2> QED BY <1>8, <1>10, <2>1, <2>4 DEF PoolInv
<1>18. MountInv' /\ FactInv'
  BY <1>10 DEF MountInv, FactInv
<1>19. MediaInv'
  BY <1>6, <1>8, <1>11 DEF MediaInv
<1>20. EndInv'
  BY <1>8 DEF EndInv, Unwound, InstalledBoots, InstalledLogsIn, EachDiskBoots
<1> QED BY <1>15, <1>16, <1>17, <1>18, <1>19, <1>20 DEF EngineInv

LEMMA AgainStep == ASSUME EngineInv, Again PROVE EngineInv'
<1>1. EngineTypes /\ PoolInv
  BY InvParts
<1>2. /\ mounts \subseteq MountPoints /\ imported \subseteq {BPOOL, RPOOL}
      /\ session \in [mounts : Seq(EspPoints), binds : {<<>>, Binds},
                      pools : {<<>>, <<BPOOL>>, <<BPOOL, RPOOL>>}]
      /\ left \in LeftKind
      /\ media \in [Disks -> [table : {"old", "zapped", "new"}, esp : SUBSET Loaders]]
  BY InvParts
<1>3. /\ eng.pc \in {"failed", "installed"} /\ UNCHANGED <<media, mounts, imported, session>>
      /\ target' = {} /\ left' = [NothingLeft EXCEPT !.told = left.told]
  BY DEF Again
<1>4. eng' = [pc |-> "idle", todo |-> <<>>, disks |-> <<>>, index |-> 0, attempt |-> eng.attempt,
              warned |-> {}]
  BY DEF Again, Idle
<1>5. eng'.pc = "idle" /\ eng'.disks = <<>>
  BY <1>4
<1>6. eng' \in [pc : {"idle", "install", "failing", "failed", "installed"},
               todo : Seq(Calls(Len(eng'.disks))), disks : {<<>>} \cup Selections,
               index : Nat, attempt : 0..MaxAttempts,
               warned : SUBSET Warnings]
  BY <1>1, <1>4, <1>5, EngFields
<1>7. left' = [lost |-> {}, refused |-> {}, told |-> left.told]
  BY <1>3 DEF NothingLeft
<1>8. left' \in LeftKind /\ left'.told = left.told
  BY <1>2, <1>7 DEF LeftKind
<1>9. EngineTypes'
  BY <1>2, <1>3, <1>6, <1>8 DEF EngineTypes
<1>10. PoolInv'
  <2>1. session' = EmptySession /\ session = EmptySession
    BY <1>1, <1>3 DEF PoolInv
  <2>2. ToSet(session.pools) = {} /\ session.mounts = <<>> /\ session.binds = <<>>
    BY <2>1, SetsOf DEF EmptySession
  <2> QED BY <1>1, <1>3, <1>5, <1>8, <2>1, <2>2 DEF PoolInv
<1>11. PlanInv' /\ MountInv' /\ FactInv' /\ MediaInv' /\ EndInv'
  BY <1>5
  DEF PlanInv, MountInv, FactInv, MediaInv, EndInv, Unwound, InstalledBoots, InstalledLogsIn,
      EachDiskBoots
<1> QED BY <1>9, <1>10, <1>11 DEF EngineInv

\* Nothing of the engine changes.
LEMMA EngineStutter == ASSUME EngineInv, UNCHANGED engineVars PROVE EngineInv'
<1>1. /\ media' = media /\ mounts' = mounts /\ imported' = imported /\ session' = session
      /\ target' = target /\ eng' = eng /\ left' = left
  BY DEF engineVars
<1>2. EngineTypes'
  BY <1>1 DEF EngineInv, EngineTypes
<1>3. PlanInv'
  BY <1>1 DEF EngineInv, PlanInv
<1>4. PoolInv'
  BY <1>1 DEF EngineInv, PoolInv, Ahead
<1>5. MountInv'
  BY <1>1 DEF EngineInv, MountInv, Ahead
<1>6. FactInv'
  BY <1>1 DEF EngineInv, FactInv, Ahead
<1>7. MediaInv'
  BY <1>1 DEF EngineInv, MediaInv, Ahead, AheadOn
<1>8. EndInv'
  BY <1>1 DEF EngineInv, EndInv, Unwound, InstalledBoots, InstalledLogsIn, EachDiskBoots
<1> QED BY <1>2, <1>3, <1>4, <1>5, <1>6, <1>7, <1>8 DEF EngineInv

LEMMA EngineStarts == ASSUME EngineInit PROVE EngineInv
<1>1. eng = [pc |-> "idle", todo |-> <<>>, disks |-> <<>>, index |-> 0, attempt |-> 0,
             warned |-> {}]
  BY DEF EngineInit, Idle
<1>2. /\ eng.pc = "idle" /\ mounts = {} /\ imported = {} /\ session = EmptySession
      /\ target = {} /\ media = Untouched
      /\ left = [lost |-> {}, refused |-> {}, told |-> {}]
  BY <1>1 DEF EngineInit, NothingLeft
<1>3. eng \in [pc : {"idle", "install", "failing", "failed", "installed"},
              todo : Seq(Calls(Len(eng.disks))), disks : {<<>>} \cup Selections,
              index : Nat, attempt : 0..MaxAttempts,
              warned : SUBSET Warnings]
  <2>1. 0 \in 0..MaxAttempts
    BY EngineAssumption
  <2> QED BY <1>1, <2>1
<1>4. /\ session \in [mounts : Seq(EspPoints), binds : {<<>>, Binds},
                      pools : {<<>>, <<BPOOL>>, <<BPOOL, RPOOL>>}]
      /\ ToSet(session.pools) = {}
  BY <1>2, SetsOf DEF EmptySession
<1>5. /\ media \in [Disks -> [table : {"old", "zapped", "new"}, esp : SUBSET Loaders]]
      /\ left \in LeftKind
  BY <1>2 DEF Untouched, LeftKind
<1>6. EngineTypes
  BY <1>2, <1>3, <1>4, <1>5 DEF EngineTypes
<1>7. PoolInv
  BY <1>2, <1>4 DEF PoolInv, Backed
<1>8. PlanInv /\ MountInv /\ FactInv /\ MediaInv /\ EndInv
  BY <1>2
  DEF PlanInv, MountInv, FactInv, MediaInv, EndInv, Unwound, InstalledBoots, InstalledLogsIn,
      EachDiskBoots
<1> QED BY <1>6, <1>7, <1>8 DEF EngineInv

-----------------------------------------------------------------------------
(* The invariant. *)

Screens == {"start", "preflight", "welcome", "enumerate", "disks", "warning", "erase",
            "password", "hostname", "summary", "begin", "installing", "failed", "finished",
            "leaving", "over"}
Words == Passwords \cup Hostnames \cup {"ERASE", "yes", "quit", "r", "s", Default}
Exits == {"", "failed", Cancelled, "rebooting", "shell", "interrupted"}
Terms == {"cooked", "noecho", "echo", "raw"}

\* The screens that may be the last.
MayEnd == Questions \cup {"preflight", "enumerate", "failed"}

\* No disk is offered twice, and none is chosen twice.
Offers == {ds \in Seq(Disks) : \A i, j \in 1..Len(ds) : ds[i] = ds[j] => i = j}

UiType ==
    [fe : {"none", "plain", "tui"}, screen : Screens, term : Terms,
     disks : Offers, chosen : {<<>>} \cup Mirrors, cursor : Nat,
     picked : {s \in Seq(Nat) : Len(s) <= 2}, first : Words, second : Words, active : {0, 1},
     keys : 0..MaxKeys, erase : {<<>>} \cup Mirrors, consent : SUBSET Disks, password : Words,
     hostname : Words, agreed : BOOLEAN, exit : Exits]

CursorIn(u) == u.cursor = 1 \/ u.cursor \in 1..Len(u.disks)

\* What has been answered by the time a screen is shown.
Answered(screen, u) ==
    /\ screen \in {"warning", "erase", "password", "hostname", "summary", "begin"} =>
          u.chosen \in Mirrors
    /\ screen \in {"password", "hostname", "summary", "begin"} =>
          u.erase = u.chosen /\ ToSet(u.erase) \subseteq u.consent
    /\ screen \in {"hostname", "summary", "begin"} => ValidPassword(u.password, u.password)
    /\ screen \in {"summary", "begin"} => ValidHostname(u.hostname)
    /\ screen = "begin" => u.agreed

ScreenInv == ui \in UiType /\ CursorIn(ui) /\ Answered(ui.screen, ui)

\* Everything was answered, for the disks the engine works on.
Confirmed(u, ds) ==
    /\ ds \in Mirrors /\ ds = u.erase /\ ToSet(ds) \subseteq u.consent
    /\ ValidPassword(u.password, u.password) /\ ValidHostname(u.hostname) /\ u.agreed

\* Where the engine is while a screen is shown.
Reached(screen, pc) ==
    /\ screen \notin {"installing", "failed", "finished", "leaving", "over"} => pc = "idle"
    /\ screen \in {"failed", "finished"} => pc \in {"failed", "installed"}
    /\ screen = "installing" => pc # "idle"

RunInv ==
    /\ Reached(ui.screen, eng.pc)
    /\ eng.pc \in {"install", "failing"} => Confirmed(ui, eng.disks)
    /\ Written \subseteq ui.consent

InstallerInv == EngineInv /\ ScreenInv /\ RunInv

-----------------------------------------------------------------------------
(* The three ways a screen ends. *)

LEMMA UiFields ==
    ASSUME NEW u \in UiType
    PROVE  /\ u.fe \in {"none", "plain", "tui"} /\ u.screen \in Screens
           /\ u.term \in Terms /\ u.disks \in Offers
           /\ u.chosen \in {<<>>} \cup Mirrors /\ u.cursor \in Nat
           /\ u.picked \in {s \in Seq(Nat) : Len(s) <= 2} /\ u.first \in Words
           /\ u.second \in Words /\ u.active \in {0, 1} /\ u.keys \in 0..MaxKeys
           /\ u.erase \in {<<>>} \cup Mirrors /\ u.consent \subseteq Disks
           /\ u.password \in Words /\ u.hostname \in Words /\ u.agreed \in BOOLEAN
           /\ u.exit \in Exits
BY DEF UiType

\* The engine does nothing meanwhile.
LEMMA EngineWaits ==
    ASSUME UNCHANGED engineVars
    PROVE  media' = media /\ eng' = eng /\ Written' = Written
BY DEF engineVars, Written

\* On to a screen, with what it may rely on.
LEMMA GotoStep ==
    ASSUME InstallerInv, NEW u \in UiType, NEW screen \in Screens, Goto(screen, u),
           Answered(screen, u), Reached(screen, eng.pc), eng.pc \notin {"install", "failing"},
           ui.consent \subseteq u.consent
    PROVE  InstallerInv'
<1>1. UNCHANGED engineVars
  BY DEF Goto
<1>2. /\ ui' = [u EXCEPT !.screen = screen, !.keys = 0, !.cursor = 1, !.picked = <<>>,
                         !.first = "", !.second = "", !.active = 0]
      /\ 0 \in 0..MaxKeys /\ "" \in Words /\ <<>> \in {s \in Seq(Nat) : Len(s) <= 2}
  BY ScreenAssumption DEF Goto, Words, Hostnames
<1>3. ui' \in UiType
  BY <1>2 DEF UiType
<1>4. /\ ui'.screen = screen /\ ui'.cursor = 1 /\ ui'.chosen = u.chosen /\ ui'.erase = u.erase
      /\ ui'.consent = u.consent /\ ui'.password = u.password /\ ui'.hostname = u.hostname
      /\ ui'.agreed = u.agreed
  BY <1>2 DEF UiType
<1>5. Answered(screen, ui')
  BY <1>4 DEF Answered
<1>6. ScreenInv'
  BY <1>3, <1>4, <1>5 DEF ScreenInv, CursorIn
<1>7. eng' = eng /\ Written' = Written
  BY <1>1, EngineWaits
<1>8. RunInv'
  BY <1>4, <1>7 DEF RunInv, InstallerInv
<1>9. EngineInv'
  BY <1>1, EngineStutter DEF InstallerInv
<1> QED BY <1>6, <1>8, <1>9 DEF InstallerInv

\* Only a screen's own state differs.
Kept(u) ==
    /\ u \in UiType /\ CursorIn(u) /\ u.screen = ui.screen /\ u.keys = ui.keys
    /\ u.chosen = ui.chosen /\ u.erase = ui.erase /\ u.consent = ui.consent
    /\ u.password = ui.password /\ u.hostname = ui.hostname /\ u.agreed = ui.agreed

\* The screen stays, whatever of its own state changes.
LEMMA StayStep ==
    ASSUME InstallerInv, NEW u, Kept(u), Stay(u)
    PROVE  InstallerInv'
<1> USE DEF Kept
<1>1. UNCHANGED engineVars
  BY DEF Stay
<1>2. ui' = [u EXCEPT !.keys = ui.keys + 1] /\ ui.keys < MaxKeys /\ ui.keys \in 0..MaxKeys
  BY UiFields DEF Stay, InstallerInv, ScreenInv, UiType
<1>3. ui.keys + 1 \in 0..MaxKeys
  BY <1>2, ScreenAssumption
<1>4. ui' \in UiType
  BY <1>2, <1>3 DEF UiType
<1>5. /\ ui'.screen = ui.screen /\ ui'.cursor = u.cursor /\ ui'.disks = u.disks
      /\ ui'.chosen = ui.chosen /\ ui'.erase = ui.erase
      /\ ui'.consent = ui.consent /\ ui'.password = ui.password /\ ui'.hostname = ui.hostname
      /\ ui'.agreed = ui.agreed
  BY <1>2 DEF UiType
<1>6. Answered(ui.screen, ui')
  BY <1>5 DEF Answered, InstallerInv, ScreenInv
<1>7. ScreenInv'
  BY <1>4, <1>5, <1>6 DEF ScreenInv, CursorIn
<1>8. eng' = eng /\ Written' = Written
  BY <1>1, EngineWaits
<1>9. RunInv'
  BY <1>5, <1>8 DEF RunInv, InstallerInv, Confirmed
<1>10. EngineInv'
  BY <1>1, EngineStutter DEF InstallerInv
<1> QED BY <1>7, <1>9, <1>10 DEF InstallerInv

\* The end, whoever reaches it, with what run() held gone; the engine is not at work.
LEMMA LeaveStep ==
    ASSUME InstallerInv, ui.screen \in MayEnd, NEW how \in Exits, NEW term \in Terms,
           Leaving(how, term)
    PROVE  InstallerInv'
<1>1. UNCHANGED engineVars /\ ui \in UiType
  BY DEF Leaving, InstallerInv, ScreenInv
<1>2. ui.fe \in {"none", "plain", "tui"} /\ ui.consent \subseteq Disks
  BY <1>1, UiFields
<1>3. ui' = [Ui0 EXCEPT !.screen = "leaving", !.fe = ui.fe, !.consent = ui.consent, !.exit = how,
                        !.term = term]
  BY DEF Leaving
<1>4. /\ "leaving" \in Screens /\ "" \in Words /\ 0 \in 0..MaxKeys
      /\ <<>> \in Offers /\ <<>> \in {s \in Seq(Nat) : Len(s) <= 2}
  BY ScreenAssumption DEF Screens, Words, Hostnames, Offers
<1>5. ui' \in UiType
  BY <1>2, <1>3, <1>4 DEF UiType, Ui0
<1>6. ui'.screen = "leaving" /\ ui'.cursor = 1 /\ ui'.consent = ui.consent
  BY <1>3 DEF Ui0
<1>7. ScreenInv'
  BY <1>5, <1>6 DEF ScreenInv, CursorIn, Answered
<1>8. eng' = eng /\ Written' = Written
  BY <1>1, EngineWaits
<1>9. eng.pc \notin {"install", "failing"}
  BY DEF InstallerInv, RunInv, Reached, MayEnd, Questions
<1>10. RunInv'
  BY <1>6, <1>8, <1>9 DEF RunInv, InstallerInv, Reached
<1>11. EngineInv'
  BY <1>1, EngineStutter DEF InstallerInv
<1> QED BY <1>7, <1>10, <1>11 DEF InstallerInv

\* The terminal as it is.
LEMMA LeaveSame ==
    ASSUME InstallerInv, ui.screen \in MayEnd, NEW how \in Exits, Leave(how)
    PROVE  InstallerInv'
<1>1. ui.term \in Terms
  BY UiFields DEF InstallerInv, ScreenInv
<1> QED BY <1>1, LeaveStep DEF Leave

LEMMA Ending ==
    {"welcome", "enumerate", "disks", "warning", "erase", "password", "hostname", "summary",
     "failed", "finished"} \subseteq MayEnd
BY DEF MayEnd, Questions

LEMMA AbortedStep == ASSUME InstallerInv, ui.screen \in MayEnd, Aborted PROVE InstallerInv'
<1>1. Cancelled \in Exits
  BY DEF Exits
<1> QED BY <1>1, LeaveSame DEF Aborted

\* A screen on which a question is asked, the engine waiting.
LEMMA Asking ==
    ASSUME InstallerInv
    PROVE  /\ ui \in UiType /\ CursorIn(ui) /\ Answered(ui.screen, ui)
           /\ ui.screen \notin {"installing", "failed", "finished", "leaving", "over"} => eng.pc = "idle"
           /\ ui.screen \in {"failed", "finished"} => eng.pc \in {"failed", "installed"}
BY DEF InstallerInv, ScreenInv, RunInv, Reached

\* Another key, and nothing of the screen changes.
LEMMA StaySame == ASSUME InstallerInv, Stay(ui) PROVE InstallerInv'
BY Asking, StayStep DEF Kept

\* On to a screen that relies on no more than this one.
LEMMA GotoSame ==
    ASSUME InstallerInv, NEW screen \in Screens, Goto(screen, ui),
           Answered(screen, ui), Reached(screen, eng.pc), eng.pc \notin {"install", "failing"}
    PROVE  InstallerInv'
BY Asking, GotoStep

-----------------------------------------------------------------------------
(* The disks. *)

\* What sort_by leaves is a list without repetition.
LEMMA SortedOffers ==
    ASSUME NEW S \in SUBSET Disks, NEW s \in Sorted(S)
    PROVE  s \in Offers
<1>1. IsFiniteSet(S) /\ S \subseteq Nat
  BY ScreenAssumption, FS_Subset
<1>2. PICK n \in Nat : n = Cardinality(S)
  BY <1>1, FS_CardinalityType
<1>3. s \in [1..n -> S] /\ \A i, j \in 1..n : i < j => s[i] < s[j]
  BY <1>2 DEF Sorted
<1>4. s \in Seq(S) /\ Len(s) = n
  BY <1>3
<1>5. s \in Seq(Disks)
  BY <1>4
<1>6. \A i, j \in 1..n : s[i] = s[j] => i = j
  <2> SUFFICES ASSUME NEW i \in 1..n, NEW j \in 1..n, s[i] = s[j], i # j PROVE FALSE
    OBVIOUS
  <2>1. s[i] \in Nat /\ s[j] \in Nat
    BY <1>1, <1>3
  <2>2. i < j \/ j < i
    OBVIOUS
  <2>3. s[i] < s[j] \/ s[j] < s[i]
    BY <1>3, <2>2
  <2> QED BY <2>1, <2>3
<1> QED BY <1>4, <1>5, <1>6 DEF Offers

LEMMA EnumerateStep ==
    ASSUME InstallerInv, NEW found \in BOOLEAN, Enumerate(found)
    PROVE  InstallerInv'
<1>1. ui \in UiType /\ ui.screen = "enumerate" /\ eng.pc = "idle"
  BY Asking DEF Enumerate, On
<1>2. PICK S \in SUBSET Disks : S = IF found THEN Disks \ Medium ELSE Disks
  OBVIOUS
<1>3. PICK offered \in Sorted(S) :
         IF offered = <<>> THEN Leave("failed")
         ELSE Goto("disks", [ui EXCEPT !.disks = offered])
  BY <1>2 DEF Enumerate
<1>4. offered \in Offers
  BY SortedOffers
<1>5. CASE Leave("failed")
  <2>1. "failed" \in Exits /\ ui.screen \in MayEnd
    BY <1>1 DEF Exits, MayEnd
  <2> QED BY <1>5, <2>1, LeaveSame
<1>6. CASE Goto("disks", [ui EXCEPT !.disks = offered])
  <2>1. PICK u : u = [ui EXCEPT !.disks = offered]
    OBVIOUS
  <2>2. u \in UiType /\ u.consent = ui.consent
    BY <1>1, <1>4, <2>1 DEF UiType
  <2>3. "disks" \in Screens /\ Answered("disks", u) /\ Reached("disks", eng.pc)
    BY <1>1 DEF Screens, Answered, Reached
  <2>4. Goto("disks", u)
    BY <1>6, <2>1
  <2>5. eng.pc \notin {"install", "failing"}
    BY <1>1
  <2> QED BY <2>2, <2>3, <2>4, <2>5, GotoStep
<1> QED BY <1>3, <1>5, <1>6

\* The rule of validate.rs gives one disk, or two that differ.
LEMMA SelectedDisks ==
    ASSUME NEW offered \in Offers, NEW sel \in Seq(Nat), ValidateSelection(sel, Len(offered))
    PROVE  [i \in DOMAIN sel |-> offered[sel[i]]] \in Mirrors
<1>1. offered \in Seq(Disks) /\ \A i, j \in 1..Len(offered) : offered[i] = offered[j] => i = j
  BY DEF Offers
<1>2. PICK n \in 1..2 : n = Len(sel)
  BY DEF ValidateSelection
<1>3. DOMAIN sel = 1..n /\ \A i \in 1..n : sel[i] \in 1..Len(offered)
  BY <1>2 DEF ValidateSelection
<1>4. PICK ds : ds = [i \in 1..n |-> offered[sel[i]]]
  OBVIOUS
<1>5. \A i \in 1..n : offered[sel[i]] \in Disks
  BY <1>1, <1>3
<1>6. ds \in [1..n -> Disks]
  BY <1>4, <1>5
<1>7. ds \in Seq(Disks) /\ Len(ds) = n
  BY <1>6
<1>8. n = 2 => ds[1] # ds[2]
  <2> SUFFICES ASSUME n = 2, ds[1] = ds[2] PROVE FALSE
    OBVIOUS
  <2>1. ds[1] = offered[sel[1]] /\ ds[2] = offered[sel[2]]
    BY <1>4
  <2>2. sel[1] \in 1..Len(offered) /\ sel[2] \in 1..Len(offered)
    BY <1>3
  <2>3. sel[1] = sel[2]
    BY <1>1, <2>1, <2>2
  <2> QED BY <1>2, <2>3 DEF ValidateSelection
<1>9. ds \in Mirrors
  BY <1>7, <1>8 DEF Mirrors, Selections
<1> QED BY <1>3, <1>4, <1>9

LEMMA ChoseStep ==
    ASSUME InstallerInv, ui.screen = "disks", NEW sel \in Seq(Nat),
           ValidateSelection(sel, Len(ui.disks)), Chose(sel)
    PROVE  InstallerInv'
<1>1. ui \in UiType /\ eng.pc = "idle" /\ ui.disks \in Offers
  BY Asking, UiFields
<1>2. PICK ds : ds = [i \in DOMAIN sel |-> ui.disks[sel[i]]]
  OBVIOUS
<1>3. ds \in Mirrors
  BY <1>1, <1>2, SelectedDisks
<1>4. PICK u : u = [ui EXCEPT !.chosen = ds]
  OBVIOUS
<1>5. u \in UiType /\ u.consent = ui.consent /\ u.chosen = ds
  BY <1>1, <1>3, <1>4 DEF UiType
<1>6. PICK screen \in {"warning", "erase"} : Goto(screen, u)
  BY <1>2, <1>4 DEF Chose
<1>7. screen \in Screens /\ Answered(screen, u) /\ Reached(screen, eng.pc)
  BY <1>1, <1>3, <1>5, <1>6 DEF Screens, Answered, Reached
<1> QED BY <1>1, <1>5, <1>6, <1>7, GotoStep

\* The word was typed under the disks that were chosen.
LEMMA EraseStep ==
    ASSUME InstallerInv, ui.screen = "erase",
           Goto("password", [ui EXCEPT !.erase = ui.chosen,
                                       !.consent = @ \cup ToSet(ui.chosen)])
    PROVE  InstallerInv'
<1>1. /\ ui \in UiType /\ eng.pc = "idle" /\ ui.consent \subseteq Disks
      /\ ui.chosen \in Mirrors
  BY Asking, UiFields DEF Answered
<1>2. ToSet(ui.chosen) \subseteq Disks
  BY <1>1 DEF ToSet, Mirrors, Selections
<1>3. PICK u : u = [ui EXCEPT !.erase = ui.chosen, !.consent = ui.consent \cup ToSet(ui.chosen)]
  OBVIOUS
<1>4. PICK consent \in SUBSET Disks : consent = ui.consent \cup ToSet(ui.chosen)
  BY <1>1, <1>2
<1>5. u = [ui EXCEPT !.erase = ui.chosen, !.consent = consent]
  BY <1>3, <1>4
<1>6. u \in UiType /\ u.consent = consent /\ u.chosen = ui.chosen /\ u.erase = ui.chosen
  BY <1>1, <1>5 DEF UiType
<1>7. "password" \in Screens /\ Answered("password", u) /\ Reached("password", eng.pc)
  BY <1>1, <1>4, <1>6 DEF Screens, Answered, Reached
<1>8. [ui EXCEPT !.erase = ui.chosen, !.consent = @ \cup ToSet(ui.chosen)] = u
  BY <1>1, <1>3 DEF UiType
<1>9. Goto("password", u)
  BY <1>8
<1> QED BY <1>1, <1>4, <1>6, <1>7, <1>9, GotoStep

\* The summary was accepted.
LEMMA AgreeStep == ASSUME InstallerInv, ui.screen = "summary", Agree PROVE InstallerInv'
<1>1. ui \in UiType /\ eng.pc = "idle" /\ Answered("summary", ui)
  BY Asking
<1>2. PICK u : u = [ui EXCEPT !.agreed = TRUE]
  OBVIOUS
<1>3. /\ u \in UiType /\ u.agreed = TRUE /\ u.chosen = ui.chosen /\ u.erase = ui.erase
      /\ u.consent = ui.consent /\ u.password = ui.password /\ u.hostname = ui.hostname
  BY <1>1, <1>2 DEF UiType
<1>4. "begin" \in Screens /\ Answered("begin", u) /\ Reached("begin", eng.pc)
  BY <1>1, <1>3 DEF Screens, Answered, Reached
<1>5. Goto("begin", u)
  BY <1>2 DEF Agree
<1> QED BY <1>1, <1>3, <1>4, <1>5, GotoStep

-----------------------------------------------------------------------------
(* The line-based frontend. *)

\* A password that passed the rule, and the screen after it.
LEMMA PasswordStep ==
    ASSUME InstallerInv, ui.screen = "password", ValidPassword(ui.first, ui.first),
           NEW u \in UiType, u.password = ui.first, u.chosen = ui.chosen, u.erase = ui.erase,
           u.consent = ui.consent, Goto("hostname", u)
    PROVE  InstallerInv'
<1>1. eng.pc = "idle" /\ Answered("password", ui)
  BY Asking
<1>2. "hostname" \in Screens /\ Answered("hostname", u) /\ Reached("hostname", eng.pc)
  BY <1>1 DEF Screens, Answered, Reached
<1> QED BY <1>1, <1>2, GotoStep

\* A name that passed the rule, and the screen after it.
LEMMA HostnameStep ==
    ASSUME InstallerInv, ui.screen = "hostname", NEW name \in Words, ValidHostname(name),
           Goto("summary", [ui EXCEPT !.hostname = name])
    PROVE  InstallerInv'
<1>1. ui \in UiType /\ eng.pc = "idle" /\ Answered("hostname", ui)
  BY Asking
<1>2. PICK u : u = [ui EXCEPT !.hostname = name]
  OBVIOUS
<1>3. /\ u \in UiType /\ u.hostname = name /\ u.chosen = ui.chosen /\ u.erase = ui.erase
      /\ u.consent = ui.consent /\ u.password = ui.password
  BY <1>1, <1>2 DEF UiType
<1>4. "summary" \in Screens /\ Answered("summary", u) /\ Reached("summary", eng.pc)
  BY <1>1, <1>3 DEF Screens, Answered, Reached
<1>5. Goto("summary", u)
  BY <1>2
<1> QED BY <1>1, <1>3, <1>4, <1>5, GotoStep

\* From the welcome on to the disks, and from the warning on to the word.
LEMMA OnwardStep ==
    ASSUME InstallerInv,
           \/ ui.screen = "welcome" /\ Goto("enumerate", ui)
           \/ ui.screen = "warning" /\ Goto("erase", ui)
    PROVE  InstallerInv'
<1>1. eng.pc = "idle" /\ Answered(ui.screen, ui)
  BY Asking
<1>2. CASE ui.screen = "welcome" /\ Goto("enumerate", ui)
  <2>1. "enumerate" \in Screens /\ Answered("enumerate", ui)
        /\ Reached("enumerate", eng.pc)
    BY <1>1 DEF Screens, Answered, Reached
  <2> QED BY <1>1, <1>2, <2>1, GotoSame
<1>3. CASE ui.screen = "warning" /\ Goto("erase", ui)
  <2>1. "erase" \in Screens /\ Answered("erase", ui) /\ Reached("erase", eng.pc)
    BY <1>1, <1>3 DEF Screens, Answered, Reached
  <2> QED BY <1>1, <1>3, <2>1, GotoSame
<1> QED BY <1>2, <1>3

LEMMA PlainPasswordStep ==
    ASSUME InstallerInv, NEW line \in Passwords, PlainCollectPassword(line)
    PROVE  InstallerInv'
<1>1. /\ ui \in UiType /\ CursorIn(ui) /\ ui.screen = "password" /\ ui.first \in Words
      /\ line \in Words /\ "" \in Words
  BY Asking, UiFields DEF PlainCollectPassword, On, Words, Hostnames
<1>2. ASSUME Stay([ui EXCEPT !.first = line, !.active = 1, !.term = "cooked"])
      PROVE  InstallerInv'
  <2>1. PICK u : u = [ui EXCEPT !.first = line, !.active = 1, !.term = "cooked"]
    OBVIOUS
  <2>2. Kept(u)
    BY <1>1, <2>1 DEF Kept, UiType, CursorIn, Terms
  <2>3. Stay(u)
    BY <1>2, <2>1
  <2> QED BY <1>1, <2>2, <2>3, StayStep
<1>3. ASSUME Stay([ui EXCEPT !.first = "", !.active = 0, !.term = "cooked"])
      PROVE  InstallerInv'
  <2>1. PICK u : u = [ui EXCEPT !.first = "", !.active = 0, !.term = "cooked"]
    OBVIOUS
  <2>2. Kept(u)
    BY <1>1, <2>1 DEF Kept, UiType, CursorIn, Terms
  <2>3. Stay(u)
    BY <1>3, <2>1
  <2> QED BY <1>1, <2>2, <2>3, StayStep
<1>4. ASSUME ValidPassword(ui.first, line),
             Goto("hostname", [ui EXCEPT !.password = ui.first, !.term = "cooked"])
      PROVE  InstallerInv'
  <2>1. PICK u : u = [ui EXCEPT !.password = ui.first, !.term = "cooked"]
    OBVIOUS
  <2>2. /\ u \in UiType /\ u.password = ui.first /\ u.chosen = ui.chosen /\ u.erase = ui.erase
        /\ u.consent = ui.consent
    BY <1>1, <2>1 DEF UiType, Terms
  <2>3. ValidPassword(ui.first, ui.first)
    BY <1>4 DEF ValidPassword
  <2>4. Goto("hostname", u)
    BY <1>4, <2>1
  <2> QED BY <1>1, <2>2, <2>3, <2>4, PasswordStep
<1> QED BY <1>2, <1>3, <1>4 DEF PlainCollectPassword

LEMMA PlainHostnameStep ==
    ASSUME InstallerInv, NEW line \in Hostnames, PlainCollectHostname(line)
    PROVE  InstallerInv'
<1>1. PICK name : name = IF line = "" THEN Default ELSE line
  OBVIOUS
<1>2. name \in Words
  BY <1>1 DEF Words
<1>3. ui.screen = "hostname"
  BY DEF PlainCollectHostname, On
<1>4. \/ ValidHostname(name) /\ Goto("summary", [ui EXCEPT !.hostname = name])
      \/ Stay(ui)
  BY <1>1 DEF PlainCollectHostname
<1> QED BY <1>2, <1>3, <1>4, HostnameStep, StaySame

\* The echo is off, or it could not be turned off.
LEMMA EchoStep == ASSUME InstallerInv, NEW ok \in BOOLEAN, EchoOff(ok) PROVE InstallerInv'
<1>1. /\ ui \in UiType /\ CursorIn(ui) /\ Answered("password", ui) /\ ui.screen = "password"
      /\ UNCHANGED engineVars
  BY Asking DEF EchoOff, On
<1>2. PICK term \in {"noecho", "echo"} : ui' = [ui EXCEPT !.term = term]
  BY DEF EchoOff
<1>3. ui' \in UiType
  BY <1>1, <1>2 DEF UiType, Terms
<1>4. /\ ui'.screen = "password" /\ ui'.cursor = ui.cursor /\ ui'.disks = ui.disks
      /\ ui'.chosen = ui.chosen /\ ui'.erase = ui.erase
      /\ ui'.consent = ui.consent /\ ui'.password = ui.password /\ ui'.hostname = ui.hostname
      /\ ui'.agreed = ui.agreed
  BY <1>1, <1>2 DEF UiType
<1>5. Answered("password", ui')
  BY <1>1, <1>4 DEF Answered
<1>6. ScreenInv'
  BY <1>1, <1>3, <1>4, <1>5 DEF ScreenInv, CursorIn
<1>7. eng' = eng /\ Written' = Written
  BY <1>1, EngineWaits
<1>8. RunInv'
  BY <1>1, <1>4, <1>7 DEF RunInv, InstallerInv, Confirmed
<1>9. EngineInv'
  BY <1>1, EngineStutter DEF InstallerInv
<1> QED BY <1>6, <1>8, <1>9 DEF InstallerInv

\* A signal: the engine stops where it is, and what was confirmed was.
LEMMA InterruptedStep == ASSUME InstallerInv, Interrupted PROVE InstallerInv'
<1>1. ui \in UiType /\ CursorIn(ui) /\ UNCHANGED engineVars
  BY Asking DEF Interrupted
<1>2. ui' = [ui EXCEPT !.screen = "over", !.exit = "interrupted"]
  BY DEF Interrupted
<1>3. ui' \in UiType
  BY <1>1, <1>2 DEF UiType, Screens, Exits
<1>4. /\ ui'.screen = "over" /\ ui'.exit = "interrupted" /\ ui'.cursor = ui.cursor
      /\ ui'.disks = ui.disks /\ ui'.erase = ui.erase
      /\ ui'.consent = ui.consent /\ ui'.password = ui.password /\ ui'.hostname = ui.hostname
      /\ ui'.agreed = ui.agreed
  BY <1>1, <1>2 DEF UiType
<1>5. ScreenInv'
  BY <1>1, <1>3, <1>4 DEF ScreenInv, CursorIn, Answered
<1>6. eng' = eng /\ Written' = Written
  BY <1>1, EngineWaits
<1>7. RunInv'
  BY <1>4, <1>6 DEF RunInv, InstallerInv, Confirmed, Reached
<1>8. EngineInv'
  BY <1>1, EngineStutter DEF InstallerInv
<1> QED BY <1>5, <1>7, <1>8 DEF InstallerInv

\* main() has said its last; the frontend gives the terminal back.
LEMMA DropFrontendStep == ASSUME InstallerInv, DropFrontend PROVE InstallerInv'
<1>1. ui \in UiType /\ CursorIn(ui) /\ UNCHANGED engineVars
  BY Asking DEF DropFrontend
<1>2. ui' = [ui EXCEPT !.screen = "over", !.term = "cooked"]
  BY DEF DropFrontend
<1>3. ui' \in UiType
  BY <1>1, <1>2 DEF UiType, Screens, Terms
<1>4. /\ ui'.screen = "over" /\ ui'.cursor = ui.cursor
      /\ ui'.disks = ui.disks /\ ui'.erase = ui.erase
      /\ ui'.consent = ui.consent /\ ui'.password = ui.password /\ ui'.hostname = ui.hostname
      /\ ui'.agreed = ui.agreed
  BY <1>1, <1>2 DEF UiType
<1>5. ScreenInv'
  BY <1>1, <1>3, <1>4 DEF ScreenInv, CursorIn, Answered
<1>6. eng' = eng /\ Written' = Written
  BY <1>1, EngineWaits
<1>7. RunInv'
  BY <1>4, <1>6 DEF RunInv, InstallerInv, Confirmed, Reached
<1>8. EngineInv'
  BY <1>1, EngineStutter DEF InstallerInv
<1> QED BY <1>5, <1>7, <1>8 DEF InstallerInv

LEMMA PlainStep == ASSUME InstallerInv, PlainNext PROVE InstallerInv'
<1>1. "failed" \in Exits /\ "rebooting" \in Exits /\ "shell" \in Exits
  BY DEF Exits
<1>2. ASSUME NEW line, PlainWelcome(line) PROVE InstallerInv'
  BY <1>2, Ending, AbortedStep, OnwardStep DEF PlainWelcome, On
<1>3. ASSUME NEW line, PlainConfirmWarning(line) PROVE InstallerInv'
  BY <1>3, Ending, AbortedStep, OnwardStep DEF PlainConfirmWarning, On
<1>4. ASSUME NEW line, PlainConfirmDestruction(line) PROVE InstallerInv'
  BY <1>4, Ending, AbortedStep, EraseStep DEF PlainConfirmDestruction, Erase, On
<1>5. ASSUME NEW line, PlainConfirmSummary(line) PROVE InstallerInv'
  BY <1>5, Ending, AbortedStep, AgreeStep DEF PlainConfirmSummary, On
<1>6. ASSUME NEW line, PlainFinished(line) PROVE InstallerInv'
  <2>1. ui.screen = "finished" /\ (Leave("rebooting") \/ Leave("shell"))
    BY <1>6 DEF PlainFinished, On
  <2> QED BY <1>1, <2>1, Ending, LeaveSame
<1>7. ASSUME NEW line \in Lines, PlainSelectDisks(line) PROVE InstallerInv'
  <2>1. line \in Seq(Nat)
    BY LineAssumption
  <2>2. \/ ui.screen = "disks" /\ ValidateSelection(line, Len(ui.disks)) /\ Chose(line)
        \/ ui.screen = "disks" /\ Stay(ui)
    BY <1>7 DEF PlainSelectDisks, On
  <2> QED BY <2>1, <2>2, ChoseStep, StaySame
<1>8. CASE \E ok \in BOOLEAN : EchoOff(ok)
  BY <1>8, EchoStep
<1>9. CASE \E line \in Passwords : PlainCollectPassword(line)
  BY <1>9, PlainPasswordStep
<1>10. CASE \E line \in Hostnames : PlainCollectHostname(line)
  BY <1>10, PlainHostnameStep
<1>11. CASE PlainFailed
  BY <1>1, <1>11, Ending, LeaveSame DEF PlainFailed, On
<1>12. ASSUME NEW end \in BOOLEAN, PlainRead(end) PROVE InstallerInv'
  <2>1. PICK how \in Exits : Leaving(how, "cooked")
    BY <1>1, <1>12 DEF PlainRead, Exits
  <2>2. ui.screen \in MayEnd /\ "cooked" \in Terms
    BY <1>12 DEF PlainRead, MayEnd, Terms
  <2> QED BY <2>1, <2>2, LeaveStep
<1>13. CASE Interrupted
  BY <1>13, InterruptedStep
<1> QED
  BY <1>2, <1>3, <1>4, <1>5, <1>6, <1>7, <1>8, <1>9, <1>10, <1>11, <1>12, <1>13
  DEF PlainNext

-----------------------------------------------------------------------------
(* The full-screen frontend. *)

\* A toggle keeps at most two disks.
LEMMA ToggledType ==
    ASSUME ui \in UiType
    PROVE  Toggled \in {s \in Seq(Nat) : Len(s) <= 2}
<1>1. PICK p \in Seq(Nat) : p = ui.picked /\ Len(p) <= 2
  BY UiFields
<1>2. PICK c \in Nat : c = ui.cursor
  BY UiFields
<1>3. ASSUME c \in ToSet(p)
      PROVE  RemoveAt(p, CHOOSE i \in DOMAIN p : p[i] = c) \in {s \in Seq(Nat) : Len(s) <= 2}
  <2>1. PICK k : k = CHOOSE i \in DOMAIN p : p[i] = c
    OBVIOUS
  <2>2. \E i \in DOMAIN p : p[i] = c
    BY <1>3 DEF ToSet
  <2>3. k \in 1..Len(p)
    BY <1>1, <2>1, <2>2
  <2>4. RemoveAt(p, k) = SubSeq(p, 1, k - 1) \o SubSeq(p, k + 1, Len(p))
    BY DEF RemoveAt
  <2>5. SubSeq(p, 1, k - 1) \in Seq(Nat) /\ Len(SubSeq(p, 1, k - 1)) = k - 1
    BY <1>1, <2>3
  <2>6. SubSeq(p, k + 1, Len(p)) \in Seq(Nat) /\ Len(SubSeq(p, k + 1, Len(p))) = Len(p) - k
    BY <1>1, <2>3
  <2>7. RemoveAt(p, k) \in Seq(Nat) /\ Len(RemoveAt(p, k)) = (k - 1) + (Len(p) - k)
    BY <2>4, <2>5, <2>6, ConcatProperties
  <2>8. Len(RemoveAt(p, k)) <= 2
    BY <1>1, <2>3, <2>7
  <2> QED BY <2>1, <2>7, <2>8
<1>4. ASSUME Len(p) < 2 PROVE Append(p, c) \in {s \in Seq(Nat) : Len(s) <= 2}
  BY <1>1, <1>2, <1>4
<1> QED BY <1>1, <1>2, <1>3, <1>4 DEF Toggled

LEMMA CursorType ==
    ASSUME ui \in UiType, CursorIn(ui), NEW key \in {"up", "down"}
    PROVE  CursorAfter(key) \in Nat
           /\ (CursorAfter(key) = 1 \/ CursorAfter(key) \in 1..Len(ui.disks))
<1>1. PICK c \in Nat : c = ui.cursor
  BY UiFields
<1>2. PICK n \in Nat : n = Len(ui.disks)
  BY UiFields DEF Offers
<1>3. c = 1 \/ c \in 1..n
  BY <1>1, <1>2 DEF CursorIn
<1>4. CursorAfter(key) \in {c, IF c > 1 THEN c - 1 ELSE c, IF c < n THEN c + 1 ELSE c}
  BY <1>1, <1>2 DEF CursorAfter
<1> QED BY <1>2, <1>3, <1>4

LEMMA TuiDisksStep ==
    ASSUME InstallerInv, NEW key \in Keys, TuiSelectDisks(key)
    PROVE  InstallerInv'
<1>1. ui \in UiType /\ CursorIn(ui) /\ ui.screen = "disks"
  BY Asking DEF TuiSelectDisks, On
<1>2. ASSUME key \in {"up", "down"}, Stay([ui EXCEPT !.cursor = CursorAfter(key)])
      PROVE  InstallerInv'
  <2>1. PICK c \in Nat : c = CursorAfter(key) /\ (c = 1 \/ c \in 1..Len(ui.disks))
    BY <1>1, <1>2, CursorType
  <2>2. PICK u : u = [ui EXCEPT !.cursor = c]
    OBVIOUS
  <2>3. Kept(u)
    BY <1>1, <2>1, <2>2 DEF Kept, UiType, CursorIn
  <2>4. Stay(u)
    BY <1>2, <2>1, <2>2
  <2> QED BY <1>1, <2>3, <2>4, StayStep
<1>3. ASSUME Stay([ui EXCEPT !.picked = Toggled]) PROVE InstallerInv'
  <2>1. PICK p \in {s \in Seq(Nat) : Len(s) <= 2} : p = Toggled
    BY <1>1, ToggledType
  <2>2. PICK u : u = [ui EXCEPT !.picked = p]
    OBVIOUS
  <2>3. Kept(u)
    BY <1>1, <2>1, <2>2 DEF Kept, UiType, CursorIn
  <2>4. Stay(u)
    BY <1>3, <2>1, <2>2
  <2> QED BY <1>1, <2>3, <2>4, StayStep
<1>4. ASSUME ValidateSelection(ui.picked, Len(ui.disks)), Chose(ui.picked)
      PROVE  InstallerInv'
  <2>1. ui.picked \in Seq(Nat)
    BY <1>1, UiFields
  <2> QED BY <1>1, <1>4, <2>1, ChoseStep
<1>5. \/ Aborted
      \/ key \in {"up", "down"} /\ Stay([ui EXCEPT !.cursor = CursorAfter(key)])
      \/ Stay([ui EXCEPT !.picked = Toggled])
      \/ ValidateSelection(ui.picked, Len(ui.disks)) /\ Chose(ui.picked)
      \/ Stay(ui)
  BY DEF TuiSelectDisks, Keys, Quits
<1> QED BY <1>1, <1>2, <1>3, <1>4, <1>5, Ending, AbortedStep, StaySame

\* What a key or a word leaves in the fields of a screen.
LEMMA FieldsStep ==
    ASSUME InstallerInv, NEW first \in Words, NEW second \in Words,
           NEW active \in {0, 1},
           \/ Stay([ui EXCEPT !.first = first])
           \/ Stay([ui EXCEPT !.second = second])
           \/ Stay([ui EXCEPT !.active = active])
           \/ Stay([ui EXCEPT !.first = first, !.second = second, !.active = active])
    PROVE  InstallerInv'
<1>1. ui \in UiType /\ CursorIn(ui)
  BY Asking
<1>2. PICK u :
         /\ \/ u = [ui EXCEPT !.first = first]
            \/ u = [ui EXCEPT !.second = second]
            \/ u = [ui EXCEPT !.active = active]
            \/ u = [ui EXCEPT !.first = first, !.second = second, !.active = active]
         /\ Stay(u)
  OBVIOUS
<1>3. CASE u = [ui EXCEPT !.first = first]
  <2>1. Kept(u)
    BY <1>1, <1>3 DEF Kept, UiType, CursorIn
  <2> QED BY <1>2, <2>1, StayStep
<1>4. CASE u = [ui EXCEPT !.second = second]
  <2>1. Kept(u)
    BY <1>1, <1>4 DEF Kept, UiType, CursorIn
  <2> QED BY <1>2, <2>1, StayStep
<1>5. CASE u = [ui EXCEPT !.active = active]
  <2>1. Kept(u)
    BY <1>1, <1>5 DEF Kept, UiType, CursorIn
  <2> QED BY <1>2, <2>1, StayStep
<1>6. CASE u = [ui EXCEPT !.first = first, !.second = second, !.active = active]
  <2>1. Kept(u)
    BY <1>1, <1>6 DEF Kept, UiType, CursorIn
  <2> QED BY <1>2, <2>1, StayStep
<1> QED BY <1>2, <1>3, <1>4, <1>5, <1>6

\* The other of two fields.
LEMMA OtherField == \A a \in {0, 1} : 1 - a \in {0, 1}
OBVIOUS

LEMMA TuiPasswordStep ==
    ASSUME InstallerInv, NEW key \in Keys, TuiCollectPassword(key)
    PROVE  InstallerInv'
<1>1. /\ ui \in UiType /\ ui.screen = "password" /\ ui.first \in Words /\ "" \in Words
      /\ ui.active \in {0, 1}
  BY Asking, UiFields DEF TuiCollectPassword, On, Words, Hostnames
<1>2. ASSUME Stay([ui EXCEPT !.active = 1 - @]) PROVE InstallerInv'
  <2>1. PICK active \in {0, 1} : active = 1 - ui.active
    BY <1>1, OtherField
  <2>2. [ui EXCEPT !.active = 1 - @] = [ui EXCEPT !.active = active]
    BY <1>1, <2>1 DEF UiType
  <2>3. Stay([ui EXCEPT !.active = active])
    BY <1>2, <2>2
  <2> QED BY <1>1, <2>3, FieldsStep
<1>3. ASSUME Stay([ui EXCEPT !.active = 1]) PROVE InstallerInv'
  <2>1. 1 \in {0, 1}
    OBVIOUS
  <2> QED BY <1>1, <1>3, <2>1, FieldsStep
<1>4. ASSUME Stay([ui EXCEPT !.first = "", !.second = "", !.active = 0]) PROVE InstallerInv'
  <2>1. 0 \in {0, 1}
    OBVIOUS
  <2> QED BY <1>1, <1>4, <2>1, FieldsStep
<1>5. ASSUME ValidPassword(ui.first, ui.second), Goto("hostname", [ui EXCEPT !.password = ui.first])
      PROVE  InstallerInv'
  <2>1. PICK u : u = [ui EXCEPT !.password = ui.first]
    OBVIOUS
  <2>2. /\ u \in UiType /\ u.password = ui.first /\ u.chosen = ui.chosen /\ u.erase = ui.erase
        /\ u.consent = ui.consent
    BY <1>1, <2>1 DEF UiType
  <2>3. ValidPassword(ui.first, ui.first)
    BY <1>5 DEF ValidPassword
  <2>4. Goto("hostname", u)
    BY <1>5, <2>1
  <2> QED BY <1>1, <2>2, <2>3, <2>4, PasswordStep
<1>6. \/ Aborted
      \/ Stay([ui EXCEPT !.active = 1 - @])
      \/ Stay([ui EXCEPT !.active = 1])
      \/ ValidPassword(ui.first, ui.second) /\ Goto("hostname", [ui EXCEPT !.password = ui.first])
      \/ Stay([ui EXCEPT !.first = "", !.second = "", !.active = 0])
      \/ Stay(ui)
  BY DEF TuiCollectPassword, Keys, Quits
<1> QED BY <1>1, <1>2, <1>3, <1>4, <1>5, <1>6, Ending, AbortedStep, StaySame

LEMMA TuiHostnameStep ==
    ASSUME InstallerInv, NEW key \in Keys, TuiCollectHostname(key)
    PROVE  InstallerInv'
<1>1. ui \in UiType /\ ui.screen = "hostname" /\ ui.first \in Words
  BY Asking, UiFields DEF TuiCollectHostname, On
<1>2. PICK name \in Words : name = IF ui.keys = 0 THEN Default ELSE ui.first
  BY <1>1 DEF Words
<1>3. \/ Aborted
      \/ ValidHostname(name) /\ Goto("summary", [ui EXCEPT !.hostname = name])
      \/ Stay(ui)
      \/ Stay([ui EXCEPT !.first = name])
  BY <1>2 DEF TuiCollectHostname, Keys, Quits
<1>4. CASE Stay([ui EXCEPT !.first = name])
  <2>1. 0 \in {0, 1}
    OBVIOUS
  <2> QED BY <1>1, <1>4, <2>1, FieldsStep
<1> QED BY <1>1, <1>3, <1>4, Ending, AbortedStep, HostnameStep, StaySame

LEMMA TuiFinishedStep ==
    ASSUME InstallerInv, NEW key \in Keys, TuiFinished(key)
    PROVE  InstallerInv'
<1>1. /\ ui \in UiType /\ CursorIn(ui) /\ ui.screen = "finished" /\ ui.active \in {0, 1}
      /\ eng.pc \in {"failed", "installed"}
  BY Asking, UiFields DEF TuiFinished, On
<1>2. CASE Aborted
  BY <1>1, <1>2, Ending, AbortedStep
<1>3. ASSUME NEW how \in {"rebooting", "shell"}, Leaving(how, "cooked") PROVE InstallerInv'
  <2>1. how \in Exits /\ "cooked" \in Terms
    BY DEF Exits, Terms
  <2> QED BY <1>1, <1>3, <2>1, Ending, LeaveStep
<1>4. CASE ui' = [ui EXCEPT !.active = 1 - @] /\ UNCHANGED engineVars
  <2>1. PICK active \in {0, 1} : active = 1 - ui.active
    BY <1>1, OtherField
  <2>2. ui' = [ui EXCEPT !.active = active]
    BY <1>1, <1>4, <2>1 DEF UiType
  <2>3. ui' \in UiType
    BY <1>1, <2>2 DEF UiType
  <2>4. /\ ui'.screen = "finished" /\ ui'.cursor = ui.cursor /\ ui'.disks = ui.disks
        /\ ui'.consent = ui.consent
    BY <1>1, <2>2 DEF UiType
  <2>5. ScreenInv'
    BY <1>1, <2>3, <2>4 DEF ScreenInv, CursorIn, Answered
  <2>6. eng' = eng /\ Written' = Written
    BY <1>4, EngineWaits
  <2>7. RunInv'
    BY <1>1, <2>4, <2>6 DEF RunInv, InstallerInv, Reached
  <2>8. EngineInv'
    BY <1>4, EngineStutter DEF InstallerInv
  <2> QED BY <2>5, <2>7, <2>8 DEF InstallerInv
<1>5. \/ Aborted
      \/ \E how \in {"rebooting", "shell"} : Leaving(how, "cooked")
      \/ ui' = [ui EXCEPT !.active = 1 - @] /\ UNCHANGED engineVars
  BY DEF TuiFinished, Keys
<1> QED BY <1>2, <1>3, <1>4, <1>5

LEMMA TypeStep ==
    ASSUME InstallerInv, NEW word \in Passwords \cup Hostnames \cup {"ERASE"}, Type(word)
    PROVE  InstallerInv'
<1>1. word \in Words
  BY DEF Words
<1>2. Stay([ui EXCEPT !.first = word]) \/ Stay([ui EXCEPT !.second = word])
  BY DEF Type
<1>3. 0 \in {0, 1}
  OBVIOUS
<1> QED BY <1>1, <1>2, <1>3, FieldsStep

LEMMA TuiStep == ASSUME InstallerInv, TuiNext PROVE InstallerInv'
<1>1. ASSUME NEW key \in Keys, TuiWelcome(key) PROVE InstallerInv'
  <2>1. ui.screen = "welcome" /\ (Goto("enumerate", ui) \/ Aborted \/ Stay(ui))
    BY <1>1 DEF TuiWelcome, On
  <2> QED BY <2>1, Ending, OnwardStep, AbortedStep, StaySame
<1>2. ASSUME NEW key \in Keys, TuiConfirmWarning(key) PROVE InstallerInv'
  <2>1. ui.screen = "warning" /\ (Goto("erase", ui) \/ Aborted \/ Stay(ui))
    BY <1>2 DEF TuiConfirmWarning, On
  <2> QED BY <2>1, Ending, OnwardStep, AbortedStep, StaySame
<1>3. ASSUME NEW key \in Keys, TuiConfirmDestruction(key) PROVE InstallerInv'
  <2>1. /\ ui.screen = "erase"
        /\ \/ Aborted \/ Stay(ui) \/ Stay([ui EXCEPT !.first = ""])
           \/ Goto("password", [ui EXCEPT !.erase = ui.chosen,
                                          !.consent = @ \cup ToSet(ui.chosen)])
    BY <1>3 DEF TuiConfirmDestruction, On, Erase
  <2>2. "" \in Words /\ 0 \in {0, 1}
    BY DEF Words, Hostnames
  <2>3. CASE Stay([ui EXCEPT !.first = ""])
    BY <2>1, <2>2, <2>3, FieldsStep
  <2> QED BY <2>1, <2>3, Ending, EraseStep, AbortedStep, StaySame
<1>4. ASSUME NEW key \in Keys, TuiConfirmSummary(key) PROVE InstallerInv'
  <2>1. ui.screen = "summary" /\ (Agree \/ Aborted \/ Stay(ui))
    BY <1>4 DEF TuiConfirmSummary, On
  <2> QED BY <2>1, Ending, AgreeStep, AbortedStep, StaySame
<1>5. ASSUME NEW key \in Keys, TuiFailed(key) PROVE InstallerInv'
  <2>1. ui.screen = "failed" /\ Leave("failed") /\ "failed" \in Exits
    BY <1>5 DEF TuiFailed, On, Exits
  <2> QED BY <2>1, Ending, LeaveSame
<1>6. CASE TuiError
  <2>1. ui.screen \in MayEnd /\ Leave("failed") /\ "failed" \in Exits
    BY <1>6 DEF TuiError, MayEnd, Exits
  <2> QED BY <2>1, LeaveSame
<1> QED
  BY <1>1, <1>2, <1>3, <1>4, <1>5, <1>6, TuiDisksStep, TuiPasswordStep, TuiHostnameStep,
     TuiFinishedStep, TypeStep
  DEF TuiNext

-----------------------------------------------------------------------------
(* The engine at work. *)

\* Every call keeps the disks it was given, and ends in the engine going on or failing.
LEMMA KeepsDisks ==
    ASSUME EngineInv, Install
    PROVE  /\ eng.pc \in {"install", "failing"} /\ eng'.pc # "idle"
           /\ eng'.disks = eng.disks
<1>1. EngineTypes
  BY InvParts
<1>2. ASSUME eng.pc = "install", NEW w, Warning(w)
      PROVE  eng'.pc = "install" /\ eng'.disks = eng.disks
  BY <1>1, <1>2 DEF Warning, EngineTypes
<1>3. ASSUME Fail PROVE eng'.pc = "failing" /\ eng'.disks = eng.disks
  BY <1>1, <1>3 DEF Fail, EngineTypes
<1>4. CASE Teardown
  <2>1. PICK pc \in {"failed", "installed"} :
           eng' = [eng EXCEPT !.pc = pc, !.todo = <<>>]
    BY <1>4 DEF Teardown
  <2>2. eng'.pc = pc /\ eng'.disks = eng.disks
    BY <1>1, <2>1 DEF EngineTypes
  <2>3. eng.pc \in {"install", "failing"}
    BY <1>4 DEF Teardown
  <2> QED BY <2>2, <2>3
<1>5. CASE eng.pc = "install" /\ ((\E w : Warning(w)) \/ Fail)
  BY <1>2, <1>3, <1>5
<1>6. CASE ReleaseExistingPools \/ Prepare \/ Settle \/ CreateBpool \/ CreateRpool
           \/ CreateDatasets
  BY <1>5, <1>6
  DEF ReleaseExistingPools, Prepare, Settle, CreateBpool, CreateRpool, CreatePool,
      CreateDatasets, At, Ok, Broken
<1>7. CASE FormatEsps \/ FormatEsp \/ TrackEsps \/ CopySystem \/ Bind \/ TrackBinds
  BY <1>5, <1>7
  DEF FormatEsps, FormatEsp, TrackEsps, CopySystem, Bind, TrackBinds, At, Ok, Broken
<1>8. CASE StripLiveLayer \/ VerifyPamStack \/ Configure \/ CreateAccount \/ WriteConfiguration
  BY <1>5, <1>8
  DEF StripLiveLayer, VerifyPamStack, Configure, CreateAccount, WriteConfiguration, At, Ok,
      Broken
<1>9. CASE WriteCachefile \/ RegenerateInitramfs \/ ConfigureGrub \/ InstallLoader
           \/ InstallEntry
  BY <1>5, <1>9
  DEF WriteCachefile, RegenerateInitramfs, ConfigureGrub, InstallLoader, InstallEntry, At, Ok,
      Broken
<1>10. CASE GenerateMenu \/ InstallEspSync \/ SaveLog
  BY <1>5, <1>10 DEF GenerateMenu, InstallEspSync, SaveLog, At, Ok, Broken
<1> QED BY <1>4, <1>6, <1>7, <1>8, <1>9, <1>10 DEF Install

\* Only the disks of this installation are written.
LEMMA WritesItsDisks ==
    ASSUME EngineInv, Install, NEW d \in Disks, d \notin ToSet(eng.disks)
    PROVE  media'[d] = media[d]
<1>1. /\ EngineTypes /\ PlanInv
      /\ media \in [Disks -> [table : {"old", "zapped", "new"}, esp : SUBSET Loaders]]
  BY InvParts
<1>2. CASE Prepare \/ FormatEsp \/ InstallLoader \/ InstallEspSync
  <2>1. At("prepare") \/ At("esp") \/ At("loader") \/ At("sync")
    BY <1>2 DEF Prepare, FormatEsp, InstallLoader, InstallEspSync
  <2>2. Index \in 1..Len(eng.disks) /\ eng.disks \in Seq(Disks)
    BY <1>1, <2>1, DiskOf DEF PlanInv, Mirrors, Selections, At
  <2>3. Disk \in ToSet(eng.disks)
    BY <2>2 DEF ToSet, Disk
  <2>4. d # Disk
    BY <2>3
  <2>5. PICK e : e = Disk
    OBVIOUS
  <2>6. \/ media' = media
        \/ \E m : media' = [media EXCEPT ![e] = m]
        \/ \E t : media' = [media EXCEPT ![e].table = t]
        \/ \E l : media' = [media EXCEPT ![e].esp = l]
    BY <1>2, <2>5 DEF Prepare, FormatEsp, InstallLoader, InstallEspSync
  <2> QED BY <1>1, <2>4, <2>5, <2>6
<1>3. CASE ReleaseExistingPools \/ Settle \/ CreateBpool \/ CreateRpool \/ CreateDatasets
           \/ FormatEsps \/ TrackEsps \/ CopySystem \/ Bind \/ TrackBinds \/ StripLiveLayer
           \/ VerifyPamStack
  <2>1. media' = media
    BY <1>3
    DEF ReleaseExistingPools, Settle, CreateBpool, CreateRpool, CreatePool, CreateDatasets,
        FormatEsps, TrackEsps, CopySystem, Bind, TrackBinds, StripLiveLayer, VerifyPamStack
  <2> QED BY <2>1
<1>4. CASE Configure \/ CreateAccount \/ WriteConfiguration \/ WriteCachefile
           \/ RegenerateInitramfs \/ ConfigureGrub \/ InstallEntry \/ GenerateMenu
           \/ SaveLog \/ Teardown
  <2>1. media' = media
    BY <1>4
    DEF Configure, CreateAccount, WriteConfiguration, WriteCachefile, RegenerateInitramfs,
        ConfigureGrub, InstallEntry, GenerateMenu, SaveLog, Teardown
  <2> QED BY <2>1
<1> QED BY <1>2, <1>3, <1>4 DEF Install

LEMMA ProgressStep == ASSUME InstallerInv, Progress PROVE InstallerInv'
<1>1. EngineInv /\ Install /\ ui' = ui /\ ui.screen = "installing"
  BY DEF InstallerInv, Progress, On
<1>2. /\ eng.pc \in {"install", "failing"} /\ eng'.pc # "idle" /\ eng'.disks = eng.disks
  BY <1>1, KeepsDisks
<1>3. Confirmed(ui, eng.disks) /\ Written \subseteq ui.consent
  BY <1>2 DEF InstallerInv, RunInv
<1>4. Written' \subseteq ui.consent
  <2> SUFFICES ASSUME NEW d \in Disks, media'[d] # Untouched[d], d \notin ui.consent PROVE FALSE
    BY DEF Written
  <2>1. d \notin ToSet(eng.disks)
    BY <1>3 DEF Confirmed
  <2>2. media'[d] = media[d]
    BY <1>1, <2>1, WritesItsDisks
  <2> QED BY <1>3, <2>2 DEF Written
<1>5. RunInv'
  BY <1>1, <1>2, <1>3, <1>4 DEF RunInv, Reached
<1>6. ScreenInv'
  BY <1>1 DEF InstallerInv, ScreenInv
<1>7. EngineInv'
  BY <1>1, InstallStep
<1> QED BY <1>5, <1>6, <1>7 DEF InstallerInv

\* The engine starts with the disks the word was typed under.
LEMMA BeginInstallStep == ASSUME InstallerInv, BeginInstall PROVE InstallerInv'
<1>1. /\ ui \in UiType /\ CursorIn(ui) /\ Answered("begin", ui) /\ ui.screen = "begin"
      /\ Begin(ui.chosen) /\ ui' = [ui EXCEPT !.screen = "installing"]
  BY Asking DEF BeginInstall, On
<1>2. /\ ui.chosen \in Mirrors /\ ui.chosen \in Selections /\ ui.erase = ui.chosen
      /\ ToSet(ui.erase) \subseteq ui.consent
  BY <1>1 DEF Answered, Mirrors
<1>3. EngineInv'
  BY <1>1, <1>2, BeginStep DEF InstallerInv
<1>4. eng'.pc = "install" /\ eng'.disks = ui.chosen /\ media' = media
  BY <1>1 DEF Begin, InstallerInv, EngineInv, EngineTypes
<1>5. ui' \in UiType
  BY <1>1 DEF UiType, Screens
<1>6. /\ ui'.screen = "installing" /\ ui'.cursor = ui.cursor /\ ui'.disks = ui.disks
      /\ ui'.erase = ui.erase /\ ui'.consent = ui.consent /\ ui'.password = ui.password
      /\ ui'.hostname = ui.hostname /\ ui'.agreed = ui.agreed
  BY <1>1 DEF UiType
<1>7. ScreenInv'
  BY <1>1, <1>5, <1>6 DEF ScreenInv, CursorIn, Answered
<1>8. Confirmed(ui', eng'.disks)
  BY <1>1, <1>2, <1>4, <1>6 DEF Confirmed, Answered
<1>9. Written' \subseteq ui'.consent
  BY <1>4, <1>6 DEF Written, InstallerInv, RunInv
<1>10. RunInv'
  BY <1>4, <1>6, <1>8, <1>9 DEF RunInv, Reached
<1> QED BY <1>3, <1>7, <1>10 DEF InstallerInv

LEMMA FinishStep == ASSUME InstallerInv, Finish PROVE InstallerInv'
<1>1. PICK screen \in {"failed", "finished"} : Goto(screen, ui)
  BY DEF Finish
<1>2. eng.pc \in {"failed", "installed"}
  BY DEF Finish
<1>3. screen \in Screens /\ Answered(screen, ui) /\ Reached(screen, eng.pc)
  BY <1>1, <1>2 DEF Screens, Answered, Reached
<1> QED BY <1>1, <1>2, <1>3, GotoSame

\* A frontend of its own, and the checks before anything else.
LEMMA OpeningStep ==
    ASSUME InstallerInv,
           \/ \E fe \in {"plain", "tui"} : SelectFrontend(fe)
           \/ \E ready \in BOOLEAN : Preflight(ready)
    PROVE  InstallerInv'
<1>1. CASE \E fe \in {"plain", "tui"} : SelectFrontend(fe)
  <2>1. PICK fe \in {"plain", "tui"} : SelectFrontend(fe)
    BY <1>1
  <2>2. ui \in UiType /\ ui.screen = "start" /\ eng.pc = "idle"
    BY <2>1, Asking DEF SelectFrontend, On
  <2>3. PICK term \in {"raw", "cooked"} :
           Goto("preflight", [ui EXCEPT !.fe = fe, !.term = term])
    BY <2>1 DEF SelectFrontend
  <2>4. PICK u : u = [ui EXCEPT !.fe = fe, !.term = term]
    OBVIOUS
  <2>5. u \in UiType /\ u.consent = ui.consent
    BY <2>2, <2>4 DEF UiType, Terms
  <2>6. "preflight" \in Screens /\ Answered("preflight", u)
        /\ Reached("preflight", eng.pc)
    BY <2>2 DEF Screens, Answered, Reached
  <2>7. Goto("preflight", u)
    BY <2>3, <2>4
  <2> QED BY <2>2, <2>5, <2>6, <2>7, GotoStep
<1>2. CASE \E ready \in BOOLEAN : Preflight(ready)
  <2>1. ui.screen = "preflight" /\ (Goto("welcome", ui) \/ Leave("failed"))
    BY <1>2 DEF Preflight, On
  <2>2. eng.pc = "idle" /\ "failed" \in Exits /\ ui.screen \in MayEnd
    BY <2>1, Asking DEF Exits, MayEnd
  <2>3. "welcome" \in Screens /\ Answered("welcome", ui)
        /\ Reached("welcome", eng.pc)
    BY <2>2 DEF Screens, Answered, Reached
  <2> QED BY <2>1, <2>2, <2>3, GotoSame, LeaveSame
<1> QED BY <1>1, <1>2

-----------------------------------------------------------------------------
(* The whole. *)

\* The screens of a process that has just started, whatever was agreed to before it.
LEMMA FreshScreens ==
    ASSUME NEW consent \in SUBSET Disks, NEW u,
           u = [Ui0 EXCEPT !.consent = consent] \/ (u = Ui0 /\ consent = {})
    PROVE  u \in UiType /\ u.consent = consent /\ u.screen = "start" /\ u.cursor = 1
<1>1. /\ <<>> \in Offers /\ 0 \in 0..MaxKeys /\ "" \in Words /\ "" \in Exits
      /\ "start" \in Screens /\ "cooked" \in Terms /\ <<>> \in {s \in Seq(Nat) : Len(s) <= 2}
  BY ScreenAssumption DEF Offers, Words, Hostnames, Exits, Screens, Terms
<1>2. CASE u = [Ui0 EXCEPT !.consent = consent]
  BY <1>1, <1>2 DEF Ui0, UiType
<1>3. CASE u = Ui0 /\ consent = {}
  BY <1>1, <1>3 DEF Ui0, UiType
<1> QED BY <1>2, <1>3

LEMMA RerunStep == ASSUME InstallerInv, Rerun PROVE InstallerInv'
<1>1. /\ ui \in UiType /\ ui.consent \subseteq Disks /\ Again
      /\ ui' = [Ui0 EXCEPT !.consent = ui.consent]
  BY Asking, UiFields DEF Rerun
<1>2. /\ ui' \in UiType /\ ui'.consent = ui.consent /\ ui'.screen = "start" /\ ui'.cursor = 1
  BY <1>1, FreshScreens
<1>3. ScreenInv'
  BY <1>2 DEF ScreenInv, CursorIn, Answered
<1>4. eng'.pc = "idle" /\ media' = media
  BY <1>1 DEF Again, Idle
<1>5. RunInv'
  <2>1. Written' = Written /\ Written \subseteq ui.consent
    BY <1>4 DEF Written, InstallerInv, RunInv
  <2> QED BY <1>2, <1>4, <2>1 DEF RunInv, Reached
<1>6. EngineInv'
  BY <1>1, AgainStep DEF InstallerInv
<1> QED BY <1>3, <1>5, <1>6 DEF InstallerInv

LEMMA InstallerStarts == ASSUME Init PROVE InstallerInv
<1>1. ui = Ui0 /\ EngineInit
  BY DEF Init
<1>2. EngineInv /\ eng.pc = "idle" /\ media = Untouched
  BY <1>1, EngineStarts DEF EngineInit, Idle
<1>3. ui \in UiType /\ ui.consent = {} /\ ui.screen = "start" /\ ui.cursor = 1
  <2>1. PICK u : u = Ui0
    OBVIOUS
  <2>2. u \in UiType /\ u.consent = {} /\ u.screen = "start" /\ u.cursor = 1
    BY <2>1, FreshScreens
  <2> QED BY <1>1, <2>1, <2>2
<1>4. ScreenInv
  BY <1>3 DEF ScreenInv, CursorIn, Answered
<1>5. RunInv
  BY <1>2, <1>3 DEF RunInv, Reached, Written
<1> QED BY <1>2, <1>4, <1>5 DEF InstallerInv

LEMMA InstallerStep == ASSUME InstallerInv, [Next]_vars PROVE InstallerInv'
<1>1. CASE UNCHANGED vars
  <2>1. ui' = ui /\ UNCHANGED engineVars
    BY <1>1 DEF vars
  <2>2. eng' = eng /\ Written' = Written /\ EngineInv'
    BY <2>1, EngineWaits, EngineStutter DEF InstallerInv
  <2> QED BY <2>1, <2>2 DEF InstallerInv, ScreenInv, RunInv
<1>2. CASE \E fe \in {"plain", "tui"} : SelectFrontend(fe)
  BY <1>2, OpeningStep
<1>3. CASE \E ready \in BOOLEAN : Preflight(ready) \/ Enumerate(ready)
  BY <1>3, OpeningStep, EnumerateStep
<1>4. CASE PlainNext \/ TuiNext
  BY <1>4, PlainStep, TuiStep
<1>5. CASE BeginInstall \/ Progress \/ Finish \/ DropFrontend \/ Rerun
  BY <1>5, BeginInstallStep, ProgressStep, FinishStep, DropFrontendStep, RerunStep
<1> QED BY <1>1, <1>2, <1>3, <1>4, <1>5 DEF Next

\* The screens and the engine agree in every state: the invariant the theorems below rest
\* on (engine/mod.rs run).
THEOREM InstallerInvariant == Spec => []InstallerInv
BY InstallerStarts, InstallerStep, PTL DEF Spec

\* One disk or two that differ have as many elements as places.
LEMMA MirrorSize == ASSUME NEW ds \in Mirrors PROVE Cardinality(ToSet(ds)) = Len(ds)
<1>1. ds \in Seq(Disks) /\ Len(ds) \in 1..2 /\ (Len(ds) = 2 => ds[1] # ds[2])
  BY DEF Mirrors, Selections
<1>2. CASE Len(ds) = 1
  <2>1. ToSet(ds) = {ds[1]}
    BY <1>1, <1>2 DEF ToSet
  <2> QED BY <1>2, <2>1, FS_Singleton
<1>3. CASE Len(ds) = 2
  <2>1. ToSet(ds) = {ds[1]} \cup {ds[2]}
    BY <1>1, <1>3 DEF ToSet
  <2>2. IsFiniteSet({ds[1]}) /\ Cardinality({ds[1]}) = 1
    BY FS_Singleton
  <2>3. Cardinality({ds[1]} \cup {ds[2]}) = Cardinality({ds[1]}) + 1
    BY <1>1, <1>3, <2>2, FS_AddElement
  <2> QED BY <1>3, <2>1, <2>2, <2>3
<1> QED BY <1>1, <1>2, <1>3

\* No disk is written that was not on a list the word ERASE was typed under; and whenever
\* the engine is installing, it works on that list, a valid password and hostname were
\* given, the summary was accepted and a mirror has two disks (engine/mod.rs run: "there is
\* no branch that skips the password or the typed ERASE confirmation").
THEOREM NothingIsUnconfirmed == Spec => []NothingUnconfirmed
<1>1. InstallerInv => NothingUnconfirmed
  <2> SUFFICES ASSUME InstallerInv PROVE NothingUnconfirmed
    OBVIOUS
  <2>1. Written \subseteq ui.consent /\ (eng.pc = "install" => Confirmed(ui, eng.disks))
    BY DEF InstallerInv, RunInv
  <2>2. eng.pc = "install" => Cardinality(ToSet(eng.disks)) = Len(eng.disks)
    BY <2>1, MirrorSize DEF Confirmed
  <2> QED BY <2>1, <2>2 DEF NothingUnconfirmed, Confirmed
<1> QED BY <1>1, InstallerInvariant, PTL

\* Whichever call fails, and whichever commands of the teardown itself fail, in this attempt
\* and in those before it: a mount inside a dataset outlives Session::teardown only if the
\* Session did not know of it or a umount refused it, nothing at all does when there was no
\* such mount and no export was refused, and every pool that stays imported is one a warning
\* named (engine/mod.rs: "Unwind in strict reverse dependency order").
THEOREM TeardownUnwinds == Spec => []Unwound
<1>1. InstallerInv => Unwound
  BY DEF InstallerInv, EngineInv, EndInv
<1> QED BY <1>1, InstallerInvariant, PTL

\* Whatever earlier attempts left, once release_existing_pools is over the only pools
\* imported are those this attempt has created, unless a mount inside a dataset is still
\* there or a command of this attempt refused to let go (zfs.rs: "Without this, a second
\* run fails at zpool create").
THEOREM RerunsStart == Spec => []RerunStarts
<1>1. InstallerInv => RerunStarts
  <2> SUFFICES ASSUME InstallerInv, left.refused = {}, mounts \cap Strays = {},
                      eng.pc = "install", ~At("release")
               PROVE  imported = ToSet(session.pools)
    BY DEF RerunStarts
  <2>1. EngineTypes /\ PlanInv /\ PoolInv
    BY InvParts DEF InstallerInv
  <2>2. ~Ahead("release")
    BY <2>1, Released
  <2> QED BY <2>1, <2>2 DEF PoolInv
<1> QED BY <1>1, InstallerInvariant, PTL

\* The type invariant of the installer, and what an installation that reports success
\* leaves, whichever commands failed and were only warned about: a system that finds its
\* root and lets its account log in, on its first disk and on each other unless the first
\* synchronisation was reported to have failed, with every pool exported but those a
\* warning named (engine/mod.rs install, Session::teardown).
THEOREM InstallationsWork == Spec => []InstalledWorks
<1>1. InstallerInv => InstalledWorks
  <2> SUFFICES ASSUME InstallerInv PROVE InstalledWorks
    OBVIOUS
  <2>1. InstalledBoots /\ InstalledLogsIn /\ EachDiskBoots /\ EngineInv
    BY DEF InstallerInv, EngineInv, EndInv
  <2>2. EngineTypeOK
    <3>1. \A d \in Disks : media[d].table \in {"old", "zapped", "new"} /\ media[d].esp \subseteq Loaders
      BY <2>1, InvParts
    <3>2. EngineTypes
      BY <2>1, InvParts
    <3> QED BY <3>1, <3>2, EngFields
        DEF EngineTypes, EngineTypeOK, MountPoints, Strays, LeftKind
  <2>3. ui \in UiType /\ CursorIn(ui) /\ (ui.screen = "installing" => eng.pc # "idle")
    BY Asking DEF InstallerInv, RunInv, Reached
  <2>4. DOMAIN ui.disks = 1..Len(ui.disks) /\ Len(ui.picked) <= 2 /\ ui.keys <= MaxKeys
        /\ ui.term \in {"cooked", "noecho", "echo", "raw"}
    BY <2>3, UiFields, ScreenAssumption DEF Offers, Terms
  <2> QED BY <2>1, <2>2, <2>3, <2>4 DEF InstalledWorks, TypeOK, CursorIn
<1> QED BY <1>1, InstallerInvariant, PTL
====
