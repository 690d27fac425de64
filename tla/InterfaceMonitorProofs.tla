---- MODULE InterfaceMonitorProofs ----
(***************************************************************************)
(* What the interface monitor promises for any interfaces, any number of   *)
(* clears and every fault InterfaceMonitor names: a counter shows what was *)
(* counted since it was cleared and a count of transitions is the          *)
(* transitions there were.  With one writer the file is never half         *)
(* written, and with a clock that is not set back a rate is over the whole *)
(* interval asked for.                                                     *)
(***************************************************************************)
EXTENDS InterfaceMonitor, WellFoundedInduction, FiniteSetTheorems, TLAPS

(***************************************************************************)
(* Types                                                                   *)
(***************************************************************************)

States == Opers \cup {"gone"}
Histories ==
    [changes : Nat, since : Seq(Nat), oper : States \cup {"unknown"}, cleared : Seq(Nat), baseline : Seq(Nat)]
Readings == [at : Nat, octets : Nat]
Events == [name : Ifs, oper : States, stats : Seq(Nat)]

IsTracker(t) ==
    /\ DOMAIN t = {"samples", "history"}
    /\ DOMAIN t.samples \subseteq Counted /\ DOMAIN t.history \subseteq Ifs
    /\ \A n \in DOMAIN t.history : t.history[n] \in Histories
    /\ \A n \in DOMAIN t.samples : t.samples[n] \in Seq(Readings)

IsDump(d) ==
    /\ DOMAIN d \subseteq Ifs
    /\ \A n \in DOMAIN d :
         /\ d[n].name = n /\ d[n].oper \in Opers /\ d[n].stats \in Seq(Nat)
         /\ d[n].stats # <<>> <=> n \in Counted

Fields == {"pc", "links", "text", "fd", "count", "marks"}
SamplerPcs == {"idle", "read", "write", "open", "rename", "sleep"}
ClearerPcs == {"idle", "read", "persist", "open", "write", "rename"}

Ghosts ==
    [moves : [Ifs -> Nat], total : [Ifs -> Nat], base : [Ifs -> Nat],
     reset : [Ifs -> BOOLEAN], crossed : [Ifs -> BOOLEAN], lost : [Ifs -> BOOLEAN],
     noted : [Ifs -> BOOLEAN], taken : [Ifs -> SUBSET Nat], stepped : BOOLEAN, clears : Nat,
     answered : [Ifs -> Seq(Nat)], count : Nat, restarts : Nat]

KernelOK == kernel \in [Ifs -> [oper : States, octets : Nat]]
QueueOK == queue \in Seq(Events) /\ broken \in BOOLEAN
ClockOK == clock \in 0..MaxTime /\ lock \in {"free", "sampler"}
TrackerOK == IsTracker(tracker)
SamplerOK ==
    /\ DOMAIN sampler = Fields /\ sampler.pc \in SamplerPcs /\ sampler.count \in Nat
    /\ sampler.fd \in Inodes \cup {NoFile}
    /\ sampler.links # <<>> => IsDump(sampler.links[1])
ClearerOK ==
    /\ DOMAIN clearer = Clearers
    /\ \A c \in Clearers :
         /\ DOMAIN clearer[c] = Fields /\ clearer[c].pc \in ClearerPcs
         /\ clearer[c].fd \in Inodes \cup {NoFile}
         /\ clearer[c].pc = "read" => IsDump(clearer[c].links[1]) /\ clearer[c].marks \in [Ifs -> Nat]
         /\ clearer[c].pc \in {"open", "write", "rename"} => IsTracker(clearer[c].text[1])
Contents(d) == d[1] = "whole" => IsTracker(d[2])
FilesOK ==
    /\ DOMAIN files = {"tmp", "file", "data"}
    /\ files.tmp \in Inodes \cup {NoFile} /\ files.file \in Inodes \cup {NoFile}
    /\ DOMAIN files.data = Inodes /\ \A i \in Inodes : Contents(files.data[i])
GhostOK == ghost \in Ghosts
CountedOK == \A n \in Ifs : kernel[n].octets <= ghost.total[n] /\ ghost.total[n] <= MaxOctets

TypeInv ==
    /\ KernelOK /\ QueueOK /\ ClockOK /\ TrackerOK /\ SamplerOK /\ ClearerOK /\ FilesOK
    /\ GhostOK /\ CountedOK

LEMMA MinIs == ASSUME NEW S \in SUBSET Nat, S # {} PROVE Min(S) \in S /\ \A y \in S : Min(S) <= y
<1> DEFINE R == {ss \in Nat \X Nat : ss[1] < ss[2]}
<1>1. IsWellFoundedOn(R, Nat)
  <2>1. R = OpToRel(<, Nat)
    BY Zenon DEF OpToRel
  <2> QED BY <2>1, NatLessThanWellFounded, Zenon
<1>2. \A y, z \in Nat : <<y, z>> \in R <=> y < z
  OBVIOUS
<1> HIDE DEF R
<1>3. PICK x \in S : \A y \in S : ~(<<y, x>> \in R)
  BY <1>1, WFMin
<1>4. ASSUME NEW y \in S PROVE x <= y
  <2>1. x \in Nat /\ y \in Nat
    OBVIOUS
  <2>2. ~(y < x)
    BY <1>2, <1>3, <2>1
  <2> QED BY <2>1, <2>2
<1> QED BY <1>4 DEF Min

(***************************************************************************)
(* What the operators of Tracker leave of a history                        *)
(***************************************************************************)

LEMMA EntryTyped ==
    ASSUME NEW t, IsTracker(t), NEW n
    PROVE  Entry(t, n) \in Histories
BY DEF IsTracker, Entry, Fresh, Histories

LEMMA SampleLinkTyped ==
    ASSUME NEW t, IsTracker(t), NEW l, l.oper \in States, NEW now \in Nat
    PROVE  /\ SampleLink(t, l, now) \in Histories
           /\ SampleLink(t, l, now).baseline = Entry(t, l.name).baseline
<1>1. PICK h \in Histories : h = Entry(t, l.name)
  BY EntryTyped
<1>2. PICK since \in Seq(Nat), o \in States : since = <<now>> /\ o = l.oper
  <2>1. <<now>> \in Seq(Nat)
    OBVIOUS
  <2> QED BY <2>1
<1>3. SampleLink(t, l, now) = IF h.since = <<>> THEN [h EXCEPT !.since = since, !.oper = o]
                              ELSE IF h.oper # o
                                   THEN [h EXCEPT !.oper = o, !.changes = @ + 1, !.since = since] ELSE h
  BY <1>1, <1>2 DEF SampleLink
<1>4. h.changes + 1 \in Nat
  BY DEF Histories
<1> QED BY <1>1, <1>2, <1>3, <1>4 DEF Histories

LEMMA TrimmedTyped ==
    ASSUME NEW s \in Seq(Readings), NEW now \in Nat
    PROVE  Trimmed(s, now) \in Seq(Readings)
<1> DEFINE late == {i \in 1..Len(s) : SaturatingSub(now, s[i].at) <= History}
<1>1. late \in SUBSET Nat /\ late \subseteq 1..Len(s)
  OBVIOUS
<1>2. CASE late = {}
  BY <1>2 DEF Trimmed
<1>3. CASE late # {}
  <2>1. PICK m \in 1..Len(s) : m = Min(late)
    BY <1>1, <1>3, MinIs
  <2>2. Trimmed(s, now) = SubSeq(s, m, Len(s))
    BY <1>3, <2>1 DEF Trimmed
  <2> QED BY <2>2
<1> QED BY <1>2, <1>3

LEMMA PushedTyped ==
    ASSUME NEW t, IsTracker(t), NEW l, l.stats \in Seq(Nat), NEW now \in Nat
    PROVE  Pushed(t, l, now) \in Seq(Readings)
<1> DEFINE old == IF l.name \in DOMAIN t.samples THEN t.samples[l.name] ELSE <<>>
<1>1. old \in Seq(Readings)
  BY DEF IsTracker
<1>2. CASE l.stats = <<>>
  BY <1>1, <1>2 DEF Pushed
<1>3. CASE l.stats # <<>>
  <2>1. [at |-> now, octets |-> l.stats[1]] \in Readings
    BY <1>3 DEF Readings
  <2>2. Append(old, [at |-> now, octets |-> l.stats[1]]) \in Seq(Readings)
    BY <1>1, <2>1
  <2> QED BY <1>3, <2>2, TrimmedTyped DEF Pushed
<1> QED BY <1>2, <1>3

\* A dump leaves the baselines alone, and the histories of the links it does not name.
LEMMA SampleTyped ==
    ASSUME NEW t, IsTracker(t), NEW d, IsDump(d), NEW now \in Nat
    PROVE  /\ IsTracker(Sample(t, d, now))
           /\ DOMAIN Sample(t, d, now).history = DOMAIN t.history \cup DOMAIN d
           /\ \A n \in DOMAIN d : Sample(t, d, now).history[n] = SampleLink(t, d[n], now)
           /\ \A n \in DOMAIN t.history \ DOMAIN d : Sample(t, d, now).history[n] = t.history[n]
           /\ \A n : Entry(Sample(t, d, now), n).baseline = Entry(t, n).baseline
<1> DEFINE u == Sample(t, d, now)
<1>1. /\ DOMAIN u = {"samples", "history"}
      /\ DOMAIN u.samples = {m \in DOMAIN d : m \in DOMAIN t.samples \/ d[m].stats # <<>>}
      /\ \A n \in DOMAIN u.samples : u.samples[n] = Pushed(t, d[n], now)
      /\ DOMAIN u.history = DOMAIN t.history \cup DOMAIN d
      /\ \A n \in DOMAIN d : u.history[n] = SampleLink(t, d[n], now)
      /\ \A n \in DOMAIN t.history \ DOMAIN d : u.history[n] = t.history[n]
  BY DEF Sample
<1> HIDE DEF u
<1>2. \A n \in DOMAIN d : /\ SampleLink(t, d[n], now) \in Histories
                          /\ SampleLink(t, d[n], now).baseline = Entry(t, n).baseline
  BY SampleLinkTyped DEF IsDump, States
<1>3. IsTracker(u)
  <2>1. \A n \in DOMAIN u.samples : u.samples[n] \in Seq(Readings)
    BY <1>1, PushedTyped DEF IsDump
  <2> QED BY <1>1, <1>2, <2>1 DEF IsTracker, IsDump
<1>4. \A n : Entry(u, n).baseline = Entry(t, n).baseline
  BY <1>1, <1>2 DEF Entry
<1> QED BY <1>1, <1>3, <1>4 DEF u

LEMMA NoteEventTyped ==
    ASSUME NEW t, IsTracker(t), NEW e \in Events, NEW now \in Nat
    PROVE  /\ IsTracker(NoteEvent(t, e, now))
           /\ DOMAIN NoteEvent(t, e, now).history = DOMAIN t.history \cup {e.name}
           /\ NoteEvent(t, e, now).history[e.name].oper = e.oper
           /\ NoteEvent(t, e, now).history[e.name].since # <<>>
           /\ NoteEvent(t, e, now).history[e.name].changes =
                  IF Entry(t, e.name).since # <<>> /\ Entry(t, e.name).oper # e.oper
                  THEN Entry(t, e.name).changes + 1 ELSE Entry(t, e.name).changes
           /\ \A n \in DOMAIN t.history \ {e.name} : NoteEvent(t, e, now).history[n] = t.history[n]
           /\ \A n : Entry(NoteEvent(t, e, now), n).baseline = Entry(t, n).baseline
<1> DEFINE u == NoteEvent(t, e, now)
<1>1. PICK h \in Histories : h = Entry(t, e.name)
  BY EntryTyped
<1>2. PICK since \in Seq(Nat), o \in States, m \in Ifs :
          since = <<now>> /\ since # <<>> /\ o = e.oper /\ m = e.name
  <2>1. <<now>> \in Seq(Nat) /\ <<now>> # <<>> /\ e.oper \in States /\ e.name \in Ifs
    BY DEF Events
  <2> QED BY <2>1
<1> DEFINE moved == h.since # <<>> /\ h.oper # o
<1>3. PICK g : g = [h EXCEPT !.changes = IF moved THEN @ + 1 ELSE @, !.oper = o,
                             !.since = IF moved \/ @ = <<>> THEN since ELSE @]
  OBVIOUS
<1>4. h.changes + 1 \in Nat
  BY DEF Histories
<1>5. /\ g \in Histories /\ g.oper = o /\ g.since # <<>> /\ g.baseline = h.baseline
      /\ g.changes = IF moved THEN h.changes + 1 ELSE h.changes
  BY <1>2, <1>3, <1>4 DEF Histories
<1>6. u = [t EXCEPT !.history = Put(@, m, g)]
  BY <1>1, <1>2, <1>3 DEF NoteEvent
<1>7. /\ DOMAIN u = {"samples", "history"} /\ u.samples = t.samples
      /\ DOMAIN u.history = DOMAIN t.history \cup {m}
      /\ u.history[m] = g /\ \A n \in DOMAIN t.history \ {m} : u.history[n] = t.history[n]
  BY <1>6 DEF IsTracker, Put
<1> HIDE DEF u
<1>8. IsTracker(u)
  BY <1>5, <1>7 DEF IsTracker
<1>9. \A n : Entry(u, n).baseline = Entry(t, n).baseline
  BY <1>1, <1>2, <1>5, <1>7 DEF Entry
<1> QED BY <1>1, <1>2, <1>5, <1>7, <1>8, <1>9 DEF u

\* A clear takes the baselines from the dump and starts the counts of transitions anew.
LEMMA ClearTyped ==
    ASSUME NEW t, IsTracker(t), NEW d, IsDump(d), NEW now \in Nat,
           NEW hit \in SUBSET DOMAIN d
    PROVE  /\ IsTracker(Clear(t, hit, d, now))
           /\ DOMAIN Clear(t, hit, d, now).history = DOMAIN t.history \cup hit
           /\ \A n \in hit : /\ Entry(Clear(t, hit, d, now), n).baseline = d[n].stats
                              /\ Clear(t, hit, d, now).history[n].changes = 0
                              /\ Clear(t, hit, d, now).history[n].oper = Entry(t, n).oper
                              /\ Clear(t, hit, d, now).history[n].since = Entry(t, n).since
           /\ \A n \in DOMAIN t.history \ hit : Clear(t, hit, d, now).history[n] = t.history[n]
           /\ \A n : n \notin hit => Entry(Clear(t, hit, d, now), n).baseline = Entry(t, n).baseline
<1> DEFINE u == Clear(t, hit, d, now)
<1>1. /\ DOMAIN u = {"samples", "history"} /\ u.samples = t.samples
      /\ DOMAIN u.history = DOMAIN t.history \cup hit
      /\ \A n \in hit : u.history[n] =
            [Entry(t, n) EXCEPT !.baseline = d[n].stats, !.cleared = <<now>>, !.changes = 0]
      /\ \A n \in DOMAIN t.history \ hit : u.history[n] = t.history[n]
  BY DEF Clear, IsTracker
<1> HIDE DEF u
<1>2. ASSUME NEW n \in hit
      PROVE  /\ u.history[n] \in Histories /\ u.history[n].baseline = d[n].stats
             /\ u.history[n].changes = 0 /\ u.history[n].oper = Entry(t, n).oper
             /\ u.history[n].since = Entry(t, n).since
  <2>1. PICK h \in Histories : h = Entry(t, n)
    BY EntryTyped
  <2>2. PICK b \in Seq(Nat), at \in Seq(Nat) : b = d[n].stats /\ at = <<now>>
    <3>1. <<now>> \in Seq(Nat) /\ d[n].stats \in Seq(Nat)
      BY DEF IsDump
    <3> QED BY <3>1
  <2>3. PICK g : g = u.history[n] /\ g = [h EXCEPT !.baseline = b, !.cleared = at, !.changes = 0]
    BY <1>1, <2>1, <2>2
  <2>4. /\ DOMAIN g = DOMAIN h /\ g.baseline = b /\ g.cleared = at /\ g.changes = 0
        /\ g.oper = h.oper /\ g.since = h.since
    BY <2>3 DEF Histories
  <2>5. g = [changes |-> 0, since |-> h.since, oper |-> h.oper, cleared |-> at, baseline |-> b]
    BY <2>3 DEF Histories
  <2>6. g \in Histories
    BY <2>5 DEF Histories
  <2> QED BY <2>1, <2>2, <2>3, <2>4, <2>6
<1>3. IsTracker(u)
  BY <1>1, <1>2 DEF IsTracker, IsDump
<1>4. /\ \A n \in hit : Entry(u, n).baseline = d[n].stats
      /\ \A n : n \notin hit => Entry(u, n).baseline = Entry(t, n).baseline
  BY <1>1, <1>2 DEF Entry
<1> QED BY <1>1, <1>2, <1>3, <1>4 DEF u

LEMMA EmptyTyped == IsTracker(Empty)
BY DEF IsTracker, Empty

LEMMA LoadTyped == ASSUME FilesOK PROVE IsTracker(Load)
BY EmptyTyped DEF Load, FilesOK, Contents

(***************************************************************************)
(* Writing                                                                 *)
(***************************************************************************)

\* There are more inodes than writers that may hold one.
LEMMA FreeInode ==
    ASSUME FilesOK, SamplerOK, ClearerOK, files.tmp = NoFile
    PROVE  Inodes \ InUse # {}
<1> DEFINE fds == {clearer[c].fd : c \in Clearers}
           fd == [c \in Clearers |-> clearer[c].fd]
           k == Cardinality(Clearers)
<1>1. IsFiniteSet(Clearers) /\ k \in Nat
  BY MonitorAssumption, FS_CardinalityType
<1>2. IsFiniteSet(fds) /\ Cardinality(fds) <= k
  <2>1. fd \in Surjection(Clearers, fds)
    <3>1. fd \in [Clearers -> fds] /\ \A x \in fds : \E c \in Clearers : fd[c] = x
      OBVIOUS
    <3> QED BY <3>1 DEF Surjection
  <2> HIDE DEF fd, fds
  <2> QED BY <1>1, <2>1, FS_Surjection
<1> DEFINE one == fds \cup {files.file}
           two == one \cup {sampler.fd}
<1>3. InUse \ {NoFile} \subseteq two
  BY DEF InUse
<1> HIDE DEF fds, fd, k
<1>4. IsFiniteSet(one) /\ Cardinality(one) <= k + 1
  <2>1. Cardinality(fds) \in Nat
    BY <1>2, FS_CardinalityType
  <2>2. IsFiniteSet(one) /\ Cardinality(one) = IF files.file \in fds THEN Cardinality(fds) ELSE Cardinality(fds) + 1
    BY <1>2, FS_AddElement
  <2> QED BY <1>1, <1>2, <2>1, <2>2
<1> HIDE DEF one
<1>5. IsFiniteSet(two) /\ Cardinality(two) \in Nat /\ Cardinality(two) <= k + 2
  <2>1. Cardinality(one) \in Nat
    BY <1>4, FS_CardinalityType
  <2>2. IsFiniteSet(two) /\ Cardinality(two) = IF sampler.fd \in one THEN Cardinality(one) ELSE Cardinality(one) + 1
    BY <1>4, FS_AddElement
  <2> QED BY <1>1, <1>4, <2>1, <2>2
<1> HIDE DEF two
<1>6. Inodes = 1..(k + 3) /\ Cardinality(Inodes) = k + 3 /\ NoFile \notin Inodes
  <2>1. Inodes = 1..(k + 3)
    BY DEF Inodes, k
  <2>2. Cardinality(1..(k + 3)) = k + 3
    BY <1>1, FS_Interval
  <2> QED BY <1>1, <2>1, <2>2 DEF NoFile
<1>7. SUFFICES ASSUME Inodes \subseteq InUse PROVE FALSE
  OBVIOUS
<1>8. Inodes \subseteq two
  BY <1>3, <1>6, <1>7
<1>9. Cardinality(Inodes) <= Cardinality(two)
  BY <1>5, <1>8, FS_Subset
<1> QED BY <1>1, <1>5, <1>6, <1>9

\* File::create: the inode is one, it is what the temporary name is of, and it is empty.
LEMMA OpenedIs ==
    ASSUME FilesOK, SamplerOK, ClearerOK
    PROVE  /\ Opened.inode \in Inodes
           /\ Opened.files.tmp = Opened.inode /\ Opened.files.file = files.file
           /\ DOMAIN Opened.files = {"tmp", "file", "data"} /\ DOMAIN Opened.files.data = Inodes
           /\ Opened.files.data[Opened.inode] = <<"empty">>
           /\ \A i \in Inodes \ {Opened.inode} : Opened.files.data[i] = files.data[i]
           /\ Opened.inode = files.tmp \/ Opened.inode \notin InUse
<1> DEFINE i == IF files.tmp # NoFile THEN files.tmp ELSE Min(Inodes \ InUse)
<1>1. i \in Inodes /\ (i = files.tmp \/ i \notin InUse)
  <2>1. CASE files.tmp # NoFile
    BY <2>1 DEF FilesOK
  <2>2. CASE files.tmp = NoFile
    <3>1. Inodes \ InUse # {} /\ Inodes \ InUse \in SUBSET Nat
      BY <2>2, FreeInode DEF Inodes
    <3>2. Min(Inodes \ InUse) \in Inodes \ InUse
      BY <3>1, MinIs
    <3> QED BY <2>2, <3>2
  <2> QED BY <2>1, <2>2
<1>2. Opened = [inode |-> i, files |-> [files EXCEPT !.tmp = i, !.data[i] = <<"empty">>]]
  BY DEF Opened
<1> HIDE DEF i
<1>3. PICK f : f = [files EXCEPT !.tmp = i, !.data[i] = <<"empty">>]
  OBVIOUS
<1>4. /\ DOMAIN f = {"tmp", "file", "data"} /\ f.tmp = i /\ f.file = files.file
      /\ f.data = [files.data EXCEPT ![i] = <<"empty">>]
  BY <1>3 DEF FilesOK
<1>5. /\ DOMAIN f.data = Inodes /\ f.data[i] = <<"empty">>
      /\ \A j \in Inodes \ {i} : f.data[j] = files.data[j]
  BY <1>1, <1>4 DEF FilesOK
<1>6. Opened.inode = i /\ Opened.files = f
  BY <1>2, <1>3
<1> QED BY <1>1, <1>4, <1>5, <1>6

(***************************************************************************)
(* The types are kept                                                      *)
(***************************************************************************)

LEMMA DumpTyped == ASSUME KernelOK PROVE IsDump(Links)
<1>1. DOMAIN Links \subseteq Ifs
  BY DEF Links
<1>2. ASSUME NEW n \in DOMAIN Links
      PROVE  /\ Links[n].name = n /\ Links[n].oper \in Opers /\ Links[n].stats \in Seq(Nat)
             /\ Links[n].stats # <<>> <=> n \in Counted
  <2>1. /\ n \in Ifs /\ kernel[n].oper # "gone"
        /\ Links[n] = [name |-> n, oper |-> kernel[n].oper,
                       stats |-> IF n \in Counted THEN <<kernel[n].octets>> ELSE <<>>]
    BY <1>2 DEF Links
  <2>2. kernel[n].oper \in Opers /\ <<kernel[n].octets>> \in Seq(Nat) /\ <<kernel[n].octets>> # <<>>
    BY <2>1 DEF KernelOK, States
  <2> QED BY <2>1, <2>2
<1> QED BY <1>1, <1>2 DEF IsDump

LEMMA MoveTyped == ASSUME TypeInv, NEW n \in Ifs, NEW o \in States, Move(n, o) PROVE TypeInv'
<1>1. KernelOK'
  BY DEF TypeInv, Move, KernelOK
<1>2. QueueOK'
  <2>1. Event(n, o) \in Events
    BY DEF Event, Events
  <2> QED BY <2>1 DEF TypeInv, Move, QueueOK
<1>3. PICK j \in Nat, k \in Nat, lost \in BOOLEAN, reset \in BOOLEAN :
          ghost' = [ghost EXCEPT !.count = j, !.moves[n] = k, !.lost[n] = lost, !.reset[n] = reset]
  <2>1. ghost.count + 1 \in Nat /\ ghost.moves[n] + 1 \in Nat /\ ghost.moves[n] \in Nat
    BY DEF TypeInv, GhostOK, Ghosts
  <2>2. (ghost.lost[n] \/ broken) \in BOOLEAN /\ (ghost.reset[n] \/ o = "gone") \in BOOLEAN
    OBVIOUS
  <2>3. (IF n \in DOMAIN tracker.history THEN ghost.moves[n] + 1 ELSE ghost.moves[n]) \in Nat
    BY <2>1
  <2> QED BY <2>1, <2>2, <2>3, Zenon DEF Move
<1>4. GhostOK'
  BY <1>3 DEF TypeInv, GhostOK, Ghosts
<1>5. CountedOK'
  BY <1>3 DEF TypeInv, Move, CountedOK, GhostOK, Ghosts, KernelOK
<1> QED BY <1>1, <1>2, <1>4, <1>5 DEF TypeInv, Move, ClockOK, TrackerOK, SamplerOK, ClearerOK, FilesOK

LEMMA CountTyped == ASSUME TypeInv, NEW n \in Counted, Count(n) PROVE TypeInv'
<1>1. n \in Ifs /\ KernelOK'
  BY MonitorAssumption DEF TypeInv, Count, KernelOK
<1>2. PICK k \in Nat : k = ghost.total[n] + 1 /\ ghost' = [ghost EXCEPT !.total[n] = k]
  <2>1. ghost.total[n] + 1 \in Nat
    BY <1>1 DEF TypeInv, GhostOK, Ghosts
  <2> QED BY <2>1, Zenon DEF Count
<1>3. GhostOK'
  BY <1>1, <1>2 DEF TypeInv, GhostOK, Ghosts
<1>4. CountedOK'
  <2>1. k <= MaxOctets /\ MaxOctets \in Nat
    BY <1>1, <1>2, MonitorAssumption DEF TypeInv, Count, GhostOK, Ghosts
  <2>2. /\ ghost'.total = [ghost.total EXCEPT ![n] = k]
        /\ kernel' = [kernel EXCEPT ![n].octets = @ + 1]
    BY <1>2 DEF TypeInv, Count, GhostOK, Ghosts
  <2>3. /\ ghost'.total[n] = k /\ kernel'[n].octets = kernel[n].octets + 1
        /\ \A m \in Ifs \ {n} : ghost'.total[m] = ghost.total[m] /\ kernel'[m] = kernel[m]
    BY <1>1, <2>2 DEF TypeInv, KernelOK, GhostOK, Ghosts
  <2>4. kernel[n].octets \in Nat /\ ghost.total[n] \in Nat /\ kernel[n].octets <= ghost.total[n]
    BY <1>1 DEF TypeInv, KernelOK, CountedOK, GhostOK, Ghosts
  <2> QED BY <1>2, <2>1, <2>3, <2>4 DEF TypeInv, CountedOK
<1> QED BY <1>1, <1>3, <1>4 DEF TypeInv, Count, QueueOK, ClockOK, TrackerOK, SamplerOK, ClearerOK, FilesOK

LEMMA DriverReloadTyped == ASSUME TypeInv, NEW n \in Ifs, DriverReload(n) PROVE TypeInv'
<1>1. KernelOK'
  BY DEF TypeInv, DriverReload, KernelOK
<1>2. GhostOK'
  BY DEF TypeInv, DriverReload, GhostOK, Ghosts
<1>3. CountedOK'
  BY DEF TypeInv, DriverReload, CountedOK, GhostOK, Ghosts, KernelOK
<1> QED BY <1>1, <1>2, <1>3 DEF TypeInv, DriverReload, QueueOK, ClockOK, TrackerOK, SamplerOK, ClearerOK, FilesOK

LEMMA OverrunTyped == ASSUME TypeInv, Overrun PROVE TypeInv'
<1>1. QueueOK'
  BY DEF Overrun, QueueOK
<1>2. GhostOK'
  BY DEF TypeInv, Overrun, GhostOK, Ghosts
<1>3. CountedOK'
  BY DEF TypeInv, Overrun, CountedOK, GhostOK, Ghosts
<1> QED BY <1>1, <1>2, <1>3 DEF TypeInv, Overrun, KernelOK, ClockOK, TrackerOK, SamplerOK, ClearerOK, FilesOK

LEMMA SetBackTyped == ASSUME TypeInv, SetBack PROVE TypeInv'
<1>1. ClockOK'
  BY MonitorAssumption DEF TypeInv, SetBack, ClockOK
<1>2. GhostOK'
  BY DEF TypeInv, SetBack, GhostOK, Ghosts
<1>3. CountedOK'
  BY DEF TypeInv, SetBack, CountedOK, GhostOK, Ghosts
<1> QED BY <1>1, <1>2, <1>3 DEF TypeInv, SetBack, KernelOK, QueueOK, TrackerOK, SamplerOK, ClearerOK, FilesOK

LEMMA WatchTyped == ASSUME TypeInv, Watch PROVE TypeInv'
<1> DEFINE e == Head(queue)
<1>1. e \in Events /\ clock \in Nat /\ queue \in Seq(Events) /\ queue # <<>>
  BY DEF TypeInv, Watch, QueueOK, ClockOK
<1>2. TrackerOK'
  BY <1>1, NoteEventTyped DEF TypeInv, Watch, TrackerOK
<1>3. QueueOK'
  BY <1>1 DEF TypeInv, Watch, QueueOK
<1>4. GhostOK'
  <2>1. Cardinality(Pending(e.name)) \in Nat \ {0}
    <3>1. 1 \in Pending(e.name) /\ Pending(e.name) \subseteq 1..Len(queue) /\ Len(queue) \in Nat
      BY <1>1 DEF Pending
    <3>2. IsFiniteSet(1..Len(queue))
      BY <3>1, FS_Interval
    <3>3. IsFiniteSet(Pending(e.name))
      BY <3>1, <3>2, FS_Subset
    <3> QED BY <3>1, <3>3, FS_EmptySet, FS_CardinalityType
  <2>2. PICK k \in Nat : k = Cardinality(Pending(e.name)) - 1
    BY <2>1
  <2>3. ghost' = [ghost EXCEPT !.noted[e.name] = TRUE,
                      !.moves[e.name] = IF e.name \in DOMAIN tracker.history THEN @ ELSE k]
    BY <2>2 DEF Watch
  <2> HIDE DEF e
  <2> QED BY <1>1, <2>3 DEF TypeInv, GhostOK, Ghosts, Events
<1>5. CountedOK'
  BY DEF TypeInv, Watch, CountedOK, GhostOK, Ghosts
<1> QED BY <1>2, <1>3, <1>4, <1>5 DEF TypeInv, Watch, KernelOK, ClockOK, SamplerOK, ClearerOK, FilesOK

LEMMA ReopenTyped == ASSUME TypeInv, Reopen PROVE TypeInv'
BY DEF TypeInv, Reopen, KernelOK, QueueOK, ClockOK, TrackerOK, SamplerOK, ClearerOK, FilesOK, GhostOK, CountedOK

LEMMA SamplerReadTyped == ASSUME TypeInv, SamplerRead \/ SamplerReadFails PROVE TypeInv'
<1>1. SamplerOK'
  <2>1. CASE SamplerRead
    <3>1. IsDump(Links)
      BY DumpTyped DEF TypeInv
    <3>2. PICK d : d = Links
      OBVIOUS
    <3>3. sampler' = [sampler EXCEPT !.pc = "read", !.links = <<d>>] /\ <<d>>[1] = d
      BY <2>1, <3>2 DEF SamplerRead
    <3> QED BY <3>1, <3>2, <3>3 DEF TypeInv, SamplerOK, Fields, SamplerPcs
  <2>2. CASE SamplerReadFails
    BY <2>2 DEF TypeInv, SamplerReadFails, SamplerOK, Fields, SamplerPcs
  <2> QED BY <2>1, <2>2
<1>2. GhostOK' /\ ghost'.total = ghost.total
  <2>1. CASE SamplerRead
    <3>1. PICK noted \in [Ifs -> BOOLEAN] : noted = [n \in Ifs |-> FALSE]
      OBVIOUS
    <3>2. ghost' = [ghost EXCEPT !.noted = noted]
      BY <2>1, <3>1 DEF SamplerRead
    <3> QED BY <3>2 DEF TypeInv, GhostOK, Ghosts
  <2>2. CASE SamplerReadFails
    BY <2>2 DEF TypeInv, SamplerReadFails, GhostOK
  <2> QED BY <2>1, <2>2
<1>3. UNCHANGED <<kernel, queue, broken, clock, tracker, lock, clearer, files>>
  BY DEF SamplerRead, SamplerReadFails
<1> QED BY <1>1, <1>2, <1>3 DEF TypeInv, KernelOK, QueueOK, ClockOK, TrackerOK, ClearerOK, FilesOK, CountedOK

LEMMA SamplerApplyTyped == ASSUME TypeInv, SamplerApply PROVE TypeInv'
<1>1. clock \in Nat /\ (sampler.links # <<>> => IsDump(sampler.links[1])) /\ PersistEvery \in Nat \ {0}
  BY MonitorAssumption DEF TypeInv, SamplerOK, ClockOK
<1>2. TrackerOK'
  BY <1>1, SampleTyped DEF TypeInv, SamplerApply, TrackerOK
<1>3. SamplerOK'
  <2>1. sampler.count \in Nat /\ (sampler.count + 1) % PersistEvery \in Nat
    BY <1>1 DEF TypeInv, SamplerOK
  <2>2. PICK k \in Nat, pc \in {"write", "sleep"} :
            sampler' = [sampler EXCEPT !.links = <<>>, !.count = k, !.pc = pc]
    <3>1. (IF sampler.count + 1 = PersistEvery THEN "write" ELSE "sleep") \in {"write", "sleep"}
      OBVIOUS
    <3> QED BY <2>1, <3>1, Zenon DEF SamplerApply
  <2> QED BY <2>2 DEF TypeInv, SamplerOK, Fields, SamplerPcs
<1>4. GhostOK' /\ ghost'.total = ghost.total
  <2>1. CASE sampler.links = <<>>
    BY <2>1 DEF TypeInv, SamplerApply, GhostOK
  <2>2. CASE sampler.links # <<>>
    <3> DEFINE names == DOMAIN sampler.links[1]
    <3>1. PICK crossed, taken :
            /\ crossed = [n \in Ifs |-> ghost.crossed[n] \/ (n \in names /\ Overlaps(n))]
            /\ taken = [n \in Ifs |-> IF n \in names \cap Counted THEN ghost.taken[n] \cup {clock} ELSE {}]
      OBVIOUS
    <3>2. crossed \in [Ifs -> BOOLEAN]
      BY <3>1, Zenon
    <3>3. taken \in [Ifs -> SUBSET Nat]
      BY <1>1, <3>1 DEF TypeInv, GhostOK, Ghosts
    <3>4. ghost' = [ghost EXCEPT !.crossed = crossed, !.taken = taken]
      BY <2>2, <3>1 DEF SamplerApply
    <3> QED BY <3>2, <3>3, <3>4 DEF TypeInv, GhostOK, Ghosts
  <2> QED BY <2>1, <2>2
<1>5. UNCHANGED <<kernel, queue, broken, clock, lock, clearer, files>>
  BY DEF SamplerApply
<1> QED BY <1>2, <1>3, <1>4, <1>5 DEF TypeInv, KernelOK, QueueOK, ClockOK, ClearerOK, FilesOK, CountedOK

\* What File::create leaves behind.
LEMMA OpenTyped ==
    ASSUME FilesOK, SamplerOK, ClearerOK, files' = Opened.files PROVE FilesOK'
<1>0. PICK f : f = Opened.files
  OBVIOUS
<1>1. PICK i \in Inodes :
        /\ f.tmp = i /\ f.file = files.file
        /\ DOMAIN f = {"tmp", "file", "data"} /\ DOMAIN f.data = Inodes
        /\ f.data[i] = <<"empty">>
        /\ \A j \in Inodes \ {i} : f.data[j] = files.data[j]
  BY <1>0, OpenedIs
<1>2. <<"empty">>[1] # "whole"
  OBVIOUS
<1>3. \A j \in Inodes : Contents(f.data[j])
  BY <1>1, <1>2 DEF FilesOK, Contents
<1> QED BY <1>0, <1>1, <1>3 DEF FilesOK

\* What write_all leaves behind.
LEMMA WriteTyped ==
    ASSUME FilesOK, NEW i, NEW text, IsTracker(text), NEW d \in Texts(i, text),
           files' = [files EXCEPT !.data[i] = d]
    PROVE  FilesOK'
<1>1. Contents(d)
  BY DEF Texts, Contents
<1>2. /\ DOMAIN files' = DOMAIN files /\ files'.tmp = files.tmp /\ files'.file = files.file
      /\ files'.data = [files.data EXCEPT ![i] = d]
  BY DEF FilesOK
<1> HIDE DEF Contents
<1>3. \A j \in Inodes : Contents(files'.data[j])
  BY <1>1, <1>2 DEF FilesOK
<1> QED BY <1>2, <1>3 DEF FilesOK

LEMMA RenameTyped == ASSUME FilesOK, files' = Renamed PROVE FilesOK'
BY DEF FilesOK, Renamed

LEMMA SamplerWritesTyped ==
    ASSUME TypeInv, SamplerOpen \/ SamplerWrite \/ SamplerRename \/ SamplerSleep PROVE TypeInv'
<1>1. CASE SamplerOpen
  <2>1. Opened.inode \in Inodes
    BY OpenedIs DEF TypeInv
  <2>2. SamplerOK'
    BY <1>1, <2>1 DEF TypeInv, SamplerOpen, SamplerOK, Fields, SamplerPcs
  <2>3. FilesOK' /\ ClockOK'
    BY <1>1, OpenTyped DEF TypeInv, SamplerOpen, ClockOK
  <2> QED BY <1>1, <2>2, <2>3
          DEF TypeInv, SamplerOpen, KernelOK, QueueOK, TrackerOK, ClearerOK, GhostOK, CountedOK
<1>2. CASE SamplerWrite
  <2>1. FilesOK'
    BY <1>2, WriteTyped DEF TypeInv, SamplerWrite, TrackerOK
  <2>2. SamplerOK'
    BY <1>2 DEF TypeInv, SamplerWrite, SamplerOK, Fields, SamplerPcs
  <2> QED BY <1>2, <2>1, <2>2
          DEF TypeInv, SamplerWrite, KernelOK, QueueOK, ClockOK, TrackerOK, ClearerOK, GhostOK, CountedOK
<1>3. CASE SamplerRename
  <2>1. FilesOK' /\ ClockOK'
    BY <1>3, RenameTyped DEF TypeInv, SamplerRename, ClockOK
  <2>2. SamplerOK'
    BY <1>3 DEF TypeInv, SamplerRename, SamplerOK, Fields, SamplerPcs
  <2> QED BY <1>3, <2>1, <2>2
          DEF TypeInv, SamplerRename, KernelOK, QueueOK, TrackerOK, ClearerOK, GhostOK, CountedOK
<1>4. CASE SamplerSleep
  <2>1. ClockOK'
    BY <1>4, MonitorAssumption DEF TypeInv, SamplerSleep, ClockOK
  <2>2. SamplerOK'
    BY <1>4 DEF TypeInv, SamplerSleep, SamplerOK, Fields, SamplerPcs
  <2> QED BY <1>4, <2>1, <2>2
          DEF TypeInv, SamplerSleep, KernelOK, QueueOK, TrackerOK, ClearerOK, FilesOK, GhostOK, CountedOK
<1> QED BY <1>1, <1>2, <1>3, <1>4

LEMMA ClearReadTyped == ASSUME TypeInv, NEW c \in Clearers, ClearRead(c) PROVE TypeInv'
<1>1. PICK d, m : d = Links /\ m = ghost.total /\ IsDump(d) /\ m \in [Ifs -> Nat]
  BY DumpTyped DEF TypeInv, GhostOK, Ghosts
<1>2. PICK w : w = [Idle EXCEPT !.pc = "read", !.links = <<d>>, !.marks = m]
  OBVIOUS
<1>3. /\ DOMAIN w = Fields /\ w.pc = "read" /\ w.fd = NoFile /\ w.links = <<d>> /\ w.links[1] = d
      /\ w.marks = m
  BY <1>2 DEF Idle, Fields
<1>4. clearer' = [clearer EXCEPT ![c] = w]
  BY <1>1, <1>2 DEF ClearRead
<1>5. ClearerOK'
  BY <1>1, <1>3, <1>4 DEF TypeInv, ClearerOK, ClearerPcs
<1>6. PICK k \in Nat : ghost' = [ghost EXCEPT !.clears = k]
  <2>1. ghost.clears + 1 \in Nat
    BY DEF TypeInv, GhostOK, Ghosts
  <2> QED BY <2>1, Zenon DEF ClearRead
<1>7. GhostOK' /\ ghost'.total = ghost.total
  BY <1>6 DEF TypeInv, GhostOK, Ghosts
<1> QED BY <1>5, <1>7 DEF TypeInv, ClearRead, KernelOK, QueueOK, ClockOK, TrackerOK, SamplerOK, FilesOK, CountedOK

\* The links a clear of names takes out of a dump.
Hit(d, names) == {n \in DOMAIN d \cap names : d[n].stats # <<>>}

\* What becomes of the history variables of each interface when those in hit are cleared.
Cleared(c, hit) ==
    /\ ghost'.total = ghost.total /\ ghost'.lost = ghost.lost
    /\ \A n \in Ifs :
         IF n \in hit
         THEN /\ ghost'.moves[n] = 0 /\ ghost'.base[n] = clearer[c].marks[n]
              /\ ghost'.reset[n] <=> kernel[n].octets - clearer[c].links[1][n].stats[1]
                                       # ghost.total[n] - clearer[c].marks[n]
              /\ ~ghost'.crossed[n] => ~ghost.crossed[n] /\ InStep(n)
         ELSE /\ ghost'.moves[n] = ghost.moves[n] /\ ghost'.base[n] = ghost.base[n]
              /\ ghost'.reset[n] = ghost.reset[n] /\ ghost'.crossed[n] = ghost.crossed[n]

\* A clear, one interface at a time.
LEMMA ClearApplyIs ==
    ASSUME TypeInv, NEW c \in Clearers, ClearApply(c)
    PROVE  /\ IsDump(clearer[c].links[1]) /\ clearer[c].marks \in [Ifs -> Nat] /\ clearer[c].pc = "read"
           /\ \E names \in SUBSET Ifs : \E hit :
                /\ hit = Hit(clearer[c].links[1], names)
                /\ hit \in SUBSET DOMAIN clearer[c].links[1]
                /\ tracker' = Clear(tracker, hit, clearer[c].links[1], clock)
                /\ GhostOK' /\ Cleared(c, hit)
<1> DEFINE d == clearer[c].links[1]
           marks == clearer[c].marks
<1>1. clearer[c].pc = "read" /\ IsDump(d) /\ marks \in [Ifs -> Nat] /\ clock \in Nat
  <2>1. clearer[c].pc = "read"
    BY DEF ClearApply
  <2> QED BY <2>1 DEF TypeInv, ClearerOK, ClockOK
<1>2. PICK names \in {Ifs} \cup {{n} : n \in Ifs} :
         LET links == clearer[c].links[1]
             done == {n \in DOMAIN links \cap names : links[n].stats # <<>>}
         IN  /\ tracker' = Clear(tracker, done, links, clock)
             /\ ghost' = [ghost EXCEPT
                            !.moves = [n \in Ifs |-> IF n \in done THEN 0 ELSE @[n]],
                            !.base = [n \in Ifs |-> IF n \in done THEN clearer[c].marks[n] ELSE @[n]],
                            !.reset = [n \in Ifs |-> IF n \in done
                                THEN kernel[n].octets - Entry(tracker', n).baseline[1] # ghost.total[n] - clearer[c].marks[n]
                                ELSE @[n]],
                            !.crossed = [n \in Ifs |-> @[n] \/ (n \in done /\ ~InStep(n))]]
  BY Zenon DEF ClearApply
<1> DEFINE hit == Hit(d, names)
<1>3. names \in SUBSET Ifs /\ hit \in SUBSET DOMAIN d
  BY DEF Hit
<1>4. PICK moves, base, reset, crossed :
        /\ moves = [n \in Ifs |-> IF n \in hit THEN 0 ELSE ghost.moves[n]]
        /\ base = [n \in Ifs |-> IF n \in hit THEN marks[n] ELSE ghost.base[n]]
        /\ reset = [n \in Ifs |-> IF n \in hit
             THEN kernel[n].octets - Entry(tracker', n).baseline[1] # ghost.total[n] - marks[n] ELSE ghost.reset[n]]
        /\ crossed = [n \in Ifs |-> ghost.crossed[n] \/ (n \in hit /\ ~InStep(n))]
  OBVIOUS
<1>5. /\ tracker' = Clear(tracker, hit, d, clock)
      /\ ghost' = [ghost EXCEPT !.moves = moves, !.base = base, !.reset = reset, !.crossed = crossed]
  BY <1>2, <1>4, Zenon DEF Hit
<1>6. \A n \in hit : Entry(tracker', n).baseline = d[n].stats
  BY <1>1, <1>3, <1>5, ClearTyped DEF TypeInv, TrackerOK
<1> HIDE DEF hit, d, marks
<1>7. moves \in [Ifs -> Nat] /\ base \in [Ifs -> Nat]
  BY <1>1, <1>4 DEF TypeInv, GhostOK, Ghosts
<1>8. \A n \in Ifs : ghost.reset[n] \in BOOLEAN
  BY DEF TypeInv, GhostOK, Ghosts
<1>9. reset \in [Ifs -> BOOLEAN]
  BY <1>4, <1>8, Zenon
<1>10. crossed \in [Ifs -> BOOLEAN]
  BY <1>4, Zenon
<1>11. /\ GhostOK' /\ ghost'.total = ghost.total /\ ghost'.lost = ghost.lost
       /\ ghost'.moves = moves /\ ghost'.base = base /\ ghost'.reset = reset /\ ghost'.crossed = crossed
  BY <1>5, <1>7, <1>9, <1>10 DEF TypeInv, GhostOK, Ghosts
<1>12. \A n \in Ifs : ghost.crossed[n] \in BOOLEAN
  BY DEF TypeInv, GhostOK, Ghosts
<1>13. \A n \in Ifs : IF n \in hit
          THEN reset[n] <=> kernel[n].octets - d[n].stats[1] # ghost.total[n] - marks[n]
          ELSE reset[n] = ghost.reset[n]
  BY <1>4, <1>6, Zenon
<1>14. \A n \in Ifs : IF n \in hit THEN ~crossed[n] => ~ghost.crossed[n] /\ InStep(n) ELSE crossed[n] = ghost.crossed[n]
  BY <1>4, <1>12, Zenon
<1>15. \A n \in Ifs : IF n \in hit THEN moves[n] = 0 /\ base[n] = marks[n]
                       ELSE moves[n] = ghost.moves[n] /\ base[n] = ghost.base[n]
  BY <1>4
<1>16. Cleared(c, hit)
  <2>1. \A n \in Ifs : IF n \in hit
          THEN /\ ghost'.moves[n] = 0 /\ ghost'.base[n] = marks[n]
               /\ ghost'.reset[n] <=> kernel[n].octets - d[n].stats[1] # ghost.total[n] - marks[n]
               /\ ~ghost'.crossed[n] => ~ghost.crossed[n] /\ InStep(n)
          ELSE /\ ghost'.moves[n] = ghost.moves[n] /\ ghost'.base[n] = ghost.base[n]
               /\ ghost'.reset[n] = ghost.reset[n] /\ ghost'.crossed[n] = ghost.crossed[n]
    BY <1>11, <1>13, <1>14, <1>15, Zenon
  <2> QED BY <1>11, <2>1, Zenon DEF Cleared, d, marks
<1> HIDE DEF Hit
<1>17. \E h : /\ h = Hit(d, names) /\ h \in SUBSET DOMAIN d
              /\ tracker' = Clear(tracker, h, d, clock) /\ GhostOK' /\ Cleared(c, h)
  <2>1. hit = Hit(d, names)
    BY DEF hit
  <2> QED BY <1>3, <1>5, <1>11, <1>16, <2>1
<1> QED BY <1>1, <1>3, <1>17, Zenon DEF d, marks

LEMMA ClearApplyTyped == ASSUME TypeInv, NEW c \in Clearers, ClearApply(c) PROVE TypeInv'
<1>1. GhostOK' /\ ghost'.total = ghost.total
  BY ClearApplyIs DEF Cleared
<1>2. TrackerOK'
  <2>1. PICK hit : /\ hit \in SUBSET DOMAIN clearer[c].links[1] /\ IsDump(clearer[c].links[1])
                   /\ tracker' = Clear(tracker, hit, clearer[c].links[1], clock)
    BY ClearApplyIs
  <2>2. clock \in Nat
    BY DEF TypeInv, ClockOK
  <2> QED BY <2>1, <2>2, ClearTyped DEF TypeInv, TrackerOK
<1>3. ClearerOK'
  BY DEF TypeInv, ClearApply, ClearerOK, ClearerPcs, Fields
<1>4. UNCHANGED <<kernel, queue, broken, clock, lock, sampler, files>>
  BY DEF ClearApply
<1> QED BY <1>1, <1>2, <1>3, <1>4 DEF TypeInv, KernelOK, QueueOK, ClockOK, SamplerOK, FilesOK, CountedOK

LEMMA PersistTyped ==
    ASSUME TypeInv, NEW c \in Clearers,
           Persist(c) \/ PersistOpen(c) \/ PersistWrite(c) \/ PersistRename(c)
    PROVE  TypeInv'
<1>1. CASE Persist(c)
  <2>1. PICK t : t = tracker /\ IsTracker(t) /\ <<t>>[1] = t
    BY DEF TypeInv, TrackerOK
  <2>2. clearer' = [clearer EXCEPT ![c].pc = "open", ![c].text = <<t>>]
    BY <1>1, <2>1 DEF Persist
  <2>3. ClearerOK'
    BY <2>1, <2>2 DEF TypeInv, ClearerOK, ClearerPcs, Fields
  <2> QED BY <1>1, <2>3
          DEF TypeInv, Persist, KernelOK, QueueOK, ClockOK, TrackerOK, SamplerOK, FilesOK, GhostOK, CountedOK
<1>2. CASE PersistOpen(c)
  <2>1. PICK i \in Inodes : i = Opened.inode
    BY OpenedIs DEF TypeInv
  <2>2. clearer' = [clearer EXCEPT ![c].pc = "write", ![c].fd = i] /\ clearer[c].pc = "open"
    BY <1>2, <2>1 DEF PersistOpen
  <2>3. ClearerOK'
    BY <2>2 DEF TypeInv, ClearerOK, ClearerPcs, Fields
  <2>4. FilesOK'
    BY <1>2, OpenTyped DEF TypeInv, PersistOpen
  <2> QED BY <1>2, <2>3, <2>4
          DEF TypeInv, PersistOpen, KernelOK, QueueOK, ClockOK, TrackerOK, SamplerOK, GhostOK, CountedOK
<1>3. CASE PersistWrite(c)
  <2>1. clearer' = [clearer EXCEPT ![c].pc = "rename"] /\ clearer[c].pc = "write"
    BY <1>3 DEF PersistWrite
  <2>2. ClearerOK' /\ IsTracker(clearer[c].text[1])
    BY <2>1 DEF TypeInv, ClearerOK, ClearerPcs, Fields
  <2>3. FilesOK'
    BY <1>3, <2>2, WriteTyped DEF TypeInv, PersistWrite
  <2> QED BY <1>3, <2>2, <2>3
          DEF TypeInv, PersistWrite, KernelOK, QueueOK, ClockOK, TrackerOK, SamplerOK, GhostOK, CountedOK
<1>4. CASE PersistRename(c)
  <2>1. clearer' = [clearer EXCEPT ![c] = Idle] /\ clearer[c].pc = "rename" /\ files' = Renamed
    BY <1>4 DEF PersistRename
  <2>2. ClearerOK' /\ IsTracker(clearer[c].text[1])
    BY <2>1 DEF TypeInv, ClearerOK, ClearerPcs, Fields, Idle
  <2>3. FilesOK'
    BY <2>1, RenameTyped DEF TypeInv
  <2>4. PICK answered \in [Ifs -> Seq(Nat)] : ghost' = [ghost EXCEPT !.answered = answered]
    <3>1. \A n \in Ifs : Entry(clearer[c].text[1], n).baseline \in Seq(Nat)
      BY <2>2, EntryTyped DEF Histories
    <3>2. [n \in Ifs |-> Entry(clearer[c].text[1], n).baseline] \in [Ifs -> Seq(Nat)]
      BY <3>1
    <3> QED BY <1>4, <3>2, Zenon DEF PersistRename
  <2>5. GhostOK' /\ ghost'.total = ghost.total
    BY <2>4 DEF TypeInv, GhostOK, Ghosts
  <2> QED BY <1>4, <2>2, <2>3, <2>5
          DEF TypeInv, PersistRename, KernelOK, QueueOK, ClockOK, TrackerOK, SamplerOK, CountedOK
<1> QED BY <1>1, <1>2, <1>3, <1>4

\* A restart, one interface at a time.
LEMMA RestartIs ==
    ASSUME TypeInv, Restart
    PROVE  /\ GhostOK' /\ ghost'.total = ghost.total /\ tracker' = Load /\ IsTracker(Load)
           /\ \A n \in Ifs :
                /\ ghost'.crossed[n] /\ ghost'.reset[n] /\ ghost'.moves[n] = Entry(Load, n).changes
                /\ ghost'.base[n] = IF Entry(Load, n).baseline = Entry(tracker, n).baseline
                                    THEN ghost.base[n] ELSE 0
<1>1. IsTracker(Load) /\ \A n : Entry(Load, n) \in Histories
  BY LoadTyped, EntryTyped DEF TypeInv
<1>2. PICK k \in Nat : k = ghost.restarts + 1
  BY DEF TypeInv, GhostOK, Ghosts
<1>3. PICK moves, crossed, reset, base, taken :
        /\ moves = [n \in Ifs |-> Entry(Load, n).changes]
        /\ crossed = [n \in Ifs |-> TRUE] /\ reset = [n \in Ifs |-> TRUE]
        /\ base = [n \in Ifs |-> IF Entry(Load, n).baseline = Entry(tracker, n).baseline THEN ghost.base[n] ELSE 0]
        /\ taken = [n \in Ifs |-> IF n \in DOMAIN Load.samples
                                  THEN {Load.samples[n][i].at : i \in 1..Len(Load.samples[n])} ELSE {}]
  OBVIOUS
<1>4. ghost' = [ghost EXCEPT !.restarts = k, !.moves = moves, !.crossed = crossed, !.reset = reset,
                             !.base = base, !.taken = taken]
  BY <1>2, <1>3 DEF Restart
<1>5. moves \in [Ifs -> Nat] /\ base \in [Ifs -> Nat]
  BY <1>1, <1>3 DEF Histories, TypeInv, GhostOK, Ghosts
<1>6. crossed \in [Ifs -> BOOLEAN] /\ reset \in [Ifs -> BOOLEAN] /\ \A n \in Ifs : crossed[n] /\ reset[n]
  BY <1>3, Zenon
<1>7. taken \in [Ifs -> SUBSET Nat]
  <2>1. ASSUME NEW n \in DOMAIN Load.samples, NEW i \in 1..Len(Load.samples[n])
        PROVE  Load.samples[n][i].at \in Nat
    <3>1. Load.samples[n] \in Seq(Readings)
      BY <1>1 DEF IsTracker
    <3>2. Load.samples[n][i] \in Readings
      BY <3>1
    <3> QED BY <3>2 DEF Readings
  <2> QED BY <1>3, <2>1
<1>8. /\ GhostOK' /\ ghost'.total = ghost.total
      /\ ghost'.moves = moves /\ ghost'.crossed = crossed /\ ghost'.reset = reset /\ ghost'.base = base
  BY <1>4, <1>5, <1>6, <1>7 DEF TypeInv, GhostOK, Ghosts
<1>9. \A n \in Ifs : /\ moves[n] = Entry(Load, n).changes
                      /\ base[n] = IF Entry(Load, n).baseline = Entry(tracker, n).baseline THEN ghost.base[n] ELSE 0
  BY <1>3
<1> QED BY <1>1, <1>6, <1>8, <1>9 DEF Restart

LEMMA RestartTyped == ASSUME TypeInv, Restart PROVE TypeInv'
<1>1. GhostOK' /\ ghost'.total = ghost.total /\ TrackerOK'
  BY RestartIs DEF TrackerOK
<1>2. /\ queue' = <<>> /\ broken' = FALSE /\ lock' = "free" /\ sampler' = Idle
      /\ clearer' = [c \in Clearers |-> Idle] /\ UNCHANGED <<kernel, clock, files>>
  BY DEF Restart
<1>3. QueueOK' /\ ClockOK'
  <2>1. queue' \in Seq(Events) /\ ClockOK'
    BY <1>2 DEF TypeInv, ClockOK
  <2>2. broken' \in BOOLEAN
    BY <1>2, Zenon
  <2> QED BY <2>1, <2>2 DEF QueueOK
<1>4. SamplerOK' /\ ClearerOK'
  BY <1>2 DEF SamplerOK, SamplerPcs, ClearerOK, ClearerPcs, Idle, Fields
<1> QED BY <1>1, <1>2, <1>3, <1>4 DEF TypeInv, KernelOK, FilesOK, CountedOK

LEMMA InitTyped == Init => TypeInv
<1> SUFFICES ASSUME Init PROVE TypeInv
  OBVIOUS
<1>1. KernelOK /\ \A n \in Ifs : kernel[n].octets = 0
  <2>1. (CHOOSE o \in Opers : TRUE) \in States
    BY MonitorAssumption DEF States
  <2> QED BY <2>1 DEF Init, KernelOK
<1>2. QueueOK /\ ClockOK
  <2>1. queue \in Seq(Events) /\ ClockOK
    BY MonitorAssumption DEF Init, ClockOK
  <2>2. broken \in BOOLEAN
    BY Zenon DEF Init
  <2> QED BY <2>1, <2>2 DEF QueueOK
<1>3. TrackerOK
  BY EmptyTyped DEF Init, TrackerOK
<1>4. SamplerOK /\ ClearerOK
  BY DEF Init, SamplerOK, SamplerPcs, ClearerOK, ClearerPcs, Idle, Fields
<1>5. FilesOK
  BY DEF Init, FilesOK, Contents
<1>6. GhostOK /\ \A n \in Ifs : ghost.total[n] = 0
  BY DEF Init, GhostOK, Ghosts, Ghost0
<1>7. CountedOK
  BY <1>1, <1>6, MonitorAssumption DEF CountedOK
<1> QED BY <1>1, <1>2, <1>3, <1>4, <1>5, <1>6, <1>7 DEF TypeInv

LEMMA TypeStep == ASSUME TypeInv, [Next]_vars PROVE TypeInv'
<1>1. CASE UNCHANGED vars
  BY <1>1 DEF vars, TypeInv, KernelOK, QueueOK, ClockOK, TrackerOK, SamplerOK, ClearerOK, FilesOK, GhostOK, CountedOK
<1>2. ASSUME NEW n \in Ifs, \/ \E o \in Opers \cup {"gone"} : Move(n, o)
                            \/ n \in Counted /\ Count(n)
                            \/ DriverReload(n)
      PROVE  TypeInv'
  BY <1>2, MoveTyped, CountTyped, DriverReloadTyped DEF States
<1>3. ASSUME NEW c \in Clearers, \/ ClearRead(c) \/ ClearApply(c) \/ Persist(c)
                                 \/ PersistOpen(c) \/ PersistWrite(c) \/ PersistRename(c)
      PROVE  TypeInv'
  BY <1>3, ClearReadTyped, ClearApplyTyped, PersistTyped
<1> QED BY <1>1, <1>2, <1>3, OverrunTyped, SetBackTyped, WatchTyped, ReopenTyped, SamplerReadTyped,
           SamplerApplyTyped, SamplerWritesTyped, RestartTyped DEF Next

\* The state is always well formed: an index, a dump or a tracker is what the step that
\* uses it takes it to be, and there is an inode for every writer.
THEOREM TypeCorrect == Spec => []TypeOK
<1>1. TypeInv => TypeOK
  <2> SUFFICES ASSUME TypeInv PROVE TypeOK
    OBVIOUS
  <2>1. kernel \in [Ifs -> [oper : Opers \cup {"gone"}, octets : 0..MaxOctets]]
    <3>1. \A n \in Ifs : kernel[n].octets \in 0..MaxOctets /\ kernel[n].oper \in States
      BY MonitorAssumption DEF TypeInv, KernelOK, CountedOK, GhostOK, Ghosts
    <3>2. \A n \in Ifs : kernel[n] \in [oper : States, octets : 0..MaxOctets]
      BY <3>1 DEF TypeInv, KernelOK
    <3> QED BY <3>2 DEF TypeInv, KernelOK, States
  <2>2. \A i \in 1..Len(queue) : queue[i].name \in Ifs /\ queue[i].oper \in Opers \cup {"gone"}
    <3>1. \A i \in 1..Len(queue) : queue[i] \in Events
      BY DEF TypeInv, QueueOK
    <3> QED BY <3>1 DEF Events, States
  <2> QED BY <2>1, <2>2 DEF TypeInv, TypeOK, QueueOK, ClockOK, TrackerOK, IsTracker, SamplerOK,
                            SamplerPcs, ClearerOK, ClearerPcs, FilesOK
<1> QED BY <1>1, InitTyped, TypeStep, PTL DEF Spec

(***************************************************************************)
(* What a cleared counter shows                                            *)
(***************************************************************************)

\* What a counter read as b, when total octets had been counted of which the clear had
\* seen base, shows when it stands at o.
Base(t, n) == IF Entry(t, n).baseline = <<>> THEN 0 ELSE Entry(t, n).baseline[1]
Right(o, b, total, base) == base <= total /\ SaturatingSub(o, b) <= total - base

\* It is right of the clear in force, and will be of those that have read their dump: a
\* baseline comes into force after the octets that were counted since it was read.
InForce(n) ==
    /\ Right(kernel[n].octets, Base(tracker, n), ghost.total[n], ghost.base[n])
    /\ ~ghost.reset[n] => kernel[n].octets - Base(tracker, n) = ghost.total[n] - ghost.base[n]
Coming(c, n) ==
    clearer[c].pc = "read" /\ n \in DOMAIN clearer[c].links[1] =>
        Right(kernel[n].octets, clearer[c].links[1][n].stats[1], ghost.total[n], clearer[c].marks[n])
ReportInv == \A n \in Counted : InForce(n) /\ \A c \in Clearers : Coming(c, n)

LEMMA RightIs ==
    ASSUME NEW o \in Nat, NEW b \in Nat, NEW total \in Nat, NEW base \in Nat
    PROVE  /\ Right(o, b, total, base) => Right(o + 1, b, total + 1, base) /\ Right(0, b, total, base)
           /\ Right(o, o, total, total)
           /\ o <= total => Right(o, b, total, 0)
BY DEF Right, SaturatingSub

LEMMA BaseTyped == ASSUME NEW t, IsTracker(t), NEW n PROVE Base(t, n) \in Nat
<1>1. Entry(t, n).baseline \in Seq(Nat)
  BY EntryTyped DEF Histories
<1> QED BY <1>1 DEF Base

LEMMA Readable ==
    ASSUME TypeInv, NEW c \in Clearers, clearer[c].pc = "read", NEW n \in Counted,
           n \in DOMAIN clearer[c].links[1]
    PROVE  clearer[c].links[1][n].stats[1] \in Nat /\ clearer[c].marks[n] \in Nat
<1>1. n \in Ifs /\ IsDump(clearer[c].links[1]) /\ clearer[c].marks \in [Ifs -> Nat]
  BY MonitorAssumption DEF TypeInv, ClearerOK
<1>2. PICK s \in Seq(Nat) : s = clearer[c].links[1][n].stats /\ s # <<>>
  BY <1>1 DEF IsDump
<1>3. s[1] \in Nat
  BY <1>2
<1>4. clearer[c].marks[n] \in Nat
  BY <1>1
<1> QED BY <1>2, <1>3, <1>4

LEMMA NumbersTyped ==
    ASSUME TypeInv, NEW n \in Counted
    PROVE  /\ n \in Ifs /\ kernel[n].octets \in Nat /\ ghost.total[n] \in Nat /\ ghost.base[n] \in Nat
           /\ Base(tracker, n) \in Nat /\ kernel[n].octets <= ghost.total[n]
BY MonitorAssumption, BaseTyped DEF TypeInv, KernelOK, GhostOK, Ghosts, TrackerOK, CountedOK

\* A step that touches neither a counter nor a baseline.
LEMMA ReportKept ==
    ASSUME ReportInv,
           \A n \in Counted : /\ kernel'[n].octets = kernel[n].octets
                              /\ Entry(tracker', n).baseline = Entry(tracker, n).baseline
                              /\ ghost'.total[n] = ghost.total[n] /\ ghost'.base[n] = ghost.base[n]
                              /\ ~ghost'.reset[n] => ~ghost.reset[n],
           \A c \in Clearers : clearer'[c].pc = "read" => clearer'[c] = clearer[c]
    PROVE  ReportInv'
<1> SUFFICES ASSUME NEW n \in Counted PROVE InForce(n)' /\ \A c \in Clearers : Coming(c, n)'
  BY DEF ReportInv
<1>1. Base(tracker', n) = Base(tracker, n)
  BY DEF Base
<1>2. InForce(n)'
  BY <1>1 DEF ReportInv, InForce, Base
<1>3. ASSUME NEW c \in Clearers PROVE Coming(c, n)'
  BY DEF ReportInv, Coming
<1> QED BY <1>2, <1>3

\* A counter that goes back to nothing.
LEMMA ReportReset ==
    ASSUME TypeInv, ReportInv, NEW m \in Ifs, kernel'[m].octets = 0, ghost'.reset[m],
           \A n \in Ifs \ {m} : kernel'[n].octets = kernel[n].octets /\ ghost'.reset[n] = ghost.reset[n],
           ghost'.total = ghost.total, ghost'.base = ghost.base, UNCHANGED <<tracker, clearer>>
    PROVE  ReportInv'
<1> SUFFICES ASSUME NEW n \in Counted PROVE InForce(n)' /\ \A c \in Clearers : Coming(c, n)'
  BY DEF ReportInv
<1>1. /\ n \in Ifs /\ kernel[n].octets \in Nat /\ ghost.total[n] \in Nat /\ ghost.base[n] \in Nat
      /\ Base(tracker, n) \in Nat /\ Base(tracker', n) = Base(tracker, n)
  BY NumbersTyped DEF Base
<1>2. CASE n # m
  BY <1>1, <1>2 DEF ReportInv, InForce, Coming, Base
<1>3. CASE n = m
  <2>1. InForce(n)'
    <3>1. Right(0, Base(tracker, n), ghost.total[n], ghost.base[n])
      BY <1>1, RightIs DEF ReportInv, InForce
    <3>2. Right(kernel'[n].octets, Base(tracker', n), ghost'.total[n], ghost'.base[n])
      BY <1>1, <1>3, <3>1
    <3> QED BY <1>3, <3>2 DEF InForce
  <2>2. ASSUME NEW c \in Clearers PROVE Coming(c, n)'
    BY <1>1, <1>3, RightIs, Readable DEF ReportInv, Coming
  <2> QED BY <2>1, <2>2
<1> QED BY <1>2, <1>3

LEMMA ReportMove ==
    ASSUME TypeInv, ReportInv, NEW m \in Ifs, NEW o \in States, Move(m, o) PROVE ReportInv'
<1>1. /\ ghost'.total = ghost.total /\ ghost'.base = ghost.base
      /\ ghost'.reset = [ghost.reset EXCEPT ![m] = @ \/ o = "gone"]
  BY DEF TypeInv, Move, GhostOK, Ghosts
<1>2. kernel' = [kernel EXCEPT ![m] = [oper |-> o, octets |-> IF o = "gone" THEN 0 ELSE @.octets]]
  BY DEF Move
<1>3. /\ kernel'[m].octets = IF o = "gone" THEN 0 ELSE kernel[m].octets
      /\ \A n \in Ifs \ {m} : kernel'[n].octets = kernel[n].octets
  BY <1>2 DEF TypeInv, KernelOK
<1>4. ghost.reset \in [Ifs -> BOOLEAN]
  BY DEF TypeInv, GhostOK, Ghosts
<1>5. (ghost'.reset[m] <=> ghost.reset[m] \/ o = "gone") /\ \A n \in Ifs \ {m} : ghost'.reset[n] = ghost.reset[n]
  BY <1>1, <1>4, Zenon
<1>6. UNCHANGED <<tracker, clearer>>
  BY DEF Move
<1>7. CASE o = "gone"
  BY <1>1, <1>3, <1>5, <1>6, <1>7, ReportReset
<1>8. CASE o # "gone"
  <2>1. \A n \in Counted : n \in Ifs
    BY MonitorAssumption
  <2> QED BY <1>1, <1>3, <1>5, <1>6, <1>8, <2>1, ReportKept
<1> QED BY <1>7, <1>8

LEMMA ReportDriver ==
    ASSUME TypeInv, ReportInv, NEW m \in Ifs, DriverReload(m) PROVE ReportInv'
<1>1. /\ ghost'.total = ghost.total /\ ghost'.base = ghost.base
      /\ ghost'.reset = [ghost.reset EXCEPT ![m] = TRUE]
  BY DEF TypeInv, DriverReload, GhostOK, Ghosts
<1>2. ghost.reset \in [Ifs -> BOOLEAN]
  BY DEF TypeInv, GhostOK, Ghosts
<1>3. ghost'.reset[m] /\ \A n \in Ifs \ {m} : ghost'.reset[n] = ghost.reset[n]
  BY <1>1, <1>2, Zenon
<1>4. /\ kernel'[m].octets = 0
      /\ \A n \in Ifs \ {m} : kernel'[n].octets = kernel[n].octets
  BY DEF TypeInv, DriverReload, KernelOK
<1> QED BY <1>1, <1>3, <1>4, ReportReset DEF DriverReload

LEMMA ReportCount ==
    ASSUME TypeInv, ReportInv, NEW m \in Counted, Count(m) PROVE ReportInv'
<1> SUFFICES ASSUME NEW n \in Counted PROVE InForce(n)' /\ \A c \in Clearers : Coming(c, n)'
  BY DEF ReportInv
<1>1. /\ n \in Ifs /\ m \in Ifs /\ kernel[n].octets \in Nat /\ ghost.total[n] \in Nat
      /\ ghost.base[n] \in Nat /\ Base(tracker, n) \in Nat
  BY NumbersTyped
<1>2. /\ ghost'.total = [ghost.total EXCEPT ![m] = @ + 1] /\ ghost'.base = ghost.base
      /\ ghost'.reset = ghost.reset /\ kernel' = [kernel EXCEPT ![m].octets = @ + 1]
      /\ UNCHANGED <<tracker, clearer>>
  BY DEF TypeInv, Count, GhostOK, Ghosts
<1>3. Base(tracker', n) = Base(tracker, n)
  BY <1>2
<1>4. CASE n # m
  <2>1. kernel'[n] = kernel[n] /\ ghost'.total[n] = ghost.total[n]
    BY <1>1, <1>2, <1>4 DEF TypeInv, KernelOK, GhostOK, Ghosts
  <2> QED BY <1>2, <1>3, <2>1 DEF ReportInv, InForce, Coming, Base
<1>5. CASE n = m
  <2>1. kernel'[n].octets = kernel[n].octets + 1 /\ ghost'.total[n] = ghost.total[n] + 1
    BY <1>1, <1>2, <1>5 DEF TypeInv, KernelOK, GhostOK, Ghosts
  <2>2. InForce(n)'
    <3>1. InForce(n)
      BY DEF ReportInv
    <3>2. Right(kernel[n].octets + 1, Base(tracker, n), ghost.total[n] + 1, ghost.base[n])
      BY <1>1, <3>1, RightIs DEF InForce
    <3>3. ~ghost.reset[n] => (kernel[n].octets + 1) - Base(tracker, n) = (ghost.total[n] + 1) - ghost.base[n]
      <4>1. kernel[n].octets - Base(tracker, n) = ghost.total[n] - ghost.base[n]
            => (kernel[n].octets + 1) - Base(tracker, n) = (ghost.total[n] + 1) - ghost.base[n]
        <5>1. PICK o \in Nat, b \in Nat, t \in Nat, a \in Nat :
                 o = kernel[n].octets /\ b = Base(tracker, n) /\ t = ghost.total[n] /\ a = ghost.base[n]
          BY <1>1
        <5>2. o - b = t - a => (o + 1) - b = (t + 1) - a
          OBVIOUS
        <5> QED BY <5>1, <5>2
      <4> QED BY <3>1, <4>1 DEF InForce
    <3>4. /\ Right(kernel'[n].octets, Base(tracker', n), ghost'.total[n], ghost'.base[n])
          /\ ~ghost'.reset[n] => kernel'[n].octets - Base(tracker', n) = ghost'.total[n] - ghost'.base[n]
      BY <1>2, <1>3, <2>1, <3>2, <3>3
    <3> QED BY <3>4 DEF InForce
  <2>3. ASSUME NEW c \in Clearers PROVE Coming(c, n)'
    BY <1>1, <1>2, <2>1, RightIs, Readable DEF ReportInv, Coming
  <2> QED BY <2>2, <2>3
<1> QED BY <1>4, <1>5

LEMMA ReportClearRead ==
    ASSUME TypeInv, ReportInv, NEW c \in Clearers, ClearRead(c) PROVE ReportInv'
<1> SUFFICES ASSUME NEW n \in Counted PROVE InForce(n)' /\ \A e \in Clearers : Coming(e, n)'
  BY DEF ReportInv
<1>1. n \in Ifs /\ kernel[n].octets \in Nat /\ ghost.total[n] \in Nat
  BY NumbersTyped
<1>2. /\ ghost'.total = ghost.total /\ ghost'.base = ghost.base /\ ghost'.reset = ghost.reset
      /\ UNCHANGED <<kernel, tracker>>
  BY DEF TypeInv, ClearRead, GhostOK, Ghosts
<1>3. InForce(n)'
  BY <1>2 DEF ReportInv, InForce, Base
<1>4. PICK w : w = [Idle EXCEPT !.pc = "read", !.links = <<Links>>, !.marks = ghost.total]
  OBVIOUS
<1>5. w.links[1] = Links /\ w.marks = ghost.total
  BY <1>4 DEF Idle
<1>6. clearer' = [clearer EXCEPT ![c] = w]
  BY <1>4 DEF ClearRead
<1>7. clearer'[c] = w /\ \A e \in Clearers \ {c} : clearer'[e] = clearer[e]
  BY <1>6 DEF TypeInv, ClearerOK
<1>8. Coming(c, n)'
  <2>1. n \in DOMAIN Links => Links[n].stats = <<kernel[n].octets>>
    BY DEF Links
  <2>2. n \in DOMAIN Links => Links[n].stats[1] = kernel[n].octets
    BY <2>1
  <2> HIDE DEF Links
  <2> QED BY <1>1, <1>2, <1>5, <1>7, <2>2, RightIs DEF Coming
<1>9. ASSUME NEW e \in Clearers \ {c} PROVE Coming(e, n)'
  BY <1>2, <1>7 DEF ReportInv, Coming
<1> QED BY <1>3, <1>8, <1>9

LEMMA ReportClearApply ==
    ASSUME TypeInv, ReportInv, NEW c \in Clearers, ClearApply(c) PROVE ReportInv'
<1> SUFFICES ASSUME NEW n \in Counted PROVE InForce(n)' /\ \A e \in Clearers : Coming(e, n)'
  BY DEF ReportInv
<1> DEFINE d == clearer[c].links[1]
<1>1. PICK hit : /\ hit \in SUBSET DOMAIN d /\ IsDump(d) /\ clearer[c].pc = "read"
                 /\ tracker' = Clear(tracker, hit, d, clock) /\ Cleared(c, hit)
  BY ClearApplyIs
<1>2. /\ n \in Ifs /\ kernel[n].octets \in Nat /\ ghost.total[n] \in Nat
      /\ ghost.base[n] \in Nat /\ Base(tracker, n) \in Nat /\ IsTracker(tracker) /\ clock \in Nat
  BY NumbersTyped DEF TypeInv, TrackerOK, ClockOK
<1>3. kernel' = kernel /\ ghost'.total = ghost.total
  BY <1>1 DEF ClearApply, Cleared
<1>4. \A e \in Clearers : clearer'[e].pc = "read" => clearer'[e] = clearer[e]
  <2>1. clearer' = [clearer EXCEPT ![c].pc = "persist", ![c].links = <<>>, ![c].marks = <<>>]
    BY DEF ClearApply
  <2>2. clearer'[c].pc = "persist" /\ \A e \in Clearers \ {c} : clearer'[e] = clearer[e]
    BY <2>1 DEF TypeInv, ClearerOK, Fields
  <2> QED BY <2>2
<1>5. ASSUME NEW e \in Clearers PROVE Coming(e, n)'
  BY <1>3, <1>4 DEF ReportInv, Coming
<1>6. CASE n \notin hit
  <2>1. Base(tracker', n) = Base(tracker, n)
    BY <1>1, <1>2, <1>6, ClearTyped DEF Base
  <2>2. ghost'.base[n] = ghost.base[n] /\ ghost'.reset[n] = ghost.reset[n]
    BY <1>1, <1>2, <1>6 DEF Cleared
  <2>3. InForce(n)'
    BY <1>3, <2>1, <2>2 DEF ReportInv, InForce
  <2> QED BY <1>5, <2>3
<1>7. CASE n \in hit
  <2>1. Entry(tracker', n).baseline = d[n].stats /\ d[n].stats # <<>>
    <3>1. Entry(Clear(tracker, hit, d, clock), n).baseline = d[n].stats
      BY <1>1, <1>2, <1>7, ClearTyped
    <3>2. d[n].stats # <<>>
      BY <1>1, <1>7 DEF IsDump
    <3> QED BY <1>1, <3>1, <3>2
  <2>2. Base(tracker', n) = d[n].stats[1]
    BY <2>1 DEF Base
  <2>3. Right(kernel[n].octets, d[n].stats[1], ghost.total[n], clearer[c].marks[n])
    BY <1>1, <1>7 DEF ReportInv, Coming
  <2>4. /\ ghost'.base[n] = clearer[c].marks[n]
        /\ ghost'.reset[n] <=> kernel[n].octets - d[n].stats[1] # ghost.total[n] - clearer[c].marks[n]
    BY <1>1, <1>2, <1>7 DEF Cleared
  <2>5. InForce(n)'
    BY <1>3, <2>2, <2>3, <2>4 DEF InForce
  <2> QED BY <1>5, <2>5
<1> QED BY <1>6, <1>7

LEMMA ReportRestart == ASSUME TypeInv, ReportInv, Restart PROVE ReportInv'
<1> SUFFICES ASSUME NEW n \in Counted PROVE InForce(n)' /\ \A e \in Clearers : Coming(e, n)'
  BY DEF ReportInv
<1>1. /\ n \in Ifs /\ kernel[n].octets \in Nat /\ ghost.total[n] \in Nat /\ kernel[n].octets <= ghost.total[n]
      /\ ghost.base[n] \in Nat
  BY NumbersTyped
<1>2. /\ ghost'.total = ghost.total /\ tracker' = Load /\ IsTracker(Load) /\ ghost'.reset[n]
      /\ ghost'.base[n] = IF Entry(Load, n).baseline = Entry(tracker, n).baseline THEN ghost.base[n] ELSE 0
  BY <1>1, RestartIs
<1>3. kernel' = kernel /\ clearer' = [c \in Clearers |-> Idle]
  BY DEF Restart
<1>4. ASSUME NEW e \in Clearers PROVE Coming(e, n)'
  BY <1>3 DEF Coming, Idle
<1>5. Right(kernel[n].octets, Base(Load, n), ghost.total[n], ghost'.base[n])
  <2>1. CASE Entry(Load, n).baseline = Entry(tracker, n).baseline
    BY <1>2, <2>1 DEF ReportInv, InForce, Base
  <2>2. CASE Entry(Load, n).baseline # Entry(tracker, n).baseline
    <3>1. Base(Load, n) \in Nat
      BY <1>2, BaseTyped
    <3> QED BY <1>1, <1>2, <2>2, <3>1, RightIs
  <2> QED BY <2>1, <2>2
<1>6. InForce(n)'
  BY <1>2, <1>3, <1>5 DEF InForce
<1> QED BY <1>4, <1>6

\* The rest: the fields of ghost that matter are kept, and so is every baseline.
LEMMA ReportOthers ==
    ASSUME TypeInv, ReportInv,
           \/ UNCHANGED vars \/ Overrun \/ SetBack \/ Watch \/ Reopen
           \/ SamplerRead \/ SamplerReadFails \/ SamplerApply
           \/ SamplerOpen \/ SamplerWrite \/ SamplerRename \/ SamplerSleep
           \/ \E c \in Clearers : Persist(c) \/ PersistOpen(c) \/ PersistWrite(c) \/ PersistRename(c)
    PROVE  ReportInv'
<1>1. ghost'.total = ghost.total /\ ghost'.base = ghost.base /\ ghost'.reset = ghost.reset
  BY DEF vars, Overrun, SetBack, Watch, Reopen, SamplerRead, SamplerReadFails, SamplerApply, SamplerOpen,
         SamplerWrite, SamplerRename, SamplerSleep, Persist, PersistOpen, PersistWrite, PersistRename,
         TypeInv, GhostOK, Ghosts
<1>2. kernel' = kernel
  BY DEF vars, Overrun, SetBack, Watch, Reopen, SamplerRead, SamplerReadFails, SamplerApply, SamplerOpen,
         SamplerWrite, SamplerRename, SamplerSleep, Persist, PersistOpen, PersistWrite, PersistRename
<1>3. \A n : Entry(tracker', n).baseline = Entry(tracker, n).baseline
  <2>1. CASE Watch
    <3>1. Head(queue) \in Events /\ clock \in Nat /\ tracker' = NoteEvent(tracker, Head(queue), clock)
      BY <2>1 DEF TypeInv, Watch, QueueOK, ClockOK
    <3> QED BY <3>1, NoteEventTyped DEF TypeInv, TrackerOK
  <2>2. CASE SamplerApply
    <3>1. clock \in Nat /\ (sampler.links # <<>> => IsDump(sampler.links[1]))
      BY DEF TypeInv, ClockOK, SamplerOK
    <3>2. tracker' = IF sampler.links = <<>> THEN tracker ELSE Sample(tracker, sampler.links[1], clock)
      BY <2>2 DEF SamplerApply
    <3> QED BY <3>1, <3>2, SampleTyped DEF TypeInv, TrackerOK
  <2>3. CASE ~Watch /\ ~SamplerApply
    <3>1. tracker' = tracker
      BY <2>3 DEF vars, Overrun, SetBack, Reopen, SamplerRead, SamplerReadFails, SamplerOpen,
             SamplerWrite, SamplerRename, SamplerSleep, Persist, PersistOpen, PersistWrite, PersistRename
    <3> QED BY <3>1
  <2> QED BY <2>1, <2>2, <2>3
<1>4. \A e \in Clearers : clearer'[e].pc = "read" => clearer'[e] = clearer[e]
  <2>1. ASSUME NEW c \in Clearers, Persist(c) \/ PersistOpen(c) \/ PersistWrite(c) \/ PersistRename(c)
        PROVE  clearer'[c].pc # "read" /\ \A e \in Clearers \ {c} : clearer'[e] = clearer[e]
    BY <2>1 DEF Persist, PersistOpen, PersistWrite, PersistRename, TypeInv, ClearerOK, Fields, Idle
  <2>2. CASE clearer' = clearer
    BY <2>2
  <2>3. CASE \E c \in Clearers : Persist(c) \/ PersistOpen(c) \/ PersistWrite(c) \/ PersistRename(c)
    BY <2>1, <2>3
  <2> QED BY <2>2, <2>3 DEF vars, Overrun, SetBack, Watch, Reopen, SamplerRead, SamplerReadFails, SamplerApply,
             SamplerOpen, SamplerWrite, SamplerRename, SamplerSleep
<1> QED BY <1>1, <1>2, <1>3, <1>4, ReportKept

LEMMA ReportStep == ASSUME TypeInv, ReportInv, [Next]_vars PROVE ReportInv'
<1>1. ASSUME NEW n \in Ifs, \/ \E o \in Opers \cup {"gone"} : Move(n, o)
                            \/ n \in Counted /\ Count(n)
                            \/ DriverReload(n)
      PROVE  ReportInv'
  BY <1>1, ReportMove, ReportCount, ReportDriver DEF States
<1>2. ASSUME NEW c \in Clearers, ClearRead(c) \/ ClearApply(c) PROVE ReportInv'
  BY <1>2, ReportClearRead, ReportClearApply
<1> QED BY <1>1, <1>2, ReportRestart, ReportOthers DEF Next

\* What is reported of a counter (Baseline::applied) is never more than was counted since
\* the clear in force read it, and exactly that when nothing reset the counter, however
\* clears, samples, driver reloads and restarts fall (monitor.rs clear reads the kernel
\* before it takes the lock).
THEOREM ReportsAreRight == Spec => []ReportsSinceClear
<1>1. ASSUME Init PROVE ReportInv
  <2> SUFFICES ASSUME NEW n \in Counted PROVE InForce(n) /\ \A e \in Clearers : Coming(e, n)
    BY DEF ReportInv
  <2>1. n \in Ifs
    BY MonitorAssumption
  <2>2. kernel[n].octets = 0 /\ ghost.total[n] = 0 /\ ghost.base[n] = 0
    BY <1>1, <2>1 DEF Init, Ghost0
  <2>3. Base(tracker, n) = 0
    BY <1>1 DEF Init, Base, Entry, Empty, Fresh
  <2>4. InForce(n)
    BY <2>2, <2>3, RightIs DEF InForce
  <2>5. ASSUME NEW e \in Clearers PROVE Coming(e, n)
    BY <1>1 DEF Init, Coming, Idle
  <2> QED BY <2>4, <2>5
<1>2. ASSUME TypeInv, ReportInv PROVE ReportsSinceClear
  <2> SUFFICES ASSUME NEW n \in Counted
               PROVE  /\ Applied(tracker, n, kernel[n].octets) <= ghost.total[n] - ghost.base[n]
                      /\ ~ghost.reset[n] => Applied(tracker, n, kernel[n].octets) = ghost.total[n] - ghost.base[n]
    BY DEF ReportsSinceClear
  <2>1. /\ kernel[n].octets \in Nat /\ ghost.total[n] \in Nat /\ ghost.base[n] \in Nat
        /\ Base(tracker, n) \in Nat /\ InForce(n)
    BY <1>2, NumbersTyped DEF ReportInv
  <2>2. Applied(tracker, n, kernel[n].octets) = SaturatingSub(kernel[n].octets, Base(tracker, n))
    BY <2>1 DEF Applied, Base, SaturatingSub
  <2>3. Right(kernel[n].octets, Base(tracker, n), ghost.total[n], ghost.base[n])
    BY <2>1 DEF InForce
  <2>4. Applied(tracker, n, kernel[n].octets) <= ghost.total[n] - ghost.base[n]
    BY <2>2, <2>3 DEF Right
  <2>5. kernel[n].octets - Base(tracker, n) = ghost.total[n] - ghost.base[n]
        => Applied(tracker, n, kernel[n].octets) = ghost.total[n] - ghost.base[n]
    <3>1. PICK o \in Nat, b \in Nat, t \in Nat, a \in Nat :
             o = kernel[n].octets /\ b = Base(tracker, n) /\ t = ghost.total[n] /\ a = ghost.base[n]
      BY <2>1
    <3>2. Right(o, b, t, a)
      BY <2>3, <3>1
    <3>3. o - b = t - a => SaturatingSub(o, b) = t - a
      BY ONLY <3>2 DEF Right, SaturatingSub
    <3> QED BY <2>2, <3>1, <3>3
  <2> QED BY <2>1, <2>4, <2>5 DEF InForce
<1> QED BY <1>1, <1>2, InitTyped, TypeStep, ReportStep, PTL DEF Spec

(***************************************************************************)
(* The file, with one writer                                               *)
(***************************************************************************)

FileInv ==
    /\ FileIsWhole
    /\ files.tmp # NoFile => files.tmp # files.file
    /\ sampler.pc = "open" => sampler.fd = files.tmp /\ files.tmp # NoFile /\ files.data[files.tmp] = <<"empty">>
    /\ sampler.pc = "rename" => files.tmp # NoFile /\ files.data[files.tmp][1] = "whole"

LEMMA FileStep == ASSUME Clearers = {}, TypeInv, FileInv, [Next]_vars PROVE FileInv'
<1>1. CASE SamplerOpen
  <2>1. PICK f : f = Opened.files
    OBVIOUS
  <2>2. PICK i \in Inodes :
          /\ i = Opened.inode /\ f.tmp = i /\ f.file = files.file
          /\ f.data[i] = <<"empty">>
          /\ \A j \in Inodes \ {i} : f.data[j] = files.data[j]
          /\ i = files.tmp \/ i \notin InUse
    BY <2>1, OpenedIs DEF TypeInv
  <2>3. i # files.file /\ i # NoFile
    BY <2>2 DEF FileInv, InUse, Inodes, NoFile
  <2>4. files' = f /\ sampler'.pc = "open" /\ sampler'.fd = i
    BY <1>1, <2>1, <2>2 DEF SamplerOpen, TypeInv, SamplerOK, Fields
  <2>5. files.file # NoFile => files.file \in Inodes \ {i}
    BY <2>3 DEF TypeInv, FilesOK
  <2>6. files.file # NoFile => f.data[f.file][1] = "whole"
    BY <2>2, <2>5 DEF FileInv, FileIsWhole
  <2> QED BY <2>2, <2>3, <2>4, <2>6 DEF FileInv, FileIsWhole
<1>2. CASE SamplerWrite
  <2>1. /\ sampler.pc = "open" /\ sampler.fd = files.tmp /\ files.tmp \in Inodes
        /\ files.data[files.tmp] = <<"empty">> /\ files.tmp # files.file
    BY <1>2 DEF SamplerWrite, FileInv, TypeInv, FilesOK
  <2>2. Texts(files.tmp, tracker) = {<<"whole", tracker>>}
    BY <2>1 DEF Texts
  <2>3. files' = [files EXCEPT !.data[files.tmp] = <<"whole", tracker>>]
    BY <1>2, <2>1, <2>2 DEF SamplerWrite
  <2>4. /\ files'.tmp = files.tmp /\ files'.file = files.file
        /\ files'.data[files.tmp] = <<"whole", tracker>>
        /\ \A j \in Inodes \ {files.tmp} : files'.data[j] = files.data[j]
    BY <2>1, <2>3 DEF TypeInv, FilesOK
  <2>5. sampler'.pc = "rename"
    BY <1>2 DEF SamplerWrite, TypeInv, SamplerOK, Fields
  <2>6. files.file # NoFile => files.file \in Inodes \ {files.tmp}
    BY <2>1 DEF TypeInv, FilesOK
  <2>7. <<"whole", tracker>>[1] = "whole"
    OBVIOUS
  <2> QED BY <2>1, <2>4, <2>5, <2>6, <2>7 DEF FileInv, FileIsWhole
<1>3. CASE SamplerRename
  <2>1. files.tmp # NoFile /\ files.data[files.tmp][1] = "whole"
    BY <1>3 DEF SamplerRename, FileInv
  <2>2. files' = [files EXCEPT !.file = files.tmp, !.tmp = NoFile]
    BY <1>3, <2>1 DEF SamplerRename, Renamed
  <2>3. files'.tmp = NoFile /\ files'.file = files.tmp /\ files'.data = files.data
    BY <2>2 DEF TypeInv, FilesOK
  <2>4. sampler'.pc = "sleep"
    BY <1>3 DEF SamplerRename, TypeInv, SamplerOK, Fields
  <2> QED BY <2>1, <2>3, <2>4 DEF FileInv, FileIsWhole
<1>4. ASSUME UNCHANGED files, sampler' = sampler \/ sampler'.pc \notin {"open", "rename"} PROVE FileInv'
  BY <1>4 DEF FileInv, FileIsWhole
<1>5. CASE SamplerRead \/ SamplerReadFails \/ SamplerApply \/ SamplerSleep
  BY <1>4, <1>5 DEF SamplerRead, SamplerReadFails, SamplerApply, SamplerSleep, TypeInv, SamplerOK, Fields
<1>6. CASE Restart
  <2>1. Idle.pc = "idle"
    BY DEF Idle
  <2> QED BY <1>4, <1>6, <2>1 DEF Restart
<1>7. CASE UNCHANGED vars
  BY <1>4, <1>7 DEF vars
<1>8. CASE Overrun \/ SetBack \/ Watch \/ Reopen
  BY <1>4, <1>8 DEF Overrun, SetBack, Watch, Reopen
<1>9. ASSUME NEW n \in Ifs, \/ \E o \in Opers \cup {"gone"} : Move(n, o)
                            \/ n \in Counted /\ Count(n)
                            \/ DriverReload(n)
      PROVE  FileInv'
  BY <1>4, <1>9 DEF Move, Count, DriverReload
<1> QED BY <1>1, <1>2, <1>3, <1>5, <1>6, <1>7, <1>8, <1>9 DEF Next

\* The file the next start reads is never half written, wherever the daemon dies, as long
\* as the sampler is its only writer: a clear's write is made without the lock (monitor.rs
\* persist) and to the same temporary name.
THEOREM OneWriterIsWhole == ASSUME Clearers = {} PROVE Spec => []FileIsWhole
<1>1. Init => FileInv
  BY DEF Init, FileInv, FileIsWhole, Idle
<1>2. FileInv => FileIsWhole
  BY DEF FileInv
<1> QED BY <1>1, <1>2, InitTyped, TypeStep, FileStep, PTL DEF Spec

(***************************************************************************)
(* The events of a link on the socket                                      *)
(***************************************************************************)

Of(q, n) == {i \in 1..Len(q) : q[i].name = n}
Number(q, n) == Cardinality(Of(q, n))

\* The last one says o; the first one does not; each says something else than the one
\* before it.
LastSays(q, n, o) == \A i \in Of(q, n) : (\A j \in Of(q, n) : j <= i) => q[i].oper = o
FirstIsNot(q, n, o) == \A i \in Of(q, n) : (\A j \in Of(q, n) : i <= j) => q[i].oper # o
Alternate(q, n) ==
    \A i, j \in Of(q, n) : i < j /\ (\A k \in Of(q, n) : k <= i \/ j <= k) => q[i].oper # q[j].oper

LEMMA NumberTyped ==
    ASSUME NEW q \in Seq(Events), NEW n
    PROVE  /\ IsFiniteSet(Of(q, n)) /\ Number(q, n) \in Nat /\ Of(q, n) \subseteq Nat
           /\ Number(q, n) = 0 <=> Of(q, n) = {}
<1>1. Of(q, n) \in SUBSET (1..Len(q)) /\ Len(q) \in Nat
  BY DEF Of
<1>2. IsFiniteSet(1..Len(q))
  BY <1>1, FS_Interval
<1>3. IsFiniteSet(Of(q, n))
  BY <1>1, <1>2, FS_Subset
<1> QED BY <1>1, <1>3, FS_EmptySet, FS_CardinalityType DEF Number

LEMMA AppendOf ==
    ASSUME NEW q \in Seq(Events), NEW e \in Events, NEW n
    PROVE  /\ e.name # n => /\ Of(Append(q, e), n) = Of(q, n) /\ Number(Append(q, e), n) = Number(q, n)
                            /\ \A o : LastSays(q, n, o) => LastSays(Append(q, e), n, o)
                            /\ \A o : FirstIsNot(q, n, o) => FirstIsNot(Append(q, e), n, o)
                            /\ Alternate(q, n) => Alternate(Append(q, e), n)
           /\ e.name = n => /\ Number(Append(q, e), n) = Number(q, n) + 1
                            /\ LastSays(Append(q, e), n, e.oper)
                            /\ \A o : FirstIsNot(q, n, o) /\ (Of(q, n) = {} => o # e.oper)
                                      => FirstIsNot(Append(q, e), n, o)
                            /\ \A o : LastSays(q, n, o) /\ o # e.oper /\ Alternate(q, n)
                                      => Alternate(Append(q, e), n)
<1> DEFINE p == Append(q, e)
           z == Len(q) + 1
<1>1. /\ Len(q) \in Nat /\ z \in Nat /\ Len(p) = z /\ p[z] = e
      /\ \A i \in 1..Len(q) : p[i] = q[i] /\ i \in Nat /\ i < z
  OBVIOUS
<1>2. \A i : i \in 1..z <=> i \in 1..Len(q) \/ i = z
  BY <1>1
<1>3. /\ \A i \in Of(q, n) : i \in 1..Len(q) /\ i \in Nat /\ i < z /\ p[i] = q[i]
      /\ z \notin Of(q, n)
  BY <1>1 DEF Of
<1> HIDE DEF p, z
<1>4. Of(p, n) = IF e.name = n THEN Of(q, n) \cup {z} ELSE Of(q, n)
  BY <1>1, <1>2 DEF Of
<1>5. CASE e.name # n
  BY <1>3, <1>4, <1>5 DEF LastSays, FirstIsNot, Alternate, Number, p
<1>6. CASE e.name = n
  <2>1. Number(p, n) = Number(q, n) + 1
    BY <1>3, <1>4, <1>6, NumberTyped, FS_AddElement DEF Number
  <2>2. Of(p, n) = Of(q, n) \cup {z} /\ z \in Of(p, n)
    BY <1>4, <1>6
  <2>3. LastSays(p, n, e.oper)
    <3> SUFFICES ASSUME NEW i \in Of(p, n), \A j \in Of(p, n) : j <= i PROVE p[i].oper = e.oper
      BY DEF LastSays
    <3>1. i = z
      BY <1>1, <1>3, <2>2
    <3> QED BY <1>1, <3>1
  <2>4. ASSUME NEW o, FirstIsNot(q, n, o), Of(q, n) = {} => o # e.oper PROVE FirstIsNot(p, n, o)
    <3> SUFFICES ASSUME NEW i \in Of(p, n), \A j \in Of(p, n) : i <= j PROVE p[i].oper # o
      BY DEF FirstIsNot
    <3>1. CASE i \in Of(q, n)
      BY <1>3, <2>2, <2>4, <3>1 DEF FirstIsNot
    <3>2. CASE i = z
      <4>1. ASSUME NEW j \in Of(q, n) PROVE FALSE
        <5>1. j \in Nat /\ j < z /\ z <= j
          BY <1>3, <2>2, <3>2
        <5> QED BY <1>1, <5>1
      <4> QED BY <1>1, <2>4, <3>2, <4>1
    <3> QED BY <2>2, <3>1, <3>2
  <2>5. ASSUME NEW o, LastSays(q, n, o), o # e.oper, Alternate(q, n) PROVE Alternate(p, n)
    <3> SUFFICES ASSUME NEW i \in Of(p, n), NEW j \in Of(p, n), i < j,
                        \A k \in Of(p, n) : k <= i \/ j <= k
                 PROVE  p[i].oper # p[j].oper
      BY DEF Alternate
    <3>1. i \in Of(q, n)
      BY <1>1, <1>3, <2>2
    <3>2. CASE j \in Of(q, n)
      BY <1>3, <2>2, <2>5, <3>1, <3>2 DEF Alternate
    <3>3. CASE j = z
      <4>1. \A k \in Of(q, n) : k <= i
        BY <1>1, <1>3, <2>2, <3>3
      <4> QED BY <1>1, <1>3, <2>5, <3>1, <3>3, <4>1 DEF LastSays
    <3> QED BY <2>2, <3>2, <3>3
  <2> QED BY <1>6, <2>1, <2>3, <2>4, <2>5 DEF p
<1> QED BY <1>5, <1>6

LEMMA TailOf ==
    ASSUME NEW q \in Seq(Events), q # <<>>, NEW n
    PROVE  /\ \A o : LastSays(q, n, o) => LastSays(Tail(q), n, o)
           /\ Alternate(q, n) => Alternate(Tail(q), n)
           /\ Head(q).name # n => /\ Number(Tail(q), n) = Number(q, n)
                                  /\ \A o : FirstIsNot(q, n, o) => FirstIsNot(Tail(q), n, o)
           /\ Head(q).name = n => /\ Number(q, n) = Number(Tail(q), n) + 1
                                  /\ Alternate(q, n) => FirstIsNot(Tail(q), n, Head(q).oper)
                                  /\ \A o : LastSays(q, n, o) /\ Of(Tail(q), n) = {} => Head(q).oper = o
                                  /\ \A o : FirstIsNot(q, n, o) => Head(q).oper # o
<1> DEFINE p == Tail(q)
<1>1. /\ Len(q) \in Nat /\ Len(q) >= 1 /\ Len(p) = Len(q) - 1 /\ Head(q) = q[1]
      /\ \A i \in 1..Len(p) : p[i] = q[i + 1]
  OBVIOUS
<1>2. p \in Seq(Events)
  OBVIOUS
<1> HIDE DEF p
<1>3. Of(p, n) \subseteq Nat /\ Of(q, n) \subseteq Nat
  BY <1>2, NumberTyped
<1>4. \A i \in Nat : i \in Of(p, n) <=> i >= 1 /\ i + 1 \in Of(q, n)
  BY <1>1 DEF Of
<1>5. \A i \in Of(p, n) : p[i] = q[i + 1]
  BY <1>1 DEF Of
<1>6. \A i \in Of(q, n) : i = 1 \/ (i >= 1 /\ i - 1 \in Of(p, n))
  <2> SUFFICES ASSUME NEW i \in Of(q, n), i # 1 PROVE i >= 1 /\ i - 1 \in Of(p, n)
    BY DEF Of
  <2>1. i \in Nat /\ i >= 1 /\ i - 1 \in Nat /\ i - 1 >= 1 /\ (i - 1) + 1 = i
    BY DEF Of
  <2> QED BY <1>4, <2>1
<1>7. 1 \in Of(q, n) <=> Head(q).name = n
  BY <1>1 DEF Of
<1>8. ASSUME NEW o, LastSays(q, n, o) PROVE LastSays(p, n, o)
  <2> SUFFICES ASSUME NEW i \in Of(p, n), \A j \in Of(p, n) : j <= i PROVE p[i].oper = o
    BY DEF LastSays
  <2>1. i \in Nat /\ i + 1 \in Of(q, n)
    BY <1>3, <1>4
  <2>2. ASSUME NEW j \in Of(q, n) PROVE j <= i + 1
    BY <1>3, <1>6, <2>1
  <2> QED BY <1>5, <1>8, <2>1, <2>2 DEF LastSays
<1>9. ASSUME Alternate(q, n) PROVE Alternate(p, n)
  <2> SUFFICES ASSUME NEW i \in Of(p, n), NEW j \in Of(p, n), i < j,
                      \A k \in Of(p, n) : k <= i \/ j <= k
               PROVE  p[i].oper # p[j].oper
    BY DEF Alternate
  <2>1. i \in Nat /\ j \in Nat /\ i + 1 \in Of(q, n) /\ j + 1 \in Of(q, n) /\ i + 1 < j + 1
    BY <1>3, <1>4
  <2>2. ASSUME NEW k \in Of(q, n) PROVE k <= i + 1 \/ j + 1 <= k
    BY <1>3, <1>6, <2>1
  <2> QED BY <1>5, <1>9, <2>1, <2>2 DEF Alternate
<1>10. ASSUME Head(q).name # n, NEW o, FirstIsNot(q, n, o) PROVE FirstIsNot(p, n, o)
  <2> SUFFICES ASSUME NEW i \in Of(p, n), \A j \in Of(p, n) : i <= j PROVE p[i].oper # o
    BY DEF FirstIsNot
  <2>1. i \in Nat /\ i + 1 \in Of(q, n)
    BY <1>3, <1>4
  <2>2. ASSUME NEW j \in Of(q, n) PROVE i + 1 <= j
    <3>1. j \in Nat /\ j - 1 \in Of(p, n) /\ i <= j - 1
      BY <1>3, <1>6, <1>7, <1>10
    <3> QED BY <2>1, <3>1
  <2> QED BY <1>5, <1>10, <2>1, <2>2 DEF FirstIsNot
<1>11. ASSUME Head(q).name = n, Alternate(q, n) PROVE FirstIsNot(p, n, Head(q).oper)
  <2> SUFFICES ASSUME NEW i \in Of(p, n), \A j \in Of(p, n) : i <= j PROVE p[i].oper # Head(q).oper
    BY DEF FirstIsNot
  <2>1. i \in Nat /\ i + 1 \in Of(q, n) /\ 1 \in Of(q, n) /\ 1 < i + 1
    BY <1>3, <1>4, <1>7, <1>11
  <2>2. ASSUME NEW k \in Of(q, n) PROVE k <= 1 \/ i + 1 <= k
    BY <1>3, <1>6, <2>1
  <2>3. q[1].oper # q[i + 1].oper
    BY <1>11, <2>1, <2>2 DEF Alternate
  <2> QED BY <1>1, <1>5, <2>3
<1>12. ASSUME Head(q).name = n, NEW o, LastSays(q, n, o), Of(p, n) = {} PROVE Head(q).oper = o
  <2>1. 1 \in Of(q, n) /\ \A j \in Of(q, n) : j <= 1
    BY <1>6, <1>7, <1>12
  <2> QED BY <1>1, <1>12, <2>1 DEF LastSays
<1>13. ASSUME Head(q).name = n, NEW o, FirstIsNot(q, n, o) PROVE Head(q).oper # o
  <2>1. 1 \in Of(q, n) /\ \A j \in Of(q, n) : 1 <= j
    BY <1>7, <1>13 DEF Of
  <2> QED BY <1>1, <1>13, <2>1 DEF FirstIsNot
<1>14. Cardinality(Of(q, n) \ {1}) = Number(p, n)
  <2> DEFINE S == Of(q, n) \ {1}
             f == [i \in S |-> i - 1]
  <2>1. f \in [S -> Of(p, n)] /\ \A i \in S : f[i] = i - 1
    BY <1>6
  <2>2. \A i, j \in S : f[i] = f[j] => i = j
    BY <1>3, <2>1
  <2>3. \A t \in Of(p, n) : \E i \in S : f[i] = t
    <3> SUFFICES ASSUME NEW t \in Of(p, n) PROVE t + 1 \in S /\ (t + 1) - 1 = t
      BY <2>1
    <3> QED BY <1>3, <1>4
  <2> HIDE DEF f, S
  <2>4. f \in Bijection(S, Of(p, n))
    BY <2>1, <2>2, <2>3 DEF Bijection, Injection, Surjection, IsInjective
  <2>5. IsFiniteSet(S)
    BY NumberTyped, FS_RemoveElement DEF S
  <2>6. Cardinality(Of(p, n)) = Cardinality(S)
    BY <2>4, <2>5, FS_Bijection DEF ExistsBijection
  <2> QED BY <2>6 DEF Number, S
<1>15. Number(q, n) = IF Head(q).name = n THEN Number(p, n) + 1 ELSE Number(p, n)
  <2>1. Cardinality(Of(q, n) \ {1}) = IF 1 \in Of(q, n) THEN Number(q, n) - 1 ELSE Number(q, n)
    BY NumberTyped, FS_RemoveElement DEF Number
  <2>2. Number(q, n) \in Nat /\ Number(p, n) \in Nat
    BY <1>2, NumberTyped
  <2> QED BY <1>7, <1>14, <2>1, <2>2
<1> QED BY <1>8, <1>9, <1>10, <1>11, <1>12, <1>13, <1>15 DEF p

(***************************************************************************)
(* The count of transitions                                                *)
(***************************************************************************)

\* What is on the socket is the end of what the links have done.
QueueInv ==
    /\ broken => queue = <<>>
    /\ \A n \in Ifs : LastSays(queue, n, kernel[n].oper) /\ Alternate(queue, n)

\* A state that differs from the kernel's, with no event to come, is a transition that the
\* next dump will count.
Astray(n) == IF Of(queue, n) = {} /\ tracker.history[n].oper # kernel[n].oper THEN 1 ELSE 0

Counted1(n) ==
    /\ tracker.history[n].since # <<>>
    /\ tracker.history[n].changes + Number(queue, n) + Astray(n) <= ghost.moves[n]
    /\ ~ghost.lost[n] =>
         /\ tracker.history[n].changes + Number(queue, n) = ghost.moves[n]
         /\ Of(queue, n) = {} => tracker.history[n].oper = kernel[n].oper
         /\ FirstIsNot(queue, n, tracker.history[n].oper)

CountOf(n) ==
    IF n \in DOMAIN tracker.history THEN ~ghost.crossed[n] => Counted1(n) ELSE ghost.moves[n] = 0

CountInv == QueueInv /\ \A n \in Ifs : CountOf(n)

\* A step that leaves what there is to know of link n alone.
LEMMA CountOfKept ==
    ASSUME NEW n \in Ifs, CountOf(n), kernel'[n].oper = kernel[n].oper,
           n \in DOMAIN tracker'.history <=> n \in DOMAIN tracker.history,
           n \in DOMAIN tracker.history => tracker'.history[n] = tracker.history[n],
           ghost'.moves[n] = ghost.moves[n],
           ~ghost'.crossed[n] => ~ghost.crossed[n], ~ghost'.lost[n] => ~ghost.lost[n],
           Of(queue', n) = Of(queue, n), Number(queue', n) = Number(queue, n),
           \A o : FirstIsNot(queue, n, o) => FirstIsNot(queue', n, o)
    PROVE  CountOf(n)'
<1>1. CASE n \notin DOMAIN tracker.history
  BY <1>1 DEF CountOf
<1>2. CASE n \in DOMAIN tracker.history /\ ~ghost'.crossed[n]
  <2>1. Counted1(n)
    BY <1>2 DEF CountOf
  <2>2. /\ tracker'.history[n].since # <<>>
        /\ tracker'.history[n].changes + Number(queue', n)
             + (IF Of(queue', n) = {} /\ tracker'.history[n].oper # kernel'[n].oper THEN 1 ELSE 0) <= ghost'.moves[n]
    BY <1>2, <2>1 DEF Counted1, Astray
  <2>3. ~ghost'.lost[n] =>
         /\ tracker'.history[n].changes + Number(queue', n) = ghost'.moves[n]
         /\ Of(queue', n) = {} => tracker'.history[n].oper = kernel'[n].oper
         /\ FirstIsNot(queue', n, tracker'.history[n].oper)
    BY <1>2, <2>1 DEF Counted1
  <2> QED BY <1>2, <2>2, <2>3 DEF CountOf, Counted1, Astray
<1>3. CASE n \in DOMAIN tracker.history /\ ghost'.crossed[n]
  BY <1>3 DEF CountOf
<1> QED BY <1>1, <1>2, <1>3

LEMMA CountKept ==
    ASSUME CountInv, queue' = queue, broken' => broken,
           \A n \in Ifs : /\ kernel'[n].oper = kernel[n].oper
                          /\ n \in DOMAIN tracker'.history <=> n \in DOMAIN tracker.history
                          /\ n \in DOMAIN tracker.history => tracker'.history[n] = tracker.history[n]
                          /\ ghost'.moves[n] = ghost.moves[n]
                          /\ ~ghost'.crossed[n] => ~ghost.crossed[n]
                          /\ ~ghost'.lost[n] => ~ghost.lost[n]
    PROVE  CountInv'
<1>1. QueueInv'
  BY DEF CountInv, QueueInv, LastSays, Alternate, Of
<1>2. ASSUME NEW n \in Ifs PROVE CountOf(n)'
  BY CountOfKept DEF CountInv
<1> QED BY <1>1, <1>2 DEF CountInv

LEMMA CountTyped1 ==
    ASSUME TypeInv, NEW n \in Ifs
    PROVE  /\ Number(queue, n) \in Nat /\ (Number(queue, n) = 0 <=> Of(queue, n) = {}) /\ ghost.moves[n] \in Nat
           /\ n \in DOMAIN tracker.history => tracker.history[n].changes \in Nat
BY NumberTyped DEF TypeInv, QueueOK, GhostOK, Ghosts, TrackerOK, IsTracker, Histories

LEMMA CountMove ==
    ASSUME TypeInv, CountInv, NEW m \in Ifs, NEW o \in States, Move(m, o) PROVE CountInv'
<1>1. /\ kernel'[m].oper = o /\ o # kernel[m].oper
      /\ \A n \in Ifs \ {m} : kernel'[n] = kernel[n]
  BY DEF Move, TypeInv, KernelOK
<1>2. UNCHANGED <<broken, tracker>>
  BY DEF Move
<1>3. /\ ghost'.moves = [ghost.moves EXCEPT ![m] = IF m \in DOMAIN tracker.history THEN @ + 1 ELSE @]
      /\ ghost'.lost = [ghost.lost EXCEPT ![m] = @ \/ broken]
      /\ ghost'.crossed = ghost.crossed
  BY DEF Move, TypeInv, GhostOK, Ghosts
<1>4. /\ ghost.lost \in [Ifs -> BOOLEAN] /\ ghost.moves \in [Ifs -> Nat]
      /\ queue \in Seq(Events) /\ broken \in BOOLEAN
  BY DEF TypeInv, GhostOK, Ghosts, QueueOK
<1>5. (ghost'.lost[m] <=> ghost.lost[m] \/ broken) /\ \A n \in Ifs \ {m} : ghost'.lost[n] = ghost.lost[n]
  BY <1>3, <1>4, Zenon
<1>6. /\ ghost'.moves[m] = IF m \in DOMAIN tracker.history THEN ghost.moves[m] + 1 ELSE ghost.moves[m]
      /\ \A n \in Ifs \ {m} : ghost'.moves[n] = ghost.moves[n]
  BY <1>3, <1>4
<1>7. CASE broken
  <2>1. queue = <<>> /\ queue' = <<>> /\ \A n : Of(queue, n) = {}
    BY <1>7 DEF CountInv, QueueInv, Move, Of
  <2>2. QueueInv'
    BY <2>1 DEF QueueInv, LastSays, Alternate, Of
  <2>3. ASSUME NEW n \in Ifs \ {m} PROVE CountOf(n)'
    BY <1>1, <1>2, <1>3, <1>5, <1>6, <2>1, CountOfKept DEF CountInv
  <2>4. CountOf(m)'
    <3>1. CASE m \notin DOMAIN tracker.history
      BY <1>2, <1>6, <3>1 DEF CountInv, CountOf
    <3>2. CASE m \in DOMAIN tracker.history /\ ~ghost.crossed[m]
      <4>1. Counted1(m)
        BY <3>2 DEF CountInv, CountOf
      <4>2. /\ tracker.history[m].changes \in Nat /\ ghost.moves[m] \in Nat
            /\ Number(queue, m) = 0 /\ Number(queue', m) = 0
        BY <2>1, <3>2, CountTyped1
      <4>3. Astray(m) \in {0, 1} /\ Astray(m)' \in {0, 1}
        BY DEF Astray
      <4>4. tracker.history[m].changes + 0 + Astray(m)' <= ghost.moves[m] + 1
        <5>1. tracker.history[m].changes + 0 + Astray(m) <= ghost.moves[m]
          BY <4>1, <4>2 DEF Counted1
        <5>2. ASSUME NEW k \in Nat, NEW x \in Nat, NEW a \in {0, 1}, NEW b \in {0, 1}, k + 0 + a <= x
              PROVE  k + 0 + b <= x + 1
          BY <5>2
        <5> QED BY <4>2, <4>3, <5>1, <5>2
      <4>5. ghost'.lost[m]
        BY <1>5, <1>7
      <4>6. tracker'.history[m].since # <<>>
        BY <1>2, <4>1 DEF Counted1
      <4>7. Counted1(m)'
        BY <1>2, <1>6, <3>2, <4>2, <4>4, <4>5, <4>6 DEF Counted1
      <4> QED BY <1>2, <3>2, <4>7 DEF CountOf
    <3>3. CASE m \in DOMAIN tracker.history /\ ghost.crossed[m]
      BY <1>2, <1>3, <3>3 DEF CountOf
    <3> QED BY <3>1, <3>2, <3>3
  <2> QED BY <2>2, <2>3, <2>4 DEF CountInv
<1>8. CASE ~broken
  <2>1. PICK e \in Events : e.name = m /\ e.oper = o /\ queue' = Append(queue, e)
    <3>1. Event(m, o) \in Events /\ Event(m, o).name = m /\ Event(m, o).oper = o
      BY DEF Event, Events
    <3> QED BY <1>8, <3>1 DEF Move
  <2>2. \A n \in Ifs : LastSays(queue, n, kernel[n].oper) /\ Alternate(queue, n)
    BY DEF CountInv, QueueInv
  <2>3. QueueInv'
    <3>1. ASSUME NEW n \in Ifs PROVE LastSays(queue', n, kernel'[n].oper) /\ Alternate(queue', n)
      BY <1>1, <1>4, <2>1, <2>2, AppendOf
    <3> QED BY <1>2, <1>8, <3>1 DEF QueueInv
  <2>4. ASSUME NEW n \in Ifs \ {m} PROVE CountOf(n)'
    <3>1. /\ Of(queue', n) = Of(queue, n) /\ Number(queue', n) = Number(queue, n)
          /\ \A x : FirstIsNot(queue, n, x) => FirstIsNot(queue', n, x)
      BY <1>4, <2>1, AppendOf
    <3> QED BY <1>1, <1>2, <1>3, <1>5, <1>6, <3>1, CountOfKept DEF CountInv
  <2>5. CountOf(m)'
    <3>1. CASE m \notin DOMAIN tracker.history
      BY <1>2, <1>6, <3>1 DEF CountInv, CountOf
    <3>2. CASE m \in DOMAIN tracker.history /\ ~ghost.crossed[m]
      <4> DEFINE h == tracker.history[m]
      <4>1. Counted1(m)
        BY <3>2 DEF CountInv, CountOf
      <4>2. /\ h.changes \in Nat /\ ghost.moves[m] \in Nat /\ Number(queue, m) \in Nat
            /\ Number(queue', m) = Number(queue, m) + 1
        BY <1>4, <2>1, <3>2, CountTyped1, AppendOf
      <4>3. queue' \in Seq(Events) /\ Of(queue', m) # {}
        <5>1. queue' \in Seq(Events)
          BY <1>4, <2>1
        <5> QED BY <4>2, <5>1, NumberTyped
      <4>4. Astray(m) \in {0, 1} /\ Astray(m)' = 0
        BY <4>3 DEF Astray
      <4>5. tracker'.history[m] = h /\ ghost'.moves[m] = ghost.moves[m] + 1
        BY <1>2, <1>6, <3>2
      <4>6. h.since # <<>> /\ h.changes + Number(queue, m) + Astray(m) <= ghost.moves[m]
        BY <4>1 DEF Counted1
      <4>7. h.changes + Number(queue', m) + 0 <= ghost.moves[m] + 1
        BY <4>2, <4>4, <4>6
      <4>8. ASSUME ~ghost'.lost[m]
            PROVE  /\ h.changes + Number(queue', m) = ghost.moves[m] + 1
                   /\ FirstIsNot(queue', m, h.oper)
        <5>1. /\ h.changes + Number(queue, m) = ghost.moves[m]
              /\ Of(queue, m) = {} => h.oper = kernel[m].oper
              /\ FirstIsNot(queue, m, h.oper)
          BY <1>5, <4>1, <4>8 DEF Counted1
        <5>2. FirstIsNot(queue', m, h.oper)
          BY <1>1, <1>4, <2>1, <5>1, AppendOf
        <5> QED BY <4>2, <5>1, <5>2
      <4>9. Counted1(m)'
        BY <4>3, <4>4, <4>5, <4>6, <4>7, <4>8 DEF Counted1
      <4> QED BY <1>2, <3>2, <4>9 DEF CountOf
    <3>3. CASE m \in DOMAIN tracker.history /\ ghost.crossed[m]
      BY <1>2, <1>3, <3>3 DEF CountOf
    <3> QED BY <3>1, <3>2, <3>3
  <2> QED BY <2>3, <2>4, <2>5 DEF CountInv
<1> QED BY <1>7, <1>8

LEMMA CountOverrun == ASSUME TypeInv, CountInv, Overrun PROVE CountInv'
<1>1. queue' = <<>> /\ broken' = TRUE /\ UNCHANGED <<kernel, tracker>> /\ \A n : Of(queue', n) = {}
  BY DEF Overrun, Of
<1>2. QueueInv'
  BY <1>1 DEF QueueInv, LastSays, Alternate
<1>3. PICK lost : lost = [n \in Ifs |-> ghost.lost[n] \/ Pending(n) # {}]
  OBVIOUS
<1>4. ghost' = [ghost EXCEPT !.lost = lost]
  BY <1>3 DEF Overrun
<1>5. ghost'.moves = ghost.moves /\ ghost'.crossed = ghost.crossed /\ ghost'.lost = lost
  BY <1>4 DEF TypeInv, GhostOK, Ghosts
<1>6. \A n \in Ifs : ~lost[n] => ~ghost.lost[n] /\ Of(queue, n) = {}
  <2>1. \A n : Pending(n) = Of(queue, n)
    BY DEF Pending, Of
  <2> QED BY <1>3, <2>1, Zenon
<1>7. ASSUME NEW n \in Ifs PROVE CountOf(n)'
  <2>1. CASE n \notin DOMAIN tracker.history
    BY <1>1, <1>5, <2>1 DEF CountInv, CountOf
  <2>2. CASE n \in DOMAIN tracker.history /\ ghost.crossed[n]
    BY <1>1, <1>5, <2>2 DEF CountOf
  <2>3. CASE n \in DOMAIN tracker.history /\ ~ghost.crossed[n]
    <3> DEFINE h == tracker.history[n]
    <3>1. Counted1(n)
      BY <2>3 DEF CountInv, CountOf
    <3>2. /\ h.changes \in Nat /\ ghost.moves[n] \in Nat /\ Number(queue, n) \in Nat
          /\ (Number(queue, n) = 0 <=> Of(queue, n) = {}) /\ Number(queue', n) = 0
      <4>1. Number(queue', n) = 0
        BY <1>1, FS_EmptySet DEF Number
      <4> QED BY <2>3, <4>1, CountTyped1
    <3>3. h.since # <<>> /\ h.changes + Number(queue, n) + Astray(n) <= ghost.moves[n]
      BY <3>1 DEF Counted1
    <3>4. CASE Of(queue, n) = {}
      <4>1. /\ Number(queue', n) = Number(queue, n) /\ Of(queue', n) = Of(queue, n)
            /\ \A o : FirstIsNot(queue, n, o) => FirstIsNot(queue', n, o)
        BY <1>1, <3>2, <3>4 DEF FirstIsNot
      <4> QED BY <1>1, <1>5, <1>6, <2>3, <4>1, CountOfKept DEF CountInv
    <3>5. CASE Of(queue, n) # {}
      <4>1. ghost'.lost[n]
        BY <1>5, <1>6, <3>5
      <4>2. Astray(n) = 0 /\ Astray(n)' \in {0, 1}
        BY <3>5 DEF Astray
      <4>3. h.changes + 0 + Astray(n)' <= ghost.moves[n]
        <5>1. ASSUME NEW k \in Nat, NEW x \in Nat, NEW j \in Nat, NEW b \in {0, 1}, j # 0, k + j + 0 <= x
              PROVE  k + 0 + b <= x
          BY <5>1
        <5>2. h.changes + Number(queue, n) + 0 <= ghost.moves[n] /\ Number(queue, n) # 0
          BY <3>2, <3>3, <3>5, <4>2
        <5> QED BY <3>2, <4>2, <5>1, <5>2
      <4>4. Counted1(n)'
        BY <1>1, <1>5, <2>3, <3>2, <3>3, <4>1, <4>3 DEF Counted1
      <4> QED BY <1>1, <2>3, <4>4 DEF CountOf
    <3> QED BY <3>4, <3>5
  <2> QED BY <2>1, <2>2, <2>3
<1> QED BY <1>2, <1>7 DEF CountInv

LEMMA CountWatch == ASSUME TypeInv, CountInv, Watch PROVE CountInv'
<1>1. /\ queue \in Seq(Events) /\ queue # <<>> /\ clock \in Nat /\ IsTracker(tracker)
      /\ queue' = Tail(queue) /\ UNCHANGED <<kernel, broken>>
  BY DEF Watch, TypeInv, QueueOK, ClockOK, TrackerOK
<1>2. PICK e \in Events : e = Head(queue)
  BY <1>1
<1>3. PICK m \in Ifs : m = e.name
  BY DEF Events
<1>4. /\ queue \in Seq(Events) /\ queue # <<>> /\ queue' = Tail(queue) /\ m = Head(queue).name /\ e = Head(queue)
      /\ queue' \in Seq(Events) /\ UNCHANGED <<kernel, broken>>
  BY <1>1, <1>2, <1>3
<1>5. ~broken
  BY <1>4 DEF CountInv, QueueInv
<1>6. /\ DOMAIN tracker'.history = DOMAIN tracker.history \cup {m}
      /\ tracker'.history[m].oper = e.oper /\ tracker'.history[m].since # <<>>
      /\ tracker'.history[m].changes =
           IF Entry(tracker, m).since # <<>> /\ Entry(tracker, m).oper # e.oper
           THEN Entry(tracker, m).changes + 1 ELSE Entry(tracker, m).changes
      /\ \A n \in DOMAIN tracker.history \ {m} : tracker'.history[n] = tracker.history[n]
  BY <1>1, <1>2, <1>3, NoteEventTyped DEF Watch
<1>7. /\ ghost'.moves = [ghost.moves EXCEPT ![m] =
             IF m \in DOMAIN tracker.history THEN @ ELSE Number(queue, m) - 1]
      /\ ghost'.crossed = ghost.crossed /\ ghost'.lost = ghost.lost
  BY <1>4 DEF Watch, TypeInv, GhostOK, Ghosts, Pending, Number, Of
<1>8. /\ ghost'.moves[m] = IF m \in DOMAIN tracker.history THEN ghost.moves[m] ELSE Number(queue, m) - 1
      /\ \A n \in Ifs \ {m} : ghost'.moves[n] = ghost.moves[n]
  BY <1>4, <1>7 DEF TypeInv, GhostOK, Ghosts
<1>9. \A n \in Ifs : LastSays(queue, n, kernel[n].oper) /\ Alternate(queue, n)
  BY DEF CountInv, QueueInv
<1>10. QueueInv'
  <2>1. ASSUME NEW n \in Ifs PROVE LastSays(queue', n, kernel'[n].oper) /\ Alternate(queue', n)
    BY <1>4, <1>9, TailOf
  <2> QED BY <1>4, <1>5, <2>1 DEF QueueInv
<1>11. ASSUME NEW n \in Ifs \ {m} PROVE CountOf(n)'
  <2>1. /\ Number(queue', n) = Number(queue, n)
        /\ \A o : FirstIsNot(queue, n, o) => FirstIsNot(queue', n, o)
    BY <1>4, TailOf
  <2>2. Of(queue', n) = {} <=> Of(queue, n) = {}
    BY <1>4, <2>1, NumberTyped
  <2>3. CountOf(n)
    BY DEF CountInv
  <2>4. CASE n \notin DOMAIN tracker.history
    BY <1>6, <1>8, <2>3, <2>4 DEF CountOf
  <2>5. CASE n \in DOMAIN tracker.history
    <3>1. tracker'.history[n] = tracker.history[n] /\ n \in DOMAIN tracker'.history
      BY <1>6, <2>5
    <3>2. Astray(n)' = Astray(n)
      BY <1>4, <2>2, <3>1 DEF Astray
    <3> QED BY <1>4, <1>7, <1>8, <2>1, <2>2, <2>3, <2>5, <3>1, <3>2 DEF CountOf, Counted1
  <2> QED BY <2>4, <2>5
<1>12. CountOf(m)'
  <2>1. /\ Number(queue, m) = Number(queue', m) + 1 /\ FirstIsNot(queue', m, e.oper)
        /\ Of(queue', m) = {} => e.oper = kernel[m].oper
        /\ \A o : FirstIsNot(queue, m, o) => e.oper # o
    BY <1>4, <1>9, TailOf
  <2>2. Number(queue', m) \in Nat /\ Number(queue, m) \in Nat /\ Of(queue, m) # {}
    <3>1. Number(queue', m) \in Nat
      BY <1>4, NumberTyped
    <3>2. Number(queue, m) \in Nat /\ (Number(queue, m) = 0 <=> Of(queue, m) = {})
      BY <1>4, NumberTyped
    <3>3. \A j \in Nat : j + 1 # 0
      OBVIOUS
    <3> QED BY <2>1, <3>1, <3>2, <3>3
  <2>3. Astray(m)' = 0
    BY <1>4, <1>6, <2>1 DEF Astray
  <2>4. CASE m \notin DOMAIN tracker.history
    <3>1. tracker'.history[m].changes = 0
      BY <1>6, <2>4 DEF Entry, Fresh
    <3>2. ghost'.moves[m] = Number(queue', m)
      BY <1>8, <2>1, <2>2, <2>4
    <3>3. 0 + Number(queue', m) + 0 <= Number(queue', m) /\ 0 + Number(queue', m) = Number(queue', m)
      BY <2>2
    <3>4. Counted1(m)'
      BY <1>4, <1>6, <2>1, <2>3, <3>1, <3>2, <3>3 DEF Counted1
    <3> QED BY <1>6, <3>4 DEF CountOf
  <2>5. CASE m \in DOMAIN tracker.history /\ ghost.crossed[m]
    BY <1>6, <1>7, <2>5 DEF CountOf
  <2>6. CASE m \in DOMAIN tracker.history /\ ~ghost.crossed[m]
    <3> DEFINE h == tracker.history[m]
               changes == tracker'.history[m].changes
    <3>1. Counted1(m) /\ h.changes \in Nat /\ ghost.moves[m] \in Nat /\ ghost'.moves[m] = ghost.moves[m]
      BY <1>4, <1>8, <2>6, CountTyped1 DEF CountInv, CountOf
    <3>2. /\ h.since # <<>> /\ h.changes + Number(queue, m) + Astray(m) <= ghost.moves[m]
          /\ changes = IF h.oper # e.oper THEN h.changes + 1 ELSE h.changes
      BY <1>6, <2>6, <3>1 DEF Counted1, Entry
    <3>3. Astray(m) = 0
      BY <2>2 DEF Astray
    <3>4. changes + Number(queue', m) + 0 <= ghost.moves[m]
      <4>1. ASSUME NEW k \in Nat, NEW j \in Nat, NEW x \in Nat, k + (j + 1) + 0 <= x, NEW r \in {k, k + 1}
            PROVE  r + j + 0 <= x
        BY <4>1
      <4>2. h.changes + (Number(queue', m) + 1) + 0 <= ghost.moves[m]
        BY <2>1, <3>2, <3>3
      <4>3. changes \in {h.changes, h.changes + 1}
        BY <3>2
      <4> HIDE DEF h, changes
      <4> QED BY <2>2, <3>1, <4>1, <4>2, <4>3
    <3>5. ASSUME ~ghost'.lost[m] PROVE changes + Number(queue', m) = ghost.moves[m]
      <4>1. h.changes + Number(queue, m) = ghost.moves[m] /\ FirstIsNot(queue, m, h.oper)
        BY <1>7, <3>1, <3>5 DEF Counted1
      <4>2. changes = h.changes + 1
        BY <2>1, <3>2, <4>1
      <4> HIDE DEF h, changes
      <4> QED BY <2>1, <2>2, <3>1, <4>1, <4>2
    <3>6. Counted1(m)'
      BY <1>4, <1>6, <2>1, <2>3, <3>1, <3>4, <3>5 DEF Counted1
    <3> QED BY <1>6, <2>6, <3>6 DEF CountOf
  <2> QED BY <2>4, <2>5, <2>6
<1> QED BY <1>10, <1>11, <1>12 DEF CountInv

LEMMA CountSample == ASSUME TypeInv, CountInv, SamplerApply PROVE CountInv'
<1>1. CASE sampler.links = <<>>
  <2>1. UNCHANGED <<kernel, queue, broken, tracker, ghost>>
    BY <1>1 DEF SamplerApply
  <2> QED BY <2>1, CountKept
<1>2. CASE sampler.links # <<>>
  <2>1. PICK d : d = sampler.links[1]
    OBVIOUS
  <2>2. /\ IsDump(d) /\ IsTracker(tracker) /\ clock \in Nat /\ tracker' = Sample(tracker, d, clock)
        /\ UNCHANGED <<kernel, queue, broken>>
    BY <1>2, <2>1 DEF SamplerApply, TypeInv, SamplerOK, TrackerOK, ClockOK
  <2>3. /\ DOMAIN tracker'.history = DOMAIN tracker.history \cup DOMAIN d
        /\ \A n \in DOMAIN d : tracker'.history[n] = SampleLink(tracker, d[n], clock) /\ d[n].name = n
        /\ \A n \in DOMAIN tracker.history \ DOMAIN d : tracker'.history[n] = tracker.history[n]
    BY <2>2, SampleTyped DEF IsDump
  <2>4. PICK crossed : crossed = [n \in Ifs |-> ghost.crossed[n] \/ (n \in DOMAIN d /\ Overlaps(n))]
    OBVIOUS
  <2>5. ghost'.moves = ghost.moves /\ ghost'.lost = ghost.lost /\ ghost'.crossed = crossed
    BY <1>2, <2>1, <2>4 DEF SamplerApply, TypeInv, GhostOK, Ghosts
  <2>6. \A n \in Ifs : ~crossed[n] => ~ghost.crossed[n] /\ (n \in DOMAIN d => ~Overlaps(n))
    BY <2>4, Zenon
  <2>7. QueueInv'
    BY <2>2 DEF CountInv, QueueInv, LastSays, Alternate, Of
  <2>8. ASSUME NEW n \in Ifs PROVE CountOf(n)'
    <3>1. CASE n \notin DOMAIN d
      BY <2>2, <2>3, <2>5, <2>6, <3>1, CountOfKept DEF CountInv
    <3>2. CASE n \in DOMAIN d /\ crossed[n]
      BY <2>3, <2>5, <3>2 DEF CountOf
    <3>3. CASE n \in DOMAIN d /\ ~crossed[n]
      <4> DEFINE h == tracker.history[n]
                 g == tracker'.history[n]
      <4>1. ~ghost.crossed[n] /\ Of(queue, n) = {} /\ d[n].oper = kernel[n].oper
        BY <2>1, <2>6, <3>3 DEF Overlaps, Pending, Of
      <4>2. /\ Number(queue, n) = 0 /\ ghost.moves[n] \in Nat /\ FirstIsNot(queue, n, g.oper)
            /\ n \in DOMAIN tracker.history => h.changes \in Nat
        BY <4>1, CountTyped1 DEF FirstIsNot
      <4>3. g = SampleLink(tracker, d[n], clock) /\ d[n].name = n /\ <<clock>> # <<>>
        BY <2>3, <3>3
      <4>4. PICK e \in Histories : e = Entry(tracker, n)
        BY <2>2, EntryTyped
      <4>5. /\ g.oper = kernel[n].oper /\ g.since # <<>>
            /\ g.changes = IF e.since # <<>> /\ e.oper # kernel[n].oper THEN e.changes + 1 ELSE e.changes
        BY <4>1, <4>3, <4>4 DEF SampleLink, Histories
      <4>6. Astray(n)' = 0
        BY <2>2, <4>5 DEF Astray
      <4>7. g.changes <= ghost.moves[n] /\ (~ghost.lost[n] => g.changes = ghost.moves[n])
        <5>1. CASE n \notin DOMAIN tracker.history
          <6>1. g.changes = 0 /\ ghost.moves[n] = 0
            BY <4>4, <4>5, <5>1 DEF Entry, Fresh, CountInv, CountOf
          <6> QED BY <6>1
        <5>2. CASE n \in DOMAIN tracker.history
          <6>1. Counted1(n) /\ e = h
            BY <4>1, <4>4, <5>2 DEF CountInv, CountOf, Entry
          <6>2. /\ h.changes \in Nat /\ h.since # <<>> /\ h.changes + 0 + Astray(n) <= ghost.moves[n]
                /\ ~ghost.lost[n] => h.changes + 0 = ghost.moves[n] /\ h.oper = kernel[n].oper
            BY <4>1, <4>2, <5>2, <6>1 DEF Counted1
          <6>3. CASE h.oper = kernel[n].oper
            <7>1. Astray(n) = 0 /\ g.changes = h.changes
              BY <4>5, <6>1, <6>3 DEF Astray
            <7> HIDE DEF h, g
            <7> QED BY <4>2, <6>2, <7>1
          <6>4. CASE h.oper # kernel[n].oper
            <7>1. Astray(n) = 1 /\ g.changes = h.changes + 1 /\ ghost.lost[n]
              BY <4>1, <4>5, <6>1, <6>2, <6>4 DEF Astray
            <7> HIDE DEF h, g
            <7> QED BY <4>2, <6>2, <7>1
          <6> QED BY <6>3, <6>4
        <5> QED BY <5>1, <5>2
      <4>8. g.changes \in Nat
        BY <4>4, <4>5 DEF Histories
      <4>9. /\ g.changes + 0 + 0 <= ghost.moves[n]
            /\ ~ghost.lost[n] => g.changes + 0 = ghost.moves[n]
        BY <4>2, <4>7, <4>8
      <4>10. Counted1(n)'
        BY <2>2, <2>5, <4>2, <4>5, <4>6, <4>9 DEF Counted1
      <4> QED BY <2>3, <3>3, <4>10 DEF CountOf
    <3> QED BY <3>1, <3>2, <3>3
  <2> QED BY <2>7, <2>8 DEF CountInv
<1> QED BY <1>1, <1>2

LEMMA CountClear == ASSUME TypeInv, CountInv, NEW c \in Clearers, ClearApply(c) PROVE CountInv'
<1>1. PICK d : d = clearer[c].links[1]
  OBVIOUS
<1>2. PICK hit : /\ hit \in SUBSET DOMAIN d /\ IsDump(d)
                 /\ tracker' = Clear(tracker, hit, d, clock) /\ Cleared(c, hit)
  BY <1>1, ClearApplyIs
<1>3. IsTracker(tracker) /\ clock \in Nat /\ UNCHANGED <<kernel, queue, broken>>
  <2>1. IsTracker(tracker) /\ clock \in Nat
    BY DEF TypeInv, TrackerOK, ClockOK
  <2>2. UNCHANGED kernel
    BY Zenon DEF ClearApply
  <2>3. UNCHANGED queue
    BY Zenon DEF ClearApply
  <2>4. UNCHANGED broken
    BY Zenon DEF ClearApply
  <2> QED BY <2>1, <2>2, <2>3, <2>4
<1>4. /\ DOMAIN tracker'.history = DOMAIN tracker.history \cup hit
      /\ \A n \in hit : /\ tracker'.history[n].changes = 0
                         /\ tracker'.history[n].oper = Entry(tracker, n).oper
                         /\ tracker'.history[n].since = Entry(tracker, n).since
      /\ \A n \in DOMAIN tracker.history \ hit : tracker'.history[n] = tracker.history[n]
  BY <1>2, <1>3, ClearTyped
<1>5. QueueInv'
  BY <1>3 DEF CountInv, QueueInv, LastSays, Alternate, Of
<1>6. ghost'.lost = ghost.lost
  BY <1>2 DEF Cleared
<1>7. ASSUME NEW n \in Ifs PROVE CountOf(n)'
  <2>1. CASE n \notin hit
    <3>1. ghost'.moves[n] = ghost.moves[n] /\ ghost'.crossed[n] = ghost.crossed[n]
      BY <1>2, <2>1 DEF Cleared
    <3> QED BY <1>3, <1>4, <1>6, <2>1, <3>1, CountOfKept DEF CountInv
  <2>2. CASE n \in hit /\ ghost'.crossed[n]
    BY <1>4, <2>2 DEF CountOf
  <2>3. CASE n \in hit /\ ~ghost'.crossed[n]
    <3>1. ghost'.moves[n] = 0 /\ ~ghost.crossed[n] /\ InStep(n)
      BY <1>2, <2>3 DEF Cleared
    <3>2. n \in DOMAIN tracker.history /\ tracker.history[n].oper = kernel[n].oper /\ Of(queue, n) = {}
      BY <3>1 DEF InStep, Pending, Of
    <3>3. tracker.history[n].since # <<>>
      BY <3>1, <3>2 DEF CountInv, CountOf, Counted1
    <3>4. /\ tracker'.history[n].changes = 0 /\ tracker'.history[n].oper = kernel[n].oper
          /\ tracker'.history[n].since # <<>>
      BY <1>4, <2>3, <3>2, <3>3 DEF Entry
    <3>5. Number(queue, n) = 0 /\ Astray(n)' = 0 /\ FirstIsNot(queue, n, kernel[n].oper)
      BY <1>3, <3>2, <3>4, CountTyped1 DEF Astray, FirstIsNot
    <3>6. Counted1(n)'
      BY <1>3, <3>1, <3>4, <3>5 DEF Counted1
    <3> QED BY <1>4, <2>3, <3>6 DEF CountOf
  <2> QED BY <2>1, <2>2, <2>3
<1> QED BY <1>5, <1>7 DEF CountInv

LEMMA CountRestart == ASSUME TypeInv, Restart PROVE CountInv'
<1>1. /\ tracker' = Load /\ queue' = <<>> /\ broken' = FALSE
      /\ \A n \in Ifs : ghost'.crossed[n] /\ ghost'.moves[n] = Entry(Load, n).changes
  BY RestartIs DEF Restart
<1>2. QueueInv'
  BY <1>1 DEF QueueInv, LastSays, Alternate, Of
<1>3. ASSUME NEW n \in Ifs PROVE CountOf(n)'
  <2>1. n \notin DOMAIN tracker'.history => ghost'.moves[n] = 0
    BY <1>1 DEF Entry, Fresh
  <2> QED BY <1>1, <2>1 DEF CountOf
<1> QED BY <1>2, <1>3 DEF CountInv

LEMMA CountOthers ==
    ASSUME TypeInv, CountInv,
           \/ UNCHANGED vars \/ SetBack \/ Reopen \/ SamplerRead \/ SamplerReadFails
           \/ SamplerOpen \/ SamplerWrite \/ SamplerRename \/ SamplerSleep
           \/ (\E n \in Ifs : (n \in Counted /\ Count(n)) \/ DriverReload(n))
           \/ \E c \in Clearers : ClearRead(c) \/ Persist(c) \/ PersistOpen(c) \/ PersistWrite(c) \/ PersistRename(c)
    PROVE  CountInv'
<1>1. ghost'.moves = ghost.moves /\ ghost'.lost = ghost.lost /\ ghost'.crossed = ghost.crossed
  BY DEF vars, SetBack, Reopen, SamplerRead, SamplerReadFails, SamplerOpen, SamplerWrite, SamplerRename,
         SamplerSleep, Count, DriverReload, ClearRead, Persist, PersistOpen, PersistWrite, PersistRename,
         TypeInv, GhostOK, Ghosts
<1>2. UNCHANGED <<queue, tracker>> /\ (broken' => broken)
  <2>1. UNCHANGED <<queue, tracker>>
    BY DEF vars, SetBack, Reopen, SamplerRead, SamplerReadFails, SamplerOpen, SamplerWrite, SamplerRename,
           SamplerSleep, Count, DriverReload, ClearRead, Persist, PersistOpen, PersistWrite, PersistRename
  <2>2. broken' => broken
    <3>1. CASE Reopen
      BY Zenon, <3>1 DEF Reopen
    <3>2. CASE ~Reopen
      BY Zenon, <3>2 DEF vars, SetBack, SamplerRead, SamplerReadFails, SamplerOpen, SamplerWrite, SamplerRename,
             SamplerSleep, Count, DriverReload, ClearRead, Persist, PersistOpen, PersistWrite, PersistRename
    <3> QED BY <3>1, <3>2
  <2> QED BY <2>1, <2>2
<1>3. \A n \in Ifs : kernel'[n].oper = kernel[n].oper
  <2>1. ASSUME NEW m \in Ifs, (m \in Counted /\ Count(m)) \/ DriverReload(m)
        PROVE  \A n \in Ifs : kernel'[n].oper = kernel[n].oper
    BY <2>1 DEF Count, DriverReload, TypeInv, KernelOK
  <2>2. CASE kernel' = kernel
    BY <2>2
  <2> QED BY <2>1, <2>2 DEF vars, SetBack, Reopen, SamplerRead, SamplerReadFails, SamplerOpen, SamplerWrite,
          SamplerRename, SamplerSleep, ClearRead, Persist, PersistOpen, PersistWrite, PersistRename
<1> QED BY <1>1, <1>2, <1>3, CountKept

LEMMA CountStep == ASSUME TypeInv, CountInv, [Next]_vars PROVE CountInv'
<1>1. ASSUME NEW n \in Ifs, NEW o \in Opers \cup {"gone"}, Move(n, o) PROVE CountInv'
  BY <1>1, CountMove DEF States
<1>2. ASSUME NEW c \in Clearers, ClearApply(c) PROVE CountInv'
  BY <1>2, CountClear
<1> QED BY <1>1, <1>2, CountOverrun, CountWatch, CountSample, CountRestart, CountOthers DEF Next

\* What History::changes counts (tracker.rs, "transitions since the counters were last
\* cleared") is, once the watcher has caught up, never more than the link has made, and
\* exactly those when no event was lost: the sampler's dumps and the watcher's events see
\* the same transitions and neither is counted twice.
THEOREM TransitionsAreCounted == Spec => []CountsTransitions
<1>1. ASSUME Init PROVE CountInv
  <2>1. queue = <<>> /\ DOMAIN tracker.history = {} /\ broken = FALSE
    BY <1>1 DEF Init, Empty
  <2>2. \A n \in Ifs : ghost.moves[n] = 0
    BY <1>1 DEF Init, Ghost0
  <2> QED BY <2>1, <2>2 DEF CountInv, QueueInv, CountOf, LastSays, Alternate, Of
<1>2. ASSUME TypeInv, CountInv PROVE CountsTransitions
  <2> SUFFICES ASSUME NEW n \in DOMAIN tracker.history, Quiet, ~ghost.crossed[n]
               PROVE  /\ tracker.history[n].changes <= ghost.moves[n]
                      /\ ~ghost.lost[n] => /\ tracker.history[n].changes = ghost.moves[n]
                                           /\ tracker.history[n].oper = kernel[n].oper
    BY DEF CountsTransitions
  <2>1. n \in Ifs /\ Of(queue, n) = {}
    BY <1>2 DEF TypeInv, TrackerOK, IsTracker, Quiet, Of
  <2>2. Counted1(n)
    BY <1>2, <2>1 DEF CountInv, CountOf
  <2>3. Number(queue, n) = 0 /\ tracker.history[n].changes \in Nat /\ ghost.moves[n] \in Nat
    BY <1>2, <2>1, CountTyped1
  <2>4. Astray(n) \in {0, 1}
    BY DEF Astray
  <2>5. /\ tracker.history[n].changes + 0 + Astray(n) <= ghost.moves[n]
        /\ ~ghost.lost[n] => /\ tracker.history[n].changes + 0 = ghost.moves[n]
                             /\ tracker.history[n].oper = kernel[n].oper
    BY <2>1, <2>2, <2>3 DEF Counted1
  <2>6. ASSUME NEW k \in Nat, NEW x \in Nat, NEW a \in {0, 1}, k + 0 + a <= x PROVE k <= x
    BY <2>6
  <2> QED BY <2>3, <2>4, <2>5, <2>6
<1> QED BY <1>1, <1>2, InitTyped, TypeStep, CountStep, PTL DEF Spec

(***************************************************************************)
(* The samples, under a clock that is not set back                         *)
(***************************************************************************)

SamplesOf(t, n) == IF n \in DOMAIN t.samples THEN t.samples[n] ELSE <<>>

\* Readings in the order they were taken, none of them after now.
Sorted(s, now) ==
    /\ \A i, j \in 1..Len(s) : i <= j => s[i].at <= s[j].at
    /\ \A i \in 1..Len(s) : s[i].at <= now
SortedAll(t, now) == \A n \in Ifs : Sorted(SamplesOf(t, n), now)

\* Of the times T a sample was taken at, s has those no further back than History from the
\* last, and no others.
Agree(s, T) ==
    /\ s = <<>> => T = {}
    /\ \A i \in 1..Len(s) : s[i].at \in T
    /\ s # <<>> => \A x \in T : /\ x <= s[Len(s)].at
                                /\ s[Len(s)].at <= x + History => \E i \in 1..Len(s) : s[i].at = x

\* A tracker is as orderly where it waits to be written, and in the file, as it is in use.
Persisting == {"open", "write", "rename"}
TextsSorted == \A c \in Clearers : clearer[c].pc \in Persisting => SortedAll(clearer[c].text[1], clock)
FilesSorted == \A i \in Inodes : files.data[i][1] = "whole" => SortedAll(files.data[i][2], clock)
TakenKept == \A n \in Ifs : Agree(SamplesOf(tracker, n), ghost.taken[n])
RateInv == SortedAll(tracker, clock) /\ TextsSorted /\ FilesSorted /\ TakenKept

LEMMA SamplesTyped == ASSUME NEW t, IsTracker(t), NEW n PROVE SamplesOf(t, n) \in Seq(Readings)
BY DEF IsTracker, SamplesOf

LEMMA TimesTyped ==
    ASSUME NEW s \in Seq(Readings), NEW i \in 1..Len(s)
    PROVE  s[i] \in Readings /\ s[i].at \in Nat
<1>1. s[i] \in Readings
  OBVIOUS
<1> QED BY <1>1 DEF Readings

LEMMA SortedLater ==
    ASSUME NEW t, IsTracker(t), NEW now \in Nat, NEW later \in Nat, now <= later, SortedAll(t, now)
    PROVE  SortedAll(t, later)
<1> SUFFICES ASSUME NEW n \in Ifs PROVE Sorted(SamplesOf(t, n), later)
  BY DEF SortedAll
<1>1. PICK s \in Seq(Readings) : s = SamplesOf(t, n) /\ Sorted(s, now)
  BY SamplesTyped DEF SortedAll
<1>2. \A i \in 1..Len(s) : s[i].at \in Nat
  BY TimesTyped
<1> QED BY <1>1, <1>2 DEF Sorted

\* What is dropped from the front is further back than History.
LEMMA TrimmedIs ==
    ASSUME NEW s \in Seq(Readings), s # <<>>, NEW now \in Nat, Sorted(s, now), s[Len(s)].at = now
    PROVE  \E m \in 1..Len(s) : /\ Trimmed(s, now) = SubSeq(s, m, Len(s))
                                /\ \A i \in 1..Len(s) : now <= s[i].at + History => m <= i
<1> DEFINE late == {i \in 1..Len(s) : SaturatingSub(now, s[i].at) <= History}
<1>1. \A i \in 1..Len(s) : s[i].at \in Nat /\ s[i].at <= now
  BY TimesTyped DEF Sorted
<1>2. \A i \in 1..Len(s) : now <= s[i].at + History <=> i \in late
  BY <1>1, HistoryAssumption DEF SaturatingSub
<1>3. late \in SUBSET Nat /\ Len(s) \in late
  BY <1>1, <1>2, HistoryAssumption
<1>4. Min(late) \in late /\ \A i \in late : Min(late) <= i
  BY <1>3, MinIs
<1>5. Trimmed(s, now) = SubSeq(s, Min(late), Len(s))
  BY <1>3 DEF Trimmed
<1> QED BY <1>2, <1>4, <1>5

LEMMA TakenAgrees ==
    ASSUME NEW s \in Seq(Readings), NEW T \in SUBSET Nat, NEW now \in Nat, NEW v \in Readings, v.at = now,
           Sorted(s, now), Agree(s, T)
    PROVE  Sorted(Trimmed(Append(s, v), now), now) /\ Agree(Trimmed(Append(s, v), now), T \cup {now})
<1>1. PICK a \in Seq(Readings) : a = Append(s, v)
  <2>1. Append(s, v) \in Seq(Readings)
    OBVIOUS
  <2> QED BY <2>1
<1>2. Len(a) = Len(s) + 1 /\ a[Len(a)] = v /\ (\A i \in 1..Len(s) : a[i] = s[i]) /\ a # <<>> /\ Len(s) \in Nat
  BY <1>1
<1>3. \A i \in 1..Len(a) : a[i] \in Readings /\ a[i].at \in Nat
  BY TimesTyped
<1>4. Sorted(a, now)
  <2>1. \A i \in 1..Len(a) : a[i].at <= now
    BY <1>2, <1>3 DEF Sorted
  <2>2. ASSUME NEW i \in 1..Len(a), NEW j \in 1..Len(a), i <= j PROVE a[i].at <= a[j].at
    <3>1. CASE j = Len(a)
      BY <1>2, <2>1, <3>1
    <3>2. CASE j # Len(a)
      BY <1>2, <2>2, <3>2 DEF Sorted
    <3> QED BY <3>1, <3>2
  <2> QED BY <2>1, <2>2 DEF Sorted
<1>5. PICK m \in 1..Len(a) : /\ Trimmed(a, now) = SubSeq(a, m, Len(a))
                             /\ \A i \in 1..Len(a) : now <= a[i].at + History => m <= i
  BY <1>2, <1>4, TrimmedIs
<1>6. PICK u \in Seq(Readings) : u = SubSeq(a, m, Len(a))
  <2>1. SubSeq(a, m, Len(a)) \in Seq(Readings)
    OBVIOUS
  <2> QED BY <2>1
<1>7. /\ Len(u) = Len(a) - m + 1 /\ u # <<>> /\ Len(a) \in Nat /\ m \in Nat /\ m <= Len(a)
      /\ \A i \in 1..Len(u) : u[i] = a[i + m - 1] /\ i + m - 1 \in 1..Len(a)
  <2>1. Len(a) \in Nat /\ m \in Nat /\ m <= Len(a)
    OBVIOUS
  <2>2. Len(u) = Len(a) - m + 1
    BY <1>6, <2>1
  <2>3. \A i \in 1..Len(u) : u[i] = a[i + m - 1] /\ i + m - 1 \in 1..Len(a)
    BY <1>6, <2>1, <2>2
  <2> QED BY <2>1, <2>2, <2>3
<1>8. \A i \in 1..Len(a) : m <= i => i - m + 1 \in 1..Len(u) /\ u[i - m + 1] = a[i]
  BY <1>7
<1>9. Sorted(u, now)
  <2>1. \A i \in 1..Len(u) : u[i].at <= now
    BY <1>4, <1>7 DEF Sorted
  <2>2. ASSUME NEW i \in 1..Len(u), NEW j \in 1..Len(u), i <= j PROVE u[i].at <= u[j].at
    <3>1. i + m - 1 <= j + m - 1 /\ i + m - 1 \in 1..Len(a) /\ j + m - 1 \in 1..Len(a)
      BY <1>7, <2>2
    <3> QED BY <1>4, <1>7, <3>1 DEF Sorted
  <2> QED BY <2>1, <2>2 DEF Sorted
<1>10. u[Len(u)] = v
  BY <1>2, <1>7
<1>11. \A i \in 1..Len(u) : u[i].at \in T \cup {now}
  <2>1. \A i \in 1..Len(a) : a[i].at \in T \cup {now}
    BY <1>2 DEF Agree
  <2> QED BY <1>7, <2>1
<1>12. ASSUME NEW x \in T PROVE x <= now /\ (now <= x + History => \E i \in 1..Len(a) : a[i].at = x)
  <2>1. s # <<>> /\ Len(s) \in 1..Len(s)
    BY DEF Agree
  <2>2. s[Len(s)].at \in Nat /\ s[Len(s)].at <= now
    BY <2>1, TimesTyped DEF Sorted
  <2>3. x <= s[Len(s)].at /\ (s[Len(s)].at <= x + History => \E i \in 1..Len(s) : s[i].at = x)
    BY <2>1 DEF Agree
  <2>4. 1..Len(s) \subseteq 1..Len(a)
    BY <1>2
  <2>5. x \in Nat /\ (now <= x + History => s[Len(s)].at <= x + History)
    BY <2>2, HistoryAssumption
  <2> QED BY <1>2, <2>2, <2>3, <2>4, <2>5
<1>13. ASSUME NEW x \in T \cup {now}, now <= x + History PROVE \E i \in 1..Len(u) : u[i].at = x
  <2>1. PICK i \in 1..Len(a) : a[i].at = x
    BY <1>2, <1>12, <1>13
  <2>2. m <= i
    BY <1>5, <1>13, <2>1
  <2> QED BY <1>8, <2>1, <2>2
<1>14. Agree(u, T \cup {now})
  BY <1>7, <1>10, <1>11, <1>12, <1>13 DEF Agree
<1> QED BY <1>1, <1>5, <1>6, <1>9, <1>14

LEMMA TextsLater ==
    ASSUME TypeInv, RateInv, clock' \in Nat, clock <= clock',
           \A c \in Clearers : clearer'[c].pc \in Persisting =>
               clearer[c].pc \in Persisting /\ clearer'[c].text = clearer[c].text
    PROVE  TextsSorted'
<1> SUFFICES ASSUME NEW c \in Clearers, clearer'[c].pc \in Persisting
             PROVE  SortedAll(clearer'[c].text[1], clock')
  BY DEF TextsSorted
<1>1. IsTracker(clearer[c].text[1]) /\ SortedAll(clearer[c].text[1], clock)
  BY DEF TypeInv, ClearerOK, RateInv, TextsSorted, Persisting
<1>2. clock \in Nat
  BY DEF TypeInv, ClockOK
<1> QED BY <1>1, <1>2, SortedLater

LEMMA FilesLater ==
    ASSUME TypeInv, RateInv, clock' \in Nat, clock <= clock',
           \A i \in Inodes : files'.data[i][1] = "whole" =>
               \/ files.data[i][1] = "whole" /\ files'.data[i] = files.data[i]
               \/ IsTracker(files'.data[i][2]) /\ SortedAll(files'.data[i][2], clock)
    PROVE  FilesSorted'
<1> SUFFICES ASSUME NEW i \in Inodes, files'.data[i][1] = "whole" PROVE SortedAll(files'.data[i][2], clock')
  BY DEF FilesSorted, Inodes
<1>1. IsTracker(files'.data[i][2]) /\ SortedAll(files'.data[i][2], clock)
  BY DEF TypeInv, FilesOK, Contents, RateInv, FilesSorted
<1>2. clock \in Nat
  BY DEF TypeInv, ClockOK
<1> QED BY <1>1, <1>2, SortedLater

LEMMA SamplesLater ==
    ASSUME TypeInv, RateInv, clock' \in Nat, clock <= clock',
           tracker'.samples = tracker.samples, ghost'.taken = ghost.taken
    PROVE  SortedAll(tracker, clock)' /\ TakenKept'
<1>1. \A n : SamplesOf(tracker', n) = SamplesOf(tracker, n)
  BY DEF SamplesOf
<1>2. SortedAll(tracker, clock')
  BY SortedLater DEF TypeInv, ClockOK, TrackerOK, RateInv
<1> QED BY <1>1, <1>2 DEF SortedAll, RateInv, TakenKept

\* What was in a file, or is written to it in whole.
LEMMA FilesOpened ==
    ASSUME TypeInv, files' = Opened.files
    PROVE  \A i \in Inodes : files'.data[i][1] = "whole" => files.data[i][1] = "whole" /\ files'.data[i] = files.data[i]
<1>1. PICK f : f = Opened.files
  OBVIOUS
<1>2. PICK i \in Inodes : f.data[i] = <<"empty">> /\ \A j \in Inodes \ {i} : f.data[j] = files.data[j]
  BY <1>1, OpenedIs DEF TypeInv
<1>3. <<"empty">>[1] # "whole"
  OBVIOUS
<1> QED BY <1>1, <1>2, <1>3

LEMMA FilesWritten ==
    ASSUME TypeInv, NEW k, NEW text, IsTracker(text), SortedAll(text, clock),
           NEW d \in Texts(k, text), files' = [files EXCEPT !.data[k] = d]
    PROVE  \A i \in Inodes : files'.data[i][1] = "whole" =>
               \/ files.data[i][1] = "whole" /\ files'.data[i] = files.data[i]
               \/ IsTracker(files'.data[i][2]) /\ SortedAll(files'.data[i][2], clock)
<1>1. d[1] = "whole" => d[2] = text
  BY DEF Texts
<1>2. files'.data = [files.data EXCEPT ![k] = d]
  BY DEF TypeInv, FilesOK
<1> QED BY <1>1, <1>2 DEF TypeInv, FilesOK

LEMMA RateSampler ==
    ASSUME TypeInv, RateInv, SamplerOpen \/ SamplerWrite \/ SamplerRename \/ SamplerSleep
    PROVE  RateInv'
<1>1. clock' \in Nat /\ clock <= clock'
  BY DEF TypeInv, ClockOK, SamplerOpen, SamplerWrite, SamplerRename, SamplerSleep
<1>2. UNCHANGED <<tracker, clearer, ghost>>
  BY DEF SamplerOpen, SamplerWrite, SamplerRename, SamplerSleep
<1>3. SortedAll(tracker, clock)' /\ TakenKept' /\ TextsSorted'
  BY <1>1, <1>2, SamplesLater, TextsLater
<1>4. FilesSorted'
  <2>1. CASE SamplerOpen
    BY <1>1, <2>1, FilesOpened, FilesLater DEF SamplerOpen
  <2>2. CASE SamplerWrite
    BY <1>1, <2>2, FilesWritten, FilesLater DEF SamplerWrite, TypeInv, TrackerOK, RateInv
  <2>3. CASE SamplerRename \/ SamplerSleep
    <3>1. files'.data = files.data
      BY <2>3 DEF SamplerRename, SamplerSleep, Renamed, TypeInv, FilesOK
    <3> QED BY <1>1, <3>1, FilesLater
  <2> QED BY <2>1, <2>2, <2>3
<1> QED BY <1>3, <1>4 DEF RateInv

LEMMA RateClearer ==
    ASSUME TypeInv, RateInv, NEW c \in Clearers,
           \/ ClearRead(c) \/ ClearApply(c) \/ Persist(c) \/ PersistOpen(c) \/ PersistWrite(c) \/ PersistRename(c)
    PROVE  RateInv'
<1>1. clock' \in Nat /\ clock' = clock /\ clock <= clock'
  <2>1. UNCHANGED clock
    BY DEF ClearRead, ClearApply, Persist, PersistOpen, PersistWrite, PersistRename
  <2> QED BY <2>1 DEF TypeInv, ClockOK
<1>2. tracker'.samples = tracker.samples
  BY DEF TypeInv, TrackerOK, IsTracker, Clear, ClearRead, ClearApply, Persist, PersistOpen, PersistWrite, PersistRename
<1>3. ghost'.taken = ghost.taken
  BY DEF TypeInv, GhostOK, Ghosts, ClearRead, ClearApply, Persist, PersistOpen, PersistWrite, PersistRename
<1>4. SortedAll(tracker, clock)' /\ TakenKept'
  BY <1>1, <1>2, <1>3, SamplesLater
<1>5. TextsSorted'
  <2>1. CASE Persist(c)
    <3>1. PICK t : t = tracker
      OBVIOUS
    <3>2. clearer' = [clearer EXCEPT ![c].pc = "open", ![c].text = <<t>>] /\ <<t>>[1] = t
      BY <2>1, <3>1 DEF Persist
    <3>3. /\ clearer'[c].text = <<t>> /\ SortedAll(t, clock)
          /\ \A x \in Clearers \ {c} : clearer'[x] = clearer[x]
      BY <3>1, <3>2 DEF TypeInv, ClearerOK, Fields, RateInv
    <3> QED BY <1>1, <3>2, <3>3 DEF TextsSorted, RateInv
  <2>2. CASE ~Persist(c)
    <3>1. \A x \in Clearers : clearer'[x].pc \in Persisting =>
               clearer[x].pc \in Persisting /\ clearer'[x].text = clearer[x].text
      <4>1. CASE ClearRead(c) \/ PersistRename(c)
        <5>1. PICK w : clearer' = [clearer EXCEPT ![c] = w] /\ w.pc \in {"read", "idle"}
          <6>1. Idle.pc = "idle"
            BY DEF Idle
          <6>2. PICK w : w = [Idle EXCEPT !.pc = "read", !.links = <<Links>>, !.marks = ghost.total]
            OBVIOUS
          <6>3. w.pc = "read"
            BY <6>2 DEF Idle
          <6>4. CASE ClearRead(c)
            BY <6>2, <6>3, <6>4 DEF ClearRead
          <6>5. CASE PersistRename(c)
            BY <6>1, <6>5 DEF PersistRename
          <6> QED BY <4>1, <6>4, <6>5
        <5> QED BY <5>1 DEF TypeInv, ClearerOK, Persisting
      <4>2. CASE ClearApply(c)
        BY <4>2 DEF ClearApply, TypeInv, ClearerOK, Fields, Persisting
      <4>3. CASE PersistOpen(c)
        <5>1. PICK k : k = Opened.inode
          OBVIOUS
        <5>2. clearer[c].pc = "open" /\ clearer' = [clearer EXCEPT ![c].pc = "write", ![c].fd = k]
          BY <4>3, <5>1 DEF PersistOpen
        <5> QED BY <5>2 DEF TypeInv, ClearerOK, Fields, Persisting
      <4>4. CASE PersistWrite(c)
        <5>1. clearer[c].pc = "write" /\ clearer' = [clearer EXCEPT ![c].pc = "rename"]
          BY <4>4 DEF PersistWrite
        <5> QED BY <5>1 DEF TypeInv, ClearerOK, Fields, Persisting
      <4> QED BY <2>2, <4>1, <4>2, <4>3, <4>4
    <3> QED BY <1>1, <3>1, TextsLater
  <2> QED BY <2>1, <2>2
<1>6. FilesSorted'
  <2>1. CASE PersistOpen(c)
    BY <1>1, <2>1, FilesOpened, FilesLater DEF PersistOpen
  <2>2. CASE PersistWrite(c)
    <3>1. IsTracker(clearer[c].text[1]) /\ SortedAll(clearer[c].text[1], clock)
      BY <2>2 DEF PersistWrite, TypeInv, ClearerOK, RateInv, TextsSorted, Persisting
    <3> QED BY <1>1, <2>2, <3>1, FilesWritten, FilesLater DEF PersistWrite
  <2>3. CASE ClearRead(c) \/ ClearApply(c) \/ Persist(c) \/ PersistRename(c)
    <3>1. files'.data = files.data
      BY <2>3 DEF ClearRead, ClearApply, Persist, PersistRename, Renamed, TypeInv, FilesOK
    <3> QED BY <1>1, <3>1, FilesLater
  <2> QED BY <2>1, <2>2, <2>3
<1> QED BY <1>4, <1>5, <1>6 DEF RateInv

LEMMA RateSample == ASSUME TypeInv, RateInv, SamplerApply PROVE RateInv'
<1>1. clock \in Nat /\ UNCHANGED <<clock, clearer, files>>
  BY DEF SamplerApply, TypeInv, ClockOK
<1>2. TextsSorted' /\ FilesSorted'
  BY <1>1, TextsLater, FilesLater DEF TypeInv, FilesOK
<1>3. CASE sampler.links = <<>>
  <2>1. tracker' = tracker /\ ghost' = ghost
    BY <1>3 DEF SamplerApply
  <2> QED BY <1>1, <1>2, <2>1, SamplesLater DEF RateInv
<1>4. CASE sampler.links # <<>>
  <2>1. PICK d : d = sampler.links[1] /\ IsDump(d)
    BY <1>4 DEF TypeInv, SamplerOK
  <2>2. tracker' = Sample(tracker, d, clock)
    BY <1>4, <2>1 DEF SamplerApply
  <2>3. \A n \in Ifs : ghost'.taken[n] = IF n \in DOMAIN d \cap Counted THEN ghost.taken[n] \cup {clock} ELSE {}
    <3>1. PICK crossed, taken :
            /\ crossed = [n \in Ifs |-> ghost.crossed[n] \/ (n \in DOMAIN d /\ Overlaps(n))]
            /\ taken = [n \in Ifs |-> IF n \in DOMAIN d \cap Counted THEN ghost.taken[n] \cup {clock} ELSE {}]
      OBVIOUS
    <3>2. ghost' = [ghost EXCEPT !.crossed = crossed, !.taken = taken]
      BY <1>4, <2>1, <3>1 DEF SamplerApply
    <3>3. ghost'.taken = taken
      BY <3>2 DEF TypeInv, GhostOK, Ghosts
    <3> QED BY <3>1, <3>3
  <2>4. ASSUME NEW n \in Ifs
        PROVE  Sorted(SamplesOf(tracker', n), clock) /\ Agree(SamplesOf(tracker', n), ghost'.taken[n])
    <3>1. PICK s \in Seq(Readings), T \in SUBSET Nat : s = SamplesOf(tracker, n) /\ T = ghost.taken[n]
      BY SamplesTyped DEF TypeInv, TrackerOK, GhostOK, Ghosts
    <3>2. Sorted(s, clock) /\ Agree(s, T)
      BY <3>1 DEF RateInv, SortedAll, TakenKept
    <3>3. CASE n \in DOMAIN d \cap Counted
      <4>1. d[n].name = n /\ d[n].stats \in Seq(Nat) /\ d[n].stats # <<>>
        BY <2>1, <3>3 DEF IsDump
      <4>2. PICK v \in Readings : v = [at |-> clock, octets |-> d[n].stats[1]] /\ v.at = clock
        <5>1. d[n].stats[1] \in Nat
          BY <4>1
        <5>2. [at |-> clock, octets |-> d[n].stats[1]] \in Readings
          BY <1>1, <5>1 DEF Readings
        <5> QED BY <5>2
      <4>3. SamplesOf(tracker', n) = Trimmed(Append(s, v), clock)
        BY <2>2, <3>1, <3>3, <4>1, <4>2 DEF Sample, Pushed, SamplesOf
      <4>4. Sorted(Trimmed(Append(s, v), clock), clock) /\ Agree(Trimmed(Append(s, v), clock), T \cup {clock})
        BY <1>1, <3>2, <4>2, TakenAgrees
      <4>5. ghost'.taken[n] = T \cup {clock}
        BY <2>3, <3>1, <3>3
      <4> QED BY <4>3, <4>4, <4>5, Zenon
    <3>4. CASE n \notin DOMAIN d \cap Counted
      <4>1. n \notin DOMAIN tracker'.samples
        BY <2>1, <2>2, <3>4 DEF Sample, IsDump, TypeInv, TrackerOK, IsTracker
      <4>2. SamplesOf(tracker', n) = <<>> /\ ghost'.taken[n] = {}
        BY <2>3, <3>4, <4>1, Zenon DEF SamplesOf
      <4>3. Sorted(<<>>, clock) /\ Agree(<<>>, {})
        BY DEF Sorted, Agree
      <4> QED BY <4>2, <4>3, Zenon
    <3> QED BY <3>3, <3>4
  <2> QED BY <1>1, <1>2, <2>4 DEF RateInv, SortedAll, TakenKept
<1> QED BY <1>3, <1>4

LEMMA RateRestart == ASSUME TypeInv, RateInv, Restart PROVE RateInv'
<1>1. clock \in Nat /\ UNCHANGED <<clock, files>> /\ clearer' = [c \in Clearers |-> Idle]
  BY DEF Restart, TypeInv, ClockOK
<1>2. TextsSorted'
  BY <1>1 DEF TextsSorted, Persisting, Idle
<1>3. FilesSorted'
  BY <1>1, FilesLater DEF TypeInv, FilesOK
<1>4. IsTracker(Load) /\ tracker' = Load
  BY LoadTyped DEF TypeInv, Restart
<1>5. SortedAll(Load, clock)
  <2>1. CASE files.file # NoFile /\ files.data[files.file][1] = "whole"
    BY <2>1 DEF Load, TypeInv, FilesOK, RateInv, FilesSorted
  <2>2. SortedAll(Empty, clock)
    BY DEF SortedAll, Sorted, SamplesOf, Empty
  <2> QED BY <2>1, <2>2 DEF Load
<1>6. ASSUME NEW n \in Ifs PROVE Agree(SamplesOf(Load, n), ghost'.taken[n])
  <2>1. PICK s \in Seq(Readings) : s = SamplesOf(Load, n)
    BY <1>4, SamplesTyped
  <2>2. ghost'.taken[n] = {s[i].at : i \in 1..Len(s)}
    <3>1. ghost'.taken[n] = IF n \in DOMAIN Load.samples
                            THEN {Load.samples[n][i].at : i \in 1..Len(Load.samples[n])} ELSE {}
      <4>1. PICK k, moves, crossed, reset, base, taken :
              /\ ghost' = [ghost EXCEPT !.restarts = k, !.moves = moves, !.crossed = crossed, !.reset = reset,
                                       !.base = base, !.taken = taken]
              /\ taken = [m \in Ifs |-> IF m \in DOMAIN Load.samples
                                        THEN {Load.samples[m][i].at : i \in 1..Len(Load.samples[m])} ELSE {}]
        BY Zenon DEF Restart
      <4>2. ghost'.taken = taken
        BY <4>1 DEF TypeInv, GhostOK, Ghosts
      <4> QED BY <4>1, <4>2
    <3>2. CASE n \in DOMAIN Load.samples
      BY <2>1, <3>1, <3>2 DEF SamplesOf
    <3>3. CASE n \notin DOMAIN Load.samples
      BY <2>1, <3>1, <3>3 DEF SamplesOf
    <3> QED BY <3>2, <3>3
  <2>3. Sorted(s, clock)
    BY <1>5, <2>1 DEF SortedAll
  <2>4. \A i \in 1..Len(s) : s[i].at <= s[Len(s)].at
    BY <2>3 DEF Sorted
  <2> QED BY <2>1, <2>2, <2>4 DEF Agree
<1> QED BY <1>1, <1>2, <1>3, <1>4, <1>5, <1>6 DEF RateInv, SortedAll, TakenKept

LEMMA RateOthers ==
    ASSUME TypeInv, RateInv,
           \/ UNCHANGED vars \/ Overrun \/ Watch \/ Reopen \/ SamplerRead \/ SamplerReadFails
           \/ \E n \in Ifs : (\E o \in Opers \cup {"gone"} : Move(n, o)) \/ (n \in Counted /\ Count(n)) \/ DriverReload(n)
    PROVE  RateInv'
<1>1. UNCHANGED <<clock, clearer, files>>
  BY DEF vars, Overrun, Watch, Reopen, SamplerRead, SamplerReadFails, Move, Count, DriverReload
<1>2. clock' \in Nat /\ clock <= clock'
  BY <1>1 DEF TypeInv, ClockOK
<1>3. tracker'.samples = tracker.samples
  BY DEF vars, Overrun, Watch, Reopen, SamplerRead, SamplerReadFails, Move, Count, DriverReload,
         NoteEvent, TypeInv, TrackerOK, IsTracker
<1>4. ghost'.taken = ghost.taken
  BY DEF vars, Overrun, Watch, Reopen, SamplerRead, SamplerReadFails, Move, Count, DriverReload,
         TypeInv, GhostOK, Ghosts
<1>5. TextsSorted' /\ FilesSorted'
  BY <1>1, <1>2, TextsLater, FilesLater DEF TypeInv, FilesOK
<1> QED BY <1>2, <1>3, <1>4, <1>5, SamplesLater DEF RateInv

LEMMA RateStep == ASSUME "clock" \notin Faults, TypeInv, RateInv, [Next]_vars PROVE RateInv'
<1>1. ~SetBack
  BY DEF SetBack
<1> QED BY <1>1, RateSampler, RateClearer, RateSample, RateRestart, RateOthers DEF Next

\* An element of a set of times that is at least, or at most, every other.
LEMMA MaxOf ==
    ASSUME NEW T \in SUBSET Nat, NEW x \in T, \A y \in T : y <= x
    PROVE  Max(T) = x
<1>1. \A z \in T : z \in Nat
  OBVIOUS
<1>2. \E z \in T : \A y \in T : z >= y
  BY <1>1
<1>3. Max(T) \in T /\ \A y \in T : Max(T) >= y
  BY <1>2 DEF Max
<1>4. Max(T) \in Nat /\ x \in Nat /\ Max(T) >= x /\ Max(T) <= x
  BY <1>1, <1>3
<1> QED BY <1>4

LEMMA MinOf ==
    ASSUME NEW T \in SUBSET Nat, NEW x \in T, \A y \in T : x <= y
    PROVE  Min(T) = x
<1>1. Min(T) \in T /\ \A y \in T : Min(T) <= y
  BY MinIs
<1>2. Min(T) \in Nat /\ x \in Nat
  BY <1>1
<1> QED BY <1>1, <1>2

\* There are two of a bounded set of times when there are two.
LEMMA TwoOf ==
    ASSUME NEW T \in SUBSET Nat, NEW x \in T, \A y \in T : y <= x
    PROVE  Cardinality(T) < 2 <=> T = {x}
<1>1. IsFiniteSet(0..x) /\ T \subseteq 0..x
  BY FS_Interval
<1>2. IsFiniteSet(T) /\ Cardinality(T) \in Nat
  BY <1>1, FS_Subset, FS_CardinalityType
<1>3. CASE T = {x}
  BY <1>3, FS_Singleton
<1>4. CASE T # {x}
  <2>1. PICK y \in T : y # x
    BY <1>4
  <2>2. IsFiniteSet({x}) /\ Cardinality({x}) = 1
    BY FS_Singleton
  <2>3. Cardinality({x} \cup {y}) = 2
    BY <2>1, <2>2, FS_AddElement
  <2>4. Cardinality({x} \cup {y}) <= Cardinality(T)
    BY <1>2, <2>1, FS_Subset
  <2> QED BY <1>2, <1>4, <2>3, <2>4
<1> QED BY <1>3, <1>4

\* Rates over a tracker whose samples are those of T.
LEMMA RatesAre ==
    ASSUME NEW t, IsTracker(t), NEW n, NEW T \in SUBSET Nat, NEW now,
           NEW interval \in 1..History,
           Sorted(SamplesOf(t, n), now), Agree(SamplesOf(t, n), T)
    PROVE  LET r == Rates(t, n, interval)
               newest == IF T = {} THEN 0 ELSE Max(T)
               inside == {x \in T : x >= SaturatingSub(newest, interval)}
           IN  IF Cardinality(inside) < 2 THEN r = <<>>
               ELSE r # <<>> /\ r[1].from.at = Min(inside) /\ r[1].to.at = newest
<1> DEFINE newest == IF T = {} THEN 0 ELSE Max(T)
           inside == {x \in T : x >= SaturatingSub(newest, interval)}
<1>1. PICK s \in Seq(Readings) : s = SamplesOf(t, n) /\ Sorted(s, now) /\ Agree(s, T)
  BY SamplesTyped
<1>2. CASE s = <<>>
  <2>1. T = {} /\ Rates(t, n, interval) = <<>>
    BY <1>1, <1>2 DEF Agree, Rates, SamplesOf
  <2>2. inside = {} /\ Cardinality({}) = 0
    BY <2>1, FS_EmptySet
  <2> QED BY <2>1, <2>2
<1>3. CASE s # <<>>
  <2>1. n \in DOMAIN t.samples /\ t.samples[n] = s /\ Len(s) \in 1..Len(s)
    BY <1>1, <1>3 DEF SamplesOf
  <2>2. PICK l \in Nat : l = s[Len(s)].at
    BY <2>1, TimesTyped
  <2>3. l \in T /\ \A x \in T : x <= l
    BY <1>1, <1>3, <2>1, <2>2 DEF Agree
  <2>4. newest = l
    BY <2>3, MaxOf
  <2>5. PICK cutoff \in Nat : cutoff = SaturatingSub(l, interval) /\ cutoff <= l /\ l <= cutoff + History
    <3>1. SaturatingSub(l, interval) \in Nat /\ SaturatingSub(l, interval) <= l
          /\ l <= SaturatingSub(l, interval) + History
      BY HistoryAssumption DEF SaturatingSub
    <3> QED BY <3>1
  <2> DEFINE late == {i \in 1..Len(s) : s[i].at >= cutoff}
  <2>6. late \in SUBSET Nat /\ late # {} /\ Len(s) \in late
    BY <2>1, <2>2, <2>5
  <2>7. PICK m \in late : m = Min(late) /\ \A i \in late : m <= i
    BY <2>6, MinIs
  <2>8. m \in 1..Len(s) /\ s[m].at \in Nat /\ s[m].at >= cutoff /\ s[m].at <= l
    <3>1. m \in 1..Len(s) /\ s[m].at >= cutoff /\ m <= Len(s)
      BY <2>7
    <3> QED BY <1>1, <2>1, <2>2, <3>1, TimesTyped DEF Sorted
  <2>9. inside = {x \in T : x >= cutoff}
    BY <2>4, <2>5
  <2>10. s[m].at \in inside
    BY <1>1, <2>8, <2>9 DEF Agree
  <2>11. ASSUME NEW x \in inside PROVE s[m].at <= x
    <3>1. x \in T /\ x >= cutoff /\ x \in Nat /\ l <= x + History
      <4>1. x \in T /\ x >= cutoff
        BY <2>9
      <4>2. x \in Nat
        BY <4>1
      <4> QED BY <2>5, <4>1, <4>2, HistoryAssumption
    <3>2. PICK i \in 1..Len(s) : s[i].at = x
      BY <1>1, <1>3, <2>2, <3>1 DEF Agree
    <3>3. m <= i
      BY <2>7, <3>1, <3>2
    <3> QED BY <1>1, <2>8, <3>2, <3>3 DEF Sorted
  <2>12. inside \in SUBSET Nat /\ l \in inside /\ \A x \in inside : x <= l
    BY <2>3, <2>5, <2>9
  <2> HIDE DEF inside, newest
  <2>13. Min(inside) = s[m].at
    BY <2>10, <2>11, <2>12, MinOf
  <2>14. Cardinality(inside) < 2 <=> s[m].at = l
    <3>1. Cardinality(inside) < 2 <=> inside = {l}
      BY <2>12, TwoOf
    <3>2. inside = {l} <=> s[m].at = l
      <4>1. \A x \in inside : x \in Nat /\ s[m].at <= x /\ x <= l
        BY <2>11, <2>12
      <4> QED BY <2>8, <2>10, <2>12, <4>1
    <3> QED BY <3>1, <3>2
  <2>15. PICK old, new : old = s[m] /\ new = s[Len(s)]
    OBVIOUS
  <2>16. Rates(t, n, interval) = IF SaturatingSub(l, old.at) = 0 THEN <<>>
             ELSE <<[from |-> old, to |-> new, octets |-> SaturatingSub(new.octets, old.octets)]>>
    <3>1. Last(s) = new
      BY <2>15 DEF Last
    <3> QED BY <1>3, <2>1, <2>2, <2>5, <2>6, <2>7, <2>15, <3>1 DEF Rates
  <2>17. SaturatingSub(l, old.at) = 0 <=> s[m].at = l
    BY <2>8, <2>15 DEF SaturatingSub
  <2>18. CASE s[m].at = l
    BY <2>14, <2>16, <2>17, <2>18 DEF inside, newest
  <2>19. CASE s[m].at # l
    <3>1. PICK q : q = [from |-> old, to |-> new, octets |-> SaturatingSub(new.octets, old.octets)]
      OBVIOUS
    <3>2. Rates(t, n, interval) = <<q>> /\ q.from = old /\ q.to = new
      BY <2>16, <2>17, <2>19, <3>1
    <3>3. <<q>> # <<>> /\ <<q>>[1] = q
      OBVIOUS
    <3>4. q.from.at = Min(inside) /\ q.to.at = newest
      BY <2>2, <2>4, <2>13, <2>15, <3>2
    <3> QED BY <2>14, <2>19, <3>2, <3>3, <3>4 DEF inside, newest
  <2> QED BY <2>18, <2>19
<1> QED BY <1>2, <1>3

\* A rate is measured from the earliest sample taken inside the interval asked for to the
\* newest one: what Tracker::sample trims is never part of a window an operator can ask
\* for (tracker.rs rates), through restarts and interfaces that come and go, as long as the
\* wall clock the samples are stamped with is not set back.
THEOREM RatesSpanTheInterval == ASSUME "clock" \notin Faults PROVE Spec => []RateSpansTheInterval
<1>1. ASSUME Init PROVE RateInv
  <2>1. SortedAll(tracker, clock) /\ TakenKept
    BY <1>1 DEF Init, Empty, Ghost0, SortedAll, SamplesOf, Sorted, TakenKept, Agree
  <2>2. TextsSorted /\ FilesSorted
    BY <1>1 DEF Init, Idle, TextsSorted, Persisting, FilesSorted
  <2> QED BY <2>1, <2>2 DEF RateInv
<1>2. ASSUME TypeInv, RateInv PROVE RateSpansTheInterval
  <2>1. ASSUME NEW n \in Ifs PROVE ghost.taken[n] \in SUBSET Nat
    BY <1>2 DEF TypeInv, GhostOK, Ghosts
  <2>2. IsTracker(tracker)
    BY <1>2 DEF TypeInv, TrackerOK
  <2>3. ASSUME NEW n \in Ifs
        PROVE  Sorted(SamplesOf(tracker, n), clock) /\ Agree(SamplesOf(tracker, n), ghost.taken[n])
    BY <1>2 DEF RateInv, SortedAll, TakenKept
  <2>4. ASSUME NEW n \in Ifs, NEW interval \in 1..History
        PROVE  LET r == Rates(tracker, n, interval)
                   newest == IF ghost.taken[n] = {} THEN 0 ELSE Max(ghost.taken[n])
                   inside == {t \in ghost.taken[n] : t >= SaturatingSub(newest, interval)}
               IN  IF Cardinality(inside) < 2 THEN r = <<>>
                   ELSE r # <<>> /\ r[1].from.at = Min(inside) /\ r[1].to.at = newest
    <3>1. PICK T \in SUBSET Nat : T = ghost.taken[n]
      BY <2>1
    <3>2. Sorted(SamplesOf(tracker, n), clock) /\ Agree(SamplesOf(tracker, n), T)
      BY <2>3, <3>1, Zenon
    <3>3. LET r == Rates(tracker, n, interval)
              newest == IF T = {} THEN 0 ELSE Max(T)
              inside == {x \in T : x >= SaturatingSub(newest, interval)}
          IN  IF Cardinality(inside) < 2 THEN r = <<>>
              ELSE r # <<>> /\ r[1].from.at = Min(inside) /\ r[1].to.at = newest
      BY <2>2, <3>2, RatesAre
    <3> QED BY <3>1, <3>3, Zenon
  <2> QED BY <2>4 DEF RateSpansTheInterval
<1> QED BY <1>1, <1>2, InitTyped, TypeStep, RateStep, PTL DEF Spec
====
