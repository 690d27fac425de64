---- MODULE Tracker ----
(***************************************************************************)
(* What the daemon remembers of its interfaces between two looks at the    *)
(* kernel (nightshade-ifprobe/src/tracker.rs), as operators on a tracker.  *)
(*                                                                         *)
(* A tracker is [samples, history]: samples maps a name to its readings,   *)
(* oldest first; history maps a name to what has happened to the link.  A  *)
(* link is what one netlink message says: [name, oper, stats], stats being *)
(* none or one counter, which stands for all of them: every field of       *)
(* Stats, Sample and Baseline is treated alike.  A dump of the kernel's    *)
(* links maps the name of each to it: the kernel lists a device once, and  *)
(* what the tracker makes of one link says nothing of another's.  Optional *)
(* values are sequences of length 0 or 1.  Times are in sample intervals.  *)
(***************************************************************************)
EXTENDS Integers, Sequences, SequencesExt, FiniteSetsExt

CONSTANT History        \* HISTORY: how far back samples are kept

ASSUME HistoryAssumption == History \in Nat \ {0}

SaturatingSub(a, b) == IF a > b THEN a - b ELSE 0

Empty == [samples |-> <<>>, history |-> <<>>]

\* BTreeMap::entry(name).or_default() of the history map, and what one field of it is.
Fresh == [changes |-> 0, since |-> <<>>, oper |-> "unknown", cleared |-> <<>>, baseline |-> <<>>]

Entry(t, n) == IF n \in DOMAIN t.history THEN t.history[n] ELSE Fresh

Put(f, n, v) == [m \in DOMAIN f \cup {n} |-> IF m = n THEN v ELSE f[m]]

\* Wrong variant of Trimmed: a sample exactly HISTORY old goes too.
TrimmedEarly(s, now) ==
    LET late == {i \in 1..Len(s) : SaturatingSub(now, s[i].at) < History}
    IN  IF late = {} THEN <<>> ELSE SubSeq(s, Min(late), Len(s))

\* Those further back than HISTORY are dropped from the front.
Trimmed(s, now) ==
    LET late == {i \in 1..Len(s) : SaturatingSub(now, s[i].at) <= History}
    IN  IF late = {} THEN <<>> ELSE SubSeq(s, Min(late), Len(s))

\* The samples of a link after one reading at now, pushed at the back.
Pushed(t, link, now) ==
    LET old == IF link.name \in DOMAIN t.samples THEN t.samples[link.name] ELSE <<>>
    IN  IF link.stats = <<>> THEN old
        ELSE Trimmed(Append(old, [at |-> now, octets |-> link.stats[1]]), now)

\* Wrong variant of SampleLink: the state is left to the events once a link is known.
SampleLinkOnce(t, link, now) ==
    LET h == Entry(t, link.name)
    IN  IF h.since = <<>> THEN [h EXCEPT !.since = <<now>>, !.oper = link.oper] ELSE h

\* The history of one link of a dump: a device seen for the first time has changed state
\* no times.
SampleLink(t, link, now) ==
    LET h == Entry(t, link.name)
    IN  IF h.since = <<>> THEN [h EXCEPT !.since = <<now>>, !.oper = link.oper]
        ELSE IF h.oper # link.oper
             THEN [h EXCEPT !.oper = link.oper, !.changes = @ + 1, !.since = <<now>>]
             ELSE h

\* Tracker::sample: every link of the dump; only the samples of interfaces that are
\* still there are kept, and every history.
Sample(t, links, now) ==
    [samples |-> [n \in {m \in DOMAIN links : m \in DOMAIN t.samples \/ links[m].stats # <<>>} |->
                     Pushed(t, links[n], now)],
     history |-> [n \in DOMAIN t.history \cup DOMAIN links |->
                     IF n \in DOMAIN links THEN SampleLink(t, links[n], now) ELSE t.history[n]]]

\* Wrong variant of NoteEvent: only a count, the state left to the next dump.
NoteEventCountOnly(t, link, now) ==
    LET h == Entry(t, link.name)
    IN  [t EXCEPT !.history = Put(@, link.name,
            [h EXCEPT !.changes = IF h.since # <<>> /\ h.oper # link.oper THEN @ + 1 ELSE @,
                      !.since = IF @ = <<>> THEN <<now>> ELSE @])]

\* Tracker::note_event.
NoteEvent(t, link, now) ==
    LET h == Entry(t, link.name)
        moved == h.since # <<>> /\ h.oper # link.oper
    IN  [t EXCEPT !.history = Put(@, link.name,
            [h EXCEPT !.changes = IF moved THEN @ + 1 ELSE @,
                      !.oper = link.oper,
                      !.since = IF moved \/ @ = <<>> THEN <<now>> ELSE @])]

\* Wrong variant of Clear: a baseline once there is kept.
ClearOnce(t, hit, links, now) ==
    [t EXCEPT !.history = [n \in DOMAIN @ \cup hit |->
        IF n \in hit
        THEN [Entry(t, n) EXCEPT !.baseline = IF @ = <<>> THEN links[n].stats ELSE @,
                                 !.cleared = <<now>>, !.changes = 0]
        ELSE @[n]]]

\* Tracker::clear of each name in hit: its baseline is what the kernel had counted when
\* the dump was read.
Clear(t, hit, links, now) ==
    [t EXCEPT !.history = [n \in DOMAIN @ \cup hit |->
        IF n \in hit
        THEN [Entry(t, n) EXCEPT !.baseline = links[n].stats, !.cleared = <<now>>, !.changes = 0]
        ELSE @[n]]]

\* Baseline::applied: what is reported of a kernel counter.
Applied(t, n, count) ==
    IF Entry(t, n).baseline = <<>> THEN count
    ELSE SaturatingSub(count, Entry(t, n).baseline[1])

\* Tracker::rates: the newest sample and the one the rate is measured from, or none
\* when there is no time between them.  What follows in the code is division.
Rates(t, n, interval) ==
    IF n \notin DOMAIN t.samples \/ t.samples[n] = <<>> THEN <<>>
    ELSE LET s == t.samples[n]
             newest == Last(s)
             cutoff == SaturatingSub(newest.at, interval)
             inside == {i \in 1..Len(s) : s[i].at >= cutoff}
             oldest == IF inside = {} THEN s[1] ELSE s[Min(inside)]
         IN  IF SaturatingSub(newest.at, oldest.at) = 0 THEN <<>>
             ELSE <<[from |-> oldest, to |-> newest,
                     octets |-> SaturatingSub(newest.octets, oldest.octets)]>>

\* Tracker::since: how long the link has been in its state, none when it was never seen.
Since(t, n, now) ==
    IF Entry(t, n).since = <<>> THEN <<>> ELSE <<SaturatingSub(now, Entry(t, n).since[1])>>
====
