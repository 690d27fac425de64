---- MODULE PamWalkProofs ----
(***************************************************************************)
(* What PamWalk promises of every directory of PAM files, however they     *)
(* include each other: no file is open twice, and when the walk is over    *)
(* its verdict is what a login would meet.                                 *)
(***************************************************************************)
EXTENDS PamWalk, SequenceTheorems, FiniteSetTheorems, TLAPS

Frames == [file : Files, rest : Seq(FileLines)]

TypeInv ==
    /\ tree \in Trees /\ entries \in Seq(Files) /\ stack \in Seq(Frames)
    /\ seen \subseteq Files

(***************************************************************************)
(* The inductive invariant                                                 *)
(***************************************************************************)

\* A file being read is there, is read once, and what is left of it is of it.
Reading(frames) ==
    /\ \A i \in DOMAIN frames :
         /\ frames[i].file \in seen /\ tree[frames[i].file] # Absent
         /\ ToSet(frames[i].rest) \subseteq LinesOf(frames[i].file)
    /\ \A i, j \in DOMAIN frames : frames[i].file = frames[j].file => i = j

\* Line l of file f has not been read.
Unread(frames, f, l) == \E i \in DOMAIN frames : frames[i].file = f /\ l \in ToSet(frames[i].rest)

\* A line that the walk reports.
Missing(l) == ~IsInclude(l) /\ BlocksLogin(l) /\ l.module \notin installed

\* A line that has been read has had its effect.
Handled(f, l) ==
    /\ IsInclude(l) => l.include \in seen
    /\ Missing(l) => <<l.module, f>> \in missingModules

\* Nothing is passed over: entries wait or have been walked, a file that was walked was
\* not there or has its lines read or waiting.
Complete ==
    /\ ToSet(Entries) \subseteq seen \cup ToSet(entries)
    /\ \A f \in seen : tree[f] = Absent => f \in missingFiles
    /\ \A f \in seen : \A l \in LinesOf(f) : Handled(f, l) \/ Unread(stack, f, l)

\* Nothing is made up: what was walked a login reads, and what is reported is so.
Sound ==
    /\ ToSet(entries) \subseteq ToSet(Entries)
    /\ seen \subseteq Reached
    /\ \A f \in missingFiles : f \in seen /\ tree[f] = Absent
    /\ \A p \in missingModules : \E f \in seen : \E l \in LinesOf(f) :
           Missing(l) /\ p = <<l.module, f>>

Inv == TypeInv /\ Reading(stack) /\ Complete /\ Sound

-----------------------------------------------------------------------------
(* Sequences *)

LEMMA ShortOf ==
    ASSUME NEW S, NEW s \in Seq(S), s # <<>>
    PROVE  /\ Head(s) \in S /\ Tail(s) \in Seq(S)
           /\ ToSet(s) = {Head(s)} \cup ToSet(Tail(s))
<1>1. Head(s) = s[1] /\ Tail(s) \in Seq(S) /\ Len(s) \in Nat /\ Len(s) >= 1
      /\ Len(Tail(s)) = Len(s) - 1 /\ s[1] \in S
  OBVIOUS
<1>2. \A i \in 1..(Len(s) - 1) : Tail(s)[i] = s[i + 1]
  OBVIOUS
<1>3. DOMAIN s = 1..Len(s) /\ DOMAIN Tail(s) = 1..(Len(s) - 1)
  BY <1>1
<1>4. ASSUME NEW i \in 1..Len(s) PROVE i = 1 \/ (i - 1 \in 1..(Len(s) - 1) /\ s[i] = Tail(s)[i - 1])
  BY <1>1, <1>2
<1>5. ASSUME NEW i \in 1..(Len(s) - 1) PROVE i + 1 \in 1..Len(s) /\ Tail(s)[i] = s[i + 1]
  BY <1>1, <1>2
<1>6. 1 \in 1..Len(s)
  BY <1>1
<1>7. ASSUME NEW x \in ToSet(s) PROVE x \in {Head(s)} \cup ToSet(Tail(s))
  <2>1. PICK i \in 1..Len(s) : x = s[i]
    BY <1>3, <1>7 DEF ToSet
  <2> QED BY <1>1, <1>3, <1>4, <2>1 DEF ToSet
<1>8. ASSUME NEW x \in ToSet(Tail(s)) PROVE x \in ToSet(s)
  <2>1. PICK i \in 1..(Len(s) - 1) : x = Tail(s)[i]
    BY <1>3, <1>8 DEF ToSet
  <2> QED BY <1>3, <1>5, <2>1 DEF ToSet
<1>9. Head(s) \in ToSet(s)
  BY <1>1, <1>3, <1>6 DEF ToSet
<1> QED BY <1>1, <1>7, <1>8, <1>9

LEMMA EmptyToSet == ToSet(<<>>) = {}
  BY DEF ToSet

\* The stack without its last frame, and with another on top.
LEMMA Stacked ==
    ASSUME stack \in Seq(Frames), stack # <<>>
    PROVE  /\ Top \in Frames /\ Len(stack) \in DOMAIN stack /\ Top = stack[Len(stack)]
           /\ Front(stack) \in Seq(Frames) /\ Len(Front(stack)) = Len(stack) - 1
           /\ Len(stack) \in Nat /\ Len(stack) >= 1 /\ DOMAIN stack = 1..Len(stack)
           /\ DOMAIN Front(stack) = 1..(Len(stack) - 1)
           /\ \A i \in 1..(Len(stack) - 1) : Front(stack)[i] = stack[i]
<1>1. Len(stack) \in Nat /\ Len(stack) >= 1 /\ DOMAIN stack = 1..Len(stack)
  OBVIOUS
<1>2. Top = stack[Len(stack)] /\ Len(stack) \in DOMAIN stack /\ Top \in Frames
  BY <1>1 DEF Top, Last
<1>3. Front(stack) = SubSeq(stack, 1, Len(stack) - 1)
  BY DEF Front
<1>4. /\ SubSeq(stack, 1, Len(stack) - 1) \in Seq(Frames)
      /\ Len(SubSeq(stack, 1, Len(stack) - 1)) = Len(stack) - 1
      /\ \A i \in 1..(Len(stack) - 1) : SubSeq(stack, 1, Len(stack) - 1)[i] = stack[i]
  BY <1>1
<1>5. DOMAIN Front(stack) = 1..(Len(stack) - 1)
  BY <1>3, <1>4
<1> QED BY <1>1, <1>2, <1>3, <1>4, <1>5

\* A line is taken off the file being read.
LEMMA AdvancedIs ==
    ASSUME stack \in Seq(Frames), Reading(stack), stack # <<>>, Top.rest # <<>>
    PROVE  /\ Advanced \in Seq(Frames) /\ Reading(Advanced)
           /\ Head(Top.rest) \in LinesOf(Top.file) /\ Head(Top.rest) \in FileLines
           /\ Top.file \in seen
           /\ \A f, l : Unread(stack, f, l) =>
                  Unread(Advanced, f, l) \/ (f = Top.file /\ l = Head(Top.rest))
<1> DEFINE n == Len(stack)
           top == [Top EXCEPT !.rest = Tail(@)]
           A == Append(Front(stack), top)
<1>1. /\ Top \in Frames /\ n \in DOMAIN stack /\ Top = stack[n]
      /\ Front(stack) \in Seq(Frames) /\ Len(Front(stack)) = n - 1
      /\ n \in Nat /\ n >= 1 /\ DOMAIN stack = 1..n
      /\ \A i \in 1..(n - 1) : Front(stack)[i] = stack[i]
  BY Stacked
<1>2. /\ Head(Top.rest) \in FileLines /\ Tail(Top.rest) \in Seq(FileLines)
      /\ ToSet(Top.rest) = {Head(Top.rest)} \cup ToSet(Tail(Top.rest))
  BY <1>1, ShortOf DEF Frames
<1>3. top \in Frames /\ top.file = Top.file /\ top.rest = Tail(Top.rest)
  BY <1>1, <1>2 DEF Frames
<1> HIDE DEF top
<1>4. /\ A \in Seq(Frames) /\ Len(A) = n /\ DOMAIN A = 1..n /\ A[n] = top
      /\ \A i \in 1..(n - 1) : A[i] = stack[i]
  <2>1. A \in Seq(Frames) /\ Len(A) = (n - 1) + 1 /\ A[(n - 1) + 1] = top
        /\ \A i \in 1..(n - 1) : A[i] = Front(stack)[i]
    BY <1>1, <1>3
  <2>2. (n - 1) + 1 = n
    BY <1>1
  <2> QED BY <1>1, <2>1, <2>2
<1>5. Advanced = A
  BY DEF Advanced, top
<1> HIDE DEF A, n
<1>6. ASSUME NEW i \in 1..n
      PROVE  /\ A[i].file = stack[i].file /\ ToSet(A[i].rest) \subseteq ToSet(stack[i].rest)
             /\ \A l \in ToSet(stack[i].rest) :
                    l \in ToSet(A[i].rest) \/ (stack[i].file = Top.file /\ l = Head(Top.rest))
  <2>1. CASE i = n
    BY <1>1, <1>2, <1>3, <1>4, <2>1
  <2>2. CASE i \in 1..(n - 1)
    BY <1>1, <1>4, <2>2
  <2> QED BY <1>1, <2>1, <2>2
<1>7. Reading(A)
  BY <1>1, <1>4, <1>6 DEF Reading
<1>8. Top.file \in seen /\ Head(Top.rest) \in LinesOf(Top.file)
  BY <1>1, <1>2 DEF Reading
<1>9. ASSUME NEW f, NEW l, Unread(stack, f, l)
      PROVE  Unread(A, f, l) \/ (f = Top.file /\ l = Head(Top.rest))
  BY <1>1, <1>4, <1>6, <1>9 DEF Unread
<1> QED BY <1>2, <1>4, <1>5, <1>7, <1>8, <1>9

\* A file is entered once, and all its lines wait to be read.
LEMMA Walked ==
    ASSUME WellFormed, TypeInv, NEW base \in Seq(Frames), Reading(base),
           NEW f \in Files, WalkPamFile(f, base), tree' = tree
    PROVE  /\ stack' \in Seq(Frames) /\ seen' = seen \cup {f} /\ Reading(stack)'
           /\ \A g, l : Unread(base, g, l) => Unread(stack', g, l)
           /\ f \notin seen => \A l \in LinesOf(f) : Unread(stack', f, l)
           /\ missingFiles' = IF f \notin seen /\ tree[f] = Absent THEN missingFiles \cup {f}
                              ELSE missingFiles
<1>1. \A g : LinesOf(g)' = LinesOf(g)
  BY DEF LinesOf
<1>2. CASE f \in seen
  BY <1>1, <1>2 DEF WalkPamFile, Reading
<1>3. CASE f \notin seen /\ tree[f] = Absent
  BY <1>1, <1>3 DEF WalkPamFile, Reading, LinesOf
<1>4. CASE f \notin seen /\ tree[f] # Absent
  <2> DEFINE frame == [file |-> f, rest |-> tree[f][1]]
             n == Len(base)
             S == Append(base, frame)
  <2>1. tree[f][1] \in Seq(FileLines)
    BY <1>4 DEF WellFormed, TypeInv
  <2>2. frame \in Frames /\ frame.file = f /\ frame.rest = tree[f][1]
    BY <2>1 DEF Frames
  <2>3. stack' = S /\ seen' = seen \cup {f} /\ missingFiles' = missingFiles
    BY <1>4 DEF WalkPamFile
  <2> HIDE DEF frame
  <2>4. /\ S \in Seq(Frames) /\ DOMAIN S = 1..(n + 1) /\ S[n + 1] = frame
        /\ n \in Nat /\ DOMAIN base = 1..n /\ \A i \in 1..n : S[i] = base[i]
    BY <2>2
  <2>5. LinesOf(f) = ToSet(tree[f][1])
    BY <1>4 DEF LinesOf
  <2> HIDE DEF S, n
  <2>6. Reading(stack)'
    <3>1. ASSUME NEW i \in DOMAIN S
          PROVE  /\ S[i].file \in seen' /\ tree[S[i].file] # Absent
                 /\ ToSet(S[i].rest) \subseteq LinesOf(S[i].file)
      <4>1. CASE i = n + 1
        BY <1>4, <2>2, <2>3, <2>4, <2>5, <4>1
      <4>2. CASE i \in 1..n
        BY <2>3, <2>4, <4>2 DEF Reading
      <4> QED BY <2>4, <3>1, <4>1, <4>2
    <3>2. ASSUME NEW i \in DOMAIN S, NEW j \in DOMAIN S, S[i].file = S[j].file
          PROVE  i = j
      <4>1. ASSUME NEW k \in 1..n PROVE S[k].file # f
        BY <1>4, <2>4, <4>1 DEF Reading
      <4>2. ASSUME i \in 1..n, j \in 1..n PROVE i = j
        BY <2>4, <3>2, <4>2 DEF Reading
      <4> QED BY <2>2, <2>4, <3>2, <4>1, <4>2
    <3> QED BY <1>1, <2>3, <3>1, <3>2 DEF Reading
  <2>7. ASSUME NEW g, NEW l, Unread(base, g, l) PROVE Unread(S, g, l)
    BY <2>4, <2>7 DEF Unread
  <2>8. ASSUME NEW l \in LinesOf(f) PROVE Unread(S, f, l)
    BY <2>2, <2>4, <2>5, <2>8 DEF Unread
  <2> QED BY <1>4, <2>3, <2>4, <2>6, <2>7, <2>8
<1> QED BY <1>2, <1>3, <1>4

-----------------------------------------------------------------------------
(* The steps *)

LEMMA Reaches ==
    ASSUME WellFormed
    PROVE  /\ ToSet(Entries) \subseteq Reached
           /\ \A f \in Reached : \A l \in LinesOf(f) :
                  IsInclude(l) /\ l.include \in Files => l.include \in Reached
<1>1. ToSet(Entries) \subseteq Files
  BY DEF WellFormed, ToSet
<1>2. ASSUME NEW f \in Reached, NEW l \in LinesOf(f), IsInclude(l), l.include \in Files,
             NEW S \in SUBSET Files, Closed(S)
      PROVE  l.include \in S
  <2>1. f \in S
    BY <1>2 DEF Reached
  <2>2. l.include \in Includes(f)
    BY <1>2 DEF Includes
  <2> QED BY <1>2, <2>1, <2>2 DEF Closed
<1> QED BY <1>1, <1>2 DEF Reached, Closed

\* An include line names a file.
LEMMA IncludeNames == ASSUME NEW l \in FileLines, IsInclude(l) PROVE l.include \in Files
  BY DEF FileLines, Rules, IsInclude

\* What a login reads does not change.
LEMMA SameTree ==
    ASSUME tree' = tree
    PROVE  /\ Reached' = Reached /\ \A f : LinesOf(f)' = LinesOf(f)
           /\ \A S : Closed(S)' <=> Closed(S)
<1>1. \A f : LinesOf(f)' = LinesOf(f)
  BY DEF LinesOf
<1>2. \A f : Includes(f)' = Includes(f)
  BY <1>1 DEF Includes
<1>3. \A S : Closed(S)' <=> Closed(S)
  BY <1>2 DEF Closed
<1> QED BY <1>1, <1>3 DEF Reached

\* Walking on to file f, with base the files to come back to.
LEMMA WalkStep ==
    ASSUME WellFormed, Inv, NEW base \in Seq(Frames), Reading(base),
           NEW f \in Reached, WalkPamFile(f, base), tree' = tree, installed' = installed,
           missingModules' = missingModules, entries' \in Seq(Files),
           ToSet(entries') \subseteq ToSet(entries), ToSet(entries) \subseteq ToSet(entries') \cup {f},
           \A g, l : Unread(stack, g, l) => Unread(base, g, l) \/ (IsInclude(l) /\ l.include = f)
    PROVE  Inv'
<1>1. f \in Files /\ TypeInv /\ Reading(stack) /\ Complete /\ Sound
  BY DEF Reached, Inv
<1>2. /\ stack' \in Seq(Frames) /\ seen' = seen \cup {f} /\ Reading(stack)'
      /\ \A g, l : Unread(base, g, l) => Unread(stack', g, l)
      /\ f \notin seen => \A l \in LinesOf(f) : Unread(stack', f, l)
      /\ missingFiles' = IF f \notin seen /\ tree[f] = Absent THEN missingFiles \cup {f}
                         ELSE missingFiles
  BY <1>1, Walked
<1>3. Reached' = Reached /\ \A g : LinesOf(g)' = LinesOf(g)
  BY SameTree
<1>4. TypeInv'
  BY <1>1, <1>2 DEF TypeInv
<1>5. \A l : Missing(l)' <=> Missing(l)
  BY DEF Missing, BlocksLogin, IsInclude
<1>6. ASSUME NEW g, NEW l, Handled(g, l) PROVE Handled(g, l)'
  BY <1>2, <1>5, <1>6 DEF Handled, IsInclude
<1>7. ASSUME NEW g \in seen', NEW l \in LinesOf(g)
      PROVE  Handled(g, l)' \/ Unread(stack', g, l)
  <2>1. CASE g \in seen
    <3>1. Handled(g, l) \/ Unread(stack, g, l)
      BY <1>1, <1>7, <2>1 DEF Complete
    <3>2. CASE Unread(stack, g, l) /\ ~Unread(base, g, l)
      BY <1>2, <1>5, <3>2 DEF Handled, Missing, IsInclude
    <3> QED BY <1>2, <1>6, <3>1, <3>2
  <2>2. CASE g \notin seen
    BY <1>2, <1>7, <2>2
  <2> QED BY <2>1, <2>2
<1>8. ToSet(Entries) \subseteq seen' \cup ToSet(entries')
  BY <1>1, <1>2 DEF Complete
<1>9. \A g \in seen' : tree[g] = Absent => g \in missingFiles'
  BY <1>1, <1>2 DEF Complete
<1>10. Complete'
  <2>1. \A g, l : Unread(stack, g, l)' <=> Unread(stack', g, l)
    BY DEF Unread
  <2> QED BY <1>3, <1>7, <1>8, <1>9, <2>1 DEF Complete
<1>11. Sound'
  <2>1. ToSet(entries)' \subseteq ToSet(Entries) /\ seen' \subseteq Reached
    BY <1>1, <1>2 DEF Sound
  <2>2. \A g \in missingFiles' : g \in seen' /\ tree[g] = Absent
    BY <1>1, <1>2 DEF Sound
  <2>3. ASSUME NEW p \in missingModules
        PROVE  \E g \in seen' : \E l \in LinesOf(g) : Missing(l)' /\ p = <<l.module, g>>
    BY <1>1, <1>2, <1>5, <2>3 DEF Sound
  <2> QED BY <1>3, <2>1, <2>2, <2>3 DEF Sound
<1> QED BY <1>2, <1>4, <1>10, <1>11 DEF Inv

LEMMA EntryStep == ASSUME WellFormed, Inv, Entry PROVE Inv'
<1>1. entries \in Seq(Files) /\ entries # <<>> /\ stack = <<>> /\ Sound
  BY DEF Inv, TypeInv, Entry
<1>2. /\ Head(entries) \in Files /\ Tail(entries) \in Seq(Files)
      /\ ToSet(entries) = {Head(entries)} \cup ToSet(Tail(entries))
  BY <1>1, ShortOf
<1>3. Head(entries) \in Reached
  BY <1>1, <1>2, Reaches DEF Sound
<1>4. <<>> \in Seq(Frames) /\ Reading(<<>>) /\ \A g, l : ~Unread(<<>>, g, l)
  BY DEF Reading, Unread
<1>5. /\ WalkPamFile(Head(entries), <<>>) /\ tree' = tree /\ installed' = installed
      /\ missingModules' = missingModules /\ entries' = Tail(entries)
  BY DEF Entry
<1>6. PICK f \in Reached : f = Head(entries)
  BY <1>3
<1>7. PICK base \in Seq(Frames) : base = <<>>
  BY <1>4
<1> QED BY <1>1, <1>2, <1>4, <1>5, <1>6, <1>7, WalkStep

LEMMA IncludeStep == ASSUME WellFormed, Inv, IncludeLine PROVE Inv'
<1>1. /\ stack \in Seq(Frames) /\ Reading(stack) /\ stack # <<>> /\ Top.rest # <<>>
      /\ IsInclude(Head(Top.rest)) /\ Sound /\ entries \in Seq(Files)
  BY DEF Inv, TypeInv, IncludeLine
<1>2. /\ Advanced \in Seq(Frames) /\ Reading(Advanced)
      /\ Head(Top.rest) \in LinesOf(Top.file) /\ Head(Top.rest) \in FileLines
      /\ Top.file \in seen
      /\ \A f, l : Unread(stack, f, l) =>
             Unread(Advanced, f, l) \/ (f = Top.file /\ l = Head(Top.rest))
  BY <1>1, AdvancedIs
<1>3. Head(Top.rest).include \in Reached
  BY <1>1, <1>2, Reaches, IncludeNames DEF Sound
<1>4. /\ WalkPamFile(Head(Top.rest).include, Advanced) /\ tree' = tree /\ installed' = installed
      /\ missingModules' = missingModules /\ entries' = entries
  BY DEF IncludeLine
<1>5. PICK f \in Reached : f = Head(Top.rest).include
  BY <1>3
<1>6. PICK base \in Seq(Frames) : base = Advanced
  BY <1>2
<1>7. \A g, l : Unread(stack, g, l) => Unread(base, g, l) \/ (IsInclude(l) /\ l.include = f)
  BY <1>1, <1>2, <1>5, <1>6
<1> QED BY <1>1, <1>2, <1>4, <1>5, <1>6, <1>7, WalkStep

\* The stack moves on and the files walked stay the same.
LEMMA StaysStep ==
    ASSUME Inv, stack' \in Seq(Frames), Reading(stack'),
           UNCHANGED <<tree, installed, entries, seen, missingFiles>>,
           missingModules \subseteq missingModules',
           \A p \in missingModules' \ missingModules : \E f \in seen : \E l \in LinesOf(f) :
               Missing(l) /\ p = <<l.module, f>>,
           \A f, l : Unread(stack, f, l) =>
               Unread(stack', f, l) \/ (~IsInclude(l) /\ (Missing(l) => <<l.module, f>> \in missingModules'))
    PROVE  Inv'
<1>1. TypeInv /\ Complete /\ Sound
  BY DEF Inv
<1>2. Reached' = Reached /\ \A g : LinesOf(g)' = LinesOf(g)
  BY SameTree
<1>3. \A l : Missing(l)' <=> Missing(l)
  BY DEF Missing, BlocksLogin, IsInclude
<1>4. TypeInv' /\ Reading(stack)'
  BY <1>1, <1>2 DEF TypeInv, Reading
<1>5. ASSUME NEW g \in seen, NEW l \in LinesOf(g)
      PROVE  Handled(g, l)' \/ Unread(stack', g, l)
  <2>1. CASE Handled(g, l)
    BY <1>3, <2>1 DEF Handled, IsInclude
  <2>2. CASE Unread(stack, g, l)
    BY <1>3, <2>2 DEF Handled, IsInclude
  <2> QED BY <1>1, <1>5, <2>1, <2>2 DEF Complete
<1>6. Complete'
  <2>1. \A g, l : Unread(stack, g, l)' <=> Unread(stack', g, l)
    BY DEF Unread
  <2> QED BY <1>1, <1>2, <1>5, <2>1 DEF Complete
<1>7. Sound'
  <2>1. ASSUME NEW p \in missingModules'
        PROVE  \E g \in seen : \E l \in LinesOf(g) : Missing(l)' /\ p = <<l.module, g>>
    <3>1. CASE p \in missingModules
      BY <1>1, <1>3, <3>1 DEF Sound
    <3>2. CASE p \notin missingModules
      BY <1>3, <2>1, <3>2
    <3> QED BY <3>1, <3>2
  <2> QED BY <1>1, <1>2, <2>1 DEF Sound
<1> QED BY <1>4, <1>6, <1>7 DEF Inv

LEMMA RuleStep == ASSUME WellFormed, Inv, RuleLine PROVE Inv'
<1> DEFINE rule == Head(Top.rest)
           pair == <<rule.module, Top.file>>
<1>1. /\ stack \in Seq(Frames) /\ Reading(stack) /\ stack # <<>> /\ Top.rest # <<>>
      /\ ~IsInclude(rule)
  BY DEF Inv, TypeInv, RuleLine
<1>2. /\ Advanced \in Seq(Frames) /\ Reading(Advanced)
      /\ rule \in LinesOf(Top.file) /\ Top.file \in seen
      /\ \A f, l : Unread(stack, f, l) => Unread(Advanced, f, l) \/ (f = Top.file /\ l = rule)
  BY <1>1, AdvancedIs
<1>3. /\ stack' = Advanced /\ UNCHANGED <<tree, installed, entries, seen, missingFiles>>
      /\ missingModules' = IF BlocksLogin(rule) /\ rule.module \notin installed
                           THEN missingModules \cup {pair} ELSE missingModules
  BY DEF RuleLine
<1>4. Missing(rule) <=> BlocksLogin(rule) /\ rule.module \notin installed
  BY <1>1 DEF Missing
<1>5. \A p \in missingModules' \ missingModules : \E f \in seen : \E l \in LinesOf(f) :
           Missing(l) /\ p = <<l.module, f>>
  <2> SUFFICES ASSUME NEW p \in missingModules' \ missingModules
               PROVE  \E f \in seen : \E l \in LinesOf(f) : Missing(l) /\ p = <<l.module, f>>
    OBVIOUS
  <2>1. p = pair /\ Missing(rule)
    BY <1>3, <1>4
  <2> QED BY <1>2, <2>1
<1>6. \A f, l : Unread(stack, f, l) =>
           Unread(stack', f, l) \/ (~IsInclude(l) /\ (Missing(l) => <<l.module, f>> \in missingModules'))
  BY <1>1, <1>2, <1>3, <1>4
<1>7. missingModules \subseteq missingModules'
  BY <1>3
<1> QED BY <1>2, <1>3, <1>5, <1>6, <1>7, StaysStep

LEMMA ReturnStep == ASSUME Inv, Return PROVE Inv'
<1> DEFINE n == Len(stack)
<1>1. /\ stack \in Seq(Frames) /\ Reading(stack) /\ stack # <<>> /\ Top.rest = <<>>
  BY DEF Inv, TypeInv, Return
<1>2. /\ Top = stack[n] /\ n \in Nat /\ n >= 1 /\ DOMAIN stack = 1..n
      /\ Front(stack) \in Seq(Frames) /\ DOMAIN Front(stack) = 1..(n - 1)
      /\ \A i \in 1..(n - 1) : Front(stack)[i] = stack[i]
  BY <1>1, Stacked
<1>3. stack' = Front(stack) /\ UNCHANGED <<tree, installed, entries, seen, missingFiles, missingModules>>
  BY DEF Return
<1> HIDE DEF n
<1>4. 1..(n - 1) \subseteq 1..n /\ \A i \in 1..n : i = n \/ i \in 1..(n - 1)
  BY <1>2
<1>5. Reading(stack')
  <2>1. \A i \in DOMAIN Front(stack) : i \in DOMAIN stack /\ Front(stack)[i] = stack[i]
    BY <1>2, <1>4
  <2>2. Reading(Front(stack))
    BY ONLY <1>1, <2>1 DEF Reading
  <2> QED BY <1>3, <2>2
<1>6. ASSUME NEW f, NEW l, Unread(stack, f, l) PROVE Unread(stack', f, l)
  <2>1. PICK i \in DOMAIN stack : stack[i].file = f /\ l \in ToSet(stack[i].rest)
    BY <1>6 DEF Unread
  <2>2. i # n
    BY <1>1, <1>2, <2>1, EmptyToSet
  <2> QED BY <1>2, <1>3, <1>4, <2>1, <2>2 DEF Unread
<1> QED BY <1>2, <1>3, <1>5, <1>6, StaysStep

LEMMA InvStarts == ASSUME WellFormed PROVE Init => Inv
<1> SUFFICES ASSUME Init PROVE Inv
  OBVIOUS
<1>1. /\ tree \in Trees /\ entries = Entries /\ stack = <<>> /\ seen = {}
      /\ missingFiles = {} /\ missingModules = {}
  BY DEF Init
<1>2. TypeInv
  BY <1>1 DEF TypeInv, WellFormed
<1>3. Reading(stack)
  BY <1>1 DEF Reading
<1> QED BY <1>1, <1>2, <1>3 DEF Inv, Complete, Sound

LEMMA InvStuttered == ASSUME Inv, UNCHANGED vars PROVE Inv'
<1>1. stack' \in Seq(Frames) /\ Reading(stack')
  BY DEF Inv, TypeInv, vars
<1> QED BY <1>1, StaysStep DEF vars

LEMMA InvStep == ASSUME WellFormed PROVE Inv /\ [Next]_vars => Inv'
  BY EntryStep, IncludeStep, RuleStep, ReturnStep, InvStuttered DEF Next

\* The walk knows at every point what it has walked, what waits, and what is missing
\* (target.rs walk_pam_file): the invariant the theorems below rest on.
THEOREM WalkKeepsTrack ==
    ASSUME WellFormed
    PROVE  Spec => []Inv
BY InvStarts, InvStep, PTL DEF Spec

\* When the walk is over it has walked what a login reads.
LEMMA WalkedAll == ASSUME WellFormed, Inv, Done PROVE seen = Reached
<1>1. /\ ToSet(Entries) \subseteq seen /\ seen \subseteq Files /\ seen \subseteq Reached
      /\ \A f, l : ~Unread(stack, f, l)
      /\ \A f \in seen : \A l \in LinesOf(f) : Handled(f, l)
  <2>1. ToSet(entries) = {} /\ \A f, l : ~Unread(stack, f, l)
    BY EmptyToSet DEF Done, Unread
  <2> QED BY <2>1 DEF Inv, TypeInv, Complete, Sound
<1>2. Closed(seen)
  BY <1>1 DEF Closed, Includes, Handled
<1> QED BY <1>1, <1>2 DEF Reached

\* The verdict of verify_pam_stack is what a login would meet, whatever the files include,
\* cycles and files reached twice among them.
THEOREM VerdictIsRight ==
    ASSUME WellFormed
    PROVE  Spec => []VerdictRight
<1>1. Inv => VerdictRight
  <2> SUFFICES ASSUME Inv, Done PROVE Verified <=> CanLogin
    BY DEF VerdictRight
  <2>1. seen = Reached /\ Complete /\ Sound /\ tree \in Trees
    BY WalkedAll DEF Inv, TypeInv
  <2>2. \A f \in seen : \A l \in LinesOf(f) : Handled(f, l)
    BY DEF Inv, Complete, Done, Unread
  <2>3. ASSUME NEW f \in seen, NEW l \in LinesOf(f)
        PROVE  Missing(l) <=> ~(IsInclude(l) \/ ~Refuses(l))
    <3>1. l \in FileLines
      <4>1. f \in Files /\ tree[f] # Absent /\ l \in ToSet(tree[f][1])
        BY <2>3, EmptyToSet DEF LinesOf, Inv, TypeInv
      <4>2. tree[f][1] \in Seq(FileLines)
        BY <2>1, <4>1 DEF WellFormed
      <4> QED BY <4>1, <4>2 DEF ToSet
    <3>2. CASE IsInclude(l)
      BY <3>2 DEF Missing
    <3>3. CASE ~IsInclude(l)
      <4>1. l \in Rules
        BY <3>1, <3>3 DEF FileLines, IsInclude
      <4>2. l.control \cap {"module_unknown=die", "module_unknown=bad"} = {}
        BY <4>1 DEF Rules
      <4>3. Refuses(l) <=> BlocksLogin(l) /\ l.module \notin installed
        BY <4>2 DEF Refuses, BlocksLogin
      <4> QED BY <3>3, <4>3 DEF Missing
    <3> QED BY <3>2, <3>3
  <2>4. missingFiles = {} <=> \A f \in Reached : tree[f] # Absent
    BY <2>1 DEF Complete, Sound
  <2>5. missingModules = {} <=> \A f \in Reached : \A l \in LinesOf(f) : ~Missing(l)
    BY <2>1, <2>2 DEF Sound, Handled
  <2> QED BY <2>1, <2>3, <2>4, <2>5 DEF Verified, CanLogin
<1> QED BY <1>1, WalkKeepsTrack, PTL

\* No file is open twice (target.rs: "@include cycles are legal to write"): the recursion
\* of walk_pam_file is never deeper than there are files.
THEOREM DepthIsBounded ==
    ASSUME WellFormed
    PROVE  Spec => []DepthBounded
<1>1. Inv => DepthBounded
  <2> SUFFICES ASSUME Inv PROVE DepthBounded
    OBVIOUS
  <2> DEFINE n == Len(stack)
             names == {stack[i].file : i \in DOMAIN stack}
             file == [i \in 1..n |-> stack[i].file]
  <2>1. n \in Nat /\ DOMAIN stack = 1..n
    BY DEF Inv, TypeInv
  <2>2. \A i, j \in 1..n : stack[i].file = stack[j].file => i = j
    BY <2>1 DEF Inv, Reading
  <2>3. file \in Bijection(1..n, names)
    <3>1. file \in [1..n -> names] /\ \A i \in 1..n : file[i] = stack[i].file
      BY <2>1
    <3>2. IsInjective(file)
      BY <2>2, <3>1 DEF IsInjective
    <3>3. \A t \in names : \E i \in 1..n : file[i] = t
      BY <2>1, <3>1
    <3> QED BY <3>1, <3>2, <3>3 DEF Bijection, Injection, Surjection
  <2>4. ExistsBijection(1..n, names)
    BY <2>3 DEF ExistsBijection
  <2>5. Cardinality(names) = n
    BY <2>1, <2>4, FS_CountingElements
  <2> QED BY <2>5 DEF DepthBounded
<1> QED BY <1>1, WalkKeepsTrack, PTL
====
