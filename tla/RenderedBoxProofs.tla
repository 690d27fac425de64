---- MODULE RenderedBoxProofs ----
(***************************************************************************)
(* What commit::apply over the real renderers makes of the box, for any    *)
(* configurations, accounts and interfaces, whichever operations fail and  *)
(* wherever the process dies: a call that succeeds leaves the box as the   *)
(* configuration says, and no step removes a file that is not managed or   *)
(* the last account somebody can log in to.  With records that are kept,   *)
(* the devices are the ones described too; and on a box that does not      *)
(* reboot a call over interfaces fails only from outside.                  *)
(***************************************************************************)
EXTENDS RenderedBox, SequenceTheorems, FiniteSetTheorems, WellFoundedInduction, TLAPS

-----------------------------------------------------------------------------
(* Sequences *)

LEMMA LeastIs == ASSUME NEW S \in SUBSET Nat, S # {} PROVE \E x \in S : \A y \in S : x <= y
<1> DEFINE R == {ss \in Nat \X Nat : ss[1] < ss[2]}
<1>1. IsWellFoundedOn(R, Nat)
  <2>1. R = OpToRel(<, Nat)
    BY Zenon DEF OpToRel
  <2> QED BY <2>1, NatLessThanWellFounded, Zenon
<1>2. \A y, z \in Nat : <<y, z>> \in R <=> y < z
  OBVIOUS
<1> HIDE DEF R
<1>3. PICK x \in S : \A y \in S : ~(<<y, x>> \in R)
  BY <1>1, WFMin
<1>4. ASSUME NEW y \in S PROVE x <= y
  <2>1. x \in Nat /\ y \in Nat
    OBVIOUS
  <2>2. ~(y < x)
    BY <1>2, <1>3, <2>1
  <2> QED BY <2>1, <2>2
<1> QED BY <1>4

LEMMA RangeIs ==
    ASSUME NEW s
    PROVE  ToSet(s) = {s[i] : i \in DOMAIN s}
BY DEF ToSet

LEMMA Joined ==
    ASSUME NEW S, NEW s \in Seq(S), NEW t \in Seq(S)
    PROVE  s \o t \in Seq(S) /\ ToSet(s \o t) = ToSet(s) \cup ToSet(t)
<1>1. /\ s \o t \in Seq(S) /\ DOMAIN s = 1..Len(s) /\ DOMAIN t = 1..Len(t)
      /\ DOMAIN (s \o t) = 1..(Len(s) + Len(t)) /\ Len(s) \in Nat /\ Len(t) \in Nat
  OBVIOUS
<1>2. \A i \in 1..Len(s) : (s \o t)[i] = s[i] /\ i \in DOMAIN (s \o t)
  BY <1>1
<1>3. \A i \in 1..Len(t) : (s \o t)[Len(s) + i] = t[i] /\ Len(s) + i \in DOMAIN (s \o t)
  BY <1>1
<1>4. \A i \in DOMAIN (s \o t) : i \in 1..Len(s) \/ i - Len(s) \in 1..Len(t)
  BY <1>1
<1>5. \A i \in DOMAIN (s \o t) : (s \o t)[i] \in ToSet(s) \cup ToSet(t)
  <2> SUFFICES ASSUME NEW i \in DOMAIN (s \o t) PROVE (s \o t)[i] \in ToSet(s) \cup ToSet(t)
    OBVIOUS
  <2>1. CASE i \in 1..Len(s)
    BY <1>1, <1>2, <2>1, RangeIs
  <2>2. CASE i - Len(s) \in 1..Len(t)
    <3>1. PICK j \in 1..Len(t) : i = Len(s) + j
      BY <1>1, <2>2
    <3> QED BY <1>1, <1>3, <3>1, RangeIs
  <2> QED BY <1>4, <2>1, <2>2
<1>6. \A x \in ToSet(s) \cup ToSet(t) : x \in ToSet(s \o t)
  BY <1>1, <1>2, <1>3, RangeIs
<1>7. ToSet(s \o t) = {(s \o t)[i] : i \in DOMAIN (s \o t)}
  BY RangeIs
<1>8. \A x \in ToSet(s \o t) : x \in ToSet(s) \cup ToSet(t)
  BY <1>5, <1>7
<1> QED BY <1>1, <1>6, <1>8

LEMMA Shorter ==
    ASSUME NEW S, NEW s \in Seq(S), s # <<>>
    PROVE  /\ Head(s) \in S /\ Tail(s) \in Seq(S)
           /\ ToSet(s) = {Head(s)} \cup ToSet(Tail(s))
           /\ Len(s) \in Nat \ {0} /\ Len(Tail(s)) = Len(s) - 1 /\ Head(s) = s[1]
           /\ \A i \in 1..Len(Tail(s)) : i + 1 \in 1..Len(s) /\ Tail(s)[i] = s[i + 1]
<1>1. Head(s) = s[1] /\ Tail(s) \in Seq(S) /\ Len(s) \in Nat /\ Len(s) >= 1
      /\ Len(Tail(s)) = Len(s) - 1 /\ s[1] \in S
  OBVIOUS
<1>2. \A i \in 1..(Len(s) - 1) : Tail(s)[i] = s[i + 1]
  OBVIOUS
<1>3. DOMAIN s = 1..Len(s) /\ DOMAIN Tail(s) = 1..(Len(s) - 1)
  BY <1>1
<1>4. ASSUME NEW i \in 1..Len(s) PROVE i = 1 \/ (i - 1 \in 1..(Len(s) - 1) /\ s[i] = Tail(s)[i - 1])
  BY <1>1, <1>2
<1>5. ASSUME NEW i \in 1..(Len(s) - 1) PROVE i + 1 \in 1..Len(s) /\ s[i + 1] = Tail(s)[i]
  BY <1>1, <1>2
<1>6. 1 \in 1..Len(s)
  BY <1>1
<1>7. ASSUME NEW x \in ToSet(s) PROVE x \in {Head(s)} \cup ToSet(Tail(s))
  <2>1. PICK i \in 1..Len(s) : x = s[i]
    BY <1>3, RangeIs
  <2> QED BY <1>1, <1>3, <1>4, <2>1, RangeIs
<1>8. ASSUME NEW x \in {Head(s)} \cup ToSet(Tail(s)) PROVE x \in ToSet(s)
  <2>1. CASE x = Head(s)
    BY <1>1, <1>3, <1>6, <2>1, RangeIs
  <2>2. CASE x \in ToSet(Tail(s))
    <3>1. PICK i \in 1..(Len(s) - 1) : x = Tail(s)[i]
      BY <1>3, <2>2, RangeIs
    <3> QED BY <1>3, <1>5, <3>1, RangeIs
  <2> QED BY <2>1, <2>2
<1> QED BY <1>1, <1>2, <1>5, <1>7, <1>8

-----------------------------------------------------------------------------
(* FlattenSeq *)

Flat(seqs, g, n) == g = [i \in 1..n |-> IF i = 1 THEN seqs[i] ELSE g[i - 1] \o seqs[i]]

LEMMA FlattenIs ==
    ASSUME NEW seqs, Len(seqs) # 0
    PROVE  FlattenSeq(seqs) = (CHOOSE g : Flat(seqs, g, Len(seqs)))[Len(seqs)]
BY DEF FlattenSeq, Flat

LEMMA FlatExists ==
    ASSUME NEW seqs, NEW n \in Nat \ {0}
    PROVE  \E g : Flat(seqs, g, n)
<1> DEFINE bad == {m \in Nat \ {0} : ~(\E g : Flat(seqs, g, m))}
<1>1. SUFFICES ASSUME bad # {} PROVE FALSE
  OBVIOUS
<1>2. PICK k \in bad : \A m \in bad : k <= m
  <2>1. bad \in SUBSET Nat
    OBVIOUS
  <2> HIDE DEF bad
  <2> QED BY <1>1, <2>1, LeastIs
<1>3. CASE k = 1
  <2> DEFINE g == [i \in 1..1 |-> seqs[i]]
  <2>1. g = [i \in 1..1 |-> IF i = 1 THEN seqs[i] ELSE g[i - 1] \o seqs[i]]
    OBVIOUS
  <2>2. Flat(seqs, g, 1)
    BY <2>1 DEF Flat
  <2> QED BY <1>2, <1>3, <2>2
<1>4. CASE k # 1
  <2>1. k - 1 \in Nat \ {0} /\ ~(k <= k - 1) /\ k \in Nat
    BY <1>2, <1>4
  <2>2. k - 1 \notin bad
    BY <1>2, <2>1
  <2>3. PICK g : Flat(seqs, g, k - 1)
    BY <2>1, <2>2
  <2> DEFINE h == [i \in 1..k |-> IF i = 1 THEN seqs[i] ELSE g[i - 1] \o seqs[i]]
  <2>4. \A i \in 1..(k - 1) : g[i] = IF i = 1 THEN seqs[i] ELSE g[i - 1] \o seqs[i]
    BY <2>3 DEF Flat
  <2>5. \A i \in 1..(k - 1) : h[i] = g[i]
    BY <2>1, <2>4
  <2>6. \A i \in 1..k : i # 1 => i - 1 \in 1..(k - 1)
    BY <2>1
  <2>7. h = [i \in 1..k |-> IF i = 1 THEN seqs[i] ELSE h[i - 1] \o seqs[i]]
    BY <2>5, <2>6
  <2>8. Flat(seqs, h, k)
    BY <2>7 DEF Flat
  <2> QED BY <1>2, <2>8
<1> QED BY <1>3, <1>4

\* What is in the first k of them.
Members(seqs, k) == UNION {ToSet(seqs[i]) : i \in 1..k}

LEMMA FlatRange ==
    ASSUME NEW S, NEW n \in Nat, NEW seqs \in [1..n -> Seq(S)], NEW g, Flat(seqs, g, n), NEW k \in 1..n
    PROVE  g[k] \in Seq(S) /\ ToSet(g[k]) = Members(seqs, k)
<1> DEFINE good(m) == g[m] \in Seq(S) /\ ToSet(g[m]) = Members(seqs, m)
           bad == {m \in 1..n : ~good(m)}
<1>1. SUFFICES ASSUME bad # {} PROVE FALSE
  OBVIOUS
<1>2. PICK m \in bad : \A j \in bad : m <= j
  <2>1. bad \in SUBSET Nat
    OBVIOUS
  <2> HIDE DEF bad
  <2> QED BY <1>1, <2>1, LeastIs
<1>3. /\ m \in 1..n /\ m \in Nat
      /\ g[m] = IF m = 1 THEN seqs[m] ELSE g[m - 1] \o seqs[m]
  <2>1. m \in 1..n /\ m \in Nat
    BY <1>2
  <2>2. \A i \in 1..n : g[i] = IF i = 1 THEN seqs[i] ELSE g[i - 1] \o seqs[i]
    BY DEF Flat
  <2> QED BY <2>1, <2>2
<1>4. CASE m = 1
  <2>1. 1..1 = {1}
    OBVIOUS
  <2>2. g[m] = seqs[1] /\ seqs[1] \in Seq(S)
    BY <1>3, <1>4
  <2>3. good(1)
    BY <1>4, <2>1, <2>2 DEF Members
  <2> QED BY <1>2, <1>4, <2>3
<1>5. CASE m # 1
  <2>1. m - 1 \in 1..n /\ ~(m <= m - 1)
    BY <1>3, <1>5
  <2>2. good(m - 1)
    BY <1>2, <2>1
  <2>3. g[m] = g[m - 1] \o seqs[m] /\ seqs[m] \in Seq(S)
    BY <1>3, <1>5
  <2>4. g[m] \in Seq(S) /\ ToSet(g[m]) = ToSet(g[m - 1]) \cup ToSet(seqs[m])
    BY <2>2, <2>3, Joined
  <2>5. 1..m = (1..(m - 1)) \cup {m}
    BY <1>3
  <2>6. Members(seqs, m) = Members(seqs, m - 1) \cup ToSet(seqs[m])
    BY <2>5 DEF Members
  <2>7. good(m)
    BY <2>2, <2>4, <2>6
  <2> QED BY <1>2, <2>7
<1> QED BY <1>4, <1>5

\* FlattenSeq joins them all.
LEMMA Flattened ==
    ASSUME NEW S, NEW n \in Nat, NEW seqs \in [1..n -> Seq(S)]
    PROVE  /\ FlattenSeq(seqs) \in Seq(S)
           /\ ToSet(FlattenSeq(seqs)) = Members(seqs, n)
<1>1. seqs \in Seq(Seq(S)) /\ Len(seqs) = n
  OBVIOUS
<1>2. CASE n = 0
  <2>1. seqs = <<>> /\ 1..n = {}
    BY <1>1, <1>2
  <2>2. FlattenSeq(seqs) = seqs
    BY <1>1, <1>2 DEF FlattenSeq
  <2>3. ToSet(<<>>) = {} /\ <<>> \in Seq(S)
    BY RangeIs
  <2>4. Members(seqs, n) = {}
    BY <2>1 DEF Members
  <2> QED BY <2>1, <2>2, <2>3, <2>4
<1>3. CASE n # 0
  <2>1. PICK g : g = CHOOSE h : Flat(seqs, h, n)
    OBVIOUS
  <2>2. Flat(seqs, g, n)
    BY <1>3, <2>1, FlatExists
  <2>3. FlattenSeq(seqs) = g[n]
    BY <1>1, <1>3, <2>1, FlattenIs
  <2>4. n \in 1..n
    BY <1>3
  <2>5. g[n] \in Seq(S) /\ ToSet(g[n]) = Members(seqs, n)
    BY <2>2, <2>4, FlatRange
  <2> QED BY <2>3, <2>5
<1> QED BY <1>2, <1>3

LEMMA InOrderIs ==
    ASSUME NEW order, order \in Seq(ToSet(order)), NEW S
    PROVE  /\ InOrder(order, S) \in Seq(ToSet(order) \cap S)
           /\ ToSet(InOrder(order, S)) = ToSet(order) \cap S
<1>1. PICK n \in Nat : n = Len(order) /\ DOMAIN order = 1..n
  OBVIOUS
<1>2. PICK seqs : seqs = [i \in 1..n |-> IF order[i] \in S THEN <<order[i]>> ELSE <<>>]
  OBVIOUS
<1>3. \A i \in 1..n : order[i] \in ToSet(order)
  BY <1>1, RangeIs
<1>4. \A i \in 1..n : order[i] \in S => <<order[i]>> \in Seq(ToSet(order) \cap S) /\ ToSet(<<order[i]>>) = {order[i]}
  <2> SUFFICES ASSUME NEW x \in ToSet(order) \cap S PROVE <<x>> \in Seq(ToSet(order) \cap S) /\ ToSet(<<x>>) = {x}
    BY <1>3
  <2>1. DOMAIN <<x>> = {1} /\ <<x>>[1] = x /\ <<x>> \in Seq(ToSet(order) \cap S)
    OBVIOUS
  <2> QED BY <2>1, RangeIs
<1>5. seqs \in [1..n -> Seq(ToSet(order) \cap S)]
  <2>1. <<>> \in Seq(ToSet(order) \cap S)
    OBVIOUS
  <2>2. \A i \in 1..n : seqs[i] \in Seq(ToSet(order) \cap S)
    BY <1>2, <1>4, <2>1
  <2> QED BY <1>2, <2>2
<1>6. FlattenSeq(seqs) = InOrder(order, S)
  BY <1>1, <1>2 DEF InOrder
<1>7. Members(seqs, n) = ToSet(order) \cap S
  <2>1. ToSet(<<>>) = {}
    BY RangeIs
  <2>2. \A i \in 1..n : ToSet(seqs[i]) = IF order[i] \in S THEN {order[i]} ELSE {}
    BY <1>2, <1>4, <2>1
  <2>3. ToSet(order) = {order[i] : i \in 1..n}
    BY <1>1, RangeIs
  <2> QED BY <2>2, <2>3 DEF Members
<1> QED BY <1>5, <1>6, <1>7, Flattened

-----------------------------------------------------------------------------
(* What each renderer asks for, as a set of operations *)

LEMMA Few ==
    /\ \A S : <<>> \in Seq(S) /\ ToSet(<<>>) = {}
    /\ \A x : <<x>> \in Seq({x}) /\ ToSet(<<x>>) = {x}
    /\ \A x, y : <<x, y>> \in Seq({x, y}) /\ ToSet(<<x, y>>) = {x, y}
<1>1. \A S : <<>> \in Seq(S) /\ ToSet(<<>>) = {}
  BY RangeIs
<1>2. ASSUME NEW x PROVE <<x>> \in Seq({x}) /\ ToSet(<<x>>) = {x}
  <2>1. DOMAIN <<x>> = {1} /\ <<x>>[1] = x /\ <<x>> \in Seq({x})
    OBVIOUS
  <2> QED BY <2>1, RangeIs
<1>3. ASSUME NEW x, NEW y PROVE <<x, y>> \in Seq({x, y}) /\ ToSet(<<x, y>>) = {x, y}
  <2>1. DOMAIN <<x, y>> = {1, 2} /\ <<x, y>>[1] = x /\ <<x, y>>[2] = y /\ <<x, y>> \in Seq({x, y})
    OBVIOUS
  <2>2. {<<x, y>>[i] : i \in {1, 2}} = {x, y}
    BY <2>1
  <2> QED BY <2>1, <2>2, RangeIs
<1> QED BY <1>1, <1>2, <1>3

LEMMA InRange ==
    ASSUME NEW S, NEW s \in Seq(S)
    PROVE  /\ Len(s) \in Nat /\ DOMAIN s = 1..Len(s) /\ s \in Seq(ToSet(s)) /\ ToSet(s) \subseteq S
           /\ \A i \in 1..Len(s) : s[i] \in ToSet(s)
           /\ \A x \in ToSet(s) : \E i \in 1..Len(s) : x = s[i]
<1>1. Len(s) \in Nat /\ DOMAIN s = 1..Len(s) /\ s \in [1..Len(s) -> S]
  OBVIOUS
<1>2. \A i \in 1..Len(s) : s[i] \in ToSet(s)
  BY <1>1, RangeIs
<1>3. \A x \in ToSet(s) : \E i \in 1..Len(s) : x = s[i]
  BY <1>1, RangeIs
<1>4. s \in [1..Len(s) -> ToSet(s)]
  BY <1>1, <1>2
<1>5. s \in Seq(ToSet(s))
  BY <1>1, <1>4
<1> QED BY <1>1, <1>2, <1>3, <1>5

HostAction(c, h) == [act |-> "SetHostName", name |-> h, domain |-> value(c, "domain-name")]
ZoneAction(z) == [act |-> "SetTimeZone", zone |-> z]
SystemActions(c) ==
    {HostAction(c, h) : h \in ToSet(value(c, "host-name"))} \cup {ZoneAction(z) : z \in ToSet(value(c, "time-zone"))}

Resolv(c) == OpWrite("resolv.conf", [search |-> value(c, "domain-name"), servers |-> c.servers])
Hosts(c, h) == OpWrite("hosts", [name |-> h, domain |-> value(c, "domain-name")])
HostName(h) == OpRun(<<"hostnamectl", h>>)
TimeZone(z) == OpRun(<<"timedatectl", z>>)
SystemWork(c) ==
    {Resolv(c)} \cup {Hosts(c, h) : h \in ToSet(value(c, "host-name"))}
    \cup {HostName(h) : h \in ToSet(value(c, "host-name"))} \cup {TimeZone(z) : z \in ToSet(value(c, "time-zone"))}

LEMMA ValueIs ==
    ASSUME NEW c, NEW field
    PROVE  value(c, field) \in Seq(ToSet(value(c, field)))
BY Few DEF value

LEMMA SystemActionsAre ==
    ASSUME NEW c
    PROVE  /\ system_render(c).actions \in Seq(SystemActions(c))
           /\ ToSet(system_render(c).actions) = SystemActions(c)
<1> DEFINE host == value(c, "host-name")
           zone == value(c, "time-zone")
           hs == [i \in 1..Len(host) |-> HostAction(c, host[i])]
           zs == [i \in 1..Len(zone) |-> ZoneAction(zone[i])]
<1>1. host \in Seq(ToSet(host)) /\ zone \in Seq(ToSet(zone))
  BY ValueIs
<1>2. system_render(c).actions = hs \o zs
  BY DEF system_render, Artifacts, HostAction, ZoneAction
<1> HIDE DEF host, zone
<1>3. hs \in Seq(SystemActions(c)) /\ ToSet(hs) = {HostAction(c, h) : h \in ToSet(host)}
  <2>1. Len(host) \in Nat /\ (\A i \in 1..Len(host) : host[i] \in ToSet(host))
        /\ (\A x \in ToSet(host) : \E i \in 1..Len(host) : x = host[i])
    BY <1>1, InRange
  <2>2. \A i \in 1..Len(host) : HostAction(c, host[i]) \in SystemActions(c)
    BY <2>1 DEF SystemActions, host
  <2>3. hs \in Seq(SystemActions(c)) /\ DOMAIN hs = 1..Len(host)
    BY <2>1, <2>2
  <2>4. ToSet(hs) = {hs[i] : i \in 1..Len(host)}
    BY <2>3, RangeIs
  <2>5. \A x : x \in ToSet(hs) <=> \E i \in 1..Len(host) : x = HostAction(c, host[i])
    BY <2>4
  <2> HIDE DEF hs
  <2> QED BY <2>1, <2>3, <2>5
<1>4. zs \in Seq(SystemActions(c)) /\ ToSet(zs) = {ZoneAction(z) : z \in ToSet(zone)}
  <2>1. Len(zone) \in Nat /\ (\A i \in 1..Len(zone) : zone[i] \in ToSet(zone))
        /\ (\A x \in ToSet(zone) : \E i \in 1..Len(zone) : x = zone[i])
    BY <1>1, InRange
  <2>2. \A i \in 1..Len(zone) : ZoneAction(zone[i]) \in SystemActions(c)
    BY <2>1 DEF SystemActions, zone
  <2>3. zs \in Seq(SystemActions(c)) /\ DOMAIN zs = 1..Len(zone)
    BY <2>1, <2>2
  <2>4. ToSet(zs) = {zs[i] : i \in 1..Len(zone)}
    BY <2>3, RangeIs
  <2>5. \A x : x \in ToSet(zs) <=> \E i \in 1..Len(zone) : x = ZoneAction(zone[i])
    BY <2>4
  <2> HIDE DEF zs
  <2> QED BY <2>1, <2>3, <2>5
<1> HIDE DEF hs, zs
<1>5. hs \o zs \in Seq(SystemActions(c)) /\ ToSet(hs \o zs) = ToSet(hs) \cup ToSet(zs)
  BY <1>3, <1>4, Joined
<1> QED BY <1>2, <1>3, <1>4, <1>5 DEF SystemActions, host, zone

LEMMA SetOfOne ==
    ASSUME NEW x
    PROVE  SetToSeq({x}) \in Seq({x}) /\ ToSet(SetToSeq({x})) = {x}
<1>1. Cardinality({x}) = 1
  BY FS_Singleton
<1>2. PICK f : f = [i \in 1..1 |-> x]
  OBVIOUS
<1>3. f \in [1..Cardinality({x}) -> {x}] /\ IsInjective(f)
  <2>1. \A i, j \in 1..1 : i = j
    OBVIOUS
  <2> QED BY <1>1, <1>2, <2>1 DEF IsInjective
<1>4. SetToSeq({x}) \in [1..1 -> {x}]
  BY <1>1, <1>3 DEF SetToSeq
<1>5. SetToSeq({x}) \in Seq({x}) /\ DOMAIN SetToSeq({x}) = {1} /\ SetToSeq({x})[1] = x
  <2>1. PICK q : q = SetToSeq({x})
    OBVIOUS
  <2>2. q \in [1..1 -> {x}]
    BY <1>4, <2>1
  <2>3. q \in Seq({x}) /\ DOMAIN q = {1} /\ q[1] = x
    BY <2>2
  <2> QED BY <2>1, <2>3
<1> QED BY <1>5, RangeIs

SystemStep(action) ==
    IF action.act = "SetHostName" THEN <<update_hosts(action), OpRun(argv(action))>> ELSE <<OpRun(argv(action))>>

LEMMA SystemStepIs ==
    ASSUME NEW c
    PROVE  /\ \A h : SystemStep(HostAction(c, h)) = <<Hosts(c, h), HostName(h)>>
           /\ \A z : SystemStep(ZoneAction(z)) = <<TimeZone(z)>>
BY DEF SystemStep, HostAction, ZoneAction, update_hosts, Hosts, HostName, TimeZone, argv, OpRun, OpWrite

\* What SystemRenderer::apply asks for.
LEMMA SystemOps ==
    ASSUME NEW c
    PROVE  /\ system_apply(system_render(c)) \in Seq(SystemWork(c))
           /\ ToSet(system_apply(system_render(c))) = SystemWork(c)
<1>1. PICK a : a = system_render(c)
  OBVIOUS
<1>2. a.actions \in Seq(SystemActions(c)) /\ ToSet(a.actions) = SystemActions(c)
  BY <1>1, SystemActionsAre
<1>3. {OpWrite(p, a.files[p]) : p \in DOMAIN a.files} = {Resolv(c)}
  BY <1>1 DEF system_render, Artifacts, Only, Resolv
<1>4. PICK n \in Nat : n = Len(a.actions)
  BY <1>2
<1>5. PICK seqs : seqs = [i \in 1..n |-> SystemStep(a.actions[i])]
  OBVIOUS
<1>6. system_apply(a) = SetToSeq({Resolv(c)}) \o FlattenSeq(seqs)
  BY <1>3, <1>4, <1>5 DEF system_apply, SystemStep
<1>7. \A i \in 1..n : a.actions[i] \in SystemActions(c)
  BY <1>2, <1>4
<1>8. ASSUME NEW x \in SystemActions(c)
      PROVE  SystemStep(x) \in Seq(SystemWork(c)) /\ ToSet(SystemStep(x)) \subseteq SystemWork(c)
  <2>1. CASE \E h \in ToSet(value(c, "host-name")) : x = HostAction(c, h)
    <3>1. PICK h \in ToSet(value(c, "host-name")) : x = HostAction(c, h)
      BY <2>1
    <3>2. Hosts(c, h) \in SystemWork(c) /\ HostName(h) \in SystemWork(c)
      BY DEF SystemWork
    <3>3. PICK p, q : p = Hosts(c, h) /\ q = HostName(h)
      OBVIOUS
    <3>4. SystemStep(x) = <<p, q>> /\ ToSet(<<p, q>>) = {p, q}
      BY <3>1, <3>3, SystemStepIs, Few
    <3>5. <<p, q>> \in Seq(SystemWork(c))
      BY <3>2, <3>3
    <3> QED BY <3>2, <3>3, <3>4, <3>5
  <2>2. CASE \E z \in ToSet(value(c, "time-zone")) : x = ZoneAction(z)
    <3>1. PICK z \in ToSet(value(c, "time-zone")) : x = ZoneAction(z)
      BY <2>2
    <3>2. PICK p : p = TimeZone(z)
      OBVIOUS
    <3>3. p \in SystemWork(c)
      BY <3>2 DEF SystemWork
    <3>4. SystemStep(x) = <<p>> /\ ToSet(<<p>>) = {p}
      BY <3>1, <3>2, SystemStepIs, Few
    <3>5. <<p>> \in Seq(SystemWork(c))
      BY <3>3
    <3> QED BY <3>3, <3>4, <3>5
  <2> QED BY <2>1, <2>2 DEF SystemActions
<1>9. seqs \in [1..n -> Seq(SystemWork(c))]
  BY <1>5, <1>7, <1>8
<1>10. FlattenSeq(seqs) \in Seq(SystemWork(c)) /\ ToSet(FlattenSeq(seqs)) = Members(seqs, n)
  BY <1>9, Flattened
<1>11. Resolv(c) \in SystemWork(c) /\ SetToSeq({Resolv(c)}) \in Seq(SystemWork(c)) /\ ToSet(SetToSeq({Resolv(c)})) = {Resolv(c)}
  <2>1. Resolv(c) \in SystemWork(c)
    BY DEF SystemWork
  <2>2. PICK q : q = SetToSeq({Resolv(c)})
    OBVIOUS
  <2>3. q \in Seq({Resolv(c)}) /\ ToSet(q) = {Resolv(c)}
    BY <2>2, SetOfOne
  <2>4. q \in Seq(SystemWork(c))
    BY <2>1, <2>3
  <2> QED BY <2>1, <2>2, <2>3, <2>4
<1>12. system_apply(a) \in Seq(SystemWork(c)) /\ ToSet(system_apply(a)) = {Resolv(c)} \cup Members(seqs, n)
  <2>1. PICK one, rest : one = SetToSeq({Resolv(c)}) /\ rest = FlattenSeq(seqs)
    OBVIOUS
  <2>2. one \in Seq(SystemWork(c)) /\ ToSet(one) = {Resolv(c)}
    BY <1>11, <2>1
  <2>3. rest \in Seq(SystemWork(c)) /\ ToSet(rest) = Members(seqs, n)
    BY <1>10, <2>1
  <2>4. one \o rest \in Seq(SystemWork(c)) /\ ToSet(one \o rest) = ToSet(one) \cup ToSet(rest)
    BY <2>2, <2>3, Joined
  <2> QED BY <1>6, <2>1, <2>2, <2>3, <2>4
<1>13. ASSUME NEW x \in SystemActions(c) PROVE ToSet(SystemStep(x)) \subseteq Members(seqs, n)
  <2>1. PICK i \in 1..n : a.actions[i] = x
    BY <1>2, <1>4, InRange
  <2>2. seqs[i] = SystemStep(x)
    BY <1>5, <2>1
  <2> QED BY <2>2 DEF Members
<1>14. Members(seqs, n) \subseteq SystemWork(c)
  <2>1. \A i \in 1..n : ToSet(seqs[i]) \subseteq SystemWork(c)
    BY <1>5, <1>7, <1>8
  <2> QED BY <2>1 DEF Members
<1>15. ASSUME NEW w \in SystemWork(c) PROVE w \in {Resolv(c)} \cup Members(seqs, n)
  <2>1. CASE w = Resolv(c)
    BY <2>1
  <2>2. ASSUME NEW h \in ToSet(value(c, "host-name")), w = Hosts(c, h) \/ w = HostName(h)
        PROVE  w \in Members(seqs, n)
    <3>1. PICK x : x = HostAction(c, h)
      OBVIOUS
    <3>2. x \in SystemActions(c)
      BY <3>1 DEF SystemActions
    <3>3. ToSet(SystemStep(x)) = {Hosts(c, h), HostName(h)}
      BY <3>1, SystemStepIs, Few
    <3> QED BY <1>13, <2>2, <3>2, <3>3
  <2>3. ASSUME NEW z \in ToSet(value(c, "time-zone")), w = TimeZone(z) PROVE w \in Members(seqs, n)
    <3>1. PICK x : x = ZoneAction(z)
      OBVIOUS
    <3>2. x \in SystemActions(c)
      BY <3>1 DEF SystemActions
    <3>3. ToSet(SystemStep(x)) = {TimeZone(z)}
      BY <3>1, SystemStepIs, Few
    <3> QED BY <1>13, <2>3, <3>2, <3>3
  <2> QED BY <2>1, <2>2, <2>3 DEF SystemWork
<1> QED BY <1>1, <1>11, <1>12, <1>14, <1>15

-----------------------------------------------------------------------------
(* What an operation makes of the box *)

Pass(n, h) == [act |-> "SetPassword", name |-> n, hash |-> h]
Modify(n) == OpRun(<<"usermod", n>>)
Secret(n, h) == OpSecret(<<"chpasswd">>, Pass(n, h))
UserDel(n) == OpRun(<<"userdel", n>>)
Rebuild(n) == OpRun(<<"networkctl-delete", n>>)
ReloadAll == OpRun(<<"networkctl-reload">>)

LEMMA WriteDone ==
    ASSUME NEW m, NEW p, NEW t
    PROVE  /\ Done(OpWrite(p, t), m) = {[m EXCEPT !.files = Over(Only(p, t), @)]}
           /\ Halfway(OpWrite(p, t), m) = {m}
BY DEF Done, Halfway, OpWrite

LEMMA SyncDone ==
    ASSUME NEW m, NEW f
    PROVE  /\ Done(OpSync("net", f), m) = {[m EXCEPT !.net = Sync(@, f)]}
           /\ Halfway(OpSync("net", f), m) = {[m EXCEPT !.net = g] : g \in SyncHalfway(m.net, f)}
           /\ Done(OpSync("link", f), m) = {[m EXCEPT !.link = Sync(@, f)]}
           /\ Halfway(OpSync("link", f), m) = {[m EXCEPT !.link = g] : g \in SyncHalfway(m.link, f)}
BY DEF Done, Halfway, OpSync

LEMMA RunDone ==
    ASSUME NEW m, NEW n
    PROVE  /\ Done(HostName(n), m) = {[m EXCEPT !.name = n]}
           /\ Done(TimeZone(n), m) = {[m EXCEPT !.zone = n]}
           /\ Done(Modify(n), m) = IF n \in DOMAIN m.users THEN {m} ELSE {}
           /\ Done(UserDel(n), m) =
                IF n \in DOMAIN m.users THEN {[m EXCEPT !.users = Without(@, n)]} ELSE {}
           /\ Done(Rebuild(n), m) =
                IF n \in DOMAIN m.devices THEN {[m EXCEPT !.devices = Without(@, n)]} ELSE {}
           /\ Done(ReloadAll, m) = {Reload(m)}
<1>1. \A line : Done(OpRun(line), m) = Tool(line, m)
  BY DEF Done, OpRun
<1>2. /\ <<"hostnamectl", n>>[1] = "hostnamectl" /\ <<"hostnamectl", n>>[2] = n
      /\ <<"timedatectl", n>>[1] = "timedatectl" /\ <<"timedatectl", n>>[2] = n
      /\ <<"usermod", n>>[1] = "usermod" /\ <<"usermod", n>>[2] = n
      /\ <<"userdel", n>>[1] = "userdel" /\ <<"userdel", n>>[2] = n
      /\ <<"networkctl-delete", n>>[1] = "networkctl-delete" /\ <<"networkctl-delete", n>>[2] = n
      /\ <<"networkctl-reload">>[1] = "networkctl-reload"
  OBVIOUS
<1>3. Done(HostName(n), m) = {[m EXCEPT !.name = n]}
  BY <1>1, <1>2 DEF HostName, Tool
<1>4. Done(TimeZone(n), m) = {[m EXCEPT !.zone = n]}
  BY <1>1, <1>2 DEF TimeZone, Tool
<1>5. Done(Modify(n), m) = IF n \in DOMAIN m.users THEN {m} ELSE {}
  BY <1>1, <1>2 DEF Modify, Tool
<1>6. Done(UserDel(n), m) = IF n \in DOMAIN m.users THEN {[m EXCEPT !.users = Without(@, n)]} ELSE {}
  BY <1>1, <1>2 DEF UserDel, Tool
<1>7. Done(Rebuild(n), m) = IF n \in DOMAIN m.devices THEN {[m EXCEPT !.devices = Without(@, n)]} ELSE {}
  BY <1>1, <1>2 DEF Rebuild, Tool
<1>8. Done(ReloadAll, m) = {Reload(m)}
  BY <1>1, <1>2 DEF ReloadAll, Tool
<1> QED BY <1>3, <1>4, <1>5, <1>6, <1>7, <1>8

LEMMA SecretDone ==
    ASSUME NEW m, NEW n, NEW h
    PROVE  Done(Secret(n, h), m) = IF n \in DOMAIN m.users THEN {[m EXCEPT !.users[n] = h]} ELSE {}
BY DEF Done, Secret, OpSecret, Pass, SetPassword

LEMMA RunHalfway ==
    ASSUME NEW m, NEW line, NEW secret
    PROVE  Halfway(OpRun(line), m) = {m} /\ Halfway(OpSecret(line, secret), m) = {m}
BY DEF Halfway, OpRun, OpSecret

-----------------------------------------------------------------------------
(* The login renderer *)

Ensure(n) == [act |-> "EnsureAccount", name |-> n]
WithPassword(c) == {n \in DOMAIN c.login : c.login[n] # NoPassword}
LoginActions(c) ==
    {Ensure(n) : n \in DOMAIN c.login} \cup {Pass(n, c.login[n]) : n \in WithPassword(c)}
AccountActions(c, n) ==
    <<Ensure(n)>> \o IF c.login[n] = NoPassword THEN <<>> ELSE <<Pass(n, c.login[n])>>

LoginWork(c) ==
    {Modify(n) : n \in DOMAIN c.login} \cup {Secret(n, c.login[n]) : n \in WithPassword(c)}
Anybody == UNION {DOMAIN d.login : d \in Configs}
Removals(c) == {UserDel(n) : n \in Anybody \ DOMAIN c.login}

LEMMA UsersAre ==
    ASSUME Written, NEW c \in Configs
    PROVE  users(c) \in Seq(DOMAIN c.login) /\ ToSet(users(c)) = DOMAIN c.login
<1>1. AccountOrder \in Seq(ToSet(AccountOrder)) /\ ToSet(AccountOrder) \cap DOMAIN c.login = DOMAIN c.login
  BY DEF Written
<1> QED BY <1>1, InOrderIs DEF users

LEMMA AccountActionsAre ==
    ASSUME NEW c, NEW n \in DOMAIN c.login
    PROVE  /\ AccountActions(c, n) \in Seq(LoginActions(c))
           /\ Ensure(n) \in ToSet(AccountActions(c, n))
           /\ n \in WithPassword(c) => Pass(n, c.login[n]) \in ToSet(AccountActions(c, n))
<1>1. PICK e, p : e = Ensure(n) /\ p = Pass(n, c.login[n])
  OBVIOUS
<1>2. CASE c.login[n] = NoPassword
  <2>1. AccountActions(c, n) = <<e>> \o <<>>
    BY <1>1, <1>2 DEF AccountActions
  <2>2. <<e>> \o <<>> = <<e>>
    OBVIOUS
  <2>3. e \in LoginActions(c) /\ n \notin WithPassword(c)
    BY <1>1, <1>2 DEF LoginActions, WithPassword
  <2>4. <<e>> \in Seq(LoginActions(c))
    BY <2>3
  <2> QED BY <1>1, <2>1, <2>2, <2>3, <2>4, Few
<1>3. CASE c.login[n] # NoPassword
  <2>1. AccountActions(c, n) = <<e>> \o <<p>>
    BY <1>1, <1>3 DEF AccountActions
  <2>2. e \in LoginActions(c) /\ p \in LoginActions(c)
    BY <1>1, <1>3 DEF LoginActions, WithPassword
  <2>3. PICK se, sp : se = <<e>> /\ sp = <<p>>
    OBVIOUS
  <2>4. /\ se \in Seq(LoginActions(c)) /\ ToSet(se) = {e}
        /\ sp \in Seq(LoginActions(c)) /\ ToSet(sp) = {p}
    <3>1. <<e>> \in Seq(LoginActions(c)) /\ <<p>> \in Seq(LoginActions(c))
      BY <2>2
    <3>2. ToSet(<<e>>) = {e} /\ ToSet(<<p>>) = {p}
      BY Few
    <3> QED BY <2>3, <3>1, <3>2
  <2>5. se \o sp \in Seq(LoginActions(c)) /\ ToSet(se \o sp) = ToSet(se) \cup ToSet(sp)
    BY <2>4, Joined
  <2> QED BY <1>1, <2>1, <2>3, <2>4, <2>5
<1> QED BY <1>2, <1>3

LEMMA LoginActionsAre ==
    ASSUME Written, NEW c \in Configs
    PROVE  /\ login_render(c).actions \in Seq(LoginActions(c))
           /\ ToSet(login_render(c).actions) = LoginActions(c)
<1>1. PICK us : us = users(c)
  OBVIOUS
<1>2. us \in Seq(DOMAIN c.login) /\ ToSet(us) = DOMAIN c.login
  BY <1>1, UsersAre
<1>3. PICK n \in Nat : n = Len(us)
  BY <1>2
<1>4. PICK seqs : seqs = [i \in 1..n |-> AccountActions(c, us[i])]
  OBVIOUS
<1>5. login_render(c).actions = FlattenSeq(seqs)
  BY <1>1, <1>3, <1>4 DEF login_render, Artifacts, AccountActions, Ensure, Pass
<1>6. \A i \in 1..n : us[i] \in DOMAIN c.login
  BY <1>2, <1>3
<1>7. seqs \in [1..n -> Seq(LoginActions(c))]
  BY <1>4, <1>6, AccountActionsAre
<1>8. FlattenSeq(seqs) \in Seq(LoginActions(c)) /\ ToSet(FlattenSeq(seqs)) = Members(seqs, n)
  BY <1>7, Flattened
<1>9. ASSUME NEW k \in DOMAIN c.login PROVE ToSet(AccountActions(c, k)) \subseteq Members(seqs, n)
  <2>1. PICK i \in 1..n : us[i] = k
    BY <1>2, <1>3, InRange
  <2>2. seqs[i] = AccountActions(c, k)
    BY <1>4, <2>1
  <2> QED BY <2>2 DEF Members
<1>10. ASSUME NEW x \in LoginActions(c) PROVE x \in Members(seqs, n)
  <2>1. CASE \E k \in DOMAIN c.login : x = Ensure(k)
    BY <1>9, <2>1, AccountActionsAre
  <2>2. CASE \E k \in WithPassword(c) : x = Pass(k, c.login[k])
    <3>1. PICK k \in WithPassword(c) : x = Pass(k, c.login[k])
      BY <2>2
    <3>2. k \in DOMAIN c.login
      BY DEF WithPassword
    <3> QED BY <1>9, <3>1, <3>2, AccountActionsAre
  <2> QED BY <2>1, <2>2 DEF LoginActions
<1>11. ToSet(FlattenSeq(seqs)) \subseteq LoginActions(c)
  <2>1. PICK q : q = FlattenSeq(seqs)
    OBVIOUS
  <2>2. q \in Seq(LoginActions(c))
    BY <1>8, <2>1
  <2> QED BY <2>1, <2>2, InRange
<1> QED BY <1>5, <1>8, <1>10, <1>11

\* The accounts login's artifacts name are the configuration's.
LEMMA NamedAre ==
    ASSUME Written, NEW c \in Configs
    PROVE  named(login_render(c)) = DOMAIN c.login
<1>1. PICK s : s = login_render(c).actions
  OBVIOUS
<1>2. s \in Seq(LoginActions(c)) /\ ToSet(s) = LoginActions(c)
  BY <1>1, LoginActionsAre
<1>3. named(login_render(c)) = {s[i].name : i \in {j \in 1..Len(s) : s[j].act = "EnsureAccount"}}
  BY <1>1 DEF named
<1>4. ASSUME NEW j \in 1..Len(s), s[j].act = "EnsureAccount" PROVE s[j].name \in DOMAIN c.login
  <2>1. s[j] \in LoginActions(c)
    BY <1>2
  <2>2. \A n, h : Pass(n, h).act = "SetPassword" /\ Ensure(n).name = n
    BY DEF Pass, Ensure
  <2>3. PICK n \in DOMAIN c.login : s[j] = Ensure(n)
    BY <1>4, <2>1, <2>2 DEF LoginActions
  <2> QED BY <2>2, <2>3
<1>5. ASSUME NEW n \in DOMAIN c.login
      PROVE  \E j \in 1..Len(s) : s[j].act = "EnsureAccount" /\ s[j].name = n
  <2>1. Ensure(n) \in ToSet(s)
    BY <1>2 DEF LoginActions
  <2>2. PICK j \in 1..Len(s) : s[j] = Ensure(n)
    BY <1>2, <2>1, InRange
  <2> QED BY <2>2 DEF Ensure
<1> QED BY <1>3, <1>4, <1>5

\* check lets nobody be configured, or somebody who can log in.
LEMMA SomebodyUsable ==
    ASSUME Written, NEW c \in Configs, login_check(login_render(c)), DOMAIN c.login # {}
    PROVE  \E n \in WithPassword(c) : c.login[n] # Disabled
<1>1. PICK s : s = login_render(c).actions
  OBVIOUS
<1>2. s \in Seq(LoginActions(c))
  BY <1>1, LoginActionsAre
<1>3. PICK j \in 1..Len(s) : s[j].act = "SetPassword" /\ s[j].hash # Disabled
  BY <1>1, NamedAre DEF login_check
<1>4. s[j] \in LoginActions(c)
  BY <1>2
<1>5. \A n, h : Ensure(n).act = "EnsureAccount" /\ Pass(n, h).hash = h
  BY DEF Ensure, Pass
<1>6. PICK n \in WithPassword(c) : s[j] = Pass(n, c.login[n])
  BY <1>3, <1>4, <1>5 DEF LoginActions
<1> QED BY <1>3, <1>5, <1>6

\* The accounts a record names.
Before(previous) == IF previous = <<>> THEN {} ELSE named(previous[1])

LEMMA RemovalsAre ==
    ASSUME Written, NEW c \in Configs, NEW previous,
           previous = <<>> \/ \E d \in Configs : previous = <<login_render(d)>>
    PROVE  /\ Commands(removals(previous, login_render(c))) \in Seq(Removals(c))
           /\ Before(previous) \subseteq DOMAIN c.login =>
                 Commands(removals(previous, login_render(c))) = <<>>
<1>1. PICK before : before = IF previous = <<>> THEN {} ELSE named(previous[1])
  OBVIOUS
<1>2. before \subseteq Anybody
  <2>1. CASE previous = <<>>
    BY <1>1, <2>1
  <2>2. ASSUME NEW d \in Configs, previous = <<login_render(d)>> PROVE before \subseteq Anybody
    <3>1. previous # <<>> /\ previous[1] = login_render(d)
      BY <2>2
    <3>2. before = DOMAIN d.login
      BY <1>1, <3>1, NamedAre
    <3> QED BY <3>2 DEF Anybody
  <2> QED BY <2>1, <2>2
<1>3. PICK gone : gone = before \ DOMAIN c.login
  OBVIOUS
<1>4. PICK order : order = InOrder(AccountOrder, gone)
  OBVIOUS
<1>5. order \in Seq(ToSet(AccountOrder) \cap gone)
  BY <1>4, InOrderIs DEF Written
<1>6. removals(previous, login_render(c)) = [i \in 1..Len(order) |-> [act |-> "RemoveAccount", name |-> order[i]]]
  BY <1>1, <1>3, <1>4, NamedAre DEF removals
<1>7. PICK n \in Nat : n = Len(order)
  BY <1>5
<1>8. PICK rs : rs = [i \in 1..n |-> [act |-> "RemoveAccount", name |-> order[i]]]
  OBVIOUS
<1>9. Len(rs) = n
  BY <1>8
<1>10. ASSUME NEW i \in 1..n PROVE OpRun(argv(rs[i])) \in Removals(c)
  <2>1. order[i] \in gone
    BY <1>5, <1>7
  <2>2. rs[i].act = "RemoveAccount" /\ rs[i].name = order[i]
    BY <1>8
  <2>3. OpRun(argv(rs[i])) = UserDel(order[i])
    BY <2>2 DEF argv, UserDel
  <2> QED BY <1>2, <1>3, <2>1, <2>3 DEF Removals
<1>11. PICK ops : ops = [i \in 1..n |-> OpRun(argv(rs[i]))]
  OBVIOUS
<1>12. ops \in Seq(Removals(c))
  BY <1>10, <1>11
<1>13. ASSUME Before(previous) \subseteq DOMAIN c.login PROVE ops = <<>>
  <2>1. before \subseteq DOMAIN c.login
    BY <1>1, <1>13 DEF Before
  <2>2. \A i \in 1..n : order[i] \in gone
    BY <1>5, <1>7
  <2>3. n = 0
    BY <1>3, <1>7, <2>1, <2>2
  <2> QED BY <1>11, <2>3
<1>14. Commands(removals(previous, login_render(c))) = ops
  BY <1>6, <1>7, <1>8, <1>9, <1>11 DEF Commands
<1> QED BY <1>12, <1>13, <1>14

\* What LoginRenderer::apply asks for: the accounts and passwords, then the removals.
LEMMA LoginOps ==
    ASSUME Written, NEW c \in Configs, NEW previous,
           previous = <<>> \/ \E d \in Configs : previous = <<login_render(d)>>
    PROVE  \E s \in Seq(LoginWork(c)), t \in Seq(Removals(c)) :
              /\ login_apply(previous, login_render(c)) = s \o t /\ ToSet(s) = LoginWork(c)
              /\ Before(previous) \subseteq DOMAIN c.login => t = <<>>
<1>1. PICK acts : acts = login_render(c).actions
  OBVIOUS
<1>2. acts \in Seq(LoginActions(c)) /\ ToSet(acts) = LoginActions(c)
  BY <1>1, LoginActionsAre
<1>3. PICK n \in Nat : n = Len(acts)
  BY <1>2
<1> DEFINE op(x) == IF x.act = "SetPassword" THEN OpSecret(argv(x), x) ELSE OpRun(argv(x))
<1>4. /\ \A k : op(Ensure(k)) = Modify(k)
      /\ \A k, h : op(Pass(k, h)) = Secret(k, h)
  BY DEF Ensure, Modify, Pass, Secret, argv
<1>5. PICK s : s = [i \in 1..n |-> op(acts[i])]
  OBVIOUS
<1>6. login_apply(previous, login_render(c)) = s \o Commands(removals(previous, login_render(c)))
  BY <1>1, <1>3, <1>5 DEF login_apply
<1> HIDE DEF op
<1>7. ASSUME NEW x \in LoginActions(c) PROVE op(x) \in LoginWork(c)
  BY <1>4 DEF LoginActions, LoginWork
<1>8. s \in Seq(LoginWork(c)) /\ DOMAIN s = 1..n /\ Len(s) = n
  <2>1. \A i \in 1..n : acts[i] \in LoginActions(c)
    BY <1>2, <1>3
  <2> QED BY <1>5, <1>7, <2>1
<1>9. ASSUME NEW x \in LoginActions(c) PROVE op(x) \in ToSet(s)
  <2>1. PICK i \in 1..n : acts[i] = x
    BY <1>2, <1>3, InRange
  <2>2. s[i] = op(x)
    BY <1>5, <2>1
  <2> QED BY <1>8, <2>2, InRange
<1>10. ASSUME NEW w \in LoginWork(c) PROVE w \in ToSet(s)
  <2>1. CASE \E k \in DOMAIN c.login : w = Modify(k)
    <3>1. PICK k \in DOMAIN c.login : w = Modify(k)
      BY <2>1
    <3>2. Ensure(k) \in LoginActions(c)
      BY DEF LoginActions
    <3> QED BY <1>4, <1>9, <3>1, <3>2
  <2>2. CASE \E k \in WithPassword(c) : w = Secret(k, c.login[k])
    <3>1. PICK k \in WithPassword(c) : w = Secret(k, c.login[k])
      BY <2>2
    <3>2. Pass(k, c.login[k]) \in LoginActions(c)
      BY DEF LoginActions
    <3> QED BY <1>4, <1>9, <3>1, <3>2
  <2> QED BY <2>1, <2>2 DEF LoginWork
<1>11. ToSet(s) = LoginWork(c)
  BY <1>8, <1>10, InRange
<1> QED BY <1>6, <1>8, <1>11, RemovalsAre

-----------------------------------------------------------------------------
(* The networkd renderer *)

Network(c) == networkd_render(c)
NetWork(c) == {OpSync("net", Network(c).net), OpSync("link", Network(c).link)}
Rebuilds == {Rebuild(n) : n \in ToSet(DeviceOrder)} \cup {ReloadAll}

\* The files are managed ones, of interfaces that are configured.
LEMMA NetNames ==
    ASSUME Written, NEW c \in Configs
    PROVE  /\ \A n \in DOMAIN Network(c).net : Marked(n) /\ Device(n) \in ToSet(DeviceOrder)
           /\ \A n \in DOMAIN Network(c).link : Marked(n)
<1> DEFINE of(kinds)  == {i \in DOMAIN c.interfaces : i[1] \in kinds}
           physical   == of({"ethernet", "loopback"})
           virtual    == of(DOMAIN VIRTUAL)
           linked     == {i \in physical : link_file(c.interfaces[i], i[2]) # <<>>}
           File(i, ext) == FileName(IF i \in physical THEN "10" ELSE "20", i[2], ext)
<1>1. \A i, ext : Marked(File(i, ext)) /\ Device(File(i, ext)) = i[2]
  BY DEF Marked, Device, FileName
<1>2. /\ DOMAIN Network(c).net = {File(i, "network") : i \in physical \cup virtual} \cup {File(i, "netdev") : i \in virtual}
      /\ DOMAIN Network(c).link = {File(i, "link") : i \in linked}
  BY DEF Network, networkd_render, Artifacts, Over
<1> HIDE DEF File
<1>3. \A i \in physical \cup virtual : i[2] \in ToSet(DeviceOrder)
  BY DEF Written
<1>4. ASSUME NEW n \in DOMAIN Network(c).net PROVE Marked(n) /\ Device(n) \in ToSet(DeviceOrder)
  <2>1. PICK i \in physical \cup virtual, ext \in {"network", "netdev"} : n = File(i, ext)
    BY <1>2
  <2> QED BY <1>1, <1>3, <2>1
<1>5. ASSUME NEW n \in DOMAIN Network(c).link PROVE Marked(n)
  <2>1. PICK i \in linked : n = File(i, "link")
    BY <1>2
  <2> QED BY <1>1, <2>1
<1> QED BY <1>4, <1>5

\* What NetworkdRenderer::apply asks for.
LEMMA NetOps ==
    ASSUME Written, NEW c, NEW previous
    PROVE  /\ networkd_apply(previous, Network(c)) \in Seq(NetWork(c) \cup Rebuilds)
           /\ NetWork(c) \subseteq ToSet(networkd_apply(previous, Network(c)))
<1> DEFINE S == NetWork(c) \cup Rebuilds
<1>1. PICK a : a = Network(c)
  OBVIOUS
<1>2. PICK p, q : p = OpSync("net", a.net) /\ q = OpSync("link", a.link)
  OBVIOUS
<1>3. PICK rs : rs = recreations(previous, a)
  OBVIOUS
<1>4. PICK x, y, z : x = <<p, q>> /\ y = Commands(rs) /\ z = Commands(a.actions)
  OBVIOUS
<1>5. networkd_apply(previous, a) = (x \o y) \o z
  BY <1>2, <1>3, <1>4 DEF networkd_apply
<1>6. x \in Seq(S) /\ ToSet(x) = NetWork(c)
  <2>1. p \in S /\ q \in S /\ NetWork(c) = {p, q}
    BY <1>1, <1>2 DEF NetWork
  <2>2. <<p, q>> \in Seq(S)
    BY <2>1
  <2> QED BY <1>4, <2>1, <2>2, Few
<1>7. y \in Seq(S)
  <2>1. PICK gone : rs = LET order == InOrder(DeviceOrder, gone)
                         IN  [i \in 1..Len(order) |-> [act |-> "RecreateNetdev", name |-> order[i]]]
    BY <1>3 DEF recreations
  <2>2. PICK order : order = InOrder(DeviceOrder, gone)
    OBVIOUS
  <2>3. order \in Seq(ToSet(DeviceOrder) \cap gone)
    BY <2>2, InOrderIs DEF Written
  <2>4. PICK n \in Nat : n = Len(order)
    BY <2>3
  <2>5. rs = [i \in 1..n |-> [act |-> "RecreateNetdev", name |-> order[i]]]
    BY <2>1, <2>2, <2>4
  <2>6. Len(rs) = n
    BY <2>5
  <2>7. ASSUME NEW i \in 1..n PROVE OpRun(argv(rs[i])) \in S
    <3>1. order[i] \in ToSet(DeviceOrder)
      BY <2>3, <2>4
    <3>2. rs[i].act = "RecreateNetdev" /\ rs[i].name = order[i]
      BY <2>5
    <3>3. OpRun(argv(rs[i])) = Rebuild(order[i])
      BY <3>2 DEF argv, Rebuild
    <3> QED BY <3>1, <3>3 DEF Rebuilds
  <2>8. y = [i \in 1..n |-> OpRun(argv(rs[i]))]
    BY <1>4, <2>6 DEF Commands
  <2> HIDE DEF S
  <2> QED BY <2>7, <2>8
<1>8. z \in Seq(S)
  <2>1. a.actions = <<[act |-> "ReloadNetworkd"]>>
    BY <1>1 DEF Network, networkd_render, Artifacts
  <2>2. Len(a.actions) = 1 /\ a.actions[1].act = "ReloadNetworkd"
    BY <2>1
  <2>3. OpRun(argv(a.actions[1])) = ReloadAll
    BY <2>2 DEF argv, ReloadAll
  <2>4. z = [i \in 1..1 |-> OpRun(argv(a.actions[i]))]
    BY <1>4, <2>2 DEF Commands
  <2>5. ReloadAll \in S
    BY DEF Rebuilds
  <2>6. \A i \in 1..1 : OpRun(argv(a.actions[i])) \in S
    BY <2>3, <2>5
  <2> HIDE DEF S
  <2> QED BY <2>4, <2>6
<1> HIDE DEF S
<1>9. PICK xy : xy = x \o y
  OBVIOUS
<1>10. xy \in Seq(S) /\ ToSet(xy) = ToSet(x) \cup ToSet(y)
  BY <1>6, <1>7, <1>9, Joined
<1>11. xy \o z \in Seq(S) /\ ToSet(xy \o z) = ToSet(xy) \cup ToSet(z)
  BY <1>8, <1>10, Joined
<1> QED BY <1>1, <1>5, <1>6, <1>9, <1>10, <1>11 DEF S

-----------------------------------------------------------------------------
(* What the operations of a call do to the box, and leave alone *)

Fields == {"net", "link", "files", "name", "zone", "users", "devices"}
Left(op, m) == Done(op, m) \cup Halfway(op, m)

\* The box has what the operation was asked for.  A sync makes no promise here about
\* the files it wrote: another process may remove one, and verify looks.
Holds(op, m) ==
    /\ op.op = "write" => op.path \in DOMAIN m.files /\ m.files[op.path] = op.text
    /\ op.op = "run" /\ op.argv[1] = "hostnamectl" => m.name = op.argv[2]
    /\ op.op = "run" /\ op.argv[1] = "timedatectl" => m.zone = op.argv[2]
    /\ op.op = "run" /\ op.argv[1] = "usermod" => op.argv[2] \in DOMAIN m.users
    /\ op.op = "secret" => /\ op.secret.name \in DOMAIN m.users
                           /\ m.users[op.secret.name] = op.secret.hash
    /\ op.op = "sync" /\ op.dir = "net" =>
          \A n \in DOMAIN m.net : Marked(n) => n \in DOMAIN op.files
    /\ op.op = "sync" /\ op.dir = "link" =>
          \A n \in DOMAIN m.link : Marked(n) => n \in DOMAIN op.files

LEMMA HoldsRun ==
    ASSUME NEW m, NEW n
    PROVE  /\ Holds(HostName(n), m) <=> m.name = n
           /\ Holds(TimeZone(n), m) <=> m.zone = n
           /\ Holds(Modify(n), m) <=> n \in DOMAIN m.users
<1>1. \A name : Holds(OpRun(<<name, n>>), m) <=>
                   /\ name = "hostnamectl" => m.name = n
                   /\ name = "timedatectl" => m.zone = n
                   /\ name = "usermod" => n \in DOMAIN m.users
  <2> SUFFICES ASSUME NEW name, NEW line, line = <<name, n>>
               PROVE  Holds(OpRun(line), m) <=>
                        /\ name = "hostnamectl" => m.name = n
                        /\ name = "timedatectl" => m.zone = n
                        /\ name = "usermod" => n \in DOMAIN m.users
    OBVIOUS
  <2>1. line[1] = name /\ line[2] = n
    OBVIOUS
  <2> QED BY <2>1 DEF Holds, OpRun
<1>2. Holds(HostName(n), m) <=> m.name = n
  BY <1>1 DEF HostName
<1>3. Holds(TimeZone(n), m) <=> m.zone = n
  BY <1>1 DEF TimeZone
<1>4. Holds(Modify(n), m) <=> n \in DOMAIN m.users
  BY <1>1 DEF Modify
<1> QED BY <1>2, <1>3, <1>4

LEMMA HoldsFiles ==
    ASSUME NEW m, NEW n, NEW t
    PROVE  /\ Holds(OpWrite(n, t), m) <=> n \in DOMAIN m.files /\ m.files[n] = t
           /\ Holds(Secret(n, t), m) <=> n \in DOMAIN m.users /\ m.users[n] = t
BY DEF Holds, OpWrite, Secret, OpSecret, Pass

LEMMA HoldsSync ==
    ASSUME NEW m, NEW f
    PROVE  /\ Holds(OpSync("net", f), m) <=> \A k \in DOMAIN m.net : Marked(k) => k \in DOMAIN f
           /\ Holds(OpSync("link", f), m) <=> \A k \in DOMAIN m.link : Marked(k) => k \in DOMAIN f
BY DEF Holds, OpSync

\* A leaf has one value.
LEMMA OneValue ==
    ASSUME NEW c, NEW field, NEW x \in ToSet(value(c, field)), NEW y \in ToSet(value(c, field))
    PROVE  x = y
<1>1. PICK v : v = c.system[field]
  OBVIOUS
<1>2. ToSet(value(c, field)) \subseteq {v}
  BY <1>1, Few DEF value
<1> QED BY <1>2

LEMMA SystemKinds ==
    ASSUME NEW c, NEW w \in SystemWork(c)
    PROVE  \/ \E p, t : w = OpWrite(p, t)
           \/ \E h \in ToSet(value(c, "host-name")) : w = HostName(h)
           \/ \E z \in ToSet(value(c, "time-zone")) : w = TimeZone(z)
BY Zenon DEF SystemWork, Resolv, Hosts

LEMMA SystemEffect ==
    ASSUME NEW c, NEW m, DOMAIN m = Fields, NEW op \in SystemWork(c), NEW b \in Left(op, m)
    PROVE  /\ DOMAIN b = Fields
           /\ b.net = m.net /\ b.link = m.link /\ b.users = m.users /\ b.devices = m.devices
           /\ b \in Done(op, m) => Holds(op, b) /\ \A w \in SystemWork(c) : Holds(w, m) => Holds(w, b)
<1>1. ASSUME NEW p, NEW t, op = OpWrite(p, t),
             \A s : s # t => OpWrite(p, s) \notin SystemWork(c)
      PROVE  /\ DOMAIN b = Fields
             /\ b.net = m.net /\ b.link = m.link /\ b.users = m.users /\ b.devices = m.devices
             /\ b \in Done(op, m) => Holds(op, b) /\ \A w \in SystemWork(c) : Holds(w, m) => Holds(w, b)
  <2>1. b = [m EXCEPT !.files = Over(Only(p, t), @)] \/ (b = m /\ (b \in Done(op, m) => b = [m EXCEPT !.files = Over(Only(p, t), @)]))
    BY <1>1, WriteDone DEF Left
  <2>2. DOMAIN b = Fields /\ b.net = m.net /\ b.link = m.link /\ b.users = m.users /\ b.devices = m.devices
        /\ b.name = m.name /\ b.zone = m.zone
    BY <2>1 DEF Fields
  <2>3. ASSUME b \in Done(op, m) PROVE Holds(op, b) /\ \A w \in SystemWork(c) : Holds(w, m) => Holds(w, b)
    <3>1. b.files = Over(Only(p, t), m.files)
      BY <2>1, <2>3 DEF Fields
    <3>2. p \in DOMAIN b.files /\ b.files[p] = t /\ \A x \in DOMAIN m.files : x # p => x \in DOMAIN b.files /\ b.files[x] = m.files[x]
      BY <3>1 DEF Over, Only
    <3>3. ASSUME NEW w \in SystemWork(c), Holds(w, m) PROVE Holds(w, b)
      <4>1. ASSUME NEW x, NEW s, w = OpWrite(x, s) PROVE Holds(w, b)
        <5>1. x # p \/ s = t
          BY <1>1, <4>1
        <5>2. x \in DOMAIN m.files /\ m.files[x] = s
          BY <3>3, <4>1, HoldsFiles, HoldsRun
        <5>3. x \in DOMAIN b.files /\ b.files[x] = s
          BY <3>2, <5>1, <5>2
        <5> QED BY <4>1, <5>3, HoldsFiles, HoldsRun
      <4>2. ASSUME NEW h, w = HostName(h) \/ w = TimeZone(h) PROVE Holds(w, b)
        <5>1. /\ Holds(HostName(h), m) => Holds(HostName(h), b)
              /\ Holds(TimeZone(h), m) => Holds(TimeZone(h), b)
          BY <2>2, HoldsRun
        <5> QED BY <3>3, <4>2, <5>1
      <4>3. \/ \E y, u : w = OpWrite(y, u)
            \/ \E k \in ToSet(value(c, "host-name")) : w = HostName(k)
            \/ \E k \in ToSet(value(c, "time-zone")) : w = TimeZone(k)
        BY SystemKinds
      <4> QED BY <4>1, <4>2, <4>3, Zenon
    <3>4. Holds(op, b)
      BY <1>1, <3>2, HoldsFiles, HoldsRun
    <3> QED BY <3>3, <3>4
  <2> QED BY <2>2, <2>3
<1>2. ASSUME NEW h \in ToSet(value(c, "host-name")), op = HostName(h)
      PROVE  /\ DOMAIN b = Fields
             /\ b.net = m.net /\ b.link = m.link /\ b.users = m.users /\ b.devices = m.devices
             /\ b \in Done(op, m) => Holds(op, b) /\ \A w \in SystemWork(c) : Holds(w, m) => Holds(w, b)
  <2>1. Halfway(op, m) = {m} /\ Done(op, m) = {[m EXCEPT !.name = h]}
    BY <1>2, RunDone, RunHalfway DEF HostName
  <2>2. DOMAIN b = Fields /\ b.net = m.net /\ b.link = m.link /\ b.users = m.users /\ b.devices = m.devices
        /\ b.files = m.files /\ b.zone = m.zone
    BY <2>1 DEF Fields, Left
  <2>3. ASSUME b \in Done(op, m) PROVE Holds(op, b) /\ \A w \in SystemWork(c) : Holds(w, m) => Holds(w, b)
    <3>1. b.name = h
      BY <2>1, <2>3 DEF Fields
    <3>2. \A k \in ToSet(value(c, "host-name")) : Holds(HostName(k), b)
      BY <3>1, HoldsFiles, HoldsRun, OneValue
    <3>3. ASSUME NEW w \in SystemWork(c), Holds(w, m) PROVE Holds(w, b)
      <4>1. ASSUME NEW x, NEW s, w = OpWrite(x, s) \/ w = TimeZone(x) PROVE Holds(w, b)
        <5>1. /\ Holds(OpWrite(x, s), m) => Holds(OpWrite(x, s), b)
              /\ Holds(TimeZone(x), m) => Holds(TimeZone(x), b)
          BY <2>2, HoldsFiles, HoldsRun
        <5> QED BY <3>3, <4>1, <5>1
      <4>2. \/ \E y, u : w = OpWrite(y, u)
            \/ \E k \in ToSet(value(c, "host-name")) : w = HostName(k)
            \/ \E k \in ToSet(value(c, "time-zone")) : w = TimeZone(k)
        BY SystemKinds
      <4> QED BY <3>2, <4>1, <4>2, Zenon
    <3> QED BY <1>2, <3>2, <3>3
  <2> QED BY <2>2, <2>3
<1>3. ASSUME NEW z \in ToSet(value(c, "time-zone")), op = TimeZone(z)
      PROVE  /\ DOMAIN b = Fields
             /\ b.net = m.net /\ b.link = m.link /\ b.users = m.users /\ b.devices = m.devices
             /\ b \in Done(op, m) => Holds(op, b) /\ \A w \in SystemWork(c) : Holds(w, m) => Holds(w, b)
  <2>1. Halfway(op, m) = {m} /\ Done(op, m) = {[m EXCEPT !.zone = z]}
    BY <1>3, RunDone, RunHalfway DEF TimeZone
  <2>2. DOMAIN b = Fields /\ b.net = m.net /\ b.link = m.link /\ b.users = m.users /\ b.devices = m.devices
        /\ b.files = m.files /\ b.name = m.name
    BY <2>1 DEF Fields, Left
  <2>3. ASSUME b \in Done(op, m) PROVE Holds(op, b) /\ \A w \in SystemWork(c) : Holds(w, m) => Holds(w, b)
    <3>1. b.zone = z
      BY <2>1, <2>3 DEF Fields
    <3>2. \A k \in ToSet(value(c, "time-zone")) : Holds(TimeZone(k), b)
      BY <3>1, HoldsFiles, HoldsRun, OneValue
    <3>3. ASSUME NEW w \in SystemWork(c), Holds(w, m) PROVE Holds(w, b)
      <4>1. ASSUME NEW x, NEW s, w = OpWrite(x, s) \/ w = HostName(x) PROVE Holds(w, b)
        <5>1. /\ Holds(OpWrite(x, s), m) => Holds(OpWrite(x, s), b)
              /\ Holds(HostName(x), m) => Holds(HostName(x), b)
          BY <2>2, HoldsFiles, HoldsRun
        <5> QED BY <3>3, <4>1, <5>1
      <4>2. \/ \E y, u : w = OpWrite(y, u)
            \/ \E k \in ToSet(value(c, "host-name")) : w = HostName(k)
            \/ \E k \in ToSet(value(c, "time-zone")) : w = TimeZone(k)
        BY SystemKinds
      <4> QED BY <3>2, <4>1, <4>2, Zenon
    <3> QED BY <1>3, <3>2, <3>3
  <2> QED BY <2>2, <2>3
<1>4. \A s : s # [search |-> value(c, "domain-name"), servers |-> c.servers] => OpWrite("resolv.conf", s) \notin SystemWork(c)
  BY DEF SystemWork, Resolv, Hosts, HostName, TimeZone, OpWrite, OpRun
<1>5. ASSUME NEW h \in ToSet(value(c, "host-name")), NEW s, OpWrite("hosts", s) \in SystemWork(c)
      PROVE  s = [name |-> h, domain |-> value(c, "domain-name")]
  <2>1. PICK k \in ToSet(value(c, "host-name")) : OpWrite("hosts", s) = Hosts(c, k)
    BY <1>5 DEF SystemWork, Resolv, Hosts, HostName, TimeZone, OpWrite, OpRun
  <2>2. k = h
    BY OneValue
  <2> QED BY <2>1, <2>2 DEF Hosts, OpWrite
<1>6. CASE op = Resolv(c)
  BY <1>1, <1>4, <1>6 DEF Resolv
<1>7. CASE \E h \in ToSet(value(c, "host-name")) : op = Hosts(c, h)
  <2>1. PICK h \in ToSet(value(c, "host-name")) : op = Hosts(c, h)
    BY <1>7
  <2>2. PICK t : t = [name |-> h, domain |-> value(c, "domain-name")]
    OBVIOUS
  <2>3. op = OpWrite("hosts", t) /\ \A s : s # t => OpWrite("hosts", s) \notin SystemWork(c)
    BY <1>5, <2>1, <2>2 DEF Hosts
  <2> QED BY <1>1, <2>3
<1> QED BY <1>2, <1>3, <1>6, <1>7 DEF SystemWork

LEMMA RemoveApart ==
    ASSUME NEW c, NEW n
    PROVE  UserDel(n) \notin LoginWork(c)
<1>1. PICK line : line = <<"userdel", n>>
  OBVIOUS
<1>2. line[1] = "userdel"
  BY <1>1
<1>3. \A k : Modify(k) # OpRun(line)
  <2> SUFFICES ASSUME NEW k, NEW other, other = <<"usermod", k>> PROVE OpRun(other) # OpRun(line)
    BY DEF Modify
  <2>1. other[1] = "usermod"
    OBVIOUS
  <2>2. other # line
    BY <1>2, <2>1
  <2> QED BY <2>2 DEF OpRun
<1>4. \A k, h : Secret(k, h) # OpRun(line)
  BY DEF Secret, OpSecret, OpRun
<1> QED BY <1>1, <1>3, <1>4 DEF LoginWork, UserDel

LEMMA LoginEffect ==
    ASSUME NEW c, NEW m, DOMAIN m = Fields, NEW op \in LoginWork(c) \cup Removals(c), NEW b \in Left(op, m)
    PROVE  /\ DOMAIN b = Fields
           /\ b.net = m.net /\ b.link = m.link /\ b.files = m.files /\ b.name = m.name /\ b.zone = m.zone
           /\ b.devices = m.devices
           /\ DOMAIN b.users \subseteq DOMAIN m.users
           /\ op \in LoginWork(c) => DOMAIN b.users = DOMAIN m.users
           /\ b \in Done(op, m) => /\ op \in LoginWork(c) => Holds(op, b)
                                   /\ \A w \in LoginWork(c) : Holds(w, m) => Holds(w, b)
<1> DEFINE Same == /\ DOMAIN b = Fields
                   /\ b.net = m.net /\ b.link = m.link /\ b.files = m.files /\ b.name = m.name /\ b.zone = m.zone
                   /\ b.devices = m.devices
           Kept == \A w \in LoginWork(c) : Holds(w, m) => Holds(w, b)
<1>1. ASSUME NEW w \in LoginWork(c), Holds(w, m),
             \A n \in DOMAIN c.login : n \in DOMAIN m.users =>
                 /\ n \in DOMAIN b.users
                 /\ b.users[n] = m.users[n] \/ b.users[n] = c.login[n]
      PROVE  Holds(w, b)
  <2>1. CASE \E n \in DOMAIN c.login : w = Modify(n)
    <3>1. PICK n \in DOMAIN c.login : w = Modify(n)
      BY <2>1
    <3> QED BY <1>1, <3>1, HoldsRun
  <2>2. CASE \E n \in WithPassword(c) : w = Secret(n, c.login[n])
    <3>1. PICK n \in WithPassword(c) : w = Secret(n, c.login[n])
      BY <2>2
    <3>2. PICK h : h = c.login[n]
      OBVIOUS
    <3>3. n \in DOMAIN m.users /\ m.users[n] = h
      BY <1>1, <3>1, <3>2, HoldsFiles
    <3>4. n \in DOMAIN b.users /\ b.users[n] = h
      BY <1>1, <3>2, <3>3 DEF WithPassword
    <3> QED BY <3>1, <3>2, <3>4, HoldsFiles
  <2> QED BY <2>1, <2>2 DEF LoginWork
<1>2. ASSUME NEW n \in DOMAIN c.login, op = Modify(n)
      PROVE  Same /\ b.users = m.users /\ (b \in Done(op, m) => Holds(op, b) /\ Kept)
  <2>1. b = m
    <3>1. Halfway(op, m) = {m}
      BY <1>2, RunHalfway DEF Modify
    <3>2. Done(op, m) = IF n \in DOMAIN m.users THEN {m} ELSE {}
      BY <1>2, RunDone
    <3> QED BY <3>1, <3>2 DEF Left
  <2>2. b \in Done(op, m) => n \in DOMAIN b.users
    BY <1>2, <2>1, RunDone
  <2> QED BY <1>2, <2>1, <2>2, HoldsRun
<1>3. ASSUME NEW n \in WithPassword(c), op = Secret(n, c.login[n])
      PROVE  Same /\ DOMAIN b.users = DOMAIN m.users /\ (b \in Done(op, m) => Holds(op, b) /\ Kept)
  <2>1. PICK h : h = c.login[n]
    OBVIOUS
  <2>2. Halfway(op, m) = {m} /\ Done(op, m) = IF n \in DOMAIN m.users THEN {[m EXCEPT !.users[n] = h]} ELSE {}
    BY <1>3, <2>1, SecretDone, RunHalfway DEF Secret
  <2>3. b = m \/ (n \in DOMAIN m.users /\ b = [m EXCEPT !.users[n] = h])
    BY <2>2 DEF Left
  <2>4. Same /\ DOMAIN b.users = DOMAIN m.users
    BY <2>3 DEF Fields
  <2>5. ASSUME b \in Done(op, m) PROVE Holds(op, b) /\ Kept
    <3>1. n \in DOMAIN m.users /\ b = [m EXCEPT !.users[n] = h]
      BY <2>2, <2>5
    <3>2. b.users = [m.users EXCEPT ![n] = h]
      BY <3>1 DEF Fields
    <3>3. \A k \in DOMAIN m.users : b.users[k] = IF k = n THEN h ELSE m.users[k]
      BY <3>2
    <3>4. Holds(op, b)
      BY <1>3, <2>1, <2>4, <3>1, <3>3, HoldsFiles
    <3> QED BY <1>1, <2>1, <2>4, <3>3, <3>4
  <2> QED BY <2>4, <2>5
<1>4. ASSUME NEW n \in Anybody \ DOMAIN c.login, op = UserDel(n)
      PROVE  Same /\ DOMAIN b.users \subseteq DOMAIN m.users /\ op \notin LoginWork(c) /\ (b \in Done(op, m) => Kept)
  <2>1. /\ Halfway(op, m) = {m}
        /\ Done(op, m) = IF n \in DOMAIN m.users THEN {[m EXCEPT !.users = Without(@, n)]} ELSE {}
    BY <1>4, RunDone, RunHalfway DEF UserDel
  <2>2. b = m \/ b = [m EXCEPT !.users = Without(@, n)]
    BY <2>1 DEF Left
  <2>3. Same
    BY <2>2 DEF Fields
  <2>4. b.users = m.users \/ b.users = Without(m.users, n)
    BY <2>2 DEF Fields
  <2>5. DOMAIN b.users \subseteq DOMAIN m.users
        /\ \A k \in DOMAIN m.users : k # n => k \in DOMAIN b.users /\ b.users[k] = m.users[k]
    BY <2>4 DEF Without
  <2>6. Kept
    BY <1>1, <1>4, <2>5
  <2> QED BY <1>4, <2>3, <2>5, <2>6, RemoveApart
<1>5. \/ \E n \in DOMAIN c.login : op = Modify(n)
      \/ \E n \in WithPassword(c) : op = Secret(n, c.login[n])
      \/ \E n \in Anybody \ DOMAIN c.login : op = UserDel(n)
  BY Zenon DEF LoginWork, Removals
<1> HIDE DEF Same, Kept
<1>6. Same /\ DOMAIN b.users \subseteq DOMAIN m.users /\ (op \in LoginWork(c) => DOMAIN b.users = DOMAIN m.users)
  BY <1>2, <1>3, <1>4, <1>5
<1>7. b \in Done(op, m) => (op \in LoginWork(c) => Holds(op, b)) /\ Kept
  BY <1>2, <1>3, <1>4, <1>5
<1> QED BY <1>6, <1>7 DEF Same, Kept

LEMMA SyncKeeps ==
    ASSUME NEW old, NEW f, NEW g, g = Sync(old, f) \/ g \in SyncHalfway(old, f)
    PROVE  /\ DOMAIN g \subseteq DOMAIN old \cup DOMAIN f
           /\ \A n \in DOMAIN old : ~Marked(n) => n \in DOMAIN g
           /\ g = Sync(old, f) => \A n \in DOMAIN g : Marked(n) => n \in DOMAIN f
<1>1. CASE g = Sync(old, f)
  <2>1. DOMAIN g = DOMAIN f \cup {n \in DOMAIN old : ~Marked(n)}
    BY <1>1 DEF Sync
  <2> QED BY <2>1
<1>2. CASE g \in SyncHalfway(old, f) /\ g # Sync(old, f)
  <2> DEFINE stale == {n \in DOMAIN old : Marked(n) /\ n \notin DOMAIN f}
  <2>1. \/ \E w \in SUBSET DOMAIN f : DOMAIN g = DOMAIN old \cup w
        \/ \E gone \in SUBSET stale : DOMAIN g = (DOMAIN old \cup DOMAIN f) \ gone
    BY <1>2 DEF SyncHalfway
  <2>2. CASE \E w \in SUBSET DOMAIN f : DOMAIN g = DOMAIN old \cup w
    BY <1>2, <2>2
  <2>3. CASE \E gone \in SUBSET stale : DOMAIN g = (DOMAIN old \cup DOMAIN f) \ gone
    BY <1>2, <2>3
  <2> QED BY <2>1, <2>2, <2>3
<1> QED BY <1>1, <1>2

LEMMA NetApart ==
    ASSUME NEW c, NEW w \in NetWork(c), NEW n
    PROVE  w # ReloadAll /\ w # Rebuild(n)
BY DEF NetWork, OpSync, ReloadAll, Rebuild, OpRun

LEMMA NetEffect ==
    ASSUME NEW c, NEW m, DOMAIN m = Fields, NEW op \in NetWork(c) \cup Rebuilds, NEW b \in Left(op, m)
    PROVE  /\ DOMAIN b = Fields
           /\ b.files = m.files /\ b.name = m.name /\ b.zone = m.zone /\ b.users = m.users
           /\ DOMAIN b.net \subseteq DOMAIN m.net \cup DOMAIN Network(c).net
           /\ \A n \in DOMAIN m.net : ~Marked(n) => n \in DOMAIN b.net
           /\ \A n \in DOMAIN m.link : ~Marked(n) => n \in DOMAIN b.link
           /\ \A d \in DOMAIN b.devices :
                 d \in DOMAIN m.devices \/ \E n \in DOMAIN m.net : Extension(n) = "netdev" /\ Device(n) = d
           /\ b \in Done(op, m) => /\ op \in NetWork(c) => Holds(op, b)
                                   /\ \A w \in NetWork(c) : Holds(w, m) => Holds(w, b)
<1> DEFINE Same == /\ DOMAIN b = Fields
                   /\ b.files = m.files /\ b.name = m.name /\ b.zone = m.zone /\ b.users = m.users
           Files == /\ DOMAIN b.net \subseteq DOMAIN m.net \cup DOMAIN Network(c).net
                    /\ \A n \in DOMAIN m.net : ~Marked(n) => n \in DOMAIN b.net
                    /\ \A n \in DOMAIN m.link : ~Marked(n) => n \in DOMAIN b.link
           Devices == \A d \in DOMAIN b.devices :
                         d \in DOMAIN m.devices \/ \E n \in DOMAIN m.net : Extension(n) = "netdev" /\ Device(n) = d
           Kept == \A w \in NetWork(c) : Holds(w, m) => Holds(w, b)
<1>1. PICK f, l : f = Network(c).net /\ l = Network(c).link
  OBVIOUS
<1>2. NetWork(c) = {OpSync("net", f), OpSync("link", l)}
  BY <1>1 DEF NetWork
<1>3. ASSUME \A k \in DOMAIN b.net : Marked(k) => k \in DOMAIN f \/ k \in DOMAIN m.net,
             \A k \in DOMAIN b.link : Marked(k) => k \in DOMAIN l \/ k \in DOMAIN m.link
      PROVE  Kept
  <2>1. Holds(OpSync("net", f), m) => Holds(OpSync("net", f), b)
    BY <1>3, HoldsSync
  <2>2. Holds(OpSync("link", l), m) => Holds(OpSync("link", l), b)
    BY <1>3, HoldsSync
  <2> QED BY <1>2, <2>1, <2>2
<1>4. ASSUME op = OpSync("net", f)
      PROVE  Same /\ Files /\ Devices /\ (b \in Done(op, m) => Holds(op, b) /\ Kept)
  <2>1. /\ Done(op, m) = {[m EXCEPT !.net = Sync(@, f)]}
        /\ Halfway(op, m) = {[m EXCEPT !.net = g] : g \in SyncHalfway(m.net, f)}
    BY <1>4, SyncDone
  <2>2. \E g : b = [m EXCEPT !.net = g] /\ (g = Sync(m.net, f) \/ g \in SyncHalfway(m.net, f))
    BY <2>1 DEF Left, Fields
  <2>3. PICK g : b = [m EXCEPT !.net = g] /\ (g = Sync(m.net, f) \/ g \in SyncHalfway(m.net, f))
    BY <2>2
  <2>4. Same /\ b.net = g /\ b.link = m.link /\ b.devices = m.devices
    BY <2>3 DEF Fields
  <2>5. DOMAIN g \subseteq DOMAIN m.net \cup DOMAIN f /\ \A n \in DOMAIN m.net : ~Marked(n) => n \in DOMAIN g
    BY <2>3, SyncKeeps
  <2>6. b \in Done(op, m) => g = Sync(m.net, f)
    BY <2>1, <2>4 DEF Fields
  <2>7. b \in Done(op, m) => \A n \in DOMAIN g : Marked(n) => n \in DOMAIN f
    BY <2>3, <2>6, SyncKeeps
  <2>8. b \in Done(op, m) => Holds(op, b)
    BY <1>4, <2>4, <2>7, HoldsSync
  <2>9. Kept
    BY <1>3, <2>4, <2>5
  <2>10. Files /\ Devices
    BY <1>1, <2>4, <2>5
  <2> QED BY <2>4, <2>8, <2>9, <2>10
<1>5. ASSUME op = OpSync("link", l)
      PROVE  Same /\ Files /\ Devices /\ (b \in Done(op, m) => Holds(op, b) /\ Kept)
  <2>1. /\ Done(op, m) = {[m EXCEPT !.link = Sync(@, l)]}
        /\ Halfway(op, m) = {[m EXCEPT !.link = g] : g \in SyncHalfway(m.link, l)}
    BY <1>5, SyncDone
  <2>2. \E g : b = [m EXCEPT !.link = g] /\ (g = Sync(m.link, l) \/ g \in SyncHalfway(m.link, l))
    BY <2>1 DEF Left, Fields
  <2>3. PICK g : b = [m EXCEPT !.link = g] /\ (g = Sync(m.link, l) \/ g \in SyncHalfway(m.link, l))
    BY <2>2
  <2>4. Same /\ b.link = g /\ b.net = m.net /\ b.devices = m.devices
    BY <2>3 DEF Fields
  <2>5. DOMAIN g \subseteq DOMAIN m.link \cup DOMAIN l /\ \A n \in DOMAIN m.link : ~Marked(n) => n \in DOMAIN g
    BY <2>3, SyncKeeps
  <2>6. b \in Done(op, m) => g = Sync(m.link, l)
    BY <2>1, <2>4 DEF Fields
  <2>7. b \in Done(op, m) => \A n \in DOMAIN g : Marked(n) => n \in DOMAIN l
    BY <2>3, <2>6, SyncKeeps
  <2>8. b \in Done(op, m) => Holds(op, b)
    BY <1>5, <2>4, <2>7, HoldsSync
  <2>9. Kept
    BY <1>3, <2>4, <2>5
  <2>10. Files /\ Devices
    BY <2>4, <2>5
  <2> QED BY <2>4, <2>8, <2>9, <2>10
<1>6. ASSUME NEW n, op = Rebuild(n)
      PROVE  Same /\ Files /\ Devices /\ op \notin NetWork(c) /\ Kept
  <2>1. Halfway(op, m) = {m}
    BY <1>6, RunHalfway DEF Rebuild
  <2>2. Done(op, m) = IF n \in DOMAIN m.devices THEN {[m EXCEPT !.devices = Without(@, n)]} ELSE {}
    BY <1>6, RunDone
  <2>3. b = m \/ b = [m EXCEPT !.devices = Without(@, n)]
    BY <2>1, <2>2 DEF Left
  <2>4. Same /\ b.net = m.net /\ b.link = m.link /\ (b.devices = m.devices \/ b.devices = Without(m.devices, n))
    BY <2>3 DEF Fields
  <2>5. Kept
    BY <1>3, <2>4
  <2>6. Files /\ Devices
    BY <2>4 DEF Without
  <2> QED BY <1>6, <2>4, <2>5, <2>6, NetApart
<1>7. ASSUME op = ReloadAll
      PROVE  Same /\ Files /\ Devices /\ op \notin NetWork(c) /\ Kept
  <2>1. Halfway(op, m) = {m}
    BY <1>7, RunHalfway DEF ReloadAll
  <2>2. Done(op, m) = {Reload(m)}
    BY <1>7, RunDone
  <2>3. PICK new : /\ new = {n \in {k \in DOMAIN m.net : Extension(k) = "netdev"} : Device(n) \notin DOMAIN m.devices}
                   /\ Reload(m) = [m EXCEPT !.devices =
                         [d \in DOMAIN m.devices \cup {Device(n) : n \in new} |->
                             IF d \in DOMAIN m.devices THEN m.devices[d]
                             ELSE m.net[CHOOSE n \in new : Device(n) = d]]]
    BY DEF Reload
  <2>4. PICK g : /\ g = [d \in DOMAIN m.devices \cup {Device(n) : n \in new} |->
                             IF d \in DOMAIN m.devices THEN m.devices[d]
                             ELSE m.net[CHOOSE n \in new : Device(n) = d]]
    OBVIOUS
  <2>5. Reload(m) = [m EXCEPT !.devices = g] /\ DOMAIN g = DOMAIN m.devices \cup {Device(n) : n \in new}
    BY <2>3, <2>4
  <2>6. b = m \/ b = [m EXCEPT !.devices = g]
    BY <2>1, <2>2, <2>5 DEF Left
  <2>7. Same /\ b.net = m.net /\ b.link = m.link /\ (b.devices = m.devices \/ b.devices = g)
    BY <2>6 DEF Fields
  <2>8. Devices
    BY <2>3, <2>5, <2>7
  <2>9. Kept
    BY <1>3, <2>7
  <2>10. Files
    BY <2>7
  <2> QED BY <1>7, <2>7, <2>8, <2>9, <2>10, NetApart
<1>8. op = OpSync("net", f) \/ op = OpSync("link", l) \/ op = ReloadAll \/ \E n : op = Rebuild(n)
  BY <1>2 DEF Rebuilds
<1> HIDE DEF Same, Files, Devices, Kept
<1>9. Same /\ Files /\ Devices
  BY <1>4, <1>5, <1>6, <1>7, <1>8
<1>10. b \in Done(op, m) => (op \in NetWork(c) => Holds(op, b)) /\ Kept
  BY <1>4, <1>5, <1>6, <1>7, <1>8
<1> QED BY <1>9, <1>10 DEF Same, Files, Devices, Kept

-----------------------------------------------------------------------------
(* The inductive invariant *)

\* What renderer r's apply has to do for c, and what it may do besides.
Work(r, c) == CASE r = 1 -> SystemWork(c) [] r = 2 -> LoginWork(c) [] r = 3 -> NetWork(c)
Extra(r, c) == CASE r = 1 -> {} [] r = 2 -> Removals(c) [] r = 3 -> Rebuilds

\* Removals come last.
RemovalsLast(c, s) ==
    \A i, j \in 1..Len(s) : i < j /\ s[i] \in Removals(c) => s[j] \in Removals(c)

Asked(r, c, s) == s \in Seq(Work(r, c) \cup Extra(r, c)) /\ (r = 2 => RemovalsLast(c, s))

\* Renderer r's apply, with s left to do: whatever it has to do is ahead of it or done.
Doing(r, c, s, m) == Asked(r, c, s) /\ \A w \in Work(r, c) : w \in ToSet(s) \/ Holds(w, m)
\* No account is among those to remove.
Repeats(r, c, s) == r = 2 => ToSet(s) \subseteq LoginWork(c)
There(r, c, m) == \A w \in Work(r, c) : Holds(w, m)

BoxOK(m) ==
    /\ DOMAIN m = Fields
    /\ DOMAIN m.users \subseteq ToSet(AccountOrder)
    /\ DOMAIN m.devices \subseteq ToSet(DeviceOrder)
    /\ \A n \in DOMAIN m.net : Extension(n) = "netdev" => Device(n) \in ToSet(DeviceOrder)
    /\ ForeignLink \in DOMAIN m.link

\* A record is what was rendered of a configuration that passed its checks.
RecordsOK ==
    /\ DOMAIN last = Renderers
    /\ \A r \in Renderers :
          last[r] = <<>> \/ \E d \in Configs : Checked(d) /\ last[r] = <<Rendered(d)[r]>>

\* How far the call has got with its configuration.
Reached(c) ==
    /\ phase = "apply" => /\ Doing(at, c, todo, box)
                          /\ \A r \in Renderers : r < at => There(r, c, box)
    /\ phase # "apply" => /\ \A r \in Renderers : There(r, c, box)
                          /\ VerifyFiles(Rendered(c)[3], box)

Progress ==
    /\ phase = "idle" => at = 0 /\ todo = <<>>
    /\ phase \in {"apply", "restore", "remember"} => at \in Renderers
    /\ phase = "remember" => todo = <<>>
    /\ phase \in {"apply", "remember"} \/ Succeeded =>
          \E c \in Configs : Checked(c) /\ target = <<c>> /\ Reached(c)
    /\ phase = "restore" =>
          todo = <<>> \/ \E c \in Configs :
              Checked(c) /\ Doing(at, c, todo, box) /\ Repeats(at, c, todo)

Typed ==
    /\ phase \in {"idle", "apply", "restore", "remember"}
    /\ at \in 0..3
    /\ Len(target) \in {0, 1}
    /\ problems \in BOOLEAN
    /\ result \in {"none", "ok", "refused", "restored", "unrecovered", "cut", "rebooted"}
    /\ faulted \in BOOLEAN
    /\ sound \in BOOLEAN
    /\ calls \in 0..MaxCalls

IInv == Typed /\ BoxOK(box) /\ RecordsOK /\ Progress

LEMMA ThirdsAre ==
    /\ Renderers = {1, 2, 3}
    /\ \A c : /\ Work(1, c) = SystemWork(c) /\ Work(2, c) = LoginWork(c) /\ Work(3, c) = NetWork(c)
              /\ Extra(1, c) = {} /\ Extra(2, c) = Removals(c) /\ Extra(3, c) = Rebuilds
              /\ Rendered(c)[1] = system_render(c) /\ Rendered(c)[2] = login_render(c)
              /\ Rendered(c)[3] = Network(c)
    /\ \A a : /\ ApplyOps(1, a) = system_apply(a) /\ ApplyOps(2, a) = login_apply(last[2], a)
              /\ ApplyOps(3, a) = networkd_apply(last[3], a)
<1>1. Renderers = {1, 2, 3}
  BY DEF Renderers
<1>2. \A c : /\ Work(1, c) = SystemWork(c) /\ Work(2, c) = LoginWork(c) /\ Work(3, c) = NetWork(c)
             /\ Extra(1, c) = {} /\ Extra(2, c) = Removals(c) /\ Extra(3, c) = Rebuilds
  BY DEF Work, Extra
<1>3. \A c : /\ Rendered(c)[1] = system_render(c) /\ Rendered(c)[2] = login_render(c)
             /\ Rendered(c)[3] = Network(c)
  BY DEF Rendered, Network
<1>4. \A a : /\ ApplyOps(1, a) = system_apply(a) /\ ApplyOps(2, a) = login_apply(last[2], a)
             /\ ApplyOps(3, a) = networkd_apply(last[3], a)
  BY DEF ApplyOps
<1> QED BY <1>1, <1>2, <1>3, <1>4

\* A list of two parts, the second of removals.
LEMMA LastPart ==
    ASSUME NEW c, NEW s \in Seq(LoginWork(c)), NEW t \in Seq(Removals(c))
    PROVE  s \o t \in Seq(LoginWork(c) \cup Removals(c)) /\ RemovalsLast(c, s \o t)
<1>1. LoginWork(c) \cap Removals(c) = {}
  BY RemoveApart DEF Removals
<1> DEFINE A == LoginWork(c)
           B == Removals(c)
<1>2. s \in Seq(A) /\ t \in Seq(B) /\ A \cap B = {}
  BY <1>1
<1> HIDE DEF A, B
<1>3. /\ s \o t \in Seq(A \cup B) /\ Len(s) \in Nat /\ Len(t) \in Nat /\ Len(s \o t) = Len(s) + Len(t)
      /\ \A i \in 1..Len(s) : (s \o t)[i] = s[i] /\ s[i] \in A
      /\ \A i \in 1..(Len(s) + Len(t)) : i \notin 1..Len(s) =>
            i - Len(s) \in 1..Len(t) /\ (s \o t)[i] = t[i - Len(s)]
      /\ \A i \in 1..Len(t) : t[i] \in B
  BY <1>2
<1>4. ASSUME NEW i \in 1..Len(s \o t), NEW j \in 1..Len(s \o t), i < j, (s \o t)[i] \in B
      PROVE  (s \o t)[j] \in B
  <2>1. i \notin 1..Len(s)
    BY <1>2, <1>3, <1>4
  <2>2. j \notin 1..Len(s)
    BY <1>3, <1>4, <2>1
  <2> QED BY <1>3, <2>2
<1> QED BY <1>3, <1>4 DEF RemovalsLast, A, B

\* An apply begins with all of its work ahead of it, and what is on record removes nobody.
LEMMA Begun ==
    ASSUME Written, RecordsOK, NEW c \in Configs, NEW r \in Renderers, NEW m
    PROVE  /\ Doing(r, c, ApplyOps(r, Rendered(c)[r]), m)
           /\ last[r] = <<Rendered(c)[r]>> => Repeats(r, c, ApplyOps(r, Rendered(c)[r]))
<1>1. CASE r = 1
  <2>1. PICK s : s = system_apply(system_render(c))
    OBVIOUS
  <2>2. s \in Seq(SystemWork(c)) /\ ToSet(s) = SystemWork(c)
    BY <2>1, SystemOps
  <2>3. ApplyOps(r, Rendered(c)[r]) = s /\ Work(r, c) = SystemWork(c) /\ Extra(r, c) = {}
    BY <1>1, <2>1, ThirdsAre
  <2>4. Work(r, c) \cup Extra(r, c) = SystemWork(c)
    BY <2>3
  <2> QED BY <1>1, <2>2, <2>3, <2>4 DEF Doing, Asked, Repeats
<1>2. CASE r = 2
  <2>1. last[2] = <<>> \/ \E d \in Configs : last[2] = <<login_render(d)>>
    BY ThirdsAre DEF RecordsOK
  <2>2. PICK s \in Seq(LoginWork(c)), t \in Seq(Removals(c)) :
           /\ login_apply(last[2], login_render(c)) = s \o t /\ ToSet(s) = LoginWork(c)
           /\ Before(last[2]) \subseteq DOMAIN c.login => t = <<>>
    BY <2>1, LoginOps
  <2>3. PICK u : u = s \o t
    OBVIOUS
  <2>4. u \in Seq(LoginWork(c) \cup Removals(c)) /\ RemovalsLast(c, u)
    BY <2>3, LastPart
  <2>5. ToSet(u) = ToSet(s) \cup ToSet(t)
    <3>1. PICK S : S = LoginWork(c) \cup Removals(c)
      OBVIOUS
    <3>2. s \in Seq(S) /\ t \in Seq(S)
      BY <3>1
    <3> QED BY <2>3, <3>2, Joined
  <2>6. ApplyOps(r, Rendered(c)[r]) = u /\ Work(r, c) = LoginWork(c) /\ Extra(r, c) = Removals(c)
    BY <1>2, <2>2, <2>3, ThirdsAre
  <2>7. ASSUME last[r] = <<Rendered(c)[r]>> PROVE Repeats(r, c, u)
    <3>1. t = <<>>
      <4>1. last[2] = <<login_render(c)>>
        BY <1>2, <2>7, ThirdsAre
      <4>2. Before(last[2]) = DOMAIN c.login
        BY <4>1, NamedAre DEF Before
      <4> QED BY <2>2, <4>2
    <3>2. ToSet(t) = {}
      BY <3>1, Few
    <3> QED BY <2>2, <2>5, <3>2 DEF Repeats
  <2> QED BY <2>2, <2>4, <2>5, <2>6, <2>7 DEF Doing, Asked
<1>3. CASE r = 3
  <2>1. PICK s : s = networkd_apply(last[3], Network(c))
    OBVIOUS
  <2>2. s \in Seq(NetWork(c) \cup Rebuilds) /\ NetWork(c) \subseteq ToSet(s)
    BY <2>1, NetOps
  <2>3. ApplyOps(r, Rendered(c)[r]) = s /\ Work(r, c) = NetWork(c) /\ Extra(r, c) = Rebuilds
    BY <1>3, <2>1, ThirdsAre
  <2> QED BY <1>3, <2>2, <2>3 DEF Doing, Asked, Repeats
<1> QED BY <1>1, <1>2, <1>3, ThirdsAre

LEMMA SystemFrame ==
    ASSUME NEW m, NEW b, b.files = m.files, b.name = m.name, b.zone = m.zone,
           NEW d, NEW w \in SystemWork(d), Holds(w, m)
    PROVE  Holds(w, b)
<1>1. ASSUME NEW p, NEW t, w = OpWrite(p, t) PROVE Holds(w, b)
  BY <1>1, HoldsFiles
<1>2. ASSUME NEW h, w = HostName(h) PROVE Holds(w, b)
  BY <1>2, HoldsRun
<1>3. ASSUME NEW z, w = TimeZone(z) PROVE Holds(w, b)
  BY <1>3, HoldsRun
<1>4. \/ \E y, u : w = OpWrite(y, u)
      \/ \E k \in ToSet(value(d, "host-name")) : w = HostName(k)
      \/ \E k \in ToSet(value(d, "time-zone")) : w = TimeZone(k)
  BY SystemKinds
<1> QED BY <1>1, <1>2, <1>3, <1>4, Zenon

LEMMA LoginFrame ==
    ASSUME NEW m, NEW b, b.users = m.users, NEW d, NEW w \in LoginWork(d), Holds(w, m)
    PROVE  Holds(w, b)
<1>1. ASSUME NEW n, w = Modify(n) PROVE Holds(w, b)
  BY <1>1, HoldsRun
<1>2. ASSUME NEW n, NEW h, w = Secret(n, h) PROVE Holds(w, b)
  BY <1>2, HoldsFiles
<1>3. (\E n : w = Modify(n)) \/ (\E n, h : w = Secret(n, h))
  BY Zenon DEF LoginWork
<1> QED BY <1>1, <1>2, <1>3, Zenon

LEMMA NetFrame ==
    ASSUME NEW m, NEW b, DOMAIN b.net \subseteq DOMAIN m.net, DOMAIN b.link \subseteq DOMAIN m.link,
           NEW d, NEW w \in NetWork(d), Holds(w, m)
    PROVE  Holds(w, b)
<1>1. PICK f, l : f = Network(d).net /\ l = Network(d).link
  OBVIOUS
<1>2. CASE w = OpSync("net", f)
  BY <1>2, HoldsSync
<1>3. CASE w = OpSync("link", l)
  BY <1>3, HoldsSync
<1> QED BY <1>1, <1>2, <1>3 DEF NetWork

\* What an operation of renderer r's apply, done or half done, makes of a sound box.
LEMMA Effects ==
    ASSUME Written, NEW c \in Configs, NEW r \in Renderers, NEW m, BoxOK(m),
           NEW op \in Work(r, c) \cup Extra(r, c), NEW b \in Left(op, m)
    PROVE  /\ BoxOK(b)
           /\ \A q \in Renderers : \A d : q # r /\ There(q, d, m) => There(q, d, b)
           /\ b \in Done(op, m) => /\ op \in Work(r, c) => Holds(op, b)
                                   /\ \A w \in Work(r, c) : Holds(w, m) => Holds(w, b)
           /\ \A n \in DOMAIN m.net : ~Marked(n) => n \in DOMAIN b.net
           /\ DOMAIN b.users # DOMAIN m.users => r = 2 /\ op \in Removals(c)
<1>1. DOMAIN m = Fields
  BY DEF BoxOK
<1>2. CASE r = 1
  <2>1. op \in SystemWork(c) /\ Work(r, c) = SystemWork(c)
    BY <1>2, ThirdsAre
  <2>2. /\ DOMAIN b = Fields
        /\ b.net = m.net /\ b.link = m.link /\ b.users = m.users /\ b.devices = m.devices
        /\ b \in Done(op, m) => Holds(op, b) /\ \A w \in SystemWork(c) : Holds(w, m) => Holds(w, b)
    BY <1>1, <2>1, SystemEffect
  <2>3. BoxOK(b)
    BY <2>2 DEF BoxOK
  <2>4. ASSUME NEW q \in Renderers, NEW d, q # r, There(q, d, m) PROVE There(q, d, b)
    <3>1. CASE q = 2
      BY <2>2, <2>4, <3>1, LoginFrame, ThirdsAre DEF There
    <3>2. CASE q = 3
      BY <2>2, <2>4, <3>2, NetFrame, ThirdsAre DEF There
    <3> QED BY <1>2, <2>4, <3>1, <3>2, ThirdsAre
  <2> QED BY <2>1, <2>2, <2>3, <2>4
<1>3. CASE r = 2
  <2>1. op \in LoginWork(c) \cup Removals(c) /\ Work(r, c) = LoginWork(c)
    BY <1>3, ThirdsAre
  <2>2. /\ DOMAIN b = Fields
        /\ b.net = m.net /\ b.link = m.link /\ b.files = m.files /\ b.name = m.name /\ b.zone = m.zone
        /\ b.devices = m.devices
        /\ DOMAIN b.users \subseteq DOMAIN m.users
        /\ op \in LoginWork(c) => DOMAIN b.users = DOMAIN m.users
        /\ b \in Done(op, m) => /\ op \in LoginWork(c) => Holds(op, b)
                                /\ \A w \in LoginWork(c) : Holds(w, m) => Holds(w, b)
    BY <1>1, <2>1, LoginEffect
  <2>3. BoxOK(b)
    BY <2>2 DEF BoxOK
  <2>4. ASSUME NEW q \in Renderers, NEW d, q # r, There(q, d, m) PROVE There(q, d, b)
    <3>1. CASE q = 1
      BY <2>2, <2>4, <3>1, SystemFrame, ThirdsAre DEF There
    <3>2. CASE q = 3
      BY <2>2, <2>4, <3>2, NetFrame, ThirdsAre DEF There
    <3> QED BY <1>3, <2>4, <3>1, <3>2, ThirdsAre
  <2> QED BY <1>3, <2>1, <2>2, <2>3, <2>4
<1>4. CASE r = 3
  <2>1. op \in NetWork(c) \cup Rebuilds /\ Work(r, c) = NetWork(c)
    BY <1>4, ThirdsAre
  <2>2. /\ DOMAIN b = Fields
        /\ b.files = m.files /\ b.name = m.name /\ b.zone = m.zone /\ b.users = m.users
        /\ DOMAIN b.net \subseteq DOMAIN m.net \cup DOMAIN Network(c).net
        /\ \A n \in DOMAIN m.net : ~Marked(n) => n \in DOMAIN b.net
        /\ \A n \in DOMAIN m.link : ~Marked(n) => n \in DOMAIN b.link
        /\ \A d \in DOMAIN b.devices :
              d \in DOMAIN m.devices \/ \E n \in DOMAIN m.net : Extension(n) = "netdev" /\ Device(n) = d
        /\ b \in Done(op, m) => /\ op \in NetWork(c) => Holds(op, b)
                                /\ \A w \in NetWork(c) : Holds(w, m) => Holds(w, b)
    BY <1>1, <2>1, NetEffect
  <2>3. BoxOK(b)
    <3>1. \A n \in DOMAIN b.net : Extension(n) = "netdev" => Device(n) \in ToSet(DeviceOrder)
      BY <2>2, NetNames DEF BoxOK
    <3>2. DOMAIN b.devices \subseteq ToSet(DeviceOrder)
      BY <2>2 DEF BoxOK
    <3>3. ~Marked(ForeignLink) /\ ForeignLink \in DOMAIN m.link
      BY DEF BoxOK, Marked, ForeignLink
    <3>4. ForeignLink \in DOMAIN b.link
      BY <2>2, <3>3
    <3> QED BY <2>2, <3>1, <3>2, <3>4 DEF BoxOK
  <2>4. ASSUME NEW q \in Renderers, NEW d, q # r, There(q, d, m) PROVE There(q, d, b)
    <3>1. CASE q = 1
      BY <2>2, <2>4, <3>1, SystemFrame, ThirdsAre DEF There
    <3>2. CASE q = 2
      BY <2>2, <2>4, <3>2, LoginFrame, ThirdsAre DEF There
    <3> QED BY <1>4, <2>4, <3>1, <3>2, ThirdsAre
  <2> QED BY <2>1, <2>2, <2>3, <2>4
<1> QED BY <1>2, <1>3, <1>4, ThirdsAre

-----------------------------------------------------------------------------
(* Steps *)

LEMMA Advance ==
    ASSUME Written, NEW c \in Configs, NEW r \in Renderers, NEW m, BoxOK(m), NEW s, Doing(r, c, s, m),
           s # <<>>, NEW b \in Done(Head(s), m)
    PROVE  Doing(r, c, Tail(s), b)
<1>1. PICK S : S = Work(r, c) \cup Extra(r, c)
  OBVIOUS
<1>2. s \in Seq(S)
  BY <1>1 DEF Doing, Asked
<1>3. PICK op : op = Head(s)
  OBVIOUS
<1>4. PICK t : t = Tail(s)
  OBVIOUS
<1>5. /\ op \in S /\ t \in Seq(S) /\ ToSet(s) = {op} \cup ToSet(t)
      /\ Len(s) \in Nat /\ Len(t) = Len(s) - 1
      /\ \A i \in 1..Len(t) : i + 1 \in 1..Len(s) /\ t[i] = s[i + 1]
  BY <1>2, <1>3, <1>4, Shorter
<1>6. b \in Left(op, m) /\ b \in Done(op, m)
  BY <1>3 DEF Left
<1>7. (op \in Work(r, c) => Holds(op, b)) /\ \A w \in Work(r, c) : Holds(w, m) => Holds(w, b)
  BY <1>1, <1>5, <1>6, Effects
<1>8. \A w \in Work(r, c) : w \in ToSet(t) \/ Holds(w, b)
  BY <1>5, <1>7 DEF Doing
<1>9. ASSUME r = 2 PROVE RemovalsLast(c, t)
  <2>1. RemovalsLast(c, s)
    BY <1>9 DEF Doing, Asked
  <2>2. ASSUME NEW i \in 1..Len(t), NEW j \in 1..Len(t), i < j, t[i] \in Removals(c)
        PROVE  t[j] \in Removals(c)
    <3>1. i + 1 \in 1..Len(s) /\ j + 1 \in 1..Len(s) /\ s[i + 1] \in Removals(c) /\ t[j] = s[j + 1]
      BY <1>5, <2>2
    <3>2. i + 1 < j + 1
      BY <1>5, <2>2
    <3> QED BY <2>1, <3>1, <3>2 DEF RemovalsLast
  <2> QED BY <2>2 DEF RemovalsLast
<1> QED BY <1>1, <1>4, <1>5, <1>8, <1>9 DEF Doing, Asked

\* restore() going on, or returning.
LEMMA Restoring ==
    ASSUME Written, Typed, RecordsOK, problems' \in BOOLEAN, NEW r \in 0..3, RestoreFrom(r)
    PROVE  /\ phase' \in {"idle", "restore"} /\ at' \in 0..3
           /\ result' \in {"none", "ok", "refused", "restored", "unrecovered", "cut", "rebooted"}
           /\ Progress'
<1>1. CASE r = 0
  <2>1. /\ phase' = "idle" /\ at' = 0 /\ todo' = <<>>
        /\ result' = IF problems' THEN "unrecovered" ELSE "restored"
    BY <1>1 DEF RestoreFrom, Return
  <2>2. result' \in {"restored", "unrecovered"}
    BY <2>1
  <2>3. ~Succeeded'
    BY <2>2 DEF Succeeded
  <2> QED BY <2>1, <2>2, <2>3 DEF Progress
<1>2. CASE r # 0
  <2>1. /\ phase' = "restore" /\ at' = r /\ result' = result
        /\ todo' = IF last[r] = <<>> THEN <<>> ELSE ApplyOps(r, last[r][1])
    BY <1>2 DEF RestoreFrom
  <2>2. r \in Renderers
    BY <1>2 DEF Renderers
  <2>3. todo' = <<>> \/ \E c \in Configs :
           Checked(c) /\ Doing(r, c, todo', box') /\ Repeats(r, c, todo')
    <3>1. CASE last[r] = <<>>
      BY <2>1, <3>1
    <3>2. CASE last[r] # <<>>
      <4>1. PICK d \in Configs : Checked(d) /\ last[r] = <<Rendered(d)[r]>>
        BY <2>2, <3>2 DEF RecordsOK
      <4>2. todo' = ApplyOps(r, Rendered(d)[r])
        BY <2>1, <3>2, <4>1
      <4>3. Doing(r, d, ApplyOps(r, Rendered(d)[r]), box') /\ Repeats(r, d, ApplyOps(r, Rendered(d)[r]))
        BY <2>2, <4>1, Begun
      <4> QED BY <4>1, <4>2, <4>3
    <3> QED BY <3>1, <3>2
  <2>4. ~Succeeded'
    BY <2>1 DEF Succeeded
  <2>5. Progress'
    BY <2>1, <2>2, <2>3, <2>4 DEF Progress
  <2> QED BY <2>1, <2>5 DEF Typed
<1> QED BY <1>1, <1>2

LEMMA BeginKeeps ==
    ASSUME Written, IInv, NEW c \in Configs, Begin(c)
    PROVE  IInv'
<1>1. /\ phase = "idle" /\ calls < MaxCalls /\ calls' = calls + 1 /\ target' = <<c>> /\ problems' = FALSE
      /\ UNCHANGED <<box, last, faulted>>
  BY DEF Begin
<1>2. sound' \in BOOLEAN
  BY Zenon DEF Begin
<1>3. BoxOK(box)' /\ RecordsOK'
  BY <1>1 DEF IInv, RecordsOK
<1>4. /\ Len(target') \in {0, 1} /\ calls' \in 0..MaxCalls
      /\ problems' \in BOOLEAN /\ faulted' \in BOOLEAN
  <2>1. Len(target') = 1
    BY <1>1
  <2>2. calls' \in 0..MaxCalls
    BY <1>1, MaxCallsAssumption DEF IInv, Typed
  <2>3. problems' \in BOOLEAN /\ faulted' \in BOOLEAN
    BY <1>1 DEF IInv, Typed
  <2> QED BY <2>1, <2>2, <2>3
<1>5. CASE Checked(c) /\ phase' = "apply" /\ at' = 1 /\ result' = "none" /\ todo' = ApplyOps(1, Rendered(c)[1])
  <2>1. Doing(1, c, todo', box')
    BY <1>5, Begun DEF IInv, Renderers
  <2>2. Reached(c)'
    BY <1>5, <2>1 DEF Reached, Renderers
  <2>3. Progress'
    BY <1>1, <1>5, <2>2 DEF Progress, Renderers, Succeeded
  <2>4. Typed'
    <3>1. phase' \in {"idle", "apply", "restore", "remember"} /\ at' \in 0..3
          /\ result' \in {"none", "ok", "refused", "restored", "unrecovered", "cut", "rebooted"}
      BY <1>5
    <3> QED BY <1>2, <1>4, <3>1, Zenon DEF Typed
  <2> QED BY <1>3, <2>3, <2>4 DEF IInv
<1>6. CASE Return("refused")
  <2>1. Progress'
    BY <1>6 DEF Return, Progress, Succeeded
  <2>2. Typed'
    <3>1. phase' \in {"idle", "apply", "restore", "remember"} /\ at' \in 0..3
          /\ result' \in {"none", "ok", "refused", "restored", "unrecovered", "cut", "rebooted"}
      BY <1>6 DEF Return
    <3> QED BY <1>2, <1>4, <3>1, Zenon DEF Typed
  <2> QED BY <1>3, <2>1, <2>2 DEF IInv
<1> QED BY <1>5, <1>6 DEF Begin

LEMMA OperateKeeps ==
    ASSUME Written, IInv, Operate
    PROVE  IInv'
<1>1. /\ todo # <<>> /\ todo' = Tail(todo)
      /\ UNCHANGED <<last, phase, at, target, problems, result, faulted, sound, calls>>
  BY DEF Operate
<1>2. PICK m, s, k : m = box /\ s = todo /\ k = at
  OBVIOUS
<1>3. box' \in Done(Head(s), m)
  BY <1>2 DEF Operate
<1>4. phase \in {"apply", "restore"} /\ k \in Renderers
  BY <1>1, <1>2 DEF IInv, Progress, Typed
<1>5. PICK c \in Configs : /\ Checked(c) /\ Doing(k, c, s, m)
                           /\ phase = "apply" => target = <<c>> /\ Reached(c)
                           /\ phase = "restore" => Repeats(k, c, s)
  BY <1>1, <1>2, <1>4 DEF IInv, Progress, Reached
<1>6. Doing(k, c, Tail(s), box')
  BY <1>1, <1>2, <1>3, <1>4, <1>5, Advance DEF IInv
<1>7. /\ Head(s) \in Work(k, c) \cup Extra(k, c) /\ box' \in Left(Head(s), m)
      /\ phase = "restore" => Repeats(k, c, Tail(s))
  <2>1. s \in Seq(Work(k, c) \cup Extra(k, c)) /\ s # <<>>
    BY <1>1, <1>2, <1>5 DEF Doing, Asked
  <2>2. Head(s) \in Work(k, c) \cup Extra(k, c) /\ ToSet(s) = {Head(s)} \cup ToSet(Tail(s))
    BY <2>1, Shorter
  <2> QED BY <1>3, <1>5, <2>2 DEF Left, Repeats
<1>8. BoxOK(box') /\ \A q \in Renderers : \A d : q # k /\ There(q, d, m) => There(q, d, box')
  BY <1>2, <1>4, <1>7, Effects DEF IInv
<1>9. ASSUME phase = "apply" PROVE Reached(c)'
  <2>1. \A q \in Renderers : q < k => q # k
    BY DEF Renderers
  <2>2. \A q \in Renderers : q < k => There(q, c, box')
    BY <1>2, <1>5, <1>8, <1>9, <2>1 DEF Reached
  <2> QED BY <1>1, <1>2, <1>6, <1>9, <2>2 DEF Reached
<1>10. Progress'
  BY <1>1, <1>2, <1>4, <1>5, <1>6, <1>7, <1>9 DEF Progress, Succeeded
<1>11. RecordsOK' /\ Typed'
  BY <1>1 DEF IInv, RecordsOK, Typed
<1> QED BY <1>8, <1>10, <1>11 DEF IInv

\* The part of a step that Typed is about.
LEMMA StaysTyped ==
    ASSUME Typed, UNCHANGED <<target, sound, calls>>, problems' \in BOOLEAN, faulted' \in BOOLEAN,
           phase' \in {"idle", "apply", "restore", "remember"}, at' \in 0..3,
           result' \in {"none", "ok", "refused", "restored", "unrecovered", "cut", "rebooted"}
    PROVE  Typed'
<1>1. Len(target') \in {0, 1} /\ calls' \in 0..MaxCalls
  BY DEF Typed
<1>2. sound' \in BOOLEAN
  BY DEF Typed
<1> QED BY <1>1, <1>2, Zenon DEF Typed

LEMMA Failing ==
    ASSUME Written, IInv, Failed
    PROVE  /\ problems' \in BOOLEAN
           /\ phase' \in {"idle", "restore"} /\ at' \in 0..3
           /\ result' \in {"none", "ok", "refused", "restored", "unrecovered", "cut", "rebooted"}
           /\ Progress'
<1>1. PICK k : k = at
  OBVIOUS
<1>2. CASE phase = "apply" /\ UNCHANGED problems /\ RestoreFrom(at)
  <2>1. problems' \in BOOLEAN
    BY <1>2 DEF IInv, Typed
  <2>2. k \in 0..3
    BY <1>1 DEF IInv, Typed
  <2>3. RestoreFrom(k)
    BY <1>1, <1>2
  <2> QED BY <2>1, <2>2, <2>3, Restoring DEF IInv
<1>3. CASE phase = "restore" /\ problems' = TRUE /\ RestoreFrom(at - 1)
  <2>1. problems' \in BOOLEAN
    BY <1>3
  <2>2. PICK j \in 0..3 : j = at - 1
    BY <1>3 DEF IInv, Progress, Renderers
  <2>3. RestoreFrom(j)
    BY <1>3, <2>2
  <2> QED BY <2>1, <2>3, Restoring DEF IInv
<1> QED BY <1>2, <1>3 DEF Failed

LEMMA ToolRefusesKeeps ==
    ASSUME Written, IInv, ToolRefuses
    PROVE  IInv'
<1>1. Failed /\ UNCHANGED <<box, last, target, faulted, sound, calls>>
  BY DEF ToolRefuses
<1>2. /\ problems' \in BOOLEAN
      /\ phase' \in {"idle", "restore"} /\ at' \in 0..3
      /\ result' \in {"none", "ok", "refused", "restored", "unrecovered", "cut", "rebooted"}
      /\ Progress'
  BY <1>1, Failing
<1>3. faulted' \in BOOLEAN
  BY <1>1 DEF IInv, Typed
<1>4. Typed'
  BY <1>1, <1>2, <1>3, StaysTyped DEF IInv
<1>5. BoxOK(box)' /\ RecordsOK'
  BY <1>1 DEF IInv, RecordsOK
<1> QED BY <1>2, <1>4, <1>5 DEF IInv

\* The operation at the head of todo is one of the renderer the loop is at.
LEMMA Ahead ==
    ASSUME IInv, todo # <<>>
    PROVE  \E r \in Renderers, c \in Configs :
              /\ Checked(c) /\ Doing(r, c, todo, box)
              /\ Head(todo) \in Work(r, c) \cup Extra(r, c)
              /\ target = <<c>> \/ Repeats(r, c, todo)
<1>1. phase \in {"apply", "restore"}
  BY DEF IInv, Progress, Typed
<1>2. PICK r \in Renderers : r = at
  BY <1>1 DEF IInv, Progress
<1>3. PICK c \in Configs : Checked(c) /\ Doing(r, c, todo, box) /\ (target = <<c>> \/ Repeats(r, c, todo))
  BY <1>1, <1>2 DEF IInv, Progress, Reached
<1>4. PICK s : s = todo
  OBVIOUS
<1>5. s \in Seq(Work(r, c) \cup Extra(r, c)) /\ s # <<>>
  BY <1>3, <1>4 DEF Doing, Asked
<1>6. Head(s) \in Work(r, c) \cup Extra(r, c)
  BY <1>5, Shorter
<1> QED BY <1>3, <1>4, <1>6

LEMMA FaultKeeps ==
    ASSUME Written, IInv, Fault
    PROVE  IInv'
<1>1. Failed /\ todo # <<>> /\ faulted' = TRUE /\ UNCHANGED <<last, target, sound, calls>>
  BY DEF Fault
<1>2. /\ problems' \in BOOLEAN
      /\ phase' \in {"idle", "restore"} /\ at' \in 0..3
      /\ result' \in {"none", "ok", "refused", "restored", "unrecovered", "cut", "rebooted"}
      /\ Progress'
  BY <1>1, Failing
<1>3. Typed'
  <2>1. faulted' \in BOOLEAN
    BY <1>1
  <2> QED BY <1>1, <1>2, <2>1, StaysTyped DEF IInv
<1>4. BoxOK(box)'
  <2>1. PICK r \in Renderers, c \in Configs : Head(todo) \in Work(r, c) \cup Extra(r, c)
    BY <1>1, Ahead
  <2>2. PICK m, op : m = box /\ op = Head(todo)
    OBVIOUS
  <2>3. box' \in Left(op, m)
    BY <2>2 DEF Fault, Left
  <2>4. BoxOK(box')
    BY <2>1, <2>2, <2>3, Effects DEF IInv
  <2> QED BY <2>4
<1>5. RecordsOK'
  BY <1>1 DEF IInv, RecordsOK
<1> QED BY <1>2, <1>3, <1>4, <1>5 DEF IInv

LEMMA RestoreNextKeeps ==
    ASSUME Written, IInv, RestoreNext
    PROVE  IInv'
<1>1. phase = "restore" /\ UNCHANGED problems /\ UNCHANGED <<box, last, target, faulted, sound, calls>>
  BY DEF RestoreNext
<1>2. PICK j \in 0..3 : j = at - 1
  BY <1>1 DEF IInv, Progress, Renderers
<1>3. RestoreFrom(j)
  BY <1>2 DEF RestoreNext
<1>4. problems' \in BOOLEAN /\ faulted' \in BOOLEAN
  BY <1>1 DEF IInv, Typed
<1>5. /\ phase' \in {"idle", "restore"} /\ at' \in 0..3
      /\ result' \in {"none", "ok", "refused", "restored", "unrecovered", "cut", "rebooted"}
      /\ Progress'
  BY <1>3, <1>4, Restoring DEF IInv
<1>6. Typed'
  BY <1>1, <1>4, <1>5, StaysTyped DEF IInv
<1>7. BoxOK(box)' /\ RecordsOK'
  BY <1>1 DEF IInv, RecordsOK
<1> QED BY <1>5, <1>6, <1>7 DEF IInv

LEMMA TamperKeeps ==
    ASSUME Written, IInv, Tamper
    PROVE  IInv'
<1>1. /\ phase = "apply" /\ todo = <<>> /\ faulted' = TRUE
      /\ UNCHANGED <<last, phase, at, todo, target, problems, result, sound, calls>>
  BY DEF Tamper
<1>2. PICK f \in DOMAIN box.net : box' = [box EXCEPT !.net = Without(@, f)]
  BY DEF Tamper
<1>3. PICK m, n : m = box /\ n = box'
  OBVIOUS
<1>4. /\ DOMAIN n = Fields
      /\ n.link = m.link /\ n.files = m.files /\ n.name = m.name /\ n.zone = m.zone
      /\ n.users = m.users /\ n.devices = m.devices
      /\ DOMAIN n.net \subseteq DOMAIN m.net
  BY <1>2, <1>3 DEF Fields, Without, IInv, BoxOK
<1>5. BoxOK(n)
  BY <1>3, <1>4 DEF IInv, BoxOK
<1>6. ASSUME NEW r \in Renderers, NEW d, NEW w \in Work(r, d), Holds(w, m) PROVE Holds(w, n)
  <2>1. CASE r = 1
    BY <1>4, <1>6, <2>1, SystemFrame, ThirdsAre
  <2>2. CASE r = 2
    BY <1>4, <1>6, <2>2, LoginFrame, ThirdsAre
  <2>3. CASE r = 3
    BY <1>4, <1>6, <2>3, NetFrame, ThirdsAre
  <2> QED BY <2>1, <2>2, <2>3, ThirdsAre
<1>7. PICK c \in Configs : Checked(c) /\ target = <<c>> /\ Reached(c)
  BY <1>1 DEF IInv, Progress
<1>8. at \in Renderers
  BY <1>1 DEF IInv, Progress
<1>9. Doing(at, c, todo, n)
  <2>1. PICK k, s : k = at /\ s = todo
    OBVIOUS
  <2>2. Doing(k, c, s, m) /\ k \in Renderers
    BY <1>1, <1>3, <1>7, <1>8, <2>1 DEF Reached
  <2>3. Doing(k, c, s, n)
    BY <1>6, <2>2 DEF Doing
  <2> QED BY <2>1, <2>3
<1>10. \A r \in Renderers : r < at => There(r, c, n)
  BY <1>1, <1>3, <1>6, <1>7 DEF Reached, There
<1>11. Reached(c)'
  BY <1>1, <1>3, <1>9, <1>10 DEF Reached
<1>12. Progress'
  BY <1>1, <1>7, <1>8, <1>11 DEF Progress, Succeeded
<1>13. Typed'
  <2>1. problems' \in BOOLEAN /\ faulted' \in BOOLEAN
    BY <1>1 DEF IInv, Typed
  <2>2. phase' \in {"idle", "apply", "restore", "remember"} /\ at' \in 0..3
        /\ result' \in {"none", "ok", "refused", "restored", "unrecovered", "cut", "rebooted"}
    BY <1>1 DEF IInv, Typed
  <2> QED BY <1>1, <2>1, <2>2, StaysTyped DEF IInv
<1>14. RecordsOK'
  BY <1>1 DEF IInv, RecordsOK
<1> QED BY <1>3, <1>5, <1>12, <1>13, <1>14 DEF IInv

LEMMA VerifyKeeps ==
    ASSUME Written, IInv, Verify
    PROVE  IInv'
<1>1. phase = "apply" /\ todo = <<>> /\ UNCHANGED <<box, last, target, faulted, sound, calls>>
  BY DEF Verify
<1>2. PICK c \in Configs : Checked(c) /\ target = <<c>> /\ Reached(c)
  BY <1>1 DEF IInv, Progress
<1>3. PICK k \in Renderers : k = at
  BY <1>1 DEF IInv, Progress
<1>4. There(k, c, box) /\ \A r \in Renderers : r < k => There(r, c, box)
  <2>1. Doing(k, c, <<>>, box)
    BY <1>1, <1>2, <1>3 DEF Reached
  <2> QED BY <1>1, <1>2, <1>3, <2>1, Few DEF Doing, There, Reached
<1>5. BoxOK(box)' /\ RecordsOK'
  BY <1>1 DEF IInv, RecordsOK
<1>6. faulted' \in BOOLEAN
  BY <1>1 DEF IInv, Typed
<1>7. CASE /\ at # 2 => VerifyFiles(Rendered(target[1])[at], box)
           /\ UNCHANGED problems
           /\ at < 3 /\ at' = at + 1
           /\ todo' = ApplyOps(at + 1, Rendered(target[1])[at + 1])
           /\ UNCHANGED <<phase, result>>
  <2>1. PICK j \in Renderers : j = k + 1
    BY <1>3, <1>7 DEF Renderers
  <2>2. at' = j /\ todo' = ApplyOps(j, Rendered(c)[j])
    BY <1>2, <1>3, <1>7, <2>1
  <2>3. Doing(j, c, todo', box')
    BY <2>2, Begun DEF IInv
  <2>4. \A r \in Renderers : r < j => There(r, c, box')
    BY <1>1, <1>4, <2>1 DEF Renderers
  <2>5. Reached(c)'
    BY <1>1, <1>7, <2>2, <2>3, <2>4 DEF Reached
  <2>6. Progress'
    BY <1>1, <1>2, <1>7, <2>2, <2>5 DEF Progress, Succeeded
  <2>7. Typed'
    <3>1. problems' \in BOOLEAN
      BY <1>7 DEF IInv, Typed
    <3>2. at' \in 0..3
      BY <2>2 DEF Renderers
    <3>3. phase' \in {"idle", "apply", "restore", "remember"}
          /\ result' \in {"none", "ok", "refused", "restored", "unrecovered", "cut", "rebooted"}
      BY <1>7 DEF IInv, Typed
    <3> QED BY <1>1, <1>6, <3>1, <3>2, <3>3, StaysTyped DEF IInv
  <2> QED BY <1>5, <2>6, <2>7 DEF IInv
<1>8. CASE /\ at # 2 => VerifyFiles(Rendered(target[1])[at], box)
           /\ UNCHANGED problems
           /\ ~(at < 3) /\ phase' = "remember" /\ at' = 1
           /\ UNCHANGED <<todo, result>>
  <2>1. k = 3
    BY <1>3, <1>8 DEF Renderers
  <2>2. \A r \in Renderers : There(r, c, box)
    BY <1>4, <2>1 DEF Renderers
  <2>3. VerifyFiles(Rendered(c)[3], box)
    BY <1>2, <1>3, <1>8, <2>1
  <2>4. Reached(c)'
    BY <1>1, <1>8, <2>2, <2>3 DEF Reached
  <2>5. Progress'
    BY <1>1, <1>2, <1>8, <2>4 DEF Progress, Succeeded, Renderers
  <2>6. Typed'
    <3>1. problems' \in BOOLEAN
      BY <1>8 DEF IInv, Typed
    <3>2. at' \in 0..3 /\ phase' \in {"idle", "apply", "restore", "remember"}
      BY <1>8
    <3>3. result' \in {"none", "ok", "refused", "restored", "unrecovered", "cut", "rebooted"}
      BY <1>8 DEF IInv, Typed
    <3> QED BY <1>1, <1>6, <3>1, <3>2, <3>3, StaysTyped DEF IInv
  <2> QED BY <1>5, <2>5, <2>6 DEF IInv
<1>9. CASE Failed
  <2>1. /\ problems' \in BOOLEAN
        /\ phase' \in {"idle", "restore"} /\ at' \in 0..3
        /\ result' \in {"none", "ok", "refused", "restored", "unrecovered", "cut", "rebooted"}
        /\ Progress'
    BY <1>9, Failing
  <2>2. Typed'
    BY <1>1, <1>6, <2>1, StaysTyped DEF IInv
  <2> QED BY <1>5, <2>1, <2>2 DEF IInv
<1> QED BY <1>7, <1>8, <1>9 DEF Verify

LEMMA RememberKeeps ==
    ASSUME Written, IInv, Remember
    PROVE  IInv'
<1>1. phase = "remember" /\ UNCHANGED <<box, target, problems, sound, calls>>
  BY DEF Remember
<1>2. todo = <<>>
  BY <1>1 DEF IInv, Progress
<1>3. PICK c \in Configs : Checked(c) /\ target = <<c>> /\ Reached(c)
  BY <1>1 DEF IInv, Progress
<1>4. PICK k \in Renderers : k = at
  BY <1>1 DEF IInv, Progress
<1>5. RecordsOK'
  <2>1. CASE last' = last
    BY <2>1 DEF IInv, RecordsOK
  <2>2. CASE last' = [last EXCEPT ![at] = <<Rendered(target[1])[at]>>]
    <3>1. last' = [last EXCEPT ![k] = <<Rendered(c)[k]>>]
      BY <1>3, <1>4, <2>2
    <3>2. DOMAIN last' = Renderers
      BY <3>1 DEF IInv, RecordsOK
    <3>3. ASSUME NEW r \in Renderers
          PROVE  last'[r] = <<>> \/ \E d \in Configs : Checked(d) /\ last'[r] = <<Rendered(d)[r]>>
      <4>1. CASE r = k
        <5>1. last'[r] = <<Rendered(c)[r]>>
          BY <3>1, <4>1 DEF IInv, RecordsOK
        <5> QED BY <1>3, <5>1
      <4>2. CASE r # k
        <5>1. last'[r] = last[r]
          BY <3>1, <4>2 DEF IInv, RecordsOK
        <5> QED BY <5>1 DEF IInv, RecordsOK
      <4> QED BY <4>1, <4>2
    <3> QED BY <3>2, <3>3 DEF RecordsOK
  <2> QED BY <2>1, <2>2 DEF Remember
<1>6. faulted' \in BOOLEAN /\ problems' \in BOOLEAN
  BY <1>1 DEF Remember, IInv, Typed
<1>7. BoxOK(box)'
  BY <1>1 DEF IInv
<1>8. ASSUME phase' # "apply" PROVE Reached(c)'
  <2>1. (\A r \in Renderers : There(r, c, box)) /\ VerifyFiles(Rendered(c)[3], box)
    BY <1>1, <1>3 DEF Reached
  <2> QED BY <1>1, <1>8, <2>1 DEF Reached
<1>9. CASE at < 3 /\ at' = at + 1 /\ UNCHANGED <<phase, todo, result>>
  <2>1. at' \in Renderers
    BY <1>4, <1>9 DEF Renderers
  <2>2. Progress'
    BY <1>1, <1>2, <1>3, <1>8, <1>9, <2>1 DEF Progress, Succeeded
  <2>3. Typed'
    <3>1. at' \in 0..3
      BY <2>1 DEF Renderers
    <3>2. phase' \in {"idle", "apply", "restore", "remember"}
          /\ result' \in {"none", "ok", "refused", "restored", "unrecovered", "cut", "rebooted"}
      BY <1>9 DEF IInv, Typed
    <3> QED BY <1>1, <1>6, <3>1, <3>2, StaysTyped DEF IInv
  <2> QED BY <1>5, <1>7, <2>2, <2>3 DEF IInv
<1>10. CASE Return("ok")
  <2>1. phase' = "idle" /\ at' = 0 /\ todo' = <<>> /\ result' = "ok"
    BY <1>10 DEF Return
  <2>2. Progress'
    BY <1>1, <1>3, <1>8, <2>1 DEF Progress
  <2>3. Typed'
    <3>1. phase' \in {"idle", "apply", "restore", "remember"} /\ at' \in 0..3
          /\ result' \in {"none", "ok", "refused", "restored", "unrecovered", "cut", "rebooted"}
      BY <2>1
    <3> QED BY <1>1, <1>6, <3>1, StaysTyped DEF IInv
  <2> QED BY <1>5, <1>7, <2>2, <2>3 DEF IInv
<1> QED BY <1>9, <1>10 DEF Remember

\* A call cut off, or a box that went down between calls.
LEMMA Cut ==
    ASSUME Typed, UNCHANGED <<last, target, problems, sound, calls>>, faulted' \in BOOLEAN, RecordsOK,
           NEW how \in {"cut", "rebooted"}, Return(how), BoxOK(box')
    PROVE  IInv'
<1>1. phase' = "idle" /\ at' = 0 /\ todo' = <<>> /\ result' = how
  BY DEF Return
<1>2. Progress'
  BY <1>1 DEF Progress, Succeeded
<1>3. problems' \in BOOLEAN
  BY DEF Typed
<1>4. phase' \in {"idle", "apply", "restore", "remember"} /\ at' \in 0..3
      /\ result' \in {"none", "ok", "refused", "restored", "unrecovered", "cut", "rebooted"}
  BY <1>1
<1>5. Typed'
  BY <1>3, <1>4, StaysTyped
<1>6. RecordsOK'
  BY DEF RecordsOK
<1> QED BY <1>2, <1>5, <1>6 DEF IInv

LEMMA CrashKeeps ==
    ASSUME Written, IInv, Crash
    PROVE  IInv'
<1>1. /\ phase # "idle" /\ faulted' = TRUE /\ Return("cut")
      /\ UNCHANGED <<last, target, problems, sound, calls>>
  BY DEF Crash
<1>2. BoxOK(box')
  <2>1. CASE box' = box
    BY <2>1 DEF IInv
  <2>2. CASE todo # <<>> /\ box' \in Halfway(Head(todo), box)
    <3>1. PICK r \in Renderers, c \in Configs : Head(todo) \in Work(r, c) \cup Extra(r, c)
      BY <2>2, Ahead
    <3>2. PICK m, op : m = box /\ op = Head(todo)
      OBVIOUS
    <3>3. box' \in Left(op, m)
      BY <2>2, <3>2 DEF Left
    <3> QED BY <3>1, <3>2, <3>3, Effects DEF IInv
  <2> QED BY <2>1, <2>2 DEF Crash
<1> QED BY <1>1, <1>2, Cut DEF IInv

LEMMA RebootKeeps ==
    ASSUME Written, IInv, Reboot
    PROVE  IInv'
<1>1. /\ box' = [box EXCEPT !.net = <<>>, !.devices = <<>>] /\ Return("rebooted")
      /\ UNCHANGED <<last, target, problems, faulted, sound, calls>>
  BY DEF Reboot
<1>2. BoxOK(box')
  <2>1. /\ DOMAIN box' = Fields /\ box'.net = <<>> /\ box'.devices = <<>>
        /\ box'.users = box.users /\ box'.link = box.link
    BY <1>1 DEF IInv, BoxOK, Fields
  <2>2. DOMAIN box'.net = {} /\ DOMAIN box'.devices = {}
    BY <2>1
  <2> QED BY <2>1, <2>2 DEF IInv, BoxOK
<1>3. faulted' \in BOOLEAN
  BY <1>1 DEF IInv, Typed
<1> QED BY <1>1, <1>2, <1>3, Cut DEF IInv

LEMMA InitHolds ==
    ASSUME Written, Init
    PROVE  IInv
<1>1. /\ phase = "idle" /\ at = 0 /\ todo = <<>> /\ target = <<>> /\ problems = FALSE /\ result = "none"
      /\ faulted = FALSE /\ sound = FALSE /\ calls = 0 /\ last = [r \in Renderers |-> <<>>]
      /\ box = [net |-> Only(ForeignNet, <<>>), link |-> Only(ForeignLink, <<>>), files |-> <<>>,
                name |-> "image", zone |-> "image", users |-> Accounts, devices |-> <<>>]
  BY DEF Init
<1>2. Typed
  <2>1. problems \in BOOLEAN /\ faulted \in BOOLEAN /\ sound \in BOOLEAN
    BY <1>1
  <2>2. /\ phase \in {"idle", "apply", "restore", "remember"} /\ at \in 0..3
        /\ Len(target) \in {0, 1} /\ calls \in 0..MaxCalls
        /\ result \in {"none", "ok", "refused", "restored", "unrecovered", "cut", "rebooted"}
    BY <1>1, MaxCallsAssumption
  <2> QED BY <2>1, <2>2, Zenon DEF Typed
<1>3. BoxOK(box)
  <2>1. /\ DOMAIN box = Fields /\ box.users = Accounts /\ DOMAIN box.devices = {}
        /\ DOMAIN box.net = {ForeignNet} /\ DOMAIN box.link = {ForeignLink}
    BY <1>1 DEF Only, Fields
  <2>2. Extension(ForeignNet) = "network"
    BY DEF Extension, ForeignNet
  <2> QED BY <2>1, <2>2 DEF BoxOK, Written
<1>4. RecordsOK
  BY <1>1 DEF RecordsOK
<1>5. Progress
  BY <1>1 DEF Progress, Succeeded
<1> QED BY <1>2, <1>3, <1>4, <1>5 DEF IInv

LEMMA StepHolds ==
    ASSUME Written, IInv, [Next]_vars
    PROVE  IInv'
<1>1. CASE \E c \in Configs : Begin(c)
  BY <1>1, BeginKeeps
<1>2. CASE Operate
  BY <1>2, OperateKeeps
<1>3. CASE ToolRefuses
  BY <1>3, ToolRefusesKeeps
<1>4. CASE Fault
  BY <1>4, FaultKeeps
<1>5. CASE Verify
  BY <1>5, VerifyKeeps
<1>6. CASE Tamper
  BY <1>6, TamperKeeps
<1>7. CASE RestoreNext
  BY <1>7, RestoreNextKeeps
<1>8. CASE Remember
  BY <1>8, RememberKeeps
<1>9. CASE Crash
  BY <1>9, CrashKeeps
<1>10. CASE Reboot
  BY <1>10, RebootKeeps
<1>11. CASE UNCHANGED vars
  <2>1. UNCHANGED <<box, last, phase, at, todo, target, problems, result, faulted, sound, calls>>
    BY <1>11 DEF vars
  <2>2. Progress'
    <3>1. \A c : Reached(c) => Reached(c)'
      BY <2>1 DEF Reached
    <3> QED BY <2>1, <3>1 DEF IInv, Progress, Succeeded
  <2>3. Typed'
    BY <2>1 DEF IInv, Typed
  <2> QED BY <2>1, <2>2, <2>3 DEF IInv, RecordsOK
<1> QED BY <1>1, <1>2, <1>3, <1>4, <1>5, <1>6, <1>7, <1>8, <1>9, <1>10, <1>11 DEF Next

LEMMA AlwaysIInv == Spec => []IInv
<1>1. Init => IInv
  BY WrittenAssumption, InitHolds
<1>2. IInv /\ [Next]_vars => IInv'
  BY WrittenAssumption, StepHolds
<1> QED BY <1>1, <1>2, PTL DEF Spec

\* Every variable keeps its type (RenderedBox.TypeOK): in particular only accounts and
\* devices there is a name for are ever on the box, whatever records it was left with.
THEOREM TypeCorrect == Spec => []TypeOK
<1>1. IInv => TypeOK
  <2> SUFFICES ASSUME IInv PROVE TypeOK
    OBVIOUS
  <2>1. DOMAIN box = {"net", "link", "files", "name", "zone", "users", "devices"}
    BY DEF IInv, BoxOK, Fields
  <2>2. ASSUME NEW r \in Renderers PROVE Len(last[r]) \in {0, 1}
    <3>1. \A x : Len(<<x>>) = 1 /\ Len(<<>>) = 0
      OBVIOUS
    <3>2. last[r] = <<>> \/ \E d \in Configs : last[r] = <<Rendered(d)[r]>>
      BY DEF IInv, RecordsOK
    <3>3. CASE last[r] = <<>>
      BY <3>1, <3>3
    <3>4. ASSUME NEW x, last[r] = <<x>> PROVE Len(last[r]) \in {0, 1}
      BY <3>1, <3>4
    <3> QED BY <3>2, <3>3, <3>4
  <2>3. DOMAIN box.users \subseteq ToSet(AccountOrder) /\ DOMAIN box.devices \subseteq ToSet(DeviceOrder)
    BY DEF IInv, BoxOK
  <2> QED BY <2>1, <2>2, <2>3, Zenon DEF IInv, Typed, TypeOK
<1> QED BY <1>1, AlwaysIInv, PTL

\* A call that ended well has left the box as its configuration says, whatever earlier
\* calls, failed operations, crashes and other processes had made of it, and whatever
\* the last-applied records say (render::apply, verify_files, Host::sync).
THEOREM BoxIsAsConfigured == Spec => []BoxAsConfigured
<1>1. IInv => BoxAsConfigured
  <2> SUFFICES ASSUME IInv, Succeeded PROVE BoxAsConfigured
    BY DEF BoxAsConfigured
  <2>1. PICK c \in Configs : Checked(c) /\ target = <<c>> /\ Reached(c)
    BY DEF IInv, Progress
  <2>2. (\A r \in Renderers : There(r, c, box)) /\ VerifyFiles(Rendered(c)[3], box)
    BY <2>1 DEF Reached, Succeeded
  <2>3. target[1] = c
    BY <2>1
  <2>4. /\ \A w \in SystemWork(c) : Holds(w, box)
        /\ \A w \in LoginWork(c) : Holds(w, box)
        /\ \A w \in NetWork(c) : Holds(w, box)
    BY <2>2, ThirdsAre DEF There
  <2>5. Rendered(c)[3] = Network(c)
    BY ThirdsAre
  <2>6. {n \in DOMAIN box.net : Marked(n)} = DOMAIN Rendered(c)[3].net
    <3>1. PICK f : f = Network(c).net
      OBVIOUS
    <3>2. Holds(OpSync("net", f), box)
      BY <2>4, <3>1 DEF NetWork
    <3>3. \A k \in DOMAIN box.net : Marked(k) => k \in DOMAIN f
      BY <3>2, HoldsSync
    <3>4. \A k \in DOMAIN f : k \in DOMAIN box.net /\ Marked(k)
      BY <2>2, <2>5, <3>1, NetNames, WrittenAssumption DEF VerifyFiles
    <3> QED BY <2>5, <3>1, <3>3, <3>4
  <2>7. {n \in DOMAIN box.link : Marked(n)} = DOMAIN Rendered(c)[3].link
    <3>1. PICK f : f = Network(c).link
      OBVIOUS
    <3>2. Holds(OpSync("link", f), box)
      BY <2>4, <3>1 DEF NetWork
    <3>3. \A k \in DOMAIN box.link : Marked(k) => k \in DOMAIN f
      BY <3>2, HoldsSync
    <3>4. \A k \in DOMAIN f : k \in DOMAIN box.link /\ Marked(k)
      BY <2>2, <2>5, <3>1, NetNames, WrittenAssumption DEF VerifyFiles
    <3> QED BY <2>5, <3>1, <3>3, <3>4
  <2>8. ASSUME NEW r \in Renderers PROVE VerifyFiles(Rendered(c)[r], box)
    <3>1. CASE r = 1
      <4>1. PICK t : t = [search |-> value(c, "domain-name"), servers |-> c.servers]
        OBVIOUS
      <4>2. Holds(OpWrite("resolv.conf", t), box)
        BY <2>4, <4>1 DEF SystemWork, Resolv
      <4>3. "resolv.conf" \in DOMAIN box.files /\ box.files["resolv.conf"] = t
        BY <4>2, HoldsFiles
      <4>4. /\ DOMAIN system_render(c).net = {} /\ DOMAIN system_render(c).link = {}
            /\ system_render(c).files = Only("resolv.conf", t)
        BY <4>1 DEF system_render, Artifacts
      <4>5. VerifyFiles(system_render(c), box)
        BY <4>3, <4>4 DEF VerifyFiles, Only
      <4> QED BY <3>1, <4>5, ThirdsAre
    <3>2. CASE r = 2
      <4>1. /\ DOMAIN login_render(c).net = {} /\ DOMAIN login_render(c).link = {}
            /\ DOMAIN login_render(c).files = {}
        BY DEF login_render, Artifacts
      <4>2. VerifyFiles(login_render(c), box)
        BY <4>1 DEF VerifyFiles
      <4> QED BY <3>2, <4>2, ThirdsAre
    <3>3. CASE r = 3
      BY <2>2, <3>3
    <3> QED BY <3>1, <3>2, <3>3, ThirdsAre
  <2>9. ASSUME NEW h \in ToSet(value(c, "host-name"))
        PROVE  /\ box.name = h
               /\ box.files["hosts"] = [name |-> h, domain |-> value(c, "domain-name")]
    <3>1. PICK t : t = [name |-> h, domain |-> value(c, "domain-name")]
      OBVIOUS
    <3>2. Holds(HostName(h), box) /\ Holds(OpWrite("hosts", t), box)
      BY <2>4, <3>1 DEF SystemWork, Hosts
    <3>3. box.name = h
      BY <3>2, HoldsRun
    <3>4. box.files["hosts"] = t
      BY <3>2, HoldsFiles
    <3> QED BY <3>1, <3>3, <3>4
  <2>10. ASSUME NEW z \in ToSet(value(c, "time-zone")) PROVE box.zone = z
    <3>1. Holds(TimeZone(z), box)
      BY <2>4 DEF SystemWork
    <3> QED BY <3>1, HoldsRun
  <2>11. ASSUME NEW u \in DOMAIN c.login
         PROVE  u \in DOMAIN box.users /\ c.login[u] \in {NoPassword, box.users[u]}
    <3>1. Holds(Modify(u), box)
      BY <2>4 DEF LoginWork
    <3>2. u \in DOMAIN box.users
      BY <3>1, HoldsRun
    <3>3. CASE c.login[u] # NoPassword
      <4>1. PICK h : h = c.login[u]
        OBVIOUS
      <4>2. Holds(Secret(u, h), box)
        BY <2>4, <3>3, <4>1 DEF LoginWork, WithPassword
      <4>3. box.users[u] = h
        BY <4>2, HoldsFiles
      <4> QED BY <3>2, <4>1, <4>3
    <3> QED BY <3>2, <3>3
  <2> QED BY <2>3, <2>6, <2>7, <2>8, <2>9, <2>10, <2>11 DEF BoxAsConfigured
<1> QED BY <1>1, AlwaysIInv, PTL

-----------------------------------------------------------------------------
(* What no step takes away *)

LEMMA HalfwayUsers ==
    ASSUME NEW m, DOMAIN m = Fields, NEW op, NEW b \in Halfway(op, m)
    PROVE  b.users = m.users
BY DEF Halfway, Fields

\* When an account goes, every password of the configuration is in place.
LEMMA WayInStays ==
    ASSUME Written, IInv, Operate, DOMAIN box'.users # DOMAIN box.users
    PROVE  Usable' # {} \/ DOMAIN target[1].login = {}
<1>1. todo # <<>>
  BY DEF Operate
<1>2. PICK r \in Renderers, c \in Configs :
         /\ Checked(c) /\ Doing(r, c, todo, box) /\ Head(todo) \in Work(r, c) \cup Extra(r, c)
         /\ target = <<c>> \/ Repeats(r, c, todo)
  BY <1>1, Ahead
<1>3. PICK m, s, op : m = box /\ s = todo /\ op = Head(todo)
  OBVIOUS
<1>4. BoxOK(m) /\ box' \in Left(op, m) /\ box' \in Done(op, m)
  BY <1>3 DEF Operate, Left, IInv
<1>5. /\ \A w \in Work(r, c) : Holds(w, m) => Holds(w, box')
      /\ r = 2 /\ op \in Removals(c)
  BY <1>2, <1>3, <1>4, Effects
<1>6. s \in Seq(LoginWork(c) \cup Removals(c)) /\ RemovalsLast(c, s) /\ Work(r, c) = LoginWork(c)
      /\ \A w \in LoginWork(c) : w \in ToSet(s) \/ Holds(w, m)
  BY <1>2, <1>3, <1>5, ThirdsAre DEF Doing, Asked
<1>7. \A w \in ToSet(s) : w \in Removals(c)
  <2>1. PICK S : S = LoginWork(c) \cup Removals(c)
    OBVIOUS
  <2>2. s \in Seq(S) /\ s # <<>>
    BY <1>1, <1>3, <1>6, <2>1
  <2>3. s[1] \in Removals(c) /\ 1 \in 1..Len(s) /\ Len(s) \in Nat
    BY <1>3, <1>5, <2>2, Shorter
  <2>4. ASSUME NEW i \in 1..Len(s) PROVE s[i] \in Removals(c)
    <3>1. i = 1 \/ 1 < i
      BY <2>3
    <3> QED BY <1>6, <2>3, <3>1 DEF RemovalsLast
  <2> QED BY <2>2, <2>4, InRange
<1>8. \A w \in LoginWork(c) : Holds(w, box')
  <2>1. \A w \in LoginWork(c) : w \notin Removals(c)
    BY RemoveApart DEF Removals
  <2> QED BY <1>5, <1>6, <1>7, <2>1
<1>9. target = <<c>>
  <2>1. op \in ToSet(s) /\ op \notin LoginWork(c)
    <3>1. PICK S : S = LoginWork(c) \cup Removals(c)
      OBVIOUS
    <3>2. s \in Seq(S) /\ s # <<>>
      BY <1>1, <1>3, <1>6, <3>1
    <3>3. op \in ToSet(s)
      BY <1>3, <3>2, Shorter
    <3> QED BY <1>5, <3>3, RemoveApart DEF Removals
  <2> QED BY <1>2, <1>3, <1>5, <2>1 DEF Repeats
<1>10. login_check(login_render(c))
  BY <1>2, ThirdsAre DEF Checked
<1> SUFFICES ASSUME DOMAIN c.login # {} PROVE Usable' # {}
  BY <1>9
<1>11. PICK n \in WithPassword(c) : c.login[n] # Disabled
  BY <1>10, SomebodyUsable
<1>12. PICK h : h = c.login[n]
  OBVIOUS
<1>13. Holds(Secret(n, h), box')
  BY <1>8, <1>12 DEF LoginWork
<1>14. n \in DOMAIN box'.users /\ box'.users[n] = h
  BY <1>13, HoldsFiles
<1> QED BY <1>11, <1>12, <1>14 DEF Usable

\* No step removes a file of the managed directories that is not ours, nor the last
\* account somebody can log in to while the configuration applied names any (Host::sync,
\* LoginRenderer::apply and check); a restore removes no account.
THEOREM NothingIsTakenAway == Spec => NothingTakenAway
<1> DEFINE Kept ==
             /\ result' = "rebooted" \/
                   /\ ForeignNet \in DOMAIN box.net => ForeignNet \in DOMAIN box'.net
                   /\ ForeignLink \in DOMAIN box'.link
             /\ DOMAIN box'.users # DOMAIN box.users =>
                   Usable' # {} \/ DOMAIN target[1].login = {}
<1>1. IInv /\ IInv' /\ [Next]_vars => [Kept]_vars
  <2> SUFFICES ASSUME IInv, IInv', Next PROVE Kept
    OBVIOUS
  <2>1. ForeignLink \in DOMAIN box'.link
    BY DEF IInv, BoxOK
  <2>2. ~Marked(ForeignNet)
    BY DEF Marked, ForeignNet
  <2>3. CASE box' = box
    BY <2>1, <2>3
  <2>4. CASE Operate
    <3>1. \A n \in DOMAIN box.net : ~Marked(n) => n \in DOMAIN box'.net
      <4>1. PICK r \in Renderers, c \in Configs : Head(todo) \in Work(r, c) \cup Extra(r, c)
        BY <2>4, Ahead DEF Operate
      <4>2. PICK m, op : m = box /\ op = Head(todo)
        OBVIOUS
      <4>3. box' \in Left(op, m) /\ BoxOK(m)
        BY <2>4, <4>2 DEF Operate, Left, IInv
      <4> QED BY <4>1, <4>2, <4>3, Effects, WrittenAssumption
    <3> QED BY <2>1, <2>2, <2>4, <3>1, WayInStays, WrittenAssumption
  <2>5. CASE todo # <<>> /\ box' \in Halfway(Head(todo), box)
    <3>1. \A n \in DOMAIN box.net : ~Marked(n) => n \in DOMAIN box'.net
      <4>1. PICK r \in Renderers, c \in Configs : Head(todo) \in Work(r, c) \cup Extra(r, c)
        BY <2>5, Ahead
      <4>2. PICK m, op : m = box /\ op = Head(todo)
        OBVIOUS
      <4>3. box' \in Left(op, m) /\ BoxOK(m)
        BY <2>5, <4>2 DEF Left, IInv
      <4> QED BY <4>1, <4>2, <4>3, Effects, WrittenAssumption
    <3>2. box'.users = box.users
      BY <2>5, HalfwayUsers DEF IInv, BoxOK
    <3> QED BY <2>1, <2>2, <3>1, <3>2
  <2>6. CASE Tamper
    <3>1. PICK f \in DOMAIN box.net \cap DOMAIN Rendered(target[1])[at].net :
             box' = [box EXCEPT !.net = Without(@, f)]
      BY <2>6 DEF Tamper
    <3>2. PICK c \in Configs : target = <<c>>
      BY <2>6 DEF Tamper, IInv, Progress
    <3>3. at \in Renderers
      BY <2>6 DEF Tamper, IInv, Progress
    <3>4. Marked(f)
      <4>1. f \in DOMAIN Rendered(c)[at].net
        BY <3>1, <3>2
      <4>2. DOMAIN Rendered(c)[1].net = {} /\ DOMAIN Rendered(c)[2].net = {}
        <5>1. DOMAIN system_render(c).net = {} /\ DOMAIN login_render(c).net = {}
          BY DEF system_render, login_render, Artifacts
        <5> QED BY <5>1, ThirdsAre
      <4>3. f \in DOMAIN Network(c).net
        BY <3>3, <4>1, <4>2, ThirdsAre
      <4> QED BY <4>3, NetNames, WrittenAssumption
    <3>5. box'.users = box.users /\ box'.net = Without(box.net, f)
      BY <3>1 DEF IInv, BoxOK, Fields
    <3>6. ForeignNet \in DOMAIN box.net => ForeignNet \in DOMAIN box'.net
      BY <2>2, <3>4, <3>5 DEF Without
    <3> QED BY <2>1, <3>5, <3>6
  <2>7. CASE Reboot
    <3>1. result' = "rebooted" /\ box'.users = box.users
      BY <2>7 DEF Reboot, Return, IInv, BoxOK, Fields
    <3> QED BY <3>1
  <2>8. CASE \E c \in Configs : Begin(c)
    BY <2>3, <2>8 DEF Begin
  <2>9. CASE ToolRefuses \/ Verify \/ RestoreNext \/ Remember
    BY <2>3, <2>9 DEF ToolRefuses, Verify, RestoreNext, Remember
  <2>10. CASE Fault
    BY <2>5, <2>10 DEF Fault
  <2>11. CASE Crash
    <3>1. box' = box \/ (todo # <<>> /\ box' \in Halfway(Head(todo), box))
      BY <2>11 DEF Crash
    <3> QED BY <2>3, <2>5, <3>1
  <2> QED BY <2>4, <2>6, <2>7, <2>8, <2>9, <2>10, <2>11 DEF Next
<1> QED BY <1>1, AlwaysIInv, PTL DEF Spec, NothingTakenAway

-----------------------------------------------------------------------------
(* The devices *)

Netdev(d) == FileName("20", d, "netdev")

\* The device is as its .netdev among the files says.
Fits(m, d, net) == Netdev(d) \in DOMAIN net /\ Matches(m.devices[d], net[Netdev(d)])
AllFit(m, net) == \A d \in DOMAIN m.devices : Fits(m, d, net)

\* A directory has these managed files and no others, as they were written.
InPlace(dir, files) ==
    /\ {n \in DOMAIN dir : Marked(n)} = DOMAIN files
    /\ \A n \in DOMAIN files : dir[n] = files[n]
Synced(w, m) == InPlace(IF w.dir = "net" THEN m.net ELSE m.link, w.files)

\* The box after the interfaces of c went through.
Settled(c, m) ==
    /\ AllFit(m, Network(c).net)
    /\ Described(Network(c).net) \subseteq DOMAIN m.devices
    /\ \A w \in NetWork(c) : Synced(w, m)

ReloadIsLast(s) == \A i \in 1..Len(s) : s[i] = ReloadAll <=> i = Len(s)

\* Before that: whatever does not fit is ahead, and the reload comes last.
Preparing(c, s, m) ==
    /\ s \in Seq(NetWork(c) \cup Rebuilds) /\ s # <<>> /\ ReloadIsLast(s)
    /\ \A w \in NetWork(c) : w \in ToSet(s) \/ Synced(w, m)
    /\ \A d \in DOMAIN m.devices : Rebuild(d) \in ToSet(s) \/ Fits(m, d, Network(c).net)

NetdevsMarked(m) == \A n \in DOMAIN m.net : Extension(n) = "netdev" => Marked(n)

\* The devices are some of those on record.
Recorded(m) == IF last[3] = <<>> THEN DOMAIN m.devices = {} ELSE AllFit(m, last[3][1].net)

\* None of those on record is missing.
Whole(m) == last[3] # <<>> /\ Described(last[3][1].net) \subseteq DOMAIN m.devices

\* The interfaces of the target went through and are not on record yet.
Unrecorded == phase = "remember" \/ (phase = "apply" /\ at = 3 /\ todo = <<>>)

\* Nothing has happened to the devices in this call, or it has been undone.
Undone ==
    \/ phase = "apply" /\ at < 3
    \/ phase = "restore" /\ ~problems /\ (at < 3 \/ todo = <<>>)
    \/ phase = "idle" /\ result = "restored"

DevInv ==
    /\ NetdevsMarked(box)
    /\ IF Unrecorded THEN \E c \in Configs : target = <<c>> /\ Settled(c, box) ELSE Recorded(box)
    /\ phase = "apply" /\ at = 3 /\ todo # <<>> =>
          \E c \in Configs : target = <<c>> /\ Preparing(c, todo, box)
    /\ phase = "restore" /\ at = 3 /\ todo # <<>> =>
          \E c \in Configs : last[3] = <<Network(c)>> /\ Preparing(c, todo, box)
    /\ Succeeded => DevicesMatch(box.net)
    /\ sound /\ phase \in {"apply", "restore"} => last[3] # <<>>
    /\ sound /\ Undone => Whole(box)

LEMMA NamesApart ==
    ASSUME NEW d
    PROVE  Device(Netdev(d)) = d /\ Extension(Netdev(d)) = "netdev" /\ Marked(Netdev(d))
BY DEF Netdev, FileName, Device, Extension, Marked

\* A rendered .netdev is named after its device, and says of what kind it is.
LEMMA NetdevsAre ==
    ASSUME NEW c, NEW f \in DOMAIN Network(c).net, Extension(f) = "netdev"
    PROVE  f = Netdev(Device(f)) /\ "Kind" \in DOMAIN Network(c).net[f]
<1> DEFINE of(kinds)  == {i \in DOMAIN c.interfaces : i[1] \in kinds}
           physical   == of({"ethernet", "loopback"})
           virtual    == of(DOMAIN VIRTUAL)
           File(i, ext) == FileName(IF i \in physical THEN "10" ELSE "20", i[2], ext)
           Owner(S, name, ext) == CHOOSE i \in S : File(i, ext) = name
           networks   == [name \in {File(i, "network") : i \in physical \cup virtual} |->
                             LET i == Owner(physical \cup virtual, name, "network")
                             IN  network_file(c, i[1], i[2])]
           netdevs    == [name \in {File(i, "netdev") : i \in virtual} |->
                             LET i == Owner(virtual, name, "netdev")
                             IN  netdev_file(VIRTUAL[i[1]], i[2], c.interfaces[i])]
<1>1. Network(c).net = Over(networks, netdevs)
  BY DEF Network, networkd_render, Artifacts
<1>2. DOMAIN networks = {File(i, "network") : i \in physical \cup virtual}
      /\ DOMAIN netdevs = {File(i, "netdev") : i \in virtual}
  OBVIOUS
<1>3. \A i, ext : Extension(File(i, ext)) = ext /\ Device(File(i, ext)) = i[2]
  BY DEF Extension, Device, FileName
<1>4. \A i \in virtual : File(i, "netdev") = Netdev(i[2])
  BY DEF VIRTUAL, Netdev
<1>5. \A name \in DOMAIN netdevs : \E kind, who, node : netdevs[name] = netdev_file(kind, who, node)
  OBVIOUS
<1> HIDE DEF File, networks, netdevs
<1>6. f \notin DOMAIN networks
  BY <1>2, <1>3
<1>7. f \in DOMAIN netdevs /\ Network(c).net[f] = netdevs[f]
  BY <1>1, <1>6 DEF Over
<1>8. PICK i \in virtual : f = File(i, "netdev")
  BY <1>2, <1>7
<1>9. f = Netdev(Device(f))
  BY <1>3, <1>4, <1>8
<1>10. ASSUME NEW kind, NEW who, NEW node PROVE "Kind" \in DOMAIN netdev_file(kind, who, node)
  <2>1. PICK common, own :
          /\ DOMAIN common = {"Name", "Kind", "Description", "MTUBytes", "MACAddress"}
          /\ common["Kind"] = <<kind>>
          /\ netdev_file(kind, who, node) = Ini(Over(common, own))
    BY DEF netdev_file
  <2>2. "Kind" \in DOMAIN Over(common, own) /\ Over(common, own)["Kind"] = <<kind>>
    BY <2>1 DEF Over
  <2>3. <<kind>> # <<>>
    OBVIOUS
  <2> QED BY <2>1, <2>2, <2>3 DEF Ini
<1> QED BY <1>5, <1>7, <1>9, <1>10

\* Devices with a .netdev among the rendered files.
LEMMA DescribedAre ==
    ASSUME NEW c, NEW d
    PROVE  d \in Described(Network(c).net) <=> Netdev(d) \in DOMAIN Network(c).net
BY NamesApart, NetdevsAre DEF Described

\* A device that is not rebuilt is as the new file says if it was as the old one said.
LEMMA StillFits ==
    ASSUME NEW c, NEW e, NEW m, NEW d, Fits(m, d, Network(e).net),
           Netdev(d) \in DOMAIN Network(c).net,
           ~needs_recreating(Network(e).net[Netdev(d)], Network(c).net[Netdev(d)])
    PROVE  Fits(m, d, Network(c).net)
<1>1. PICK f, g, dev : f = Network(e).net[Netdev(d)] /\ g = Network(c).net[Netdev(d)] /\ dev = m.devices[d]
  OBVIOUS
<1>2. "Kind" \in DOMAIN f /\ "Kind" \in DOMAIN g
  BY <1>1, NamesApart, NetdevsAre DEF Fits
<1>3. At(f, "Kind") = f["Kind"] /\ At(g, "Kind") = g["Kind"]
  BY <1>2 DEF At
<1>4. f["Kind"] = g["Kind"] /\ \A key \in RECREATE[f["Kind"][1]] : At(f, key) = At(g, key)
  BY <1>1, <1>3 DEF needs_recreating
<1>5. Matches(dev, f)
  BY <1>1 DEF Fits
<1>6. Matches(dev, g)
  BY <1>4, <1>5 DEF Matches
<1> QED BY <1>1, <1>6 DEF Fits

\* The devices the new files drop or describe in a way the kernel cannot change.
Gone(before, c) ==
    {Device(f) : f \in {n \in DOMAIN before :
        /\ Extension(n) = "netdev"
        /\ n \in DOMAIN Network(c).net => needs_recreating(before[n], Network(c).net[n])}}
Files(previous) == IF previous = <<>> THEN <<>> ELSE previous[1].net

LEMMA RebuildsAre ==
    ASSUME Written, NEW c, NEW previous
    PROVE  LET y == Commands(recreations(previous, Network(c)))
               S == ToSet(DeviceOrder) \cap Gone(Files(previous), c)
           IN  y \in Seq({Rebuild(d) : d \in S}) /\ ToSet(y) = {Rebuild(d) : d \in S}
<1>1. PICK gone, order : gone = Gone(Files(previous), c) /\ order = InOrder(DeviceOrder, gone)
  OBVIOUS
<1>2. PICK rs : rs = recreations(previous, Network(c))
  OBVIOUS
<1>3. rs = [i \in 1..Len(order) |-> [act |-> "RecreateNetdev", name |-> order[i]]]
  BY <1>1, <1>2 DEF recreations, Gone, Files
<1>4. PICK S : S = ToSet(DeviceOrder) \cap gone
  OBVIOUS
<1>5. order \in Seq(S) /\ ToSet(order) = S
  BY <1>1, <1>4, InOrderIs DEF Written
<1>6. PICK n \in Nat : n = Len(order) /\ DOMAIN order = 1..n
  BY <1>5
<1>7. Len(rs) = n
  BY <1>3, <1>6
<1>8. ASSUME NEW i \in 1..n PROVE OpRun(argv(rs[i])) = Rebuild(order[i]) /\ order[i] \in S
  <2>1. rs[i].act = "RecreateNetdev" /\ rs[i].name = order[i]
    BY <1>3, <1>6
  <2> QED BY <1>5, <1>6, <2>1 DEF argv, Rebuild
<1>9. PICK y : y = Commands(rs)
  OBVIOUS
<1>10. y = [i \in 1..n |-> OpRun(argv(rs[i]))]
  BY <1>7, <1>9 DEF Commands
<1>11. DOMAIN y = 1..n /\ \A i \in 1..n : y[i] = Rebuild(order[i])
  BY <1>8, <1>10
<1>12. PICK R : R = {Rebuild(d) : d \in S}
  OBVIOUS
<1>13. \A i \in 1..n : y[i] \in R
  BY <1>8, <1>11, <1>12
<1>14. y \in Seq(R)
  BY <1>10, <1>11, <1>13
<1>15. ToSet(y) = R
  <2>1. ToSet(y) = {y[i] : i \in 1..n} /\ S = {order[i] : i \in 1..n}
    BY <1>5, <1>6, <1>11, RangeIs
  <2> QED BY <1>8, <1>11, <1>12, <2>1
<1> QED BY <1>1, <1>2, <1>4, <1>9, <1>12, <1>14, <1>15

\* The files, the devices to rebuild, the reload.
LEMMA ApplyIs ==
    ASSUME NEW c, NEW previous
    PROVE  networkd_apply(previous, Network(c)) =
              (<<OpSync("net", Network(c).net), OpSync("link", Network(c).link)>>
               \o Commands(recreations(previous, Network(c)))) \o <<ReloadAll>>
<1>1. Network(c).actions = <<[act |-> "ReloadNetworkd"]>>
  BY DEF Network, networkd_render, Artifacts
<1>2. Len(Network(c).actions) = 1 /\ Network(c).actions[1].act = "ReloadNetworkd"
  BY <1>1
<1>3. OpRun(argv(Network(c).actions[1])) = ReloadAll
  BY <1>2 DEF argv, ReloadAll
<1>4. Commands(Network(c).actions) = [i \in 1..1 |-> ReloadAll]
  BY <1>2, <1>3 DEF Commands
<1>5. Commands(Network(c).actions) = <<ReloadAll>>
  BY <1>4
<1> QED BY <1>5 DEF networkd_apply

LEMMA RunsApart ==
    ASSUME NEW d, NEW e
    PROVE  /\ Rebuild(d) # ReloadAll
           /\ Rebuild(d) = Rebuild(e) => d = e
<1>1. <<"networkctl-delete", d>> # <<"networkctl-reload">>
  OBVIOUS
<1>2. <<"networkctl-delete", d>> = <<"networkctl-delete", e>> => d = e
  OBVIOUS
<1> QED BY <1>1, <1>2 DEF Rebuild, ReloadAll, OpRun

LEMMA OneMore ==
    ASSUME NEW S, NEW u \in Seq(S), NEW x
    PROVE  /\ Len(u) \in Nat /\ Len(u \o <<x>>) = Len(u) + 1
           /\ \A i \in 1..Len(u) : (u \o <<x>>)[i] = u[i] /\ u[i] \in S
           /\ (u \o <<x>>)[Len(u) + 1] = x
<1>1. PICK T : T = S \cup {x}
  OBVIOUS
<1>2. u \in Seq(T) /\ <<x>> \in Seq(T) /\ Len(<<x>>) = 1 /\ <<x>>[1] = x /\ Len(u) \in Nat
  BY <1>1
<1>3. \A i \in 1..Len(u) : u[i] \in S
  OBVIOUS
<1>4. PICK v : v = <<x>>
  OBVIOUS
<1>5. Len(u \o v) = Len(u) + 1 /\ \A i \in 1..Len(u) : (u \o v)[i] = u[i]
  BY <1>2, <1>4
<1>6. (u \o v)[Len(u) + 1] = v[1]
  BY <1>2, <1>4
<1> QED BY <1>2, <1>3, <1>4, <1>5, <1>6

\* An apply over a box with what is on record: everything that does not fit is ahead.
LEMMA Prepared ==
    ASSUME Written, NEW c \in Configs, NEW m, DOMAIN m.devices \subseteq ToSet(DeviceOrder),
           last[3] = <<>> \/ \E e \in Configs : last[3] = <<Network(e)>>, Recorded(m)
    PROVE  Preparing(c, networkd_apply(last[3], Network(c)), m)
<1>1. PICK prev, s : prev = last[3] /\ s = networkd_apply(prev, Network(c))
  OBVIOUS
<1>2. PICK p, q : p = OpSync("net", Network(c).net) /\ q = OpSync("link", Network(c).link)
  OBVIOUS
<1>3. PICK x, y, z : x = <<p, q>> /\ y = Commands(recreations(prev, Network(c))) /\ z = <<ReloadAll>>
  OBVIOUS
<1>4. PICK W, R : /\ W = NetWork(c)
                  /\ R = {Rebuild(d) : d \in ToSet(DeviceOrder) \cap Gone(Files(prev), c)}
  OBVIOUS
<1>5. s = (x \o y) \o z
  BY <1>1, <1>2, <1>3, ApplyIs
<1>6. x \in Seq(W) /\ ToSet(x) = W
  BY <1>2, <1>3, <1>4, Few DEF NetWork
<1>7. y \in Seq(R) /\ ToSet(y) = R
  BY <1>3, <1>4, RebuildsAre
<1>8. z \in Seq({ReloadAll}) /\ ToSet(z) = {ReloadAll} /\ Len(z) = 1 /\ z[1] = ReloadAll
  BY <1>3, Few
<1>9. ReloadAll \notin W \cup R
  BY <1>4, NetApart, RunsApart
<1>10. PICK u : u = x \o y
  OBVIOUS
<1>11. u \in Seq(W \cup R) /\ ToSet(u) = W \cup R
  <2>1. x \in Seq(W \cup R) /\ y \in Seq(W \cup R)
    BY <1>6, <1>7
  <2> QED BY <1>6, <1>7, <1>10, <2>1, Joined
<1>12. s = u \o z /\ s \in Seq(W \cup R \cup {ReloadAll}) /\ ToSet(s) = W \cup R \cup {ReloadAll}
  <2>1. PICK S : S = W \cup R \cup {ReloadAll}
    OBVIOUS
  <2>2. u \in Seq(S) /\ z \in Seq(S)
    BY <1>8, <1>11, <2>1
  <2>3. u \o z \in Seq(S) /\ ToSet(u \o z) = ToSet(u) \cup ToSet(z)
    BY <2>2, Joined
  <2> QED BY <1>5, <1>8, <1>10, <1>11, <2>1, <2>3
<1>13. ReloadIsLast(s) /\ s # <<>>
  <2>1. /\ Len(u) \in Nat /\ Len(s) = Len(u) + 1 /\ \A i \in 1..Len(u) : s[i] = u[i] /\ u[i] \in W \cup R
        /\ s[Len(u) + 1] = z[1]
    BY <1>3, <1>8, <1>11, <1>12, OneMore
  <2>2. \A i \in 1..Len(s) : i \in 1..Len(u) \/ i = Len(s)
    BY <2>1
  <2>3. \A i \in 1..Len(u) : s[i] # ReloadAll /\ i # Len(s)
    BY <1>9, <2>1
  <2>4. s[Len(s)] = ReloadAll
    BY <1>8, <2>1
  <2>5. s # <<>>
    BY <2>1
  <2> QED BY <2>2, <2>3, <2>4, <2>5 DEF ReloadIsLast
<1>14. R \subseteq Rebuilds /\ ReloadAll \in Rebuilds
  BY <1>4 DEF Rebuilds
<1>15. s \in Seq(NetWork(c) \cup Rebuilds)
  <2>1. W \cup R \cup {ReloadAll} \subseteq NetWork(c) \cup Rebuilds
    BY <1>4, <1>14
  <2> QED BY <1>12, <2>1
<1>16. ASSUME NEW d \in DOMAIN m.devices PROVE Rebuild(d) \in ToSet(s) \/ Fits(m, d, Network(c).net)
  <2>1. PICK e \in Configs : prev = <<Network(e)>>
    BY <1>1 DEF Recorded
  <2>2. Files(prev) = Network(e).net
    BY <2>1 DEF Files
  <2>3. Fits(m, d, Network(e).net)
    BY <1>1, <2>1 DEF Recorded, AllFit
  <2>4. CASE d \in Gone(Files(prev), c)
    BY <1>4, <1>12, <2>4
  <2>5. CASE d \notin Gone(Files(prev), c)
    <3>1. Netdev(d) \in DOMAIN Network(e).net
      BY <2>3 DEF Fits
    <3>2. /\ Netdev(d) \in DOMAIN Network(c).net
          /\ ~needs_recreating(Network(e).net[Netdev(d)], Network(c).net[Netdev(d)])
      BY <2>2, <2>5, <3>1, NamesApart DEF Gone
    <3> QED BY <2>3, <3>2, StillFits
  <2> QED BY <2>4, <2>5
<1> QED BY <1>1, <1>4, <1>12, <1>13, <1>15, <1>16 DEF Preparing

LEMMA SyncPlaces ==
    ASSUME NEW old, NEW f, \A n \in DOMAIN f : Marked(n)
    PROVE  InPlace(Sync(old, f), f)
<1>1. PICK g : g = Sync(old, f)
  OBVIOUS
<1>2. DOMAIN g = DOMAIN f \cup {n \in DOMAIN old : ~Marked(n)}
  BY <1>1 DEF Sync
<1>3. \A n \in DOMAIN f : g[n] = f[n]
  BY <1>1 DEF Sync
<1> QED BY <1>1, <1>2, <1>3 DEF InPlace

LEMMA SyncedIs ==
    ASSUME NEW f, NEW m
    PROVE  /\ Synced(OpSync("net", f), m) <=> InPlace(m.net, f)
           /\ Synced(OpSync("link", f), m) <=> InPlace(m.link, f)
BY DEF Synced, OpSync

\* No device of the second box is new, or another.
Fewer(b, m) ==
    DOMAIN b.devices \subseteq DOMAIN m.devices /\ \A d \in DOMAIN b.devices : b.devices[d] = m.devices[d]

LEMMA FewerFit ==
    ASSUME NEW m, NEW b, Fewer(b, m), NEW d \in DOMAIN b.devices, NEW net, Fits(m, d, net)
    PROVE  Fits(b, d, net)
BY DEF Fewer, Fits

LEMMA FewerOnRecord ==
    ASSUME NEW m, NEW b, Fewer(b, m), Recorded(m)
    PROVE  Recorded(b)
BY FewerFit DEF Recorded, AllFit, Fewer

LEMMA StayMarked ==
    ASSUME Written, NEW c \in Configs, NEW m, BoxOK(m), NetdevsMarked(m),
           NEW op \in NetWork(c) \cup Rebuilds, NEW b \in Left(op, m)
    PROVE  NetdevsMarked(b)
<1>1. DOMAIN b.net \subseteq DOMAIN m.net \cup DOMAIN Network(c).net
  BY NetEffect DEF BoxOK
<1> QED BY <1>1, NetNames DEF NetdevsMarked

\* The .netdev files of a box whose directory is in place are the rendered ones.
LEMMA DescribedOnBox ==
    ASSUME NEW c, NEW m, NetdevsMarked(m), InPlace(m.net, Network(c).net)
    PROVE  /\ Described(m.net) = Described(Network(c).net)
           /\ \A n \in DOMAIN m.net : Extension(n) = "netdev" =>
                 /\ n = Netdev(Device(n)) /\ n \in DOMAIN Network(c).net
                 /\ m.net[n] = Network(c).net[n]
<1>1. PICK f, g : f = Network(c).net /\ g = m.net
  OBVIOUS
<1>2. DOMAIN f \subseteq DOMAIN g /\ \A n \in DOMAIN f : g[n] = f[n]
  BY <1>1 DEF InPlace
<1>3. \A n \in DOMAIN g : Extension(n) = "netdev" => n \in DOMAIN f
  BY <1>1 DEF InPlace, NetdevsMarked
<1>4. Described(g) = Described(f)
  BY <1>2, <1>3 DEF Described
<1> QED BY <1>1, <1>2, <1>3, <1>4, NetdevsAre

\* networkd's reload over devices that fit leaves the ones described.
LEMMA Reloaded ==
    ASSUME NEW c, NEW m, DOMAIN m = Fields, NetdevsMarked(m), AllFit(m, Network(c).net),
           InPlace(m.net, Network(c).net)
    PROVE  /\ AllFit(Reload(m), Network(c).net)
           /\ Described(Network(c).net) \subseteq DOMAIN Reload(m).devices
           /\ Reload(m).net = m.net /\ Reload(m).link = m.link
<1>1. PICK f : f = Network(c).net
  OBVIOUS
<1>2. PICK new : new = {n \in {k \in DOMAIN m.net : Extension(k) = "netdev"} : Device(n) \notin DOMAIN m.devices}
  OBVIOUS
<1>3. PICK g : g = [d \in DOMAIN m.devices \cup {Device(n) : n \in new} |->
                       IF d \in DOMAIN m.devices THEN m.devices[d]
                       ELSE m.net[CHOOSE n \in new : Device(n) = d]]
  OBVIOUS
<1>4. Reload(m) = [m EXCEPT !.devices = g]
  BY <1>2, <1>3 DEF Reload
<1>5. PICK b : b = Reload(m)
  OBVIOUS
<1>6. b.devices = g /\ b.net = m.net /\ b.link = m.link
  BY <1>4, <1>5 DEF Fields
<1>7. DOMAIN g = DOMAIN m.devices \cup {Device(n) : n \in new}
      /\ \A d \in DOMAIN m.devices : g[d] = m.devices[d]
  BY <1>3
<1>8. ASSUME NEW d \in DOMAIN g, d \notin DOMAIN m.devices PROVE Netdev(d) \in DOMAIN f /\ g[d] = f[Netdev(d)]
  <2>1. PICK k : k = CHOOSE n \in new : Device(n) = d
    OBVIOUS
  <2>2. k \in new /\ Device(k) = d
    BY <1>7, <1>8, <2>1
  <2>3. k = Netdev(d) /\ k \in DOMAIN f /\ m.net[k] = f[k]
    BY <1>1, <1>2, <2>2, DescribedOnBox
  <2>4. g[d] = m.net[k]
    BY <1>3, <1>8, <2>1
  <2> QED BY <2>3, <2>4
<1>9. ASSUME NEW d \in DOMAIN g PROVE Fits(b, d, f)
  <2>1. CASE d \in DOMAIN m.devices
    <3>1. Fits(m, d, f)
      BY <1>1, <2>1 DEF AllFit
    <3> QED BY <1>6, <1>7, <2>1, <3>1 DEF Fits
  <2>2. CASE d \notin DOMAIN m.devices
    <3>1. Netdev(d) \in DOMAIN f /\ b.devices[d] = f[Netdev(d)]
      BY <1>6, <1>8, <2>2
    <3>2. \A h : Matches(h, h)
      BY DEF Matches
    <3> QED BY <3>1, <3>2 DEF Fits
  <2> QED BY <2>1, <2>2
<1>10. ASSUME NEW d \in Described(f) PROVE d \in DOMAIN g
  <2>1. d \in Described(m.net)
    BY <1>1, <1>10, DescribedOnBox
  <2>2. PICK n \in DOMAIN m.net : Extension(n) = "netdev" /\ Device(n) = d
    BY <2>1 DEF Described
  <2> QED BY <1>2, <1>7, <2>2
<1> QED BY <1>1, <1>5, <1>6, <1>9, <1>10 DEF AllFit

\* What the next operation of the interfaces' apply comes to.
LEMMA OneOn ==
    ASSUME Written, NEW c \in Configs, NEW m, BoxOK(m), NetdevsMarked(m), NEW s, Preparing(c, s, m),
           NEW b \in Done(Head(s), m)
    PROVE  /\ NetdevsMarked(b)
           /\ \/ Tail(s) = <<>> /\ Settled(c, b)
              \/ Tail(s) # <<>> /\ Preparing(c, Tail(s), b) /\ Fewer(b, m)
<1>1. PICK S, op, t : S = NetWork(c) \cup Rebuilds /\ op = Head(s) /\ t = Tail(s)
  OBVIOUS
<1>2. s \in Seq(S) /\ s # <<>>
  BY <1>1 DEF Preparing
<1>3. /\ op \in S /\ t \in Seq(S) /\ ToSet(s) = {op} \cup ToSet(t) /\ op = s[1]
      /\ Len(s) \in Nat \ {0} /\ Len(t) = Len(s) - 1
      /\ \A i \in 1..Len(t) : i + 1 \in 1..Len(s) /\ t[i] = s[i + 1]
  BY <1>1, <1>2, Shorter
<1>4. DOMAIN m = Fields
  BY DEF BoxOK
<1>5. b \in Done(op, m) /\ b \in Left(op, m)
  BY <1>1 DEF Left
<1>6. NetdevsMarked(b)
  BY <1>1, <1>3, <1>5, StayMarked
<1>7. PICK f, l : f = Network(c).net /\ l = Network(c).link
  OBVIOUS
<1>8. NetWork(c) = {OpSync("net", f), OpSync("link", l)}
  BY <1>7 DEF NetWork
<1>9. op = ReloadAll <=> t = <<>>
  <2>1. 1 \in 1..Len(s) /\ (s[1] = ReloadAll <=> 1 = Len(s))
    BY <1>3 DEF Preparing, ReloadIsLast
  <2>2. t = <<>> <=> Len(t) = 0
    BY <1>3
  <2> QED BY <1>3, <2>1, <2>2
<1>10. ReloadIsLast(t)
  <2>1. ASSUME NEW i \in 1..Len(t) PROVE t[i] = ReloadAll <=> i = Len(t)
    <3>1. i + 1 \in 1..Len(s) /\ t[i] = s[i + 1] /\ (i + 1 = Len(s) <=> i = Len(t))
      BY <1>3
    <3>2. s[i + 1] = ReloadAll <=> i + 1 = Len(s)
      BY <3>1 DEF Preparing, ReloadIsLast
    <3> QED BY <3>1, <3>2
  <2> QED BY <2>1 DEF ReloadIsLast
<1>11. /\ \A w \in NetWork(c) : w = op \/ w \in ToSet(t) \/ Synced(w, m)
       /\ \A d \in DOMAIN m.devices : Rebuild(d) = op \/ Rebuild(d) \in ToSet(t) \/ Fits(m, d, f)
  BY <1>3, <1>7 DEF Preparing
<1>12. ASSUME t # <<>>, Fewer(b, m), \A w \in NetWork(c) : w = op \/ Synced(w, m) => Synced(w, b),
              \A d \in DOMAIN b.devices : Rebuild(d) # op
       PROVE  Preparing(c, t, b) /\ Fewer(b, m)
  <2>1. \A w \in NetWork(c) : w \in ToSet(t) \/ Synced(w, b)
    BY <1>11, <1>12
  <2>2. ASSUME NEW d \in DOMAIN b.devices PROVE Rebuild(d) \in ToSet(t) \/ Fits(b, d, f)
    <3>1. d \in DOMAIN m.devices /\ Rebuild(d) # op
      BY <1>12 DEF Fewer
    <3>2. Rebuild(d) \in ToSet(t) \/ Fits(m, d, f)
      BY <1>11, <3>1
    <3> QED BY <1>12, <3>2, FewerFit
  <2> QED BY <1>1, <1>3, <1>7, <1>10, <1>12, <2>1, <2>2 DEF Preparing
<1>13. CASE op = OpSync("net", f)
  <2>1. b = [m EXCEPT !.net = Sync(@, f)]
    BY <1>5, <1>13, SyncDone
  <2>2. b.net = Sync(m.net, f) /\ b.link = m.link /\ b.devices = m.devices
    BY <1>4, <2>1 DEF Fields
  <2>3. InPlace(b.net, f)
    BY <1>7, <2>2, NetNames, SyncPlaces
  <2>4. \A w \in NetWork(c) : w = op \/ Synced(w, m) => Synced(w, b)
    <3>1. Synced(OpSync("net", f), b) /\ (Synced(OpSync("link", l), m) => Synced(OpSync("link", l), b))
      BY <2>2, <2>3, SyncedIs
    <3>2. op = OpSync("link", l) => Synced(OpSync("link", l), b)
      BY <1>13 DEF OpSync
    <3> QED BY <1>8, <3>1, <3>2
  <2>5. op # ReloadAll /\ \A d : Rebuild(d) # op
    BY <1>8, <1>13, NetApart
  <2> QED BY <1>1, <1>6, <1>9, <1>12, <2>2, <2>4, <2>5 DEF Fewer
<1>14. CASE op = OpSync("link", l)
  <2>1. b = [m EXCEPT !.link = Sync(@, l)]
    BY <1>5, <1>14, SyncDone
  <2>2. b.link = Sync(m.link, l) /\ b.net = m.net /\ b.devices = m.devices
    BY <1>4, <2>1 DEF Fields
  <2>3. InPlace(b.link, l)
    BY <1>7, <2>2, NetNames, SyncPlaces
  <2>4. \A w \in NetWork(c) : w = op \/ Synced(w, m) => Synced(w, b)
    <3>1. Synced(OpSync("link", l), b) /\ (Synced(OpSync("net", f), m) => Synced(OpSync("net", f), b))
      BY <2>2, <2>3, SyncedIs
    <3>2. op = OpSync("net", f) => Synced(OpSync("net", f), b)
      BY <1>14 DEF OpSync
    <3> QED BY <1>8, <3>1, <3>2
  <2>5. op # ReloadAll /\ \A d : Rebuild(d) # op
    BY <1>8, <1>14, NetApart
  <2> QED BY <1>1, <1>6, <1>9, <1>12, <2>2, <2>4, <2>5 DEF Fewer
<1>15. ASSUME NEW n, op = Rebuild(n)
       PROVE  t # <<>> /\ Preparing(c, t, b) /\ Fewer(b, m)
  <2>1. b = [m EXCEPT !.devices = Without(@, n)]
    BY <1>5, <1>15, RunDone
  <2>2. b.net = m.net /\ b.link = m.link /\ b.devices = Without(m.devices, n)
    BY <1>4, <2>1 DEF Fields
  <2>3. Fewer(b, m) /\ n \notin DOMAIN b.devices
    BY <2>2 DEF Fewer, Without
  <2>4. \A w \in NetWork(c) : w = op \/ Synced(w, m) => Synced(w, b)
    BY <1>15, <2>2, NetApart DEF Synced
  <2>5. op # ReloadAll
    BY <1>15, RunsApart
  <2>6. ASSUME NEW d \in DOMAIN b.devices PROVE Rebuild(d) # op
    BY <1>15, <2>3, <2>6, RunsApart
  <2> QED BY <1>9, <1>12, <2>3, <2>4, <2>5, <2>6
<1>16. CASE op = ReloadAll
  <2>1. b = Reload(m)
    <3>1. Done(ReloadAll, m) = {Reload(m)}
      BY RunDone
    <3> QED BY <1>5, <1>16, <3>1
  <2>2. t = <<>> /\ ToSet(t) = {}
    BY <1>9, <1>16, Few
  <2>3. \A w \in NetWork(c) : Synced(w, m)
    BY <1>11, <1>16, <2>2, NetApart
  <2>4. AllFit(m, f)
    <3> SUFFICES ASSUME NEW d \in DOMAIN m.devices PROVE Fits(m, d, f)
      BY DEF AllFit
    <3> QED BY <1>11, <1>16, <2>2, RunsApart
  <2>5. InPlace(m.net, f)
    BY <1>8, <2>3, SyncedIs
  <2>6. /\ AllFit(b, f) /\ Described(f) \subseteq DOMAIN b.devices
        /\ b.net = m.net /\ b.link = m.link
    BY <1>4, <1>7, <2>1, <2>4, <2>5, Reloaded
  <2>7. \A w \in NetWork(c) : Synced(w, b)
    BY <2>3, <2>6 DEF Synced
  <2>8. Settled(c, b)
    BY <1>7, <2>6, <2>7 DEF Settled
  <2> QED BY <1>1, <1>6, <2>2, <2>8
<1>17. op = OpSync("net", f) \/ op = OpSync("link", l) \/ op = ReloadAll \/ \E n : op = Rebuild(n)
  BY <1>1, <1>3, <1>8 DEF Rebuilds
<1> QED BY <1>1, <1>6, <1>13, <1>14, <1>15, <1>16, <1>17

LEMMA RecordIs ==
    ASSUME RecordsOK
    PROVE  last[3] = <<>> \/ \E e \in Configs : last[3] = <<Network(e)>>
BY ThirdsAre DEF RecordsOK

\* restore() going on, or returning, over devices that are some of those on record.
LEMMA GoesBack ==
    ASSUME Written, RecordsOK, UNCHANGED <<last, sound>>, BoxOK(box'), NetdevsMarked(box'),
           Recorded(box'), sound => last[3] # <<>>, NEW r \in 0..3, RestoreFrom(r),
           sound /\ ~problems' /\ r < 3 => Whole(box')
    PROVE  DevInv'
<1>1. NetdevsMarked(box)' /\ Recorded(box)'
  BY DEF NetdevsMarked, Recorded, AllFit, Fits
<1>2. CASE r = 0
  <2>1. /\ phase' = "idle" /\ at' = 0 /\ todo' = <<>>
        /\ result' = IF problems' THEN "unrecovered" ELSE "restored"
    BY <1>2 DEF RestoreFrom, Return
  <2>2. ~Unrecorded' /\ ~Succeeded'
    BY <2>1 DEF Unrecorded, Succeeded
  <2>3. sound' /\ Undone' => Whole(box)'
    <3>1. Undone' => ~problems'
      BY <2>1 DEF Undone
    <3> QED BY <1>2, <3>1 DEF Whole
  <2> QED BY <1>1, <2>1, <2>2, <2>3 DEF DevInv
<1>3. CASE r # 0
  <2>1. /\ phase' = "restore" /\ at' = r
        /\ todo' = IF last[r] = <<>> THEN <<>> ELSE ApplyOps(r, last[r][1])
    BY <1>3 DEF RestoreFrom
  <2>2. ~Unrecorded' /\ ~Succeeded'
    BY <2>1 DEF Unrecorded, Succeeded
  <2>3. ASSUME r = 3, last[3] # <<>>
        PROVE  \E c \in Configs : last[3] = <<Network(c)>> /\ Preparing(c, todo', box')
    <3>1. PICK c \in Configs : last[3] = <<Network(c)>>
      BY <2>3, RecordIs
    <3>2. todo' = networkd_apply(last[3], Network(c))
      BY <2>1, <2>3, <3>1, ThirdsAre
    <3>3. DOMAIN box'.devices \subseteq ToSet(DeviceOrder)
      BY DEF BoxOK
    <3>4. Preparing(c, networkd_apply(last[3], Network(c)), box')
      BY <3>1, <3>3, RecordIs, Prepared
    <3> QED BY <3>1, <3>2, <3>4
  <2>4. r = 3 /\ todo' # <<>> => \E c \in Configs : last'[3] = <<Network(c)>> /\ Preparing(c, todo', box')
    BY <2>1, <2>3
  <2>5. r = 3 /\ todo' = <<>> => last[3] = <<>>
    BY <2>3 DEF Preparing
  <2>6. sound' /\ Undone' => Whole(box)'
    <3>1. Undone' => ~problems' /\ (r < 3 \/ todo' = <<>>)
      BY <2>1 DEF Undone
    <3>2. sound /\ Undone' => Whole(box')
      BY <2>5, <3>1
    <3> QED BY <3>2 DEF Whole
  <2> QED BY <1>1, <2>1, <2>2, <2>4, <2>6 DEF DevInv
<1> QED BY <1>2, <1>3

LEMMA DevFailing ==
    ASSUME Written, IInv, DevInv, Failed, ~Unrecorded, UNCHANGED <<last, sound>>,
           BoxOK(box'), NetdevsMarked(box'), Recorded(box'), Whole(box) => Whole(box')
    PROVE  DevInv'
<1>1. RecordsOK
  BY DEF IInv
<1>2. phase \in {"apply", "restore"} /\ at \in 1..3
  BY DEF Failed, IInv, Progress, Renderers
<1>3. sound => last[3] # <<>>
  BY <1>2 DEF DevInv
<1>4. CASE phase = "apply" /\ UNCHANGED problems /\ RestoreFrom(at)
  <2>1. PICK r \in 0..3 : r = at
    BY <1>2
  <2>2. RestoreFrom(r)
    BY <1>4, <2>1
  <2>3. sound /\ ~problems' /\ r < 3 => Whole(box')
    BY <1>4, <2>1 DEF DevInv, Undone
  <2> QED BY <1>1, <1>3, <2>2, <2>3, GoesBack
<1>5. CASE phase = "restore" /\ problems' = TRUE /\ RestoreFrom(at - 1)
  <2>1. PICK r \in 0..3 : r = at - 1
    BY <1>2
  <2>2. RestoreFrom(r)
    BY <1>5, <2>1
  <2> QED BY <1>1, <1>3, <1>5, <2>2, GoesBack
<1> QED BY <1>4, <1>5 DEF Failed

\* Settled devices match, whatever other files are about.
LEMMA SettledMatch ==
    ASSUME NetdevsMarked(box), NEW c, Settled(c, box)
    PROVE  DevicesMatch(box.net)
<1>1. PICK f : f = Network(c).net
  OBVIOUS
<1>2. InPlace(box.net, f)
  BY <1>1, SyncedIs DEF Settled, NetWork
<1>3. /\ Described(box.net) = Described(f)
      /\ \A n \in DOMAIN box.net : Extension(n) = "netdev" =>
            n = Netdev(Device(n)) /\ n \in DOMAIN f /\ box.net[n] = f[n]
  BY <1>1, <1>2, DescribedOnBox
<1>4. DOMAIN box.devices = Described(f)
  BY <1>1, DescribedAre DEF Settled, AllFit, Fits
<1>5. ASSUME NEW n \in DOMAIN box.net, Extension(n) = "netdev"
      PROVE  Matches(box.devices[Device(n)], box.net[n])
  <2>1. PICK d : d = Device(n)
    OBVIOUS
  <2>2. n = Netdev(d) /\ n \in DOMAIN f /\ box.net[n] = f[n]
    BY <1>3, <1>5, <2>1
  <2>3. d \in DOMAIN box.devices
    BY <1>1, <1>4, <2>2, DescribedAre
  <2>4. Fits(box, d, f)
    BY <1>1, <2>3 DEF Settled, AllFit
  <2> QED BY <2>1, <2>2, <2>4 DEF Fits
<1> QED BY <1>3, <1>4, <1>5 DEF DevicesMatch

LEMMA WholeMatch ==
    ASSUME RecordsOK, Recorded(box), Whole(box)
    PROVE  DevicesMatch(last[3][1].net)
<1>1. PICK c \in Configs : last[3] = <<Network(c)>>
  BY RecordIs DEF Whole
<1>2. PICK f : f = Network(c).net /\ last[3][1].net = f
  BY <1>1
<1>3. AllFit(box, f) /\ Described(f) \subseteq DOMAIN box.devices
  BY <1>2 DEF Recorded, Whole
<1>4. DOMAIN box.devices = Described(f)
  BY <1>2, <1>3, DescribedAre DEF AllFit, Fits
<1>5. ASSUME NEW n \in DOMAIN f, Extension(n) = "netdev"
      PROVE  Matches(box.devices[Device(n)], f[n])
  <2>1. PICK d : d = Device(n)
    OBVIOUS
  <2>2. n = Netdev(d)
    BY <1>2, <1>5, <2>1, NetdevsAre
  <2>3. Fits(box, d, f)
    BY <1>2, <1>3, <1>4, <1>5, <2>2, DescribedAre DEF AllFit
  <2> QED BY <2>1, <2>2, <2>3 DEF Fits
<1> QED BY <1>2, <1>4, <1>5 DEF DevicesMatch

LEMMA DevBegin ==
    ASSUME IInv, DevInv, NEW c \in Configs, Begin(c)
    PROVE  DevInv'
<1>1. /\ phase = "idle" /\ UNCHANGED <<box, last>>
      /\ (phase' = "apply" /\ at' = 1) \/ (phase' = "idle" /\ result' = "refused")
  BY DEF Begin, Return
<1>2. NetdevsMarked(box)' /\ Recorded(box)'
  <2>1. ~Unrecorded
    BY <1>1 DEF Unrecorded
  <2>2. NetdevsMarked(box) /\ Recorded(box)
    BY <2>1 DEF DevInv
  <2> QED BY <1>1, <2>2 DEF NetdevsMarked, Recorded, AllFit, Fits
<1>3. ~Unrecorded' /\ ~Succeeded'
  BY <1>1 DEF Unrecorded, Succeeded
<1>4. sound' => last'[3] # <<>> /\ Whole(box)'
  <2>1. sound' = (last[3] # <<>> /\ DevicesMatch(last[3][1].net))
    BY Zenon DEF Begin
  <2> QED BY <1>1, <2>1 DEF DevicesMatch, Whole
<1> QED BY <1>1, <1>2, <1>3, <1>4 DEF DevInv

\* An operation of the system or the login renderer has nothing to do with interfaces.
LEMMA Untouched ==
    ASSUME IInv, todo # <<>>, at # 3, NEW b \in Left(Head(todo), box)
    PROVE  b.net = box.net /\ b.devices = box.devices
<1>1. phase \in {"apply", "restore"}
  BY DEF IInv, Progress, Typed
<1>2. PICK r \in Renderers : r = at
  BY <1>1 DEF IInv, Progress
<1>3. PICK c \in Configs : Doing(r, c, todo, box)
  BY <1>1, <1>2 DEF IInv, Progress, Reached
<1>4. PICK s, m : s = todo /\ m = box
  OBVIOUS
<1>5. s \in Seq(Work(r, c) \cup Extra(r, c)) /\ s # <<>>
  BY <1>3, <1>4 DEF Doing, Asked
<1>6. PICK op : op = Head(s)
  OBVIOUS
<1>7. op \in Work(r, c) \cup Extra(r, c)
  BY <1>5, <1>6, Shorter
<1>8. DOMAIN m = Fields /\ b \in Left(op, m)
  BY <1>4, <1>6 DEF IInv, BoxOK
<1>9. CASE r = 1
  <2>1. op \in SystemWork(c)
    BY <1>7, <1>9, ThirdsAre
  <2>2. b.net = m.net /\ b.devices = m.devices
    BY <1>8, <2>1, SystemEffect
  <2> QED BY <1>4, <2>2
<1>10. CASE r = 2
  <2>1. op \in LoginWork(c) \cup Removals(c)
    BY <1>7, <1>10, ThirdsAre
  <2>2. b.net = m.net /\ b.devices = m.devices
    BY <1>8, <2>1, LoginEffect
  <2> QED BY <1>4, <2>2
<1> QED BY <1>2, <1>9, <1>10, ThirdsAre

LEMMA DevOperate ==
    ASSUME Written, IInv, DevInv, Operate
    PROVE  DevInv'
<1>1. /\ todo # <<>> /\ todo' = Tail(todo)
      /\ UNCHANGED <<last, phase, at, target, problems, result, faulted, sound, calls>>
  BY DEF Operate
<1>2. PICK m, b, s : m = box /\ b = box' /\ s = todo
  OBVIOUS
<1>3. b \in Done(Head(s), m) /\ b \in Left(Head(s), m)
  BY <1>2 DEF Operate, Left
<1>4. phase \in {"apply", "restore"} /\ at \in 1..3
  BY <1>1 DEF IInv, Progress, Typed, Renderers
<1>5. ~Unrecorded /\ NetdevsMarked(m) /\ Recorded(m) /\ BoxOK(m)
  BY <1>1, <1>2, <1>4 DEF DevInv, Unrecorded, IInv
<1>6. ~Succeeded'
  BY <1>1, <1>4 DEF Succeeded
<1>7. sound' /\ phase' \in {"apply", "restore"} => last'[3] # <<>>
  BY <1>1 DEF DevInv
<1>8. CASE at # 3
  <2>1. b.net = m.net /\ b.devices = m.devices
    BY <1>1, <1>2, <1>3, <1>8, Untouched
  <2>2. NetdevsMarked(b) /\ Recorded(b)
    BY <1>5, <2>1 DEF NetdevsMarked, Recorded, AllFit, Fits
  <2>3. NetdevsMarked(box)' /\ Recorded(box)'
    BY <1>1, <1>2, <2>2 DEF Recorded
  <2>4. ~Unrecorded'
    BY <1>1, <1>4, <1>8 DEF Unrecorded
  <2>5. sound' /\ Undone' => Whole(box)'
    <3>1. Undone' => Undone
      BY <1>1, <1>4, <1>8 DEF Undone
    <3>2. sound /\ Undone => Whole(m)
      BY <1>2 DEF DevInv
    <3>3. Whole(m) => Whole(b)
      BY <2>1 DEF Whole
    <3> QED BY <1>1, <1>2, <3>1, <3>2, <3>3 DEF Whole
  <2> QED BY <1>1, <1>6, <1>7, <1>8, <2>3, <2>4, <2>5 DEF DevInv
<1>9. CASE at = 3
  <2>1. PICK c \in Configs : /\ Preparing(c, s, m)
                             /\ phase = "apply" => target = <<c>>
                             /\ phase = "restore" => last[3] = <<Network(c)>>
    BY <1>1, <1>2, <1>4, <1>9 DEF DevInv
  <2>2. /\ NetdevsMarked(b)
        /\ \/ Tail(s) = <<>> /\ Settled(c, b)
           \/ Tail(s) # <<>> /\ Preparing(c, Tail(s), b) /\ Fewer(b, m)
    BY <1>3, <1>5, <2>1, OneOn
  <2>3. Recorded(b) => Recorded(box)'
    BY <1>1, <1>2 DEF Recorded
  <2>4. CASE Tail(s) = <<>> /\ Settled(c, b)
    <3>1. CASE phase = "apply"
      <4>1. Unrecorded' /\ ~Undone'
        BY <1>1, <1>2, <1>9, <2>4, <3>1 DEF Unrecorded, Undone
      <4> QED BY <1>1, <1>2, <1>6, <1>7, <2>1, <2>2, <2>4, <3>1, <4>1 DEF DevInv
    <3>2. CASE phase = "restore"
      <4>1. ~Unrecorded'
        BY <1>1, <3>2 DEF Unrecorded
      <4>2. Recorded(b) /\ Whole(b)
        BY <2>1, <2>4, <3>2 DEF Settled, Recorded, Whole
      <4>3. Recorded(box)' /\ Whole(box)'
        BY <1>1, <1>2, <2>3, <4>2 DEF Whole
      <4> QED BY <1>1, <1>2, <1>6, <1>7, <2>2, <2>4, <3>2, <4>1, <4>3 DEF DevInv
    <3> QED BY <1>4, <3>1, <3>2
  <2>5. CASE Tail(s) # <<>> /\ Preparing(c, Tail(s), b) /\ Fewer(b, m)
    <3>1. Recorded(box)'
      BY <1>5, <2>3, <2>5, FewerOnRecord
    <3>2. ~Unrecorded' /\ ~Undone'
      BY <1>1, <1>2, <1>4, <1>9, <2>5 DEF Unrecorded, Undone
    <3> QED BY <1>1, <1>2, <1>4, <1>6, <1>7, <2>1, <2>2, <2>5, <3>1, <3>2 DEF DevInv
  <2> QED BY <2>2, <2>4, <2>5
<1> QED BY <1>8, <1>9

LEMMA HalfwayDevices ==
    ASSUME NEW c, NEW m, DOMAIN m = Fields, NEW op \in NetWork(c) \cup Rebuilds, NEW b \in Halfway(op, m)
    PROVE  b.devices = m.devices
<1>1. CASE op = OpSync("net", Network(c).net)
  <2>1. \E g : b = [m EXCEPT !.net = g]
    BY <1>1, SyncDone
  <2> QED BY <2>1 DEF Fields
<1>2. CASE op = OpSync("link", Network(c).link)
  <2>1. \E g : b = [m EXCEPT !.link = g]
    BY <1>2, SyncDone
  <2> QED BY <2>1 DEF Fields
<1>3. CASE op \in Rebuilds
  <2>1. Halfway(op, m) = {m}
    BY <1>3, RunHalfway DEF Rebuilds, Rebuild, ReloadAll
  <2> QED BY <2>1
<1> QED BY <1>1, <1>2, <1>3 DEF NetWork

LEMMA DevToolRefuses ==
    ASSUME Written, IInv, IInv', DevInv, ToolRefuses
    PROVE  DevInv'
<1>1. todo # <<>> /\ Failed /\ UNCHANGED <<box, last, sound>>
  BY DEF ToolRefuses
<1>2. ~Unrecorded
  BY <1>1 DEF Unrecorded, IInv, Progress
<1>3. NetdevsMarked(box) /\ Recorded(box)
  BY <1>2 DEF DevInv
<1>4. NetdevsMarked(box') /\ Recorded(box') /\ BoxOK(box') /\ (Whole(box) => Whole(box'))
  BY <1>1, <1>3 DEF IInv
<1> QED BY <1>1, <1>2, <1>4, DevFailing

LEMMA DevFault ==
    ASSUME Written, IInv, IInv', DevInv, Fault
    PROVE  DevInv'
<1>1. todo # <<>> /\ Failed /\ UNCHANGED <<last, sound>>
  BY DEF Fault
<1>2. ~Unrecorded
  BY <1>1 DEF Unrecorded, IInv, Progress
<1>3. PICK m, b, s : m = box /\ b = box' /\ s = todo
  OBVIOUS
<1>4. b \in Halfway(Head(s), m) /\ b \in Left(Head(s), m)
  BY <1>3 DEF Fault, Left
<1>5. NetdevsMarked(m) /\ Recorded(m) /\ BoxOK(m) /\ BoxOK(b)
  BY <1>2, <1>3 DEF DevInv, IInv
<1>6. NetdevsMarked(b) /\ b.devices = m.devices
  <2>1. CASE at # 3
    <3>1. b.net = m.net /\ b.devices = m.devices
      BY <1>1, <1>3, <1>4, <2>1, Untouched
    <3> QED BY <1>5, <3>1 DEF NetdevsMarked
  <2>2. CASE at = 3
    <3>1. phase \in {"apply", "restore"}
      BY DEF Failed, Fault
    <3>2. PICK c \in Configs : Preparing(c, s, m)
      BY <1>1, <1>3, <2>2, <3>1 DEF DevInv
    <3>3. s \in Seq(NetWork(c) \cup Rebuilds) /\ s # <<>>
      BY <3>2 DEF Preparing
    <3>4. Head(s) \in NetWork(c) \cup Rebuilds
      BY <3>3, Shorter
    <3> QED BY <1>4, <1>5, <3>4, StayMarked, HalfwayDevices DEF BoxOK
  <2> QED BY <2>1, <2>2
<1>7. Recorded(b) /\ (Whole(m) => Whole(b))
  BY <1>5, <1>6 DEF Recorded, AllFit, Fits, Whole
<1> QED BY <1>1, <1>2, <1>3, <1>5, <1>6, <1>7, DevFailing

LEMMA SettledVerifies ==
    ASSUME DevInv, Unrecorded, at = 3
    PROVE  VerifyFiles(Rendered(target[1])[at], box)
<1>1. PICK c \in Configs : target = <<c>> /\ Settled(c, box)
  BY DEF DevInv
<1>2. Rendered(target[1])[at] = Network(c)
  BY <1>1, ThirdsAre
<1>3. InPlace(box.net, Network(c).net) /\ InPlace(box.link, Network(c).link)
  BY <1>1, SyncedIs DEF Settled, NetWork
<1>4. Network(c).files = <<>>
  BY DEF Network, networkd_render, Artifacts
<1>5. DOMAIN Network(c).files = {}
  BY <1>4
<1> QED BY <1>2, <1>3, <1>5 DEF VerifyFiles, InPlace

LEMMA DevVerify ==
    ASSUME Written, IInv, IInv', DevInv, Verify
    PROVE  DevInv'
<1>1. phase = "apply" /\ todo = <<>> /\ UNCHANGED <<box, last, target, sound>>
  BY DEF Verify
<1>2. at \in 1..3
  BY <1>1 DEF IInv, Progress, Renderers
<1>3. NetdevsMarked(box)' /\ BoxOK(box')
  BY <1>1 DEF DevInv, NetdevsMarked, IInv
<1>4. CASE /\ at # 2 => VerifyFiles(Rendered(target[1])[at], box)
           /\ UNCHANGED problems
           /\ at < 3 /\ at' = at + 1
           /\ todo' = ApplyOps(at + 1, Rendered(target[1])[at + 1])
           /\ UNCHANGED <<phase, result>>
  <2>1. ~Unrecorded
    BY <1>1, <1>4 DEF Unrecorded
  <2>2. Recorded(box) /\ (sound => last[3] # <<>> /\ Whole(box))
    BY <1>1, <1>4, <2>1 DEF DevInv, Undone
  <2>3. Recorded(box)' /\ (sound' => last'[3] # <<>> /\ Whole(box)')
    BY <1>1, <2>2 DEF Recorded, AllFit, Fits, Whole
  <2>4. phase' = "apply" /\ ~Succeeded'
    BY <1>1, <1>4 DEF Succeeded
  <2>5. at' = 3 => \E c \in Configs : target' = <<c>> /\ Preparing(c, todo', box')
    <3> SUFFICES ASSUME at' = 3 PROVE \E c \in Configs : target' = <<c>> /\ Preparing(c, todo', box')
      OBVIOUS
    <3>1. PICK c \in Configs : target = <<c>>
      BY <1>1 DEF IInv, Progress
    <3>2. at + 1 = 3
      BY <1>4
    <3>3. todo' = networkd_apply(last[3], Network(c))
      BY <1>4, <3>1, <3>2, ThirdsAre
    <3>4. Preparing(c, networkd_apply(last[3], Network(c)), box)
      BY <2>2, RecordIs, Prepared DEF IInv, BoxOK
    <3> QED BY <1>1, <3>1, <3>3, <3>4
  <2>6. ~Unrecorded'
    BY <2>4, <2>5 DEF Unrecorded, Preparing
  <2> QED BY <1>3, <2>3, <2>4, <2>5, <2>6 DEF DevInv
<1>5. CASE at = 3
  <2>1. Unrecorded
    BY <1>1, <1>5 DEF Unrecorded
  <2>2. PICK c \in Configs : target = <<c>> /\ Settled(c, box)
    BY <2>1 DEF DevInv
  <2>3. VerifyFiles(Rendered(target[1])[at], box)
    BY <1>5, <2>1, SettledVerifies
  <2>4. phase' = "remember"
    BY <1>1, <1>5, <2>3 DEF Verify
  <2>5. Unrecorded' /\ ~Undone' /\ ~Succeeded'
    BY <2>4 DEF Unrecorded, Undone, Succeeded
  <2> QED BY <1>1, <1>3, <2>2, <2>4, <2>5 DEF DevInv
<1>6. CASE at # 3 /\ Failed
  <2>1. ~Unrecorded
    BY <1>1, <1>6 DEF Unrecorded
  <2>2. NetdevsMarked(box) /\ Recorded(box)
    BY <2>1 DEF DevInv
  <2>3. NetdevsMarked(box') /\ Recorded(box') /\ (Whole(box) => Whole(box'))
    BY <1>1, <2>2
  <2> QED BY <1>1, <1>3, <1>6, <2>1, <2>3, DevFailing
<1> QED BY <1>2, <1>4, <1>5, <1>6 DEF Verify

LEMMA DevRestoreNext ==
    ASSUME Written, IInv, IInv', DevInv, RestoreNext
    PROVE  DevInv'
<1>1. phase = "restore" /\ todo = <<>> /\ UNCHANGED <<box, last, problems, sound>>
  BY DEF RestoreNext
<1>2. PICK r \in 0..3 : r = at - 1
  BY <1>1 DEF IInv, Progress, Renderers
<1>3. RestoreFrom(r)
  BY <1>2 DEF RestoreNext
<1>4. ~Unrecorded
  BY <1>1 DEF Unrecorded
<1>5. NetdevsMarked(box) /\ Recorded(box) /\ (sound => last[3] # <<>>)
  BY <1>1, <1>4 DEF DevInv
<1>6. sound /\ ~problems => Whole(box)
  BY <1>1 DEF DevInv, Undone
<1>7. NetdevsMarked(box') /\ Recorded(box') /\ BoxOK(box') /\ (sound /\ ~problems' => Whole(box'))
  BY <1>1, <1>5, <1>6 DEF IInv
<1> QED BY <1>1, <1>3, <1>5, <1>7, GoesBack DEF IInv

LEMMA DevRemember ==
    ASSUME IInv, DevInv, Remember, last' = [last EXCEPT ![at] = <<Rendered(target[1])[at]>>]
    PROVE  DevInv'
<1>1. phase = "remember" /\ UNCHANGED <<box, target, sound>>
  BY DEF Remember
<1>2. PICK c \in Configs : target = <<c>> /\ Settled(c, box)
  BY <1>1 DEF DevInv, Unrecorded
<1>3. NetdevsMarked(box)' /\ NetdevsMarked(box)
  BY <1>1 DEF DevInv, NetdevsMarked
<1>4. CASE at < 3 /\ at' = at + 1 /\ UNCHANGED <<phase, todo, result>>
  <2>1. Unrecorded' /\ ~Undone' /\ ~Succeeded' /\ phase' = "remember"
    BY <1>1, <1>4 DEF Unrecorded, Undone, Succeeded
  <2> QED BY <1>1, <1>2, <1>3, <2>1 DEF DevInv
<1>5. CASE ~(at < 3) /\ Return("ok")
  <2>1. phase' = "idle" /\ result' = "ok"
    BY <1>5 DEF Return
  <2>2. ~Unrecorded' /\ ~Undone'
    BY <2>1 DEF Unrecorded, Undone
  <2>3. at = 3
    BY <1>1, <1>5 DEF IInv, Progress, Renderers
  <2>4. last'[3] = <<Network(c)>>
    BY <1>1, <1>2, <2>3, ThirdsAre DEF IInv, RecordsOK
  <2>5. Recorded(box)'
    <3>1. AllFit(box, Network(c).net)
      BY <1>2 DEF Settled
    <3> QED BY <1>1, <2>4, <3>1 DEF Recorded
  <2>6. DevicesMatch(box.net)'
    <3>1. DevicesMatch(box.net)
      BY <1>2, <1>3, SettledMatch
    <3> QED BY <1>1, <3>1 DEF DevicesMatch
  <2> QED BY <1>3, <2>1, <2>2, <2>5, <2>6 DEF DevInv
<1> QED BY <1>4, <1>5 DEF Remember

LEMMA DevReboot ==
    ASSUME IInv, DevInv, Reboot
    PROVE  DevInv'
<1>1. box' = [box EXCEPT !.net = <<>>, !.devices = <<>>] /\ Return("rebooted") /\ UNCHANGED last
  BY DEF Reboot
<1>2. box'.net = <<>> /\ box'.devices = <<>>
  BY <1>1 DEF IInv, BoxOK, Fields
<1>3. DOMAIN box'.net = {} /\ DOMAIN box'.devices = {}
  BY <1>2
<1>4. NetdevsMarked(box)' /\ Recorded(box)'
  BY <1>3 DEF NetdevsMarked, Recorded, AllFit
<1>5. phase' = "idle" /\ result' = "rebooted"
  BY <1>1 DEF Return
<1>6. ~Unrecorded' /\ ~Undone' /\ ~Succeeded'
  BY <1>5 DEF Unrecorded, Undone, Succeeded
<1> QED BY <1>4, <1>5, <1>6 DEF DevInv

LEMMA DevInit ==
    ASSUME Init
    PROVE  DevInv
<1>1. /\ phase = "idle" /\ result = "none" /\ last = [r \in Renderers |-> <<>>]
      /\ box.net = Only(ForeignNet, <<>>) /\ box.devices = <<>>
  BY DEF Init
<1>2. DOMAIN box.net = {ForeignNet} /\ DOMAIN box.devices = {} /\ last[3] = <<>>
  BY <1>1 DEF Only, Renderers
<1>3. NetdevsMarked(box) /\ Recorded(box)
  BY <1>2 DEF NetdevsMarked, Recorded, Extension, ForeignNet
<1>4. ~Unrecorded /\ ~Undone /\ ~Succeeded
  BY <1>1 DEF Unrecorded, Undone, Succeeded
<1> QED BY <1>1, <1>3, <1>4 DEF DevInv

\* No call is cut short, no record lost, no file taken away: because that does not
\* happen, or because it has not.
LEMMA DevStep ==
    ASSUME Written, Faults \cap {"crash", "remember", "tamper"} = {} \/ ~faulted',
           IInv, IInv', DevInv, [Next]_vars
    PROVE  DevInv'
<1>1. CASE \E c \in Configs : Begin(c)
  BY <1>1, DevBegin
<1>2. CASE Operate
  BY <1>2, DevOperate
<1>3. CASE ToolRefuses
  BY <1>3, DevToolRefuses
<1>4. CASE Fault
  BY <1>4, DevFault
<1>5. CASE Verify
  BY <1>5, DevVerify
<1>6. CASE Tamper \/ Crash
  BY <1>6 DEF Tamper, Crash
<1>7. CASE RestoreNext
  BY <1>7, DevRestoreNext
<1>8. CASE Remember
  <2>1. last' = [last EXCEPT ![at] = <<Rendered(target[1])[at]>>]
    BY <1>8 DEF Remember
  <2> QED BY <1>8, <2>1, DevRemember
<1>9. CASE Reboot
  BY <1>9, DevReboot
<1>10. CASE UNCHANGED vars
  <2>1. UNCHANGED <<box, last, phase, at, todo, target, problems, result, sound>>
    BY <1>10 DEF vars
  <2>2. /\ Recorded(box)' <=> Recorded(box)
        /\ Whole(box)' <=> Whole(box)
        /\ DevicesMatch(box.net)' <=> DevicesMatch(box.net)
        /\ NetdevsMarked(box)' <=> NetdevsMarked(box)
    BY <2>1 DEF Recorded, Whole, DevicesMatch, NetdevsMarked
  <2>3. (Unrecorded' <=> Unrecorded) /\ (Undone' <=> Undone) /\ (Succeeded' <=> Succeeded)
    BY <2>1 DEF Unrecorded, Undone, Succeeded
  <2> QED BY <2>1, <2>2, <2>3 DEF DevInv
<1> QED BY <1>1, <1>2, <1>3, <1>4, <1>5, <1>6, <1>7, <1>8, <1>9, <1>10 DEF Next

\* Where no call is cut short, every record is written and no other process takes a file
\* away, whatever tools refuse and whichever syncs stop half way: the devices are the ones
\* described after a call that succeeded, and after one that was undone the ones on
\* record, if they were when it began (networkd.rs recreations, render::restore).
THEOREM DevicesAreSound ==
    ASSUME Faults \cap {"crash", "remember", "tamper"} = {}
    PROVE  Spec => []DevicesSound
<1>1. Init => DevInv
  BY DevInit
<1>2. IInv /\ IInv' /\ DevInv /\ [Next]_vars => DevInv'
  BY WrittenAssumption, DevStep
<1>3. IInv /\ DevInv /\ TypeOK => DevicesSound
  <2> SUFFICES ASSUME IInv, DevInv, TypeOK PROVE DevicesSound
    OBVIOUS
  <2>1. DevicesAsDescribed
    BY DEF DevInv, DevicesAsDescribed
  <2>2. RestoredDevices
    <3> SUFFICES ASSUME phase = "idle", result = "restored", sound PROVE DevicesMatch(last[3][1].net)
      BY DEF RestoredDevices
    <3>1. ~Unrecorded /\ Undone
      BY DEF Unrecorded, Undone
    <3> QED BY <3>1, WholeMatch DEF IInv, DevInv
  <2> QED BY <2>1, <2>2 DEF DevicesSound
<1>4. Spec => []IInv /\ []TypeOK
  BY AlwaysIInv, TypeCorrect
<1> QED BY <1>1, <1>2, <1>3, <1>4, PTL DEF Spec

-----------------------------------------------------------------------------
(* Calls over interfaces *)

\* The devices to rebuild are there, and each is to be rebuilt once.
Once(s) ==
    \A i, j \in 1..Len(s) : \A d \in ToSet(DeviceOrder) : s[i] = Rebuild(d) /\ s[j] = Rebuild(d) => i = j
Present(s, m) ==
    Once(s) /\ \A d \in ToSet(DeviceOrder) : Rebuild(d) \in ToSet(s) => d \in DOMAIN m.devices

\* The interfaces are not being worked on.
Elsewhere == phase = "idle" \/ (phase \in {"apply", "restore"} /\ at < 3)

CallInv ==
    /\ phase \in {"apply", "remember"} => result = "none"
    /\ ~faulted =>
          /\ DevInv
          /\ phase = "restore" => at < 3
          /\ Elsewhere => last[3] = <<>> \/ Whole(box)
          /\ phase = "apply" /\ at = 3 => Present(todo, box)
          /\ NoAccounts => phase # "restore" /\ result \notin {"restored", "unrecovered"}
          /\ NoAccounts /\ phase = "apply" /\ at = 2 => todo = <<>>

\* None of them has more than one member, and no two the same.
Apart(seqs, v, n) ==
    /\ \A i \in 1..n : seqs[i] = <<>> \/ seqs[i] = <<v[i]>>
    /\ \A i, j \in 1..n : v[i] = v[j] => i = j
Single(s) == \A i, j \in 1..Len(s) : s[i] = s[j] => i = j

LEMMA FlatOnce ==
    ASSUME NEW S, NEW n \in Nat, NEW seqs \in [1..n -> Seq(S)], NEW v, Apart(seqs, v, n),
           NEW g, Flat(seqs, g, n), NEW k \in 1..n
    PROVE  Single(g[k])
<1> DEFINE good(m) == Single(g[m])
           bad == {m \in 1..n : ~good(m)}
<1>1. SUFFICES ASSUME bad # {} PROVE FALSE
  OBVIOUS
<1>2. PICK m \in bad : \A j \in bad : m <= j
  <2>1. bad \in SUBSET Nat
    OBVIOUS
  <2> HIDE DEF bad
  <2> QED BY <1>1, <2>1, LeastIs
<1>3. /\ m \in 1..n /\ m \in Nat /\ ~good(m)
      /\ g[m] = IF m = 1 THEN seqs[m] ELSE g[m - 1] \o seqs[m]
  <2>1. m \in 1..n /\ m \in Nat /\ ~good(m)
    BY <1>2
  <2>2. \A i \in 1..n : g[i] = IF i = 1 THEN seqs[i] ELSE g[i - 1] \o seqs[i]
    BY DEF Flat
  <2> QED BY <2>1, <2>2
<1>4. CASE m = 1
  <2>1. Len(g[m]) \in {0, 1}
    BY <1>3, <1>4 DEF Apart
  <2>2. PICK l \in {0, 1} : l = Len(g[m])
    BY <2>1
  <2>3. \A i, j \in 1..l : i = j
    <3>1. CASE l = 0
      BY <3>1
    <3>2. CASE l = 1
      BY <3>2
    <3> QED BY <3>1, <3>2
  <2> QED BY <1>3, <2>2, <2>3 DEF Single
<1>5. CASE m # 1
  <2>1. m - 1 \in 1..n /\ ~(m <= m - 1)
    BY <1>3, <1>5
  <2>2. good(m - 1)
    BY <1>2, <2>1
  <2>3. g[m - 1] \in Seq(S) /\ ToSet(g[m - 1]) = Members(seqs, m - 1)
    BY <2>1, FlatRange
  <2>4. PICK u : u = g[m - 1]
    OBVIOUS
  <2>5. g[m] = u \o seqs[m] /\ u \in Seq(S)
    BY <1>3, <1>5, <2>3, <2>4
  <2>6. CASE seqs[m] = <<>>
    <3>1. g[m] = u
      BY <2>5, <2>6
    <3> QED BY <1>3, <2>2, <2>4, <3>1
  <2>7. CASE seqs[m] = <<v[m]>>
    <3>1. /\ Len(u) \in Nat /\ Len(g[m]) = Len(u) + 1
          /\ \A i \in 1..Len(u) : g[m][i] = u[i]
          /\ g[m][Len(u) + 1] = v[m]
      BY <2>5, <2>7, OneMore
    <3>2. v[m] \notin ToSet(u)
      <4> SUFFICES ASSUME v[m] \in ToSet(u) PROVE FALSE
        OBVIOUS
      <4>1. PICK i \in 1..(m - 1) : v[m] \in ToSet(seqs[i])
        BY <2>3, <2>4 DEF Members
      <4>2. i \in 1..n /\ i # m
        BY <1>3, <4>1
      <4>3. ToSet(seqs[i]) \subseteq {v[i]}
        BY <4>2, Few DEF Apart
      <4> QED BY <1>3, <4>1, <4>2, <4>3 DEF Apart
    <3>3. \A i \in 1..Len(u) : u[i] # v[m]
      BY <2>5, <3>2, InRange
    <3>4. \A i \in 1..Len(g[m]) : i \in 1..Len(u) \/ i = Len(u) + 1
      BY <3>1
    <3>5. ASSUME NEW i \in 1..Len(g[m]), NEW j \in 1..Len(g[m]), g[m][i] = g[m][j] PROVE i = j
      <4>1. CASE i \in 1..Len(u) /\ j \in 1..Len(u)
        <5>1. u[i] = u[j]
          BY <3>1, <3>5, <4>1
        <5> QED BY <2>2, <2>4, <4>1, <5>1 DEF Single
      <4>2. CASE i = Len(u) + 1 /\ j = Len(u) + 1
        BY <4>2
      <4>3. CASE i \in 1..Len(u) /\ j = Len(u) + 1
        <5>1. u[i] = v[m]
          BY <3>1, <3>5, <4>3
        <5> QED BY <3>3, <4>3, <5>1
      <4>4. CASE j \in 1..Len(u) /\ i = Len(u) + 1
        <5>1. u[j] = v[m]
          BY <3>1, <3>5, <4>4
        <5> QED BY <3>3, <4>4, <5>1
      <4> QED BY <3>4, <4>1, <4>2, <4>3, <4>4
    <3> QED BY <1>3, <3>5 DEF Single
  <2>8. seqs[m] = <<>> \/ seqs[m] = <<v[m]>>
    BY <1>3 DEF Apart
  <2> QED BY <2>6, <2>7, <2>8
<1> QED BY <1>4, <1>5

\* Nothing is twice in an order's part.
LEMMA InOrderOnce ==
    ASSUME NEW order, order \in Seq(ToSet(order)), IsInjective(order), NEW S
    PROVE  Single(InOrder(order, S))
<1>1. PICK n \in Nat : n = Len(order) /\ DOMAIN order = 1..n
  OBVIOUS
<1>2. PICK seqs : seqs = [i \in 1..n |-> IF order[i] \in S THEN <<order[i]>> ELSE <<>>]
  OBVIOUS
<1>3. PICK T : T = ToSet(order)
  OBVIOUS
<1>4. \A i \in 1..n : order[i] \in T /\ <<order[i]>> \in Seq(T)
  BY <1>1, <1>3, InRange
<1>5. seqs \in [1..n -> Seq(T)]
  BY <1>2, <1>4
<1>6. \A i \in 1..n : seqs[i] = <<>> \/ seqs[i] = <<order[i]>>
  BY <1>2
<1>7. Apart(seqs, order, n)
  BY <1>1, <1>6 DEF Apart, IsInjective
<1>8. FlattenSeq(seqs) = InOrder(order, S) /\ Len(seqs) = n
  BY <1>1, <1>2 DEF InOrder
<1>9. CASE n = 0
  <2>1. FlattenSeq(seqs) = seqs
    BY <1>8, <1>9 DEF FlattenSeq
  <2> QED BY <1>8, <1>9, <2>1 DEF Single
<1>10. CASE n # 0
  <2>1. PICK g : g = CHOOSE h : Flat(seqs, h, n)
    OBVIOUS
  <2>2. Flat(seqs, g, n)
    BY <1>10, <2>1, FlatExists
  <2>3. FlattenSeq(seqs) = g[n]
    BY <1>8, <1>10, <2>1, FlattenIs
  <2>4. n \in 1..n
    BY <1>10
  <2>5. Single(g[n])
    BY <1>5, <1>7, <2>2, <2>4, FlatOnce
  <2> QED BY <1>8, <2>3, <2>5
<1> QED BY <1>9, <1>10

LEMMA RebuildsOnce ==
    ASSUME Written, NEW c, NEW previous
    PROVE  Single(Commands(recreations(previous, Network(c))))
<1>1. PICK order : order = InOrder(DeviceOrder, Gone(Files(previous), c))
  OBVIOUS
<1>2. PICK rs, y : rs = recreations(previous, Network(c)) /\ y = Commands(rs)
  OBVIOUS
<1>3. rs = [i \in 1..Len(order) |-> [act |-> "RecreateNetdev", name |-> order[i]]]
  BY <1>1, <1>2 DEF recreations, Gone, Files
<1>4. PICK n \in Nat : n = Len(order)
  <2>1. PICK T : T = ToSet(DeviceOrder) \cap Gone(Files(previous), c)
    OBVIOUS
  <2>2. order \in Seq(T)
    BY <1>1, <2>1, InOrderIs DEF Written
  <2> QED BY <2>2
<1>5. Len(rs) = n
  BY <1>3, <1>4
<1>6. y = [i \in 1..n |-> OpRun(argv(rs[i]))]
  BY <1>2, <1>5 DEF Commands
<1>7. Len(y) = n /\ \A i \in 1..n : y[i] = Rebuild(order[i])
  <2>1. \A i \in 1..n : rs[i].act = "RecreateNetdev" /\ rs[i].name = order[i]
    BY <1>3, <1>4
  <2>2. \A i \in 1..n : OpRun(argv(rs[i])) = Rebuild(order[i])
    BY <2>1 DEF argv, Rebuild
  <2> QED BY <1>6, <2>2
<1>8. Single(order)
  BY <1>1, InOrderOnce DEF Written
<1>9. Single(y)
  BY <1>4, <1>7, <1>8, RunsApart DEF Single
<1> QED BY <1>2, <1>9

LEMMA TwoFirst ==
    ASSUME NEW S, NEW x \in Seq(S), Len(x) = 2, NEW y \in Seq(S)
    PROVE  /\ x \o y \in Seq(S) /\ Len(y) \in Nat /\ Len(x \o y) = Len(y) + 2
           /\ (x \o y)[1] = x[1] /\ (x \o y)[2] = x[2]
           /\ \A i \in 1..Len(x \o y) : i = 1 \/ i = 2 \/ (i - 2 \in 1..Len(y) /\ (x \o y)[i] = y[i - 2])
<1>1. x \o y \in Seq(S) /\ Len(y) \in Nat /\ Len(x \o y) = Len(y) + 2
  <2>1. x \o y \in Seq(S) /\ Len(x \o y) = Len(x) + Len(y)
    BY ConcatProperties
  <2>2. PICK l \in Nat : l = Len(y)
    OBVIOUS
  <2>3. Len(x \o y) = 2 + l
    BY <2>1, <2>2
  <2>4. 2 + l = l + 2
    OBVIOUS
  <2> QED BY <2>1, <2>2, <2>3, <2>4
<1>2. 1 \in 1..Len(x \o y) /\ 2 \in 1..Len(x \o y)
  BY <1>1
<1>3. \A i \in 1..Len(x \o y) : (x \o y)[i] = IF i <= 2 THEN x[i] ELSE y[i - 2]
  <2>1. \A i \in 1..(Len(x) + Len(y)) : (x \o y)[i] = IF i <= Len(x) THEN x[i] ELSE y[i - Len(x)]
    BY ConcatProperties
  <2> QED BY <1>1, <2>1
<1>4. (x \o y)[1] = x[1] /\ (x \o y)[2] = x[2]
  BY <1>2, <1>3
<1>5. ASSUME NEW i \in 1..Len(x \o y), i # 1, i # 2 PROVE i - 2 \in 1..Len(y) /\ (x \o y)[i] = y[i - 2]
  <2>1. i \in Int /\ ~(i <= 2) /\ i - 2 \in 1..Len(y)
    BY <1>1, <1>5
  <2> QED BY <1>3, <2>1
<1> QED BY <1>1, <1>4, <1>5

\* An apply over a box with everything that is on record: what it rebuilds is there.
LEMMA PresentAtFirst ==
    ASSUME Written, NEW c, NEW m, last[3] = <<>> \/ Whole(m)
    PROVE  Present(networkd_apply(last[3], Network(c)), m)
<1>1. PICK prev, s : prev = last[3] /\ s = networkd_apply(prev, Network(c))
  OBVIOUS
<1>2. PICK p, q : p = OpSync("net", Network(c).net) /\ q = OpSync("link", Network(c).link)
  OBVIOUS
<1>3. PICK y, R : /\ y = Commands(recreations(prev, Network(c)))
                  /\ R = {Rebuild(d) : d \in ToSet(DeviceOrder) \cap Gone(Files(prev), c)}
  OBVIOUS
<1>4. y \in Seq(R) /\ ToSet(y) = R /\ Single(y)
  BY <1>3, RebuildsAre, RebuildsOnce
<1>5. s = (<<p, q>> \o y) \o <<ReloadAll>>
  BY <1>1, <1>2, <1>3, ApplyIs
<1>6. PICK W, u : W = {p, q} \cup R /\ u = <<p, q>> \o y
  OBVIOUS
<1>7. /\ u \in Seq(W) /\ Len(y) \in Nat /\ Len(u) = Len(y) + 2 /\ u[1] = p /\ u[2] = q
      /\ \A i \in 1..Len(u) : i = 1 \/ i = 2 \/ (i - 2 \in 1..Len(y) /\ u[i] = y[i - 2])
  <2>1. y \in Seq(W) /\ <<p, q>> \in Seq(W)
    BY <1>4, <1>6
  <2>2. PICK x : x = <<p, q>>
    OBVIOUS
  <2>3. x \in Seq(W) /\ u = x \o y /\ Len(x) = 2 /\ x[1] = p /\ x[2] = q
    BY <1>6, <2>1, <2>2
  <2> QED BY <2>1, <2>3, TwoFirst
<1>8. /\ Len(s) = Len(u) + 1 /\ s[Len(u) + 1] = ReloadAll
      /\ \A i \in 1..Len(u) : s[i] = u[i]
  BY <1>5, <1>6, <1>7, OneMore
<1>9. \A d : Rebuild(d) # p /\ Rebuild(d) # q /\ Rebuild(d) # ReloadAll
  BY <1>2, NetApart, RunsApart DEF NetWork
<1>10. ASSUME NEW i \in 1..Len(s), NEW d, s[i] = Rebuild(d) PROVE i - 2 \in 1..Len(y) /\ y[i - 2] = Rebuild(d)
  <2>1. i \in 1..Len(u) /\ u[i] = Rebuild(d)
    BY <1>7, <1>8, <1>9, <1>10
  <2>2. i # 1 /\ i # 2
    BY <1>7, <1>9, <2>1
  <2> QED BY <1>7, <2>1, <2>2
<1>11. Once(s)
  <2>1. ASSUME NEW i \in 1..Len(s), NEW j \in 1..Len(s), NEW d, s[i] = Rebuild(d), s[j] = Rebuild(d)
        PROVE  i = j
    <3>1. i - 2 \in 1..Len(y) /\ j - 2 \in 1..Len(y) /\ y[i - 2] = y[j - 2]
      BY <1>10, <2>1
    <3>2. i - 2 = j - 2
      BY <1>4, <3>1 DEF Single
    <3>3. i \in Int /\ j \in Int
      OBVIOUS
    <3> QED BY <3>2, <3>3
  <2> QED BY <2>1 DEF Once
<1>12. ASSUME NEW d, Rebuild(d) \in ToSet(s) PROVE d \in DOMAIN m.devices
  <2>1. DOMAIN s = 1..Len(s)
    BY <1>5, <1>6, <1>7
  <2>2. PICK i \in 1..Len(s) : s[i] = Rebuild(d)
    BY <1>12, <2>1, RangeIs
  <2>3. Rebuild(d) \in R
    BY <1>4, <1>10, <2>2
  <2>4. d \in Gone(Files(prev), c)
    BY <1>3, <2>3, RunsApart
  <2>5. d \in Described(Files(prev))
    BY <2>4 DEF Gone, Described
  <2>6. CASE prev = <<>>
    <3>1. DOMAIN Files(prev) = {}
      BY <2>6 DEF Files
    <3> QED BY <2>5, <3>1 DEF Described
  <2>7. CASE prev # <<>>
    BY <1>1, <2>5, <2>7 DEF Files, Whole
  <2> QED BY <2>6, <2>7
<1> QED BY <1>1, <1>11, <1>12 DEF Present

LEMMA PresentStays ==
    ASSUME NEW c, NEW m, DOMAIN m = Fields, NEW s \in Seq(NetWork(c) \cup Rebuilds), s # <<>>, Present(s, m),
           NEW b \in Done(Head(s), m)
    PROVE  Present(Tail(s), b)
<1>1. PICK op, t : op = Head(s) /\ t = Tail(s)
  OBVIOUS
<1>2. /\ op \in NetWork(c) \cup Rebuilds /\ t \in Seq(NetWork(c) \cup Rebuilds)
      /\ ToSet(s) = {op} \cup ToSet(t) /\ op = s[1]
      /\ Len(s) \in Nat \ {0} /\ Len(t) = Len(s) - 1
      /\ \A i \in 1..Len(t) : i + 1 \in 1..Len(s) /\ t[i] = s[i + 1]
  BY <1>1, Shorter
<1>3. Once(t)
  <2>1. ASSUME NEW i \in 1..Len(t), NEW j \in 1..Len(t), NEW d \in ToSet(DeviceOrder),
               t[i] = Rebuild(d), t[j] = Rebuild(d)
        PROVE  i = j
    <3>1. i + 1 = j + 1
      BY <1>2, <2>1 DEF Present, Once
    <3>2. i \in Int /\ j \in Int
      OBVIOUS
    <3> QED BY <3>1, <3>2
  <2> QED BY <2>1 DEF Once
<1>4. ASSUME NEW d \in ToSet(DeviceOrder), Rebuild(d) \in ToSet(t) PROVE d \in DOMAIN m.devices /\ op # Rebuild(d)
  <2>1. d \in DOMAIN m.devices
    BY <1>2, <1>4 DEF Present
  <2>2. PICK i \in 1..Len(t) : t[i] = Rebuild(d)
    <3>1. PICK S, w : S = NetWork(c) \cup Rebuilds /\ w = Rebuild(d)
      OBVIOUS
    <3>2. t \in Seq(S) /\ w \in ToSet(t)
      BY <1>2, <1>4, <3>1
    <3>3. \E i \in 1..Len(t) : w = t[i]
      BY <3>2, InRange
    <3> QED BY <3>1, <3>3
  <2>3. i + 1 \in 1..Len(s) /\ 1 \in 1..Len(s) /\ i + 1 # 1 /\ s[i + 1] = Rebuild(d)
    BY <1>2, <2>2
  <2>4. s[1] # Rebuild(d)
    BY <2>3 DEF Present, Once
  <2> QED BY <1>2, <2>1, <2>4
<1>5. ASSUME NEW d \in DOMAIN m.devices, op # Rebuild(d) PROVE d \in DOMAIN b.devices
  <2>1. CASE op = OpSync("net", Network(c).net) \/ op = OpSync("link", Network(c).link)
    <3>1. b.devices = m.devices
      BY <1>1, <2>1, SyncDone DEF Fields
    <3> QED BY <1>5, <3>1
  <2>2. ASSUME NEW n, op = Rebuild(n) PROVE d \in DOMAIN b.devices
    <3>1. b = [m EXCEPT !.devices = Without(@, n)]
      BY <1>1, <2>2, RunDone
    <3>2. b.devices = Without(m.devices, n) /\ n # d
      BY <1>5, <2>2, <3>1 DEF Fields
    <3> QED BY <1>5, <3>2 DEF Without
  <2>3. CASE op = ReloadAll
    <3>1. Done(ReloadAll, m) = {Reload(m)}
      BY RunDone
    <3>2. b = Reload(m)
      BY <1>1, <2>3, <3>1
    <3> QED BY <1>5, <3>2 DEF Reload, Fields
  <2> QED BY <1>2, <2>1, <2>2, <2>3 DEF NetWork, Rebuilds
<1> QED BY <1>1, <1>3, <1>4, <1>5 DEF Present

\* The system renderer's operations never fail of themselves.
LEMMA SystemRuns ==
    ASSUME NEW c, NEW op \in SystemWork(c), NEW m
    PROVE  Done(op, m) # {}
<1>1. ASSUME NEW p, NEW t, op = OpWrite(p, t) PROVE Done(op, m) # {}
  <2>1. PICK b : b = [m EXCEPT !.files = Over(Only(p, t), @)]
    OBVIOUS
  <2>2. Done(op, m) = {b}
    BY <1>1, <2>1, WriteDone
  <2> QED BY <2>2
<1>2. ASSUME NEW h, op = HostName(h) \/ op = TimeZone(h) PROVE Done(op, m) # {}
  <2>1. PICK b, d : b = [m EXCEPT !.name = h] /\ d = [m EXCEPT !.zone = h]
    OBVIOUS
  <2>2. Done(HostName(h), m) = {b} /\ Done(TimeZone(h), m) = {d}
    BY <2>1, RunDone
  <2> QED BY <1>2, <2>2
<1> QED BY <1>1, <1>2, SystemKinds

\* The login renderer has nothing to do where nobody is named.
LEMMA NobodyNamed ==
    ASSUME Written, RecordsOK, NEW c \in Configs, DOMAIN c.login = {},
           last[2] # <<>> => named(last[2][1]) = {}
    PROVE  ApplyOps(2, Rendered(c)[2]) = <<>>
<1>1. last[2] = <<>> \/ \E d \in Configs : last[2] = <<login_render(d)>>
  BY ThirdsAre DEF RecordsOK
<1>2. PICK s \in Seq(LoginWork(c)), t \in Seq(Removals(c)) :
         /\ login_apply(last[2], login_render(c)) = s \o t /\ ToSet(s) = LoginWork(c)
         /\ Before(last[2]) \subseteq DOMAIN c.login => t = <<>>
  BY <1>1, LoginOps
<1>3. t = <<>>
  BY <1>2 DEF Before
<1>4. s = <<>>
  <2>1. LoginWork(c) = {}
    BY DEF LoginWork, WithPassword
  <2>2. s \in Seq({})
    BY <2>1
  <2> QED BY <2>2
<1>5. s \o t = <<>>
  BY <1>3, <1>4
<1> QED BY <1>2, <1>5, ThirdsAre

\* Nor has verify anything to say of files nobody took away.
LEMMA SystemVerifies ==
    ASSUME IInv, phase = "apply", todo = <<>>, at = 1
    PROVE  VerifyFiles(Rendered(target[1])[at], box)
<1>1. PICK c \in Configs : target = <<c>> /\ Doing(1, c, <<>>, box)
  BY DEF IInv, Progress, Reached
<1>2. Holds(Resolv(c), box)
  <2>1. Resolv(c) \in Work(1, c)
    BY ThirdsAre DEF SystemWork
  <2> QED BY <1>1, <2>1, Few DEF Doing
<1>3. PICK a : a = system_render(c)
  OBVIOUS
<1>4. /\ a.net = <<>> /\ a.link = <<>>
      /\ a.files = Only("resolv.conf", [search |-> value(c, "domain-name"), servers |-> c.servers])
  BY <1>3 DEF system_render, Artifacts
<1>5. DOMAIN a.net = {} /\ DOMAIN a.link = {}
  BY <1>4
<1>6. \A p \in DOMAIN a.files : p \in DOMAIN box.files /\ box.files[p] = a.files[p]
  BY <1>2, <1>4, HoldsFiles DEF Resolv, Only
<1>7. Rendered(target[1])[at] = a
  BY <1>1, <1>3, ThirdsAre
<1> QED BY <1>5, <1>6, <1>7 DEF VerifyFiles

\* With no fault so far, only an account's tool refuses.
LEMMA OnlyAccountsRefuse ==
    ASSUME Written, IInv, CallInv, ~faulted, phase = "apply", todo # <<>>, at # 2
    PROVE  Done(Head(todo), box) # {}
<1>1. PICK s, op, m : s = todo /\ op = Head(s) /\ m = box
  OBVIOUS
<1>2. CASE at = 1
  <2>1. PICK c \in Configs : Doing(1, c, s, m)
    BY <1>1, <1>2 DEF IInv, Progress, Reached
  <2>2. s \in Seq(SystemWork(c)) /\ s # <<>>
    <3>1. Work(1, c) \cup Extra(1, c) = SystemWork(c)
      BY ThirdsAre
    <3> QED BY <1>1, <2>1, <3>1 DEF Doing, Asked
  <2>3. op \in SystemWork(c)
    BY <1>1, <2>2, Shorter
  <2> QED BY <1>1, <2>3, SystemRuns
<1>3. CASE at = 3
  <2>1. PICK c \in Configs : Preparing(c, s, m)
    BY <1>1, <1>3 DEF CallInv, DevInv
  <2>2. s \in Seq(NetWork(c) \cup Rebuilds) /\ s # <<>>
    BY <2>1 DEF Preparing
  <2>3. op \in NetWork(c) \cup Rebuilds /\ op \in ToSet(s)
    BY <1>1, <2>2, Shorter
  <2>4. Present(s, m)
    BY <1>1, <1>3 DEF CallInv
  <2>5. CASE op \in NetWork(c)
    <3>1. PICK f, l : f = Network(c).net /\ l = Network(c).link
      OBVIOUS
    <3>2. PICK b, d : b = [m EXCEPT !.net = Sync(@, f)] /\ d = [m EXCEPT !.link = Sync(@, l)]
      OBVIOUS
    <3>3. Done(OpSync("net", f), m) = {b} /\ Done(OpSync("link", l), m) = {d}
      BY <3>2, SyncDone
    <3>4. op = OpSync("net", f) \/ op = OpSync("link", l)
      BY <2>5, <3>1 DEF NetWork
    <3>5. Done(op, m) = {b} \/ Done(op, m) = {d}
      BY <3>3, <3>4
    <3> QED BY <1>1, <3>5
  <2>6. CASE op = ReloadAll
    <3>1. Done(ReloadAll, m) # {}
      BY RunDone
    <3> QED BY <1>1, <2>6, <3>1
  <2>7. ASSUME NEW d \in ToSet(DeviceOrder), op = Rebuild(d) PROVE Done(op, m) # {}
    <3>1. d \in DOMAIN m.devices
      BY <2>3, <2>4, <2>7 DEF Present
    <3>2. Done(Rebuild(d), m) # {}
      BY <3>1, RunDone
    <3> QED BY <2>7, <3>2
  <2> QED BY <1>1, <2>3, <2>5, <2>6, <2>7 DEF Rebuilds
<1>4. at \in {1, 2, 3}
  BY DEF IInv, Progress, Renderers
<1> QED BY <1>2, <1>3, <1>4

\* A call that has not come to its end, or that ended well, has no result of its own.
LEMMA NoResult ==
    ASSUME CallInv, [Next]_vars
    PROVE  phase' \in {"apply", "remember"} => result' = "none"
<1>1. ASSUME NEW r, RestoreFrom(r) PROVE phase' \in {"idle", "restore"}
  BY <1>1 DEF RestoreFrom, Return
<1>2. Failed => phase' \in {"idle", "restore"}
  BY <1>1 DEF Failed
<1>3. CASE \E c \in Configs : Begin(c)
  BY <1>3 DEF Begin, Return
<1>4. CASE Operate
  BY <1>4 DEF Operate, CallInv
<1>5. CASE ToolRefuses \/ Fault
  BY <1>2, <1>5 DEF ToolRefuses, Fault
<1>6. CASE Verify
  BY <1>2, <1>6 DEF Verify, CallInv
<1>7. CASE Tamper
  BY <1>7 DEF Tamper, CallInv
<1>8. CASE RestoreNext
  BY <1>1, <1>8 DEF RestoreNext
<1>9. CASE Remember
  BY <1>9 DEF Remember, Return, CallInv
<1>10. CASE Crash \/ Reboot
  BY <1>10 DEF Crash, Reboot, Return
<1>11. CASE UNCHANGED vars
  BY <1>11 DEF vars, CallInv
<1> QED BY <1>3, <1>4, <1>5, <1>6, <1>7, <1>8, <1>9, <1>10, <1>11 DEF Next

\* A call over accounts giving way, the interfaces not having been reached.
LEMMA CallGivesWay ==
    ASSUME DevInv', ~NoAccounts, UNCHANGED <<target, last>>, UNCHANGED box.devices,
           last[3] = <<>> \/ Whole(box), NEW r \in 0..2, RestoreFrom(r)
    PROVE  CallInv'
<1>1. ~NoAccounts'
  BY DEF NoAccounts
<1>2. last'[3] = <<>> \/ Whole(box)'
  BY DEF Whole
<1>3. (phase' = "idle" /\ at' = 0) \/ (phase' = "restore" /\ at' = r)
  BY DEF RestoreFrom, Return
<1>4. phase' = "restore" => at' < 3
  BY <1>3
<1> QED BY <1>1, <1>2, <1>3, <1>4 DEF CallInv

LEMMA CallFailing ==
    ASSUME IInv, CallInv, DevInv', ~faulted, Failed, UNCHANGED <<box, last, target>>,
           phase = "apply" => at = 2 /\ ~NoAccounts
    PROVE  CallInv'
<1>1. phase \in {"apply", "restore"} /\ ~NoAccounts /\ at < 3
  BY DEF Failed, CallInv
<1>2. last[3] = <<>> \/ Whole(box)
  BY <1>1 DEF CallInv, Elsewhere
<1>3. PICK r \in 0..2 : RestoreFrom(r)
  <2>1. CASE phase = "apply"
    BY <2>1 DEF Failed
  <2>2. CASE phase = "restore"
    <3>1. PICK r \in 0..2 : r = at - 1
      BY <1>1, <2>2 DEF IInv, Progress, Renderers
    <3> QED BY <2>2, <3>1 DEF Failed
  <2> QED BY <1>1, <2>1, <2>2
<1> QED BY <1>1, <1>2, <1>3, CallGivesWay

LEMMA CallBegin ==
    ASSUME IInv, CallInv, DevInv', ~faulted, NEW c \in Configs, Begin(c)
    PROVE  CallInv'
<1>1. phase = "idle" /\ UNCHANGED <<box, last>>
      /\ \/ phase' = "apply" /\ at' = 1 /\ result' = "none"
         \/ phase' = "idle" /\ result' = "refused"
  BY DEF Begin, Return
<1>2. last[3] = <<>> \/ Whole(box)
  BY <1>1 DEF CallInv, Elsewhere
<1>3. last'[3] = <<>> \/ Whole(box)'
  BY <1>1, <1>2 DEF Whole
<1> QED BY <1>1, <1>3 DEF CallInv

LEMMA CallOperate ==
    ASSUME Written, IInv, CallInv, DevInv', ~faulted, Operate
    PROVE  CallInv'
<1>1. /\ todo # <<>> /\ todo' = Tail(todo)
      /\ UNCHANGED <<last, phase, at, target, problems, result, faulted, sound, calls>>
  BY DEF Operate
<1>2. PICK m, b, s : m = box /\ b = box' /\ s = todo
  OBVIOUS
<1>3. b \in Done(Head(s), m) /\ b \in Left(Head(s), m)
  BY <1>2 DEF Operate, Left
<1>4. phase \in {"apply", "restore"} /\ at \in 1..3
  BY <1>1 DEF IInv, Progress, Typed, Renderers
<1>5. NoAccounts' <=> NoAccounts
  BY <1>1 DEF NoAccounts
<1>6. NoAccounts => phase # "restore" /\ result \notin {"restored", "unrecovered"} /\ ~(phase = "apply" /\ at = 2)
  BY <1>1 DEF CallInv
<1>7. (phase = "restore" => at < 3) /\ (phase = "apply" => result = "none")
  BY DEF CallInv
<1>8. CASE at # 3
  <2>1. b.devices = m.devices
    BY <1>1, <1>2, <1>3, <1>8, Untouched
  <2>2. Elsewhere => last[3] = <<>> \/ Whole(box)
    BY DEF CallInv
  <2>3. last[3] = <<>> \/ Whole(box)
    BY <1>4, <1>8, <2>2 DEF Elsewhere
  <2>4. last'[3] = <<>> \/ Whole(box)'
    BY <1>1, <1>2, <2>1, <2>3 DEF Whole
  <2> QED BY <1>1, <1>4, <1>5, <1>6, <1>7, <1>8, <2>4 DEF CallInv
<1>9. CASE at = 3
  <2>1. phase = "apply"
    BY <1>4, <1>7, <1>9
  <2>2. PICK c \in Configs : Preparing(c, s, m)
    BY <1>1, <1>2, <1>9, <2>1 DEF CallInv, DevInv
  <2>3. s \in Seq(NetWork(c) \cup Rebuilds) /\ s # <<>> /\ DOMAIN m = Fields
    BY <1>2, <2>2 DEF Preparing, IInv, BoxOK
  <2>4. Present(s, m)
    BY <1>2, <1>9, <2>1 DEF CallInv
  <2>5. Present(Tail(s), b)
    BY <1>3, <2>3, <2>4, PresentStays
  <2>6. Present(todo', box')
    BY <1>1, <1>2, <2>5
  <2>7. ~Elsewhere'
    BY <1>1, <1>9, <2>1 DEF Elsewhere
  <2> QED BY <1>1, <1>5, <1>6, <1>7, <1>9, <2>1, <2>6, <2>7 DEF CallInv, Present
<1> QED BY <1>8, <1>9

LEMMA CallVerify ==
    ASSUME Written, IInv, CallInv, DevInv', ~faulted, Verify
    PROVE  CallInv'
<1>1. phase = "apply" /\ todo = <<>> /\ UNCHANGED <<box, last, target, faulted>>
  BY DEF Verify
<1>2. at \in 1..3 /\ result = "none" /\ DevInv
  BY <1>1 DEF IInv, Progress, Renderers, CallInv
<1>3. PICK c \in Configs : target = <<c>>
  BY <1>1 DEF IInv, Progress
<1>4. NoAccounts' <=> NoAccounts
  BY <1>1 DEF NoAccounts
<1>5. CASE /\ UNCHANGED <<phase, result>>
           /\ at < 3 /\ at' = at + 1
           /\ todo' = ApplyOps(at + 1, Rendered(target[1])[at + 1])
  <2>1. last[3] = <<>> \/ Whole(box)
    BY <1>1, <1>5 DEF CallInv, Elsewhere
  <2>2. last'[3] = <<>> \/ Whole(box)'
    BY <1>1, <2>1 DEF Whole
  <2>3. ASSUME at' = 3 PROVE Present(todo', box')
    <3>1. at + 1 = 3
      BY <1>5, <2>3
    <3>2. todo' = networkd_apply(last[3], Network(c))
      BY <1>3, <1>5, <3>1, ThirdsAre
    <3>3. Present(networkd_apply(last[3], Network(c)), box)
      BY <2>1, PresentAtFirst
    <3> QED BY <1>1, <3>2, <3>3
  <2>4. ASSUME at' = 2, NoAccounts PROVE todo' = <<>>
    <3>1. at + 1 = 2
      BY <1>5, <2>4
    <3>2. todo' = ApplyOps(2, Rendered(c)[2])
      BY <1>3, <1>5, <3>1
    <3>3. DOMAIN c.login = {} /\ (last[2] # <<>> => named(last[2][1]) = {})
      BY <1>3, <2>4 DEF NoAccounts
    <3> QED BY <3>2, <3>3, NobodyNamed DEF IInv
  <2>5. phase' = "apply" /\ result' = "none"
    BY <1>1, <1>2, <1>5
  <2> QED BY <1>4, <2>2, <2>3, <2>4, <2>5 DEF CallInv, Present
<1>6. CASE phase' = "remember" /\ UNCHANGED result
  <2>1. ~Elsewhere'
    BY <1>6 DEF Elsewhere
  <2> QED BY <1>2, <1>6, <2>1 DEF CallInv
<1>7. CASE at # 2 /\ ~VerifyFiles(Rendered(target[1])[at], box)
  <2>1. CASE at = 1
    BY <1>1, <1>7, <2>1, SystemVerifies
  <2>2. CASE at = 3
    <3>1. Unrecorded
      BY <1>1, <2>2 DEF Unrecorded
    <3> QED BY <1>2, <1>7, <2>2, <3>1, SettledVerifies
  <2> QED BY <1>2, <1>7, <2>1, <2>2
<1>8. \/ /\ UNCHANGED <<phase, result>>
         /\ at < 3 /\ at' = at + 1
         /\ todo' = ApplyOps(at + 1, Rendered(target[1])[at + 1])
      \/ phase' = "remember" /\ UNCHANGED result
      \/ at # 2 /\ ~VerifyFiles(Rendered(target[1])[at], box)
  BY DEF Verify
<1> QED BY <1>5, <1>6, <1>7, <1>8

LEMMA CallRemember ==
    ASSUME Written, IInv, CallInv, DevInv', ~faulted, ~faulted', Remember
    PROVE  CallInv'
<1>1. phase = "remember" /\ UNCHANGED <<box, target>> /\ result = "none"
  BY DEF Remember, CallInv
<1>2. last' = [last EXCEPT ![at] = <<Rendered(target[1])[at]>>]
  BY DEF Remember
<1>3. PICK c \in Configs : target = <<c>> /\ Settled(c, box)
  BY <1>1 DEF CallInv, DevInv, Unrecorded
<1>4. CASE at < 3 /\ UNCHANGED <<phase, result>>
  <2>1. ~Elsewhere' /\ phase' = "remember" /\ result' = "none"
    BY <1>1, <1>4 DEF Elsewhere
  <2> QED BY <2>1 DEF CallInv
<1>5. CASE ~(at < 3) /\ Return("ok")
  <2>1. phase' = "idle" /\ result' = "ok"
    BY <1>5 DEF Return
  <2>2. at = 3
    BY <1>1, <1>5 DEF IInv, Progress, Renderers
  <2>3. last'[3] = <<Network(c)>>
    BY <1>2, <1>3, <2>2, ThirdsAre DEF IInv, RecordsOK
  <2>4. Described(Network(c).net) \subseteq DOMAIN box.devices
    BY <1>3 DEF Settled
  <2>5. Whole(box)'
    BY <1>1, <2>3, <2>4 DEF Whole
  <2> QED BY <2>1, <2>5 DEF CallInv
<1> QED BY <1>4, <1>5 DEF Remember

LEMMA CallRestoreNext ==
    ASSUME IInv, CallInv, DevInv', ~faulted, RestoreNext
    PROVE  CallInv'
<1>1. phase = "restore" /\ UNCHANGED <<box, last, target>>
  BY DEF RestoreNext
<1>2. ~NoAccounts /\ at < 3 /\ (last[3] = <<>> \/ Whole(box))
  BY <1>1 DEF CallInv, Elsewhere
<1>3. PICK r \in 0..2 : r = at - 1
  BY <1>1, <1>2 DEF IInv, Progress, Renderers
<1>4. RestoreFrom(r)
  BY <1>3 DEF RestoreNext
<1> QED BY <1>1, <1>2, <1>4, CallGivesWay

LEMMA CallStep ==
    ASSUME Written, "reboot" \notin Faults, IInv, IInv', CallInv, [Next]_vars
    PROVE  CallInv'
<1>1. phase' \in {"apply", "remember"} => result' = "none"
  BY NoResult
<1>2. CASE faulted'
  BY <1>1, <1>2 DEF CallInv
<1>3. CASE ~faulted'
  <2>1. ~faulted
    BY <1>3 DEF Next, vars, Begin, Operate, ToolRefuses, Fault, Verify, Tamper, RestoreNext, Remember, Crash, Reboot
  <2>2. DevInv'
    BY <1>3, <2>1, DevStep DEF CallInv
  <2>3. CASE \E c \in Configs : Begin(c)
    BY <2>1, <2>2, <2>3, CallBegin
  <2>4. CASE Operate
    BY <2>1, <2>2, <2>4, CallOperate
  <2>5. CASE ToolRefuses
    <3>1. Failed /\ UNCHANGED <<box, last, target>> /\ todo # <<>> /\ Done(Head(todo), box) = {}
      BY <2>5 DEF ToolRefuses
    <3>2. phase = "apply" => at = 2
      BY <2>1, <3>1, OnlyAccountsRefuse
    <3>3. phase = "apply" => ~NoAccounts
      BY <2>1, <3>1, <3>2 DEF CallInv
    <3> QED BY <2>1, <2>2, <3>1, <3>2, <3>3, CallFailing
  <2>6. CASE Fault \/ Tamper \/ Crash
    BY <1>3, <2>6 DEF Fault, Tamper, Crash
  <2>7. CASE Verify
    BY <2>1, <2>2, <2>7, CallVerify
  <2>8. CASE RestoreNext
    BY <2>1, <2>2, <2>8, CallRestoreNext
  <2>9. CASE Remember
    BY <1>3, <2>1, <2>2, <2>9, CallRemember
  <2>10. CASE Reboot
    BY <2>10 DEF Reboot
  <2>11. CASE UNCHANGED vars
    <3>1. UNCHANGED <<box, last, phase, at, todo, target, result>>
      BY <2>11 DEF vars
    <3>2. (Whole(box)' <=> Whole(box)) /\ (NoAccounts' <=> NoAccounts) /\ (Elsewhere' <=> Elsewhere)
      BY <3>1 DEF Whole, NoAccounts, Elsewhere
    <3>3. Present(todo, box)' <=> Present(todo, box)
      BY <3>1 DEF Present
    <3> QED BY <1>1, <2>1, <2>2, <3>1, <3>2, <3>3 DEF CallInv
  <2> QED BY <2>3, <2>4, <2>5, <2>6, <2>7, <2>8, <2>9, <2>10, <2>11 DEF Next
<1> QED BY <1>2, <1>3

LEMMA CallInit ==
    ASSUME Init
    PROVE  CallInv
<1>1. /\ phase = "idle" /\ result = "none" /\ last = [r \in Renderers |-> <<>>]
  BY DEF Init
<1>2. last[3] = <<>>
  BY <1>1 DEF Renderers
<1> QED BY <1>1, <1>2, DevInit DEF CallInv

\* On a box that does not reboot, a call over interfaces is never given up of itself: as
\* long as nothing has failed from outside, no tool is asked for what it cannot do and
\* verify finds every file (networkd.rs recreations: what is rebuilt is there, once, and
\* before the reload).
THEOREM InterfaceCallsGoThrough ==
    ASSUME "reboot" \notin Faults
    PROVE  Spec => []InterfaceCallsSucceed
<1>1. Init => CallInv
  BY CallInit
<1>2. IInv /\ IInv' /\ CallInv /\ [Next]_vars => CallInv'
  BY WrittenAssumption, CallStep
<1>3. IInv /\ CallInv => InterfaceCallsSucceed
  BY DEF CallInv, InterfaceCallsSucceed
<1>4. Spec => []IInv
  BY AlwaysIInv
<1> QED BY <1>1, <1>2, <1>3, <1>4, PTL DEF Spec
====
