---- MODULE ConfigSchema ----
(***************************************************************************)
(* The schema and what it says of a configuration (nightshade-schema       *)
(* model.rs and validate.rs, the priority order of configd's commit.rs).   *)
(*                                                                         *)
(* A schema s is [nodes, globals].  s.nodes is a function on the schema's  *)
(* paths, which have no segment for the key of a tag: a node has a kind    *)
(* ("container", "tag", "leaf", "multi" or "flag"), the words accepted as  *)
(* its value or, for a tag, as a key, and the rules that hang off it.      *)
(***************************************************************************)
EXTENDS ConfigTree

LOCAL HoldsValues == {"leaf", "multi"}

(***************************************************************************)
(* Where a path lands (model.rs)                                           *)
(***************************************************************************)

Nowhere == [loc |-> "none", at |-> Root]
Kind(s, l) == s.nodes[l.at].kind

\* One segment further: a child, a key of a tag, or a value of a leaf.
Step(s, l, word) ==
    LET child == Append(l.at, word)
        childOrNowhere == IF child \in DOMAIN s.nodes THEN [loc |-> "node", at |-> child] ELSE Nowhere
    IN CASE l.loc = "instance" -> childOrNowhere
         [] l.loc = "node" /\ Kind(s, l) = "container" -> childOrNowhere
         [] l.loc = "node" /\ Kind(s, l) = "tag" -> [loc |-> "instance", at |-> l.at]
         [] l.loc = "node" /\ Kind(s, l) \in HoldsValues -> [loc |-> "value", at |-> l.at]
         [] OTHER -> Nowhere

Resolve(s, p) == FoldLeft(LAMBDA l, word : Step(s, l, word), [loc |-> "node", at |-> Root], p)
IsNode(s, p, kinds) == LET l == Resolve(s, p) IN l.loc = "node" /\ Kind(s, l) \in kinds

\* The node a typed line names and the value it gives: the first word after a leaf.
SplitValue(s, typed) ==
    LET leaves == {i \in 0..(Len(typed) - 1) : IsNode(s, SubSeq(typed, 1, i), HoldsValues)}
    IN IF leaves = {} THEN [path |-> typed, value |-> <<>>]
       ELSE LET i == CHOOSE j \in leaves : TRUE
            IN [path |-> SubSeq(typed, 1, i), value |-> <<typed[i + 1]>>]

(***************************************************************************)
(* One node, one value (validate_set, apply_set, apply_delete)             *)
(***************************************************************************)

\* Tag keys along p that are no legal name.
BadKeys(s, p) ==
    {i \in 1..Len(p) : LET l == Resolve(s, SubSeq(p, 1, i)) IN l.loc = "instance" /\ p[i] \notin s.nodes[l.at].accepts}

ValidateSet(s, p, value) ==
    LET l == Resolve(s, p) IN
    /\ BadKeys(s, p) = {}
    /\ IF value = <<>> THEN l.loc = "instance" \/ IsNode(s, p, {"flag"})
       ELSE IsNode(s, p, HoldsValues) /\ value[1] \in s.nodes[l.at].accepts

\* Wrong variant of ApplySet: a set without a value makes a flag of whatever it names.
ApplySetGuessing(s, t, p, value) ==
    IF ~ValidateSet(s, p, value) THEN Refused(t)
    ELSE IF value = <<>> THEN SetFlag(t, p)
    ELSE IF IsNode(s, p, {"multi"}) THEN AddLeaf(t, p, value[1]) ELSE SetLeaf(t, p, value[1])

\* Replaces on a leaf, accumulates on a multi-leaf, creates a bare instance or a flag.
ApplySet(s, t, p, value) ==
    CASE ~ValidateSet(s, p, value) -> Refused(t)
      [] value # <<>> /\ IsNode(s, p, {"multi"}) -> AddLeaf(t, p, value[1])
      [] value # <<>> /\ IsNode(s, p, {"leaf"}) -> SetLeaf(t, p, value[1])
      [] value = <<>> /\ Resolve(s, p).loc = "instance" -> EnsureInterior(t, p)
      [] OTHER -> SetFlag(t, p)

\* Wrong variant of ApplyDelete: what is deleted is checked as what is set is.
ApplyDeleteChecked(s, t, p, value) ==
    CASE ~ValidateSet(s, p, value) -> Refused(t)
      [] value # <<>> -> RemoveValue(t, p, value[1])
      [] OTHER -> RemoveNode(t, p)

ApplyDelete(s, t, p, value) ==
    CASE Resolve(s, p) = Nowhere -> Refused(t)
      [] value # <<>> -> RemoveValue(t, p, value[1])
      [] OTHER -> RemoveNode(t, p)

\* The defaults outside tags, which is what a box without a usable config.boot runs.
Defaults(s) ==
    LET held == {q \in DOMAIN s.nodes :
                    /\ s.nodes[q].kind \in HoldsValues /\ s.nodes[q].default # <<>>
                    /\ \A a \in Ancestors(q) : s.nodes[a].kind = "container"}
    IN FoldLeft(LAMBDA t, q : SetLeaf(t, q, s.nodes[q].default[1]).tree, EmptyTree, SetToSeq(held))

(***************************************************************************)
(* Structure and types over a whole tree (validate_tree)                   *)
(***************************************************************************)

Faulty(s, t, p) ==
    LET l == Resolve(s, p)
        kind == IF l.loc = "instance" THEN "instance" ELSE Kind(s, l)
        n == s.nodes[l.at]
    IN CASE l.loc \in {"none", "value"} -> TRUE
         [] kind \in {"container", "tag"} -> t[p].leaf
         [] kind = "instance" -> t[p].leaf \/ Last(p) \notin n.accepts
         [] kind = "flag" -> ~t[p].leaf \/ t[p].vals # {}
         [] OTHER -> \/ ~t[p].leaf \/ ~(t[p].vals \subseteq n.accepts) \/ t[p].vals = {}
                     \/ (kind = "leaf" /\ Cardinality(t[p].vals) > 1)

\* The walk stops at the first fault on the way down.
ValidateTree(s, t) == {p \in DOMAIN t : Faulty(s, t, p) /\ \A q \in Ancestors(p) : ~Faulty(s, t, q)}

(***************************************************************************)
(* Rules that involve more than one node (check_constraints)               *)
(***************************************************************************)

\* The paths of the tree that match; @ is the key the rule is checked in.
Expand(t, pattern, current) ==
    {p \in DOMAIN t : /\ Len(p) = Len(pattern)
                      /\ \A i \in 1..Len(p) : \/ pattern[i] \in {"*", p[i]}
                                              \/ pattern[i] = "@" /\ current = <<p[i]>>}

\* A leaf gives its values, anything else its own name.
Contributed(t, p) == IF t[p].leaf THEN t[p].vals ELSE {Last(p)}
ValuesAt(t, pattern, current) == UNION {Contributed(t, p) : p \in Expand(t, pattern, current)}

\* The key of the innermost tag instance at or above p.
CurrentKey(s, p) ==
    LET keys == {i \in 1..Len(p) : Resolve(s, SubSeq(p, 1, i)).loc = "instance"}
    IN IF keys = {} THEN <<>> ELSE <<p[CHOOSE i \in keys : \A j \in keys : j <= i]>>

Holds(s, t, p, c) ==
    LET current == CurrentKey(s, p) IN
    CASE c.rule = "value-in-path-set" ->
            t[p].leaf => t[p].vals \subseteq UNION {ValuesAt(t, pattern, current) : pattern \in c.paths}
      [] c.rule = "path-exists" -> \E pattern \in c.paths : Expand(t, pattern, current) # {}
      [] c.rule = "path-has-value" ->
            \E pattern \in c.paths : \E q \in Expand(t, pattern, current) : c.value \in t[q].vals

\* Whether the node at p, which is interior, has a child of that name.
Has(t, p, name) == Append(p, name) \in DOMAIN t

\* The rules of one node: its constraints, required children and exclusive ones.
BrokenHere(s, t, p) ==
    LET l == Resolve(s, p)
        n == s.nodes[l.at]
    IN \/ \E c \in n.constraints : ~Holds(s, t, p, c)
       \/ /\ ~t[p].leaf /\ ~IsNode(s, p, {"tag"})
          /\ \/ \E q \in DOMAIN s.nodes \ {Root} :
                    Parent(q) = l.at /\ s.nodes[q].required /\ ~Has(t, p, Last(q))
             \/ \E group \in n.exclusive : Cardinality({name \in group : Has(t, p, name)}) > 1

\* The tuple's values in an instance, defined when each part has exactly one.
Tuple(t, p, names) == [name \in names |-> t[Append(p, name)].vals]
Complete(t, p, names) == \A name \in names : Has(t, p, name) /\ Cardinality(t[Append(p, name)].vals) = 1

\* Wrong variant of Clash: one part of the tuple in common is enough.
ClashOnAny(s, t, p) ==
    \E names \in s.nodes[Resolve(s, p).at].unique : \E name \in names, i, j \in ChildrenOf(t, p) :
        i # j /\ Complete(t, i, names) /\ Complete(t, j, names) /\ Tuple(t, i, {name}) = Tuple(t, j, {name})

\* Two instances of a tag with the same tuple: the later one is reported.
Clash(s, t, p) ==
    \E names \in s.nodes[Resolve(s, p).at].unique : \E i, j \in ChildrenOf(t, p) :
        i # j /\ Complete(t, i, names) /\ Complete(t, j, names) /\ Tuple(t, i, names) = Tuple(t, j, names)

\* The values that the paths of the patterns name, with who names them.
Claims(t, patterns) ==
    UNION {{<<pattern, p, v>> : v \in Contributed(t, p)} : <<pattern, p>> \in
        UNION {{<<q, r>> : r \in Expand(t, q, <<>>)} : q \in patterns}}

\* A value claimed twice across the lists, or a claimed interface with the forbidden child.
GlobalBroken(t, g) ==
    CASE g.rule = "unique-across" ->
            \E a, b \in Claims(t, g.paths) : a # b /\ a[3] = b[3]
      [] g.rule = "forbid-child-on-referenced" ->
            \E c \in Claims(t, g.paths) : \E pattern \in g.search : \E base \in Expand(t, pattern, <<>>) :
                base \o <<c[3], g.forbid>> \in DOMAIN t

\* Names the schema does not know are passed over.
ConstraintsHold(s, t) ==
    /\ \A p \in {q \in DOMAIN t : Resolve(s, q).loc \in {"node", "instance"}} :
            ~BrokenHere(s, t, p) /\ (IsNode(s, p, {"tag"}) /\ ~t[p].leaf => ~Clash(s, t, p))
    /\ \A g \in s.globals : ~GlobalBroken(t, g)

\* Steps 1 and 2 of a commit.
Validate(s, t) == ValidateTree(s, t) = {} /\ ConstraintsHold(s, t)

(***************************************************************************)
(* The order changes are reported in (commit.rs order)                     *)
(***************************************************************************)

\* Of the nearest node the schema knows, which every change of a typed tree has.
Priority(s, p) ==
    LET known == {i \in 0..Len(p) : Resolve(s, SubSeq(p, 1, i)) # Nowhere}
    IN s.nodes[Resolve(s, SubSeq(p, 1, CHOOSE i \in known : \A j \in known : j <= i)).at].priority

\* Whether change a is reported before change b whatever their paths are.
ReportedBefore(s, a, b) == Priority(s, a.path) < Priority(s, b.path)
====
