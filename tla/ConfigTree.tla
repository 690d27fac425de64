---- MODULE ConfigTree ----
(***************************************************************************)
(* The configuration tree, its operations and the difference of two trees  *)
(* (nightshade-schema config.rs, diff.rs, path.rs).                        *)
(*                                                                         *)
(* A tree is a function on the paths that exist in it, the root among      *)
(* them.  A node is interior, or holds a set of values; a node without     *)
(* values is a flag.  note is the comment above it, at most one.           *)
(***************************************************************************)
EXTENDS Naturals, Sequences, SequencesExt, FiniteSets, TLC

Root == <<>>
Interior == [leaf |-> FALSE, vals |-> {}, note |-> <<>>]
Values(vs) == [leaf |-> TRUE, vals |-> vs, note |-> <<>>]
Flag == Values({})
EmptyTree == [p \in {Root} |-> Interior]

Parent(p) == Front(p)
Ancestors(p) == {SubSeq(p, 1, i) : i \in 0..(Len(p) - 1)}
Below(t, p) == {q \in DOMAIN t : IsPrefix(p, q)}
ChildrenOf(t, p) == {q \in DOMAIN t : Len(q) = Len(p) + 1 /\ IsPrefix(p, q)}

Ok(t) == [ok |-> TRUE, tree |-> t]
Refused(t) == [ok |-> FALSE, tree |-> t]

(***************************************************************************)
(* Building                                                                *)
(***************************************************************************)

\* parent_of: fails on a value in the way, and then has created nothing.
Blocked(t, p) == \E q \in Ancestors(p) \cap DOMAIN t : t[q].leaf
WithParents(t, p) == [q \in DOMAIN t \cup Ancestors(p) |-> IF q \in DOMAIN t THEN t[q] ELSE Interior]
Put(t, p, node) == (p :> node) @@ WithParents(t, p)

\* The node, with the parents it lacks, unless a value is in the way.
EnsureInterior(t, p) ==
    IF p = Root THEN Ok(t)
    ELSE IF Blocked(t, p) \/ (p \in DOMAIN t /\ t[p].leaf) THEN Refused(t)
    ELSE Ok(IF p \in DOMAIN t THEN t ELSE Put(t, p, Interior))

\* set, add, set_flag and declare_leaf differ in what becomes of the values.
HoldValues(t, p, vals) ==
    IF p = Root \/ Blocked(t, p) \/ (p \in DOMAIN t /\ ~t[p].leaf) THEN Refused(t)
    ELSE Ok(IF p \in DOMAIN t THEN [t EXCEPT ![p].vals = vals] ELSE Put(t, p, Values(vals)))

ValsAt(t, p) == IF p \in DOMAIN t THEN t[p].vals ELSE {}

DeclareLeaf(t, p) == HoldValues(t, p, ValsAt(t, p))
SetLeaf(t, p, v) == HoldValues(t, p, {v})
AddLeaf(t, p, v) == HoldValues(t, p, ValsAt(t, p) \cup {v})
SetFlag(t, p) == HoldValues(t, p, {})

(***************************************************************************)
(* Taking apart                                                            *)
(***************************************************************************)

\* What is left when the node goes with all that is under it.
Without(t, p) == [q \in DOMAIN t \ Below(t, p) |-> t[q]]

\* The node and everything under it, and nothing else.
RemoveNode(t, p) ==
    IF p = Root THEN Ok(EmptyTree)
    ELSE IF p \in DOMAIN t THEN Ok(Without(t, p)) ELSE Refused(t)

\* The node goes with its last value.
RemoveValue(t, p, v) ==
    IF p \notin DOMAIN t \/ v \notin ValsAt(t, p) THEN Refused(t)
    ELSE IF t[p].vals = {v} THEN RemoveNode(t, p)
    ELSE Ok([t EXCEPT ![p].vals = @ \ {v}])

\* The tree without its comments.
Uncommented(t) == [p \in DOMAIN t |-> [t[p] EXCEPT !.note = <<>>]]

SetComment(t, p, note) == IF p \in DOMAIN t THEN Ok([t EXCEPT ![p].note = note]) ELSE Refused(t)

(***************************************************************************)
(* Differences                                                             *)
(***************************************************************************)

\* A line per value, and one without for a node that holds nothing.
Lines(t) ==
    UNION {{<<p, <<v>>>> : v \in t[p].vals} : p \in DOMAIN t}
    \cup {<<p, <<>>>> : p \in {q \in DOMAIN t \ {Root} : t[q].vals = {} /\ ChildrenOf(t, q) = {}}}

\* Wrong variant of Survives: a node that one of them has.
SurvivesOnce(a, b, p) == \E t \in {a, b} : p \in DOMAIN t /\ ~t[p].leaf

\* Whether p is interior in both, so that it was neither created nor deleted.
Survives(a, b, p) == \A t \in {a, b} : p \in DOMAIN t /\ ~t[p].leaf

\* The lines of one that the other has not, less the placeholders of nodes both have.
Change(op, line) == [op |-> op, path |-> line[1], value |-> line[2]]
Diff(from, to) ==
    {c \in {Change("add", l) : l \in Lines(to) \ Lines(from)}
            \cup {Change("remove", l) : l \in Lines(from) \ Lines(to)} :
        c.value # <<>> \/ ~Survives(from, to, c.path)}
====
