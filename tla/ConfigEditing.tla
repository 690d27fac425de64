---- MODULE ConfigEditing ----
(***************************************************************************)
(* A candidate edited by typed lines, checked and committed: the way       *)
(* ns's set and delete (repl.rs), configd's handlers (state.rs) and the    *)
(* schema work together on one configuration.                              *)
(*                                                                         *)
(* The daemon may be restarted into another release while sessions and the *)
(* running configuration survive under /run, so the schema can change      *)
(* under a candidate.                                                      *)
(***************************************************************************)
EXTENDS BoxSchema

CONSTANTS
    Releases,    \* the schema of every release the box may run
    Typed,       \* what the operator types after set and delete
    Files,       \* trees a configuration file may hold
    MaxChanges   \* bound: lines by which the candidate may part from running

VARIABLES release, running, candidate
vars == <<release, running, candidate>>

schema == Releases[release]

Init ==
    /\ release \in DOMAIN Releases
    \* Nothing saved, or a saved configuration that could not be used.
    /\ running \in {EmptyTree, Defaults(schema)}
    /\ candidate = running

Near(t) == Cardinality((Lines(t) \ Lines(running)) \cup (Lines(running) \ Lines(t))) <= MaxChanges

\* A refused request leaves the candidate as it was.
Adopt(result) ==
    /\ result.ok /\ Near(result.tree)
    /\ candidate' = result.tree
    /\ UNCHANGED <<release, running>>

Set(line) == LET l == SplitValue(schema, line) IN Adopt(ApplySet(schema, candidate, l.path, l.value))
Delete(line) == LET l == SplitValue(schema, line) IN Adopt(ApplyDelete(schema, candidate, l.path, l.value))

\* Checked now rather than at commit.
Load(file) ==
    /\ ValidateTree(schema, file) = {}
    /\ Adopt(Ok(file))

\* With nothing to apply, nothing is promoted.
Commit ==
    /\ Validate(schema, candidate)
    /\ running' = IF Diff(running, candidate) = {} THEN running ELSE candidate
    /\ UNCHANGED <<release, candidate>>

Discard ==
    /\ candidate' = running
    /\ UNCHANGED <<release, running>>

\* The running configuration and the session come back as they were.
Restart(next) ==
    /\ release' = next
    /\ UNCHANGED <<running, candidate>>

Edit(line) == Set(line) \/ Delete(line)

Next ==
    \/ \E line \in Typed : Edit(line)
    \/ \E file \in Files : Load(file)
    \/ Commit
    \/ Discard
    \/ \E next \in DOMAIN Releases : Restart(next)

Spec == Init /\ [][Next]_vars

(***************************************************************************)
(* Properties                                                              *)
(***************************************************************************)

\* A tree stays a tree: every node has its parents, and what holds a value has nothing under it.
TypeOK == \A p \in DOMAIN candidate : \A q \in Ancestors(p) : q \in DOMAIN candidate /\ ~candidate[q].leaf

\* The interfaces of a type, and what one of them holds.
Of(t, type) == {Last(p) : p \in ChildrenOf(t, <<"interfaces", type>>)}
Get(t, type, key, leaf) == ValsAt(t, <<"interfaces", type, key, leaf>>)
Masters(t) == {<<type, key>> \in {"bonding", "bridge"} \X Names : key \in Of(t, type)}

\* What makes a configuration of the box sound, said of interfaces and not of patterns.
OneMaster(t) ==
    \A a, b \in Masters(t) : a = b \/ Get(t, a[1], a[2], "member") \cap Get(t, b[1], b[2], "member") = {}
MembersCarryNoAddress(t) ==
    \A m \in Masters(t), type \in {"ethernet", "bonding", "vlan"} :
        \A port \in Get(t, m[1], m[2], "member") : Get(t, type, port, "address") = {}
ReferencesExist(t) ==
    /\ \A m \in Masters(t) : Get(t, m[1], m[2], "member") \subseteq
            Of(t, "ethernet") \cup (IF m[1] = "bridge" THEN Of(t, "bonding") \cup Of(t, "vlan") ELSE {})
    /\ \A v \in Of(t, "vlan") : \E port \in Of(t, "ethernet") \cup Of(t, "bonding") \cup Of(t, "bridge") :
            Get(t, "vlan", v, "parent") = {port}
    /\ \A v \in Of(t, "vxlan") : Get(t, "vxlan", v, "source-interface") \subseteq
            UNION {Of(t, type) : type \in {"ethernet", "bonding", "bridge", "vlan"}}
PrimaryIsActive(t) ==
    \A b \in Of(t, "bonding") : Get(t, "bonding", b, "primary") # {} =>
        /\ Get(t, "bonding", b, "primary") \subseteq Get(t, "bonding", b, "member")
        /\ Get(t, "bonding", b, "mode") = {"active-backup"}
VlansDistinct(t) ==
    /\ \A v \in Of(t, "vlan") : Get(t, "vlan", v, "id") # {}
    /\ \A v, w \in Of(t, "vlan") : v = w \/ Get(t, "vlan", v, "parent") # Get(t, "vlan", w, "parent")
                                         \/ Get(t, "vlan", v, "id") # Get(t, "vlan", w, "id")
TunnelsDistinct(t) ==
    /\ \A v \in Of(t, "vxlan") :
          /\ Get(t, "vxlan", v, "vni") # {}
          /\ {} \in {Get(t, "vxlan", v, leaf) : leaf \in {"remote", "group"}}
          /\ Get(t, "vxlan", v, "group") # {} => Get(t, "vxlan", v, "source-interface") # {}
    /\ \A v, w \in Of(t, "vxlan") : v = w \/ Get(t, "vxlan", v, "vni") # Get(t, "vxlan", w, "vni")
Sound(t) ==
    /\ OneMaster(t) /\ MembersCarryNoAddress(t) /\ ReferencesExist(t)
    /\ PrimaryIsActive(t) /\ VlansDistinct(t) /\ TunnelsDistinct(t)

\* check_constraints over the schema's patterns and globals accepts exactly the
\* configurations whose interfaces fit together, whatever order they were typed in.
AcceptsTheSound == ValidateTree(schema, candidate) = {} => (ConstraintsHold(schema, candidate) <=> Sound(candidate))

\* A set or a delete never gives the candidate a fault of structure or type it had not
\* (validate_set before apply_set, the node gone with its last value).
AddsNoFault ==
    ValidateTree(schema', candidate') \subseteq ValidateTree(schema, candidate) \/ ~\E line \in Typed : Edit(line)

\* A candidate older than the schema can be mended: whatever the schema now loaded finds
\* wrong in it, delete takes the deepest node on the way there that the schema still knows,
\* the fault is gone with it and no other has come (apply_delete, which asks only that the
\* path resolves).
Known(s, p) == {i \in 0..Len(p) : Resolve(s, SubSeq(p, 1, i)) # Nowhere}

FaultsCanBeDeleted ==
    \A p \in ValidateTree(schema, candidate) :
        \E i \in Known(schema, p) :
            LET mended == ApplyDelete(schema, candidate, SubSeq(p, 1, i), <<>>)
            IN  /\ \A j \in Known(schema, p) : j <= i
                /\ mended.ok /\ ValidateTree(schema, mended.tree) \subseteq ValidateTree(schema, candidate) \ {p}

\* Values and notes a line does not name, above, beside and below it, are left alone.
ChangesNothingElse ==
    \A line \in Typed :
        LET named == SplitValue(schema, line).path
        IN  \/ \A p \in DOMAIN candidate \cup DOMAIN candidate' :
                  \/ IsPrefix(named, p)
                  \/ p \in DOMAIN candidate /\ p \in DOMAIN candidate' /\ candidate'[p] = candidate[p]
                  \/ p \notin DOMAIN candidate /\ IsPrefix(p, line) /\ candidate'[p] = Interior
            \/ ~Edit(line)

\* compare is empty exactly when the candidate is the running configuration up to their
\* comments, for configurations the schema types (diff's placeholder lines and its survives
\* filter).
CompareTellsApart ==
    (ValidateTree(schema, candidate) = {} /\ ValidateTree(schema, running) = {})
        => (Diff(running, candidate) = {} <=> Uncommented(running) = Uncommented(candidate))

\* A claim that does not hold (README, "Where the code and its words part").
\* A commit that finds nothing to do had nothing to do (state.rs: "The box is already how the
\* operator wants it"): a file that differs in its comments was loaded.
NothingToCommit == Validate(schema, candidate) /\ Diff(running, candidate) = {} => candidate = running

\* A claim that does not hold (README, "Where the code and its words part").
\* Every word that follows a typed node is either its value or refused (model.rs: "Unknown
\* paths come back whole with no value").
SplitKeepsWords ==
    \A line \in Typed : LET l == SplitValue(schema, line) IN ApplySet(schema, candidate, l.path, l.value).ok => l.path \o l.value = line

\* A claim that does not hold (README, "Where the code and its words part").
\* What an interface stands on is reported, hence takes effect, before it (model.rs: "Apply
\* ordering, lower first"; bridge.yaml: "applied after all three exist").
StandsOn(t, p) ==
    IF Len(p) < 3 \/ p[2] # "bridge" THEN {}
    ELSE {q \in DOMAIN t : Len(q) = 3 /\ q[2] \in {"ethernet", "bonding", "vlan"} /\ q[3] \in Get(t, "bridge", p[3], "member")}

MembersFirst ==
    Validate(schema, candidate) =>
        \A c \in Diff(running, candidate) : c.op = "add" =>
            \A q \in StandsOn(candidate, c.path) : \A d \in Diff(running, candidate) :
                (d.op = "add" /\ IsPrefix(q, d.path)) => ReportedBefore(schema, d, c)
====
