---- MODULE SchemaLoader ----
(***************************************************************************)
(* Reading schema/ (nightshade-schema loader.rs): the files are merged     *)
(* into one document one after another, then each node is converted:       *)
(* templates pulled in, priorities inherited, its rules and types checked. *)
(*                                                                         *)
(* A raw node is [def, include, exclude, constraints, unique, exclusive],  *)
(* exclude a sequence.  def is a function on the definition fields that    *)
(* somebody gave: kind, help, type, values, accepts, default, required,    *)
(* priority and tag, which is the type of a tag's key; its values are in   *)
(* values.  A raw tree is a function on paths, a template on paths         *)
(* relative to the node that includes it.                                  *)
(***************************************************************************)
EXTENDS ConfigSchema

CONSTANTS
    Directories,   \* the sets of files that may lie under schema/
    WordsOf        \* what each type of value accepts

DefaultPriority == 500

VARIABLES
    files,       \* the directory
    left,        \* files not yet absorbed
    nodes, templates, globals,
    todo,        \* paths whose node is to be converted
    built,       \* the schema's nodes so far
    phase        \* "merging", "converting", "built" or "refused"
vars == <<files, left, nodes, templates, globals, todo, built, phase>>

(***************************************************************************)
(* Merging                                                                 *)
(***************************************************************************)

Disagree(a, b) == \E f \in DOMAIN a.def \cap DOMAIN b.def : a.def[f] # b.def[f]

\* Wrong variant of MergeNode: what the later node gives is dropped where the earlier has it.
MergeNodeFirst(into, from) ==
    [def |-> into.def @@ from.def,
     include |-> into.include \cup from.include, exclude |-> into.exclude \o from.exclude,
     constraints |-> into.constraints \cup from.constraints,
     unique |-> into.unique \cup from.unique, exclusive |-> into.exclusive \cup from.exclusive]

\* Definitions of the later node win, the rest collects.
MergeNode(into, from) ==
    [def |-> from.def @@ into.def,
     include |-> into.include \cup from.include, exclude |-> into.exclude \o from.exclude,
     constraints |-> into.constraints \cup from.constraints,
     unique |-> into.unique \cup from.unique, exclusive |-> into.exclusive \cup from.exclusive]

Merge(into, from) ==
    [p \in DOMAIN into \cup DOMAIN from |->
        IF p \notin DOMAIN from THEN into[p]
        ELSE IF p \notin DOMAIN into THEN from[p] ELSE MergeNode(into[p], from[p])]

\* Mode::Strict: two definitions of one field that differ.
Conflicts(into, from) == \E p \in DOMAIN into \cap DOMAIN from : Disagree(into[p], from[p])

Init ==
    /\ files \in Directories /\ left = files
    /\ nodes = <<>> /\ templates = <<>> /\ globals = {}
    /\ todo = {} /\ built = <<>> /\ phase = "merging"

Refuse == phase' = "refused" /\ UNCHANGED <<files, left, nodes, templates, globals, todo, built>>

\* Two files may not define one template, nor one field of a node differently.
Absorb(file) ==
    /\ phase = "merging"
    /\ IF DOMAIN file.templates \cap DOMAIN templates # {} \/ Conflicts(nodes, file.nodes) THEN Refuse
       ELSE /\ nodes' = Merge(nodes, file.nodes)
            /\ templates' = file.templates @@ templates
            /\ globals' = globals \cup file.globals
            /\ left' = left \ {file}
            /\ UNCHANGED <<files, todo, built, phase>>

(***************************************************************************)
(* Converting                                                              *)
(***************************************************************************)

Under(tree, p) == {q \in DOMAIN tree : IsPrefix(p, q) /\ q # p}
NamesUnder(tree, p) == {q[Len(p) + 1] : q \in Under(tree, p)}
At(p, tree) == [q \in {p \o r : r \in DOMAIN tree} |-> tree[SubSeq(q, Len(p) + 1, Len(q))]]

\* The templates a node includes, which must not contradict one another.
Included(names) == {templates[name] : name \in names}
Together(trees) == FoldLeft(LAMBDA into, from : Merge(into, from), <<>>, SetToSeq(trees))
Contradict(trees) == \E a, b \in trees : a # b /\ Conflicts(a, b)

\* The document with the includes of p expanded, its own children over them, and its excludes gone.
Expanded(p) ==
    LET raw == nodes[p]
        \* Own children overlay what they pulled in.
        whole == Merge(At(p, Together(Included(raw.include))), nodes)
    IN [q \in {r \in DOMAIN whole : \A name \in ToSet(raw.exclude) : ~IsPrefix(Append(p, name), r)} |-> whole[q]]

\* Each excluded name is taken out once, so it must be there and be named once.
Excludable(raw, p) ==
    /\ \A i, j \in DOMAIN raw.exclude : i # j => raw.exclude[i] # raw.exclude[j]
    /\ ToSet(raw.exclude) \subseteq NamesUnder(nodes, p) \cup UNION {NamesUnder(t, Root) : t \in Included(raw.include)}

Gives(raw, field) == field \in DOMAIN raw.def
Given(raw, field, otherwise) == IF Gives(raw, field) THEN raw.def[field] ELSE otherwise

\* The type a leaf's value or a tag's key is of.
TypeField(kind) == IF kind = "tag" THEN "tag" ELSE "type"
Accepts(raw, kind) ==
    CASE kind \notin {"tag", "leaf", "multi"} -> {}
      [] kind = "tag" /\ raw.def["tag"] = "enum" -> raw.def["values"]
      [] kind = "tag" -> WordsOf[raw.def["tag"]]
      [] raw.def["type"] = "enum" -> raw.def["values"] \cup Given(raw, "accepts", {})
      [] OTHER -> WordsOf[raw.def["type"]] \cup Given(raw, "accepts", {})

\* leaf_spec, value_spec: a known type, and values for an enum and for nothing else.
TypeIsWrong(raw, kind) ==
    \/ ~Gives(raw, TypeField(kind))
    \/ raw.def[TypeField(kind)] \notin DOMAIN WordsOf \cup {"enum"}
    \/ Gives(raw, "values") /\ (raw.def[TypeField(kind)] # "enum" \/ raw.def["values"] = {})
    \/ ~Gives(raw, "values") /\ raw.def[TypeField(kind)] = "enum"

\* A default that the node's own type would reject.
DefaultIsWrong(raw, kind) ==
    kind \in {"leaf", "multi"} /\ Gives(raw, "default") /\ raw.def["default"] \notin Accepts(raw, kind)

\* What convert refuses of the node at p, whose children are those of tree.
Wrong(raw, p, tree) ==
    LET kind == raw.def["kind"] children == NamesUnder(tree, p) IN
    \/ ~Gives(raw, "help") \/ ~Gives(raw, "kind")
    \/ kind \notin {"container", "tag", "leaf", "multi", "flag"}
    \/ (kind \in {"container", "tag"}) # (children # {})
    \/ kind \in {"tag", "leaf", "multi"} /\ (TypeIsWrong(raw, kind) \/ DefaultIsWrong(raw, kind))
    \/ ~(UNION (raw.unique \cup raw.exclusive) \subseteq children)
    \/ raw.unique # {} /\ kind # "tag"
    \/ \E c \in raw.constraints : c.paths = {}

Inherited(p) == IF Len(p) = 1 THEN DefaultPriority ELSE built[Parent(p)].priority

\* The schema's node; a priority not set is the parent's.
Built(raw, p) ==
    [kind |-> raw.def["kind"], accepts |-> Accepts(raw, raw.def["kind"]),
     default |-> IF Gives(raw, "default") THEN <<raw.def["default"]>> ELSE <<>>,
     required |-> Given(raw, "required", FALSE), priority |-> Given(raw, "priority", Inherited(p)),
     constraints |-> raw.constraints, unique |-> raw.unique, exclusive |-> raw.exclusive]

Convert(p) ==
    /\ phase = "converting" /\ p \in todo
    /\ LET raw == nodes[p] IN
       IF \/ ~(raw.include \subseteq DOMAIN templates) \/ Contradict(Included(raw.include))
          \/ ~Excludable(raw, p)
          \/ Wrong(raw, p, Expanded(p))
       THEN Refuse
       ELSE /\ nodes' = Expanded(p)
            /\ built' = (p :> Built(raw, p)) @@ built
            /\ todo' = (todo \ {p}) \cup {Append(p, name) : name \in NamesUnder(Expanded(p), p)}
            /\ UNCHANGED <<files, left, templates, globals, phase>>

\* Every file is in: the root's children are converted first.
StartBuild ==
    /\ phase = "merging" /\ left = {}
    /\ IF \E g \in globals : {} \in g.lists THEN Refuse
       ELSE /\ phase' = "converting" /\ todo' = {<<name>> : name \in NamesUnder(nodes, Root)}
            /\ UNCHANGED <<files, left, nodes, templates, globals, built>>

RootNode ==
    [kind |-> "container", accepts |-> {}, default |-> <<>>, required |-> FALSE, priority |-> DefaultPriority,
     constraints |-> {}, unique |-> {}, exclusive |-> {}]
FinishBuild ==
    /\ phase = "converting" /\ todo = {}
    /\ phase' = "built" /\ built' = (Root :> RootNode) @@ built
    /\ UNCHANGED <<files, left, nodes, templates, globals, todo>>

Next ==
    \/ \E file \in left : Absorb(file)
    \/ StartBuild
    \/ \E p \in todo : Convert(p)
    \/ FinishBuild

Spec == Init /\ [][Next]_vars

(***************************************************************************)
(* Properties                                                              *)
(***************************************************************************)

Loaded == [nodes |-> built, globals |-> globals]

\* Whatever order the files come in, the merged document gives each field the value that
\* every file giving it agrees on, and two that do not agree are never both merged.
MergeIsAgreement ==
    (phase = "merging" /\ left = {}) =>
        \A a, b \in files : \A p \in DOMAIN a.nodes \cap DOMAIN b.nodes :
            /\ ~Disagree(a.nodes[p], b.nodes[p])
            /\ DOMAIN nodes[p].def = UNION {DOMAIN c.nodes[p].def : c \in {d \in files : p \in DOMAIN d.nodes}}

\* The defaults of a schema that loads are a configuration it accepts the types of
\* (convert: "would otherwise surface as an unconfigurable box").
DefaultsAreTyped == phase = "built" => ValidateTree(Loaded, Defaults(Loaded)) = {}

\* A node has the priority of the nearest one at or above it to which a file or a template gave one.
PriorityIsNearest ==
    phase = "built" => \A p \in DOMAIN built \ {Root} :
        LET set == {i \in 1..Len(p) : Gives(nodes[SubSeq(p, 1, i)], "priority")} IN
        built[p].priority = IF set = {} THEN DefaultPriority
                            ELSE nodes[SubSeq(p, 1, CHOOSE i \in set : \A j \in set : j <= i)].def["priority"]

\* What a node says of a child it includes prevails over the template, field by field.
OwnPrevails ==
    phase = "built" => \A a \in files : \A p \in DOMAIN a.nodes \cap DOMAIN built :
        \A f \in DOMAIN a.nodes[p].def : nodes[p].def[f] = a.nodes[p].def[f]

\* A claim that does not hold (README, "Where the code and its words part").
\* The fields of a node of a schema that loads are each given by one file only
\* (the module's heading: "may be set once. Two files setting the same one is an error").
SetOnce ==
    phase = "built" => \A a, b \in files : a # b =>
        \A p \in DOMAIN a.nodes \cap DOMAIN b.nodes : DOMAIN a.nodes[p].def \cap DOMAIN b.nodes[p].def = {}
====
