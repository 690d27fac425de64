---- MODULE PamWalk ----
(***************************************************************************)
(* The check that the installed system's logins have every PAM file and    *)
(* module they need (nightshade-installer engine/target.rs                 *)
(* verify_pam_stack, walk_pam_file, pam_include, pam_rule,                 *)
(* pam_module_exists).                                                     *)
(*                                                                         *)
(* The recursive walk is a stack of files being read, so that the order of *)
(* the visits and the guard against include cycles are what is checked.  A *)
(* line is an @include, or a rule with the words of its control field.     *)
(***************************************************************************)
EXTENDS Naturals, Sequences, SequencesExt, FiniteSets

CONSTANTS
    Files,      \* names under /etc/pam.d
    Entries,    \* those a login starts from, in order
    Trees,      \* what the directory may hold: a file's lines, or Absent
    Modules,    \* modules a rule may name
    Words       \* words of a control field

VARIABLES
    tree,           \* Files -> Absent or Present(lines)
    installed,      \* the modules that are there
    entries,        \* still to be walked
    stack,          \* frames [file, rest], the innermost last
    seen, missingFiles, missingModules

vars == <<tree, installed, entries, stack, seen, missingFiles, missingModules>>

\* A file that is there is its lines in a sequence of one.
Absent == <<>>
Present(lines) == <<lines>>
Include(f) == [include |-> f]
Rule(m, dash, control) == [module |-> m, dash |-> dash, control |-> control]
IsInclude(line) == "include" \in DOMAIN line

\* A directory of such files.  No rule names what is to become of a login whose module is
\* unknown but to have it ignored: pam_rule looks for no other.
Rules == {rule \in [module : Modules, dash : BOOLEAN, control : SUBSET Words] :
            rule.control \cap {"module_unknown=die", "module_unknown=bad"} = {}}
FileLines == [include : Files] \cup Rules
WellFormed ==
    /\ Entries \in Seq(Files)
    /\ \A t \in Trees : DOMAIN t = Files /\ \A f \in Files : t[f] = Absent \/ (Len(t[f]) = 1 /\ t[f][1] \in Seq(FileLines))

Init ==
    /\ tree \in Trees /\ installed \in SUBSET Modules
    /\ entries = Entries /\ stack = <<>>
    /\ seen = {} /\ missingFiles = {} /\ missingModules = {}

\* PamRule::blocks_login
BlocksLogin(rule) ==
    /\ ~rule.dash
    /\ "module_unknown=ignore" \notin rule.control
    /\ rule.control \cap {"required", "requisite", "default=die", "default=bad"} # {}

\* Entering a file; rest is the stack to come back to.
WalkPamFile(f, rest) ==
    IF f \in seen THEN stack' = rest /\ UNCHANGED <<seen, missingFiles>>
    ELSE /\ seen' = seen \cup {f}
         /\ IF tree[f] = Absent
            THEN stack' = rest /\ missingFiles' = missingFiles \cup {f}
            ELSE stack' = Append(rest, [file |-> f, rest |-> tree[f][1]]) /\ UNCHANGED missingFiles

\* verify_pam_stack: login, su, sudo.
Entry ==
    /\ stack = <<>> /\ entries # <<>>
    /\ WalkPamFile(Head(entries), <<>>)
    /\ entries' = Tail(entries)
    /\ UNCHANGED <<tree, installed, missingModules>>

Top == Last(stack)
Advanced == Append(Front(stack), [Top EXCEPT !.rest = Tail(@)])

IncludeLine ==
    /\ stack # <<>> /\ Top.rest # <<>> /\ IsInclude(Head(Top.rest))
    /\ WalkPamFile(Head(Top.rest).include, Advanced)
    /\ UNCHANGED <<tree, installed, entries, missingModules>>

\* Wrong variant of RuleLine: every module that is absent counts.
RuleLineStrict ==
    /\ stack # <<>> /\ Top.rest # <<>> /\ ~IsInclude(Head(Top.rest))
    /\ LET rule == Head(Top.rest)
       IN  missingModules' = IF rule.module \notin installed
                             THEN missingModules \cup {<<rule.module, Top.file>>} ELSE missingModules
    /\ stack' = Advanced
    /\ UNCHANGED <<tree, installed, entries, seen, missingFiles>>

RuleLine ==
    /\ stack # <<>> /\ Top.rest # <<>> /\ ~IsInclude(Head(Top.rest))
    /\ LET rule == Head(Top.rest)
       IN  missingModules' = IF BlocksLogin(rule) /\ rule.module \notin installed
                             THEN missingModules \cup {<<rule.module, Top.file>>} ELSE missingModules
    /\ stack' = Advanced
    /\ UNCHANGED <<tree, installed, entries, seen, missingFiles>>

Return ==
    /\ stack # <<>> /\ Top.rest = <<>>
    /\ stack' = Front(stack)
    /\ UNCHANGED <<tree, installed, entries, seen, missingFiles, missingModules>>

Next == Entry \/ IncludeLine \/ RuleLine \/ Return

Spec == Init /\ [][Next]_vars

(***************************************************************************)
(* What a login meets                                                      *)
(***************************************************************************)

Done == stack = <<>> /\ entries = <<>>
Verified == missingFiles = {} /\ missingModules = {}

LinesOf(f) == IF tree[f] = Absent THEN {} ELSE ToSet(tree[f][1])
Includes(f) == {g \in Files : \E l \in LinesOf(f) : IsInclude(l) /\ l.include = g}

\* The files a login reads: the least set with the entries and all that its files include.
Closed(S) == ToSet(Entries) \subseteq S /\ \A f \in S : Includes(f) \subseteq S
Reached == {g \in Files : \A S \in SUBSET Files : Closed(S) => g \in S}

\* PAM on a module that is not there: the outcome its rule gives that case, which a
\* bracketed rule names or leaves to its default.
Refuses(rule) ==
    /\ rule.module \notin installed /\ ~rule.dash
    /\ "module_unknown=ignore" \notin rule.control
    /\ rule.control \cap {"required", "requisite", "default=die", "default=bad",
                          "module_unknown=die", "module_unknown=bad"} # {}

CanLogin == \A f \in Reached : tree[f] # Absent /\ \A l \in LinesOf(f) : IsInclude(l) \/ ~Refuses(l)

\* The walk's verdict is what a login would meet, whatever the files include, cycles and
\* files reached twice among them (target.rs verify_pam_stack: the installed system
\* "would reject every login").
VerdictRight == Done => (Verified <=> CanLogin)

\* An include cycle does not recurse for ever (target.rs: "@include cycles are legal to
\* write"): no file is open twice.
DepthBounded == Cardinality({stack[i].file : i \in DOMAIN stack}) = Len(stack)
====
