---- MODULE MCSchema ----
(***************************************************************************)
(* The schema at work: a candidate edited under two releases, and beside   *)
(* it every small configuration of bonds and bridges, of VLANs in a        *)
(* bridge, and of VLANs and tunnels, every file of a few lines, every text *)
(* of a few characters, and every schema directory with up to two further  *)
(* files.                                                                  *)
(***************************************************************************)
EXTENDS ConfigEditing

VARIABLES
    part,
    file, doc, tree, stack, phase, saved,
    want, src, mode, held, lineNo, start, tokens,
    files, left, nodes, templates, globals, todo, built
textVars == <<file, doc, tree, stack, saved>>
lexerVars == <<want, src, mode, held, lineNo, start, tokens>>
loaderVars == <<files, left, nodes, templates, globals, todo, built>>
mcVars == <<part, vars, textVars, phase, lexerVars, loaderVars>>

(***************************************************************************)
(* Configurations.  The module itself is part "shapes".                    *)
(***************************************************************************)

OneRelease == <<Box>>

\* A later release without the mtu of a port, where a bridge's stp takes a value.
TwoReleases ==
    <<Box, [Box EXCEPT !.nodes = [p \in DOMAIN Box.nodes \ {<<"interfaces", "ethernet", "mtu">>} |->
        IF p = <<"interfaces", "bridge", "stp">> THEN N("leaf", {"on"}, 220) ELSE Box.nodes[p]]]>>

Eth(port) == <<"interfaces", "ethernet", port>>
Bond(bond) == <<"interfaces", "bonding", bond>>
Br == <<"interfaces", "bridge", "br0">>
Vlan(v) == <<"interfaces", "vlan", v>>
Vxlan(v) == <<"interfaces", "vxlan", v>>

MasterLines ==
    {Eth("eth0"), Eth("eth0") \o <<"address", "a1">>, Bond("bond0") \o <<"address", "a1">>,
     Bond("bond0") \o <<"member", "eth0">>, Bond("bond1") \o <<"member", "eth0">>,
     Bond("bond0") \o <<"mode", "active-backup">>, Bond("bond0") \o <<"primary", "eth0">>,
     Br \o <<"member", "bond0">>, Br \o <<"member", "eth0">>}

StackedLines ==
    {Eth("eth0"), Vlan("vlan1") \o <<"parent", "eth0">>, Vlan("vlan1") \o <<"id", "10">>,
     Vlan("vlan2") \o <<"parent", "eth0">>, Vlan("vlan2") \o <<"id", "10">>, Vlan("vlan2") \o <<"id", "20">>,
     Vxlan("vxlan0") \o <<"vni", "100">>, Vxlan("vxlan1") \o <<"vni", "100">>,
     Vxlan("vxlan0") \o <<"remote", "peer">>, Vxlan("vxlan0") \o <<"group", "all">>,
     Vxlan("vxlan0") \o <<"source-interface", "vlan1">>}

BridgedLines ==
    {Eth("eth0"), Vlan("vlan1") \o <<"parent", "eth0">>, Vlan("vlan1") \o <<"id", "10">>,
     Vlan("vlan1") \o <<"address", "a1">>, Br \o <<"member", "vlan1">>, Br \o <<"member", "eth0">>,
     Bond("bond0") \o <<"member", "vlan1">>, Vlan("vlan2") \o <<"parent", "br0">>}

\* Lines that land on containers, tags, flags and nothing at all.
ShapeLines ==
    {<<"system", "name-server", "a1">>, <<"system", "name-server", "a2">>,
     <<"interfaces">>, Eth("eth0"), Eth("eth 0"), Eth("eth0") \o <<"mtu", "9000">>, Br \o <<"stp">>, Br \o <<"stp", "on">>}

\* What somebody may have written by hand: an unknown node, a port that is a leaf, a
\* comment above a port.
Noted(t, p, c) == SetComment(t, p, c).tree
HandEdited ==
    {Put(EmptyTree, <<"nonesuch">>, Interior), Put(EmptyTree, Eth("eth0"), Values({"a1"})),
     Noted(Put(EmptyTree, Eth("eth0"), Interior), Eth("eth0"), <<"spare">>)}

\* Every set of the lines, in whatever order they were typed and taken back.
Bonded == INSTANCE ConfigEditing WITH Releases <- OneRelease, Typed <- MasterLines, Files <- {}, MaxChanges <- 99
Bridged == INSTANCE ConfigEditing WITH Releases <- OneRelease, Typed <- BridgedLines, Files <- {}, MaxChanges <- 99
Stacked == INSTANCE ConfigEditing WITH Releases <- OneRelease, Typed <- StackedLines, Files <- {}, MaxChanges <- 99

(***************************************************************************)
(* Files                                                                   *)
(***************************************************************************)

Word(w) == [tok |-> "word", text |-> w]
Comment(c) == [tok |-> "comment", text |-> c]
Open == [tok |-> "open", text |-> ""]
Close == [tok |-> "close", text |-> ""]

\* Leaves, blocks, repeated and contradicting statements, comments above and beside.
Statements ==
    {<<Word("a")>>, <<Word("b"), Word("u")>>, <<Word("b"), Word("v"), Comment("beside")>>,
     <<Word("a"), Word("u"), Word("v")>>, <<Comment("above")>>, <<Close>>, <<Open>>,
     <<Word("a"), Open>>, <<Word("a"), Word("b"), Open, Close>>, <<Word("tag"), Open>>, <<Word("tag"), Word("a"), Open>>,
     <<Word("tag"), Word("b"), Open, Close, Comment("beside")>>}
FilesOf(lines, n) == UNION {[1..k -> lines] : k \in 0..n}
SmallFiles == FilesOf(Statements, 4)

TagTree == Put(EmptyTree, <<"tag", "a">>, Interior)
\* A commented tag, a tag with a leaf for a key, an empty tag, a comment of two lines.
CodeTrees ==
    {Noted(TagTree, <<"tag">>, <<"above">>), Put(TagTree, <<"tag", "b">>, Flag), Put(EmptyTree, <<"tag">>, Interior),
     Put(Noted(TagTree, <<"tag", "a">>, <<"above", "beside">>), <<"tag", "a", "b">>, Values({"u", "v"})),
     Noted(Put(TagTree, <<"a", "tag", "a">>, Interior), <<"a", "tag">>, <<"above">>)}

Text == INSTANCE ConfigText WITH
    Order <- <<"a", "b", "tag", "u", "v">>, TagPaths <- {<<"tag">>, <<"a", "tag">>},
    Documents <- SmallFiles, Trees <- CodeTrees, MaxDepth <- 4

(***************************************************************************)
(* Texts                                                                   *)
(***************************************************************************)

BareChars == {"n", "x", "/", "HEX"}
Characters == BareChars \cup {"SP", "LF", "BELL", "\"", "\\", "#", "*", "{", "}"}
Texts(n) == UNION {[1..k -> Characters] : k \in 0..n}

\* Texts of up to four characters, and the insides of strings and comments.
SomeTexts ==
    Texts(4) \cup {<<"\"">> \o t \o <<"\"">> : t \in Texts(3)} \cup {<<"#">> \o t : t \in Texts(3)}
    \cup {<<"/", "*">> \o t \o <<"*", "/">> : t \in Texts(3)}

Chars == INSTANCE Lexer WITH Bare <- BareChars, Sources <- SomeTexts, line <- lineNo

(***************************************************************************)
(* Schema directories                                                      *)
(***************************************************************************)

Accepted == [uint |-> {"1500", "9000"}, prefix |-> {"a1"}, port |-> {"eth0"}, hostname |-> {"box"}, text |-> {"x", "1500"}]

Entry(def) == [def |-> def, include |-> {}, exclude |-> <<>>, constraints |-> {}, unique |-> {}, exclusive |-> {}]
Said == Entry(<<>>)
Helped(kind) == [kind |-> kind, help |-> TRUE]
OfType(kind, type) == Helped(kind) @@ [type |-> type]
File(ns) == [nodes |-> ns, templates |-> <<>>, globals |-> {}]
Template(name, below) == [nodes |-> <<>>, templates |-> name :> below, globals |-> {}]

AtIf == <<"interfaces">>
AtEth == <<"interfaces", "ethernet">>
AtLo == <<"interfaces", "loopback">>
AtSys == <<"system">>

Common ==
    [nodes |-> AtIf :> Entry(Helped("container") @@ [priority |-> 200]),
     templates |-> "interface-common" :>
        ((<<"address">> :> Entry(OfType("multi", "prefix") @@ [accepts |-> {"dhcp"}]))
         @@ (<<"mtu">> :> Entry(OfType("leaf", "uint") @@ [default |-> "1500"]))
         @@ (<<"disable">> :> Entry(Helped("flag")))),
     globals |-> {[rule |-> "unique-across", lists |-> {{<<"interfaces", "ethernet", "*">>}}]}]
Tag(type) == Helped("tag") @@ [tag |-> type]
Ethernet ==
    File(AtIf :> Said @@ AtEth :> [Entry(Tag("port")) EXCEPT !.include = {"interface-common"}])
Loopback ==
    File(AtIf :> Said
         @@ AtLo :> [Entry(Tag("enum") @@ [values |-> {"lo"}, priority |-> 190])
                      EXCEPT !.include = {"interface-common"}, !.exclude = <<"mtu", "disable">>]
         @@ Append(AtLo, "address") :> Entry([accepts |-> {}]))
System ==
    File(AtSys :> Entry(Helped("container"))
         @@ Append(AtSys, "host-name") :> Entry(OfType("leaf", "hostname") @@ [default |-> "box"]))
Core == {Common, Ethernet, Loopback, System}

\* Files that say something of a node others own.
Agreeing == File(AtIf :> Entry([priority |-> 200]))
Conflicting == File(AtIf :> Entry([priority |-> 300]))
Narrowing == File(Append(AtEth, "mtu") :> Entry([default |-> "9000"]))
Misdefaulting == File(Append(AtSys, "host-name") :> Entry([type |-> "uint"]))
BadDefault == File(Append(AtSys, "mtu") :> Entry(OfType("leaf", "uint") @@ [default |-> "x"]))
Retyping == File(Append(AtEth, "mtu") :> Entry([type |-> "hostname"]))
Excluding == File(AtEth :> [Said EXCEPT !.exclude = <<"mtu">>])
ExcludingToo == File(AtEth :> [Said EXCEPT !.exclude = <<"mtu">>] @@ AtSys :> Entry([priority |-> 100]))
NoSuchChild == File(AtSys :> [Said EXCEPT !.exclude = <<"mtu">>])
NoSuchTemplate == File(AtSys :> [Said EXCEPT !.include = {"nonesuch"}])
NamedAgain == Template("interface-common", <<"mac">> :> Entry(Helped("flag")))
Rates == Template("rates", <<"mtu">> :> Entry([default |-> "9000"]))
TwoTemplates == File(AtEth :> [Said EXCEPT !.include = {"rates"}])
Barren == File(<<"vrf">> :> Entry(Helped("container")))
Fruitful == File(<<"system", "host-name", "x">> :> Entry(Helped("flag")))
Unhelped == File(Append(AtSys, "domain") :> Entry([kind |-> "flag"]))
Nameless == File(Append(AtSys, "speed") :> Entry(OfType("leaf", "enum")))
Enumerated == File(Append(AtSys, "domain") :> Entry(OfType("leaf", "hostname") @@ [values |-> {"box"}]))
UniqueHere == File(AtSys :> [Said EXCEPT !.unique = {{"host-name"}}])
ExclusiveOfNone == File(AtEth :> [Said EXCEPT !.exclusive = {{"mtu", "speed"}}])
NoPaths == File(AtSys :> [Said EXCEPT !.constraints = {[rule |-> "value-in-path-set", paths |-> {}]}])
NoPathsAtAll == [File(<<>>) EXCEPT !.globals = {[rule |-> "unique-across", lists |-> {{}}]}]
Own == File(Append(AtEth, "description") :> Entry(OfType("leaf", "text") @@ [priority |-> 250, default |-> "x"]))

Others ==
    {Agreeing, Conflicting, Narrowing, Misdefaulting, BadDefault, Retyping, Excluding, ExcludingToo, NoSuchChild,
     NoSuchTemplate, NamedAgain, Rates, TwoTemplates, Barren, Fruitful, Unhelped, Nameless, Enumerated, UniqueHere,
     ExclusiveOfNone, NoPaths, NoPathsAtAll, Own}
Beside == {Core} \cup {Core \cup {a, b} : a, b \in Others}

Loader == INSTANCE SchemaLoader WITH Directories <- Beside, WordsOf <- Accepted

(***************************************************************************)
(* One part; the variables of the others stand still                       *)
(***************************************************************************)

NoText == file = 0 /\ doc = 0 /\ tree = 0 /\ stack = 0 /\ saved = 0
NoChars == want = 0 /\ src = 0 /\ mode = 0 /\ held = 0 /\ lineNo = 0 /\ start = 0 /\ tokens = 0
NoLoader == files = 0 /\ left = 0 /\ nodes = 0 /\ templates = 0 /\ globals = 0 /\ todo = 0 /\ built = 0
Blank == release = 1 /\ running = EmptyTree /\ candidate = EmptyTree

MCInit ==
    \/ part = "shapes" /\ Init /\ NoText /\ phase = 0 /\ NoChars /\ NoLoader
    \/ part = "bonded" /\ Bonded!Init /\ NoText /\ phase = 0 /\ NoChars /\ NoLoader
    \/ part = "stacked" /\ Stacked!Init /\ NoText /\ phase = 0 /\ NoChars /\ NoLoader
    \/ part = "bridged" /\ Bridged!Init /\ NoText /\ phase = 0 /\ NoChars /\ NoLoader
    \/ part = "text" /\ Blank /\ Text!Init /\ NoChars /\ NoLoader
    \/ part = "chars" /\ Blank /\ NoText /\ phase = 0 /\ Chars!Init /\ NoLoader
    \/ part = "loader" /\ Blank /\ NoText /\ NoChars /\ Loader!Init

MCNext ==
    \/ part = "shapes" /\ Next /\ UNCHANGED <<part, textVars, phase, lexerVars, loaderVars>>
    \/ part = "bonded" /\ (\E typed \in MasterLines : Bonded!Edit(typed))
          /\ UNCHANGED <<part, textVars, phase, lexerVars, loaderVars>>
    \/ part = "bridged" /\ (\E typed \in BridgedLines : Bridged!Edit(typed))
          /\ UNCHANGED <<part, textVars, phase, lexerVars, loaderVars>>
    \/ part = "stacked" /\ (\E typed \in StackedLines : Stacked!Edit(typed))
          /\ UNCHANGED <<part, textVars, phase, lexerVars, loaderVars>>
    \/ part = "text" /\ Text!Next /\ UNCHANGED <<part, vars, lexerVars, loaderVars>>
    \/ part = "chars" /\ Chars!Next /\ UNCHANGED <<part, vars, textVars, phase, loaderVars>>
    \/ part = "loader" /\ Loader!Next /\ UNCHANGED <<part, vars, textVars, lexerVars>>

MCSpec == MCInit /\ [][MCNext]_mcVars

(***************************************************************************)
(* Properties: those of the modules, each of the parts that can break it   *)
(***************************************************************************)

\* check_constraints accepts exactly the sound configurations (ConfigEditing).
SoundAccepted ==
    /\ part = "bonded" => Bonded!AcceptsTheSound
    /\ part = "stacked" => Stacked!AcceptsTheSound
    /\ part = "bridged" => Bridged!AcceptsTheSound

\* No set or delete gives the candidate a fault it had not, or touches what its line does
\* not name (AddsNoFault and ChangesNothingElse of ConfigEditing).
LinesAddNoFault == [][part = "shapes" => AddsNoFault /\ ChangesNothingElse]_mcVars

\* What another schema finds wrong in a candidate can be deleted (FaultsCanBeDeleted of
\* ConfigEditing).
FaultsMended == part = "shapes" => FaultsCanBeDeleted

\* The candidate is a tree, and compare is empty exactly when nothing but comments has
\* changed in it (ConfigEditing).
ChangesTold == part = "shapes" => TypeOK /\ CompareTellsApart

\* What is saved reads back as the tree it was saved from, what the writer quotes the lexer
\* reads back, and what is read of a file is a tree (ConfigText, Lexer).
SavedReadsBack ==
    /\ part = "text" => Text!RoundTrip /\ Text!TreeIsWhole
    /\ part = "chars" => Chars!ReadsBack

\* A loaded schema is what its files say: what every file agrees on, with its own words
\* before its templates', the nearest priority above it, and a default of its own type
\* (SchemaLoader).
LoadedAsWritten ==
    part = "loader" => /\ Loader!MergeIsAgreement /\ Loader!OwnPrevails
                       /\ Loader!PriorityIsNearest /\ Loader!DefaultsAreTyped
====
