---- MODULE ConfigText ----
(***************************************************************************)
(* config.boot: the curly-brace text of a configuration, read and saved    *)
(* (nightshade-schema curly.rs).  The text is the sequence of the lexer's  *)
(* tokens (Lexer.tla), each with the line it starts on.                    *)
(*                                                                         *)
(* A file is read one statement, comment or brace at a time; saving writes *)
(* what was read, which is then read again, as boot does.                  *)
(***************************************************************************)
EXTENDS ConfigTree

CONSTANTS
    Order,       \* every word, in the order the tree's maps keep them
    TagPaths,    \* what the schema says are tags (TagOracle)
    Documents,   \* files, as sequences of lines of tokens, before any save
    Trees,       \* trees built in code rather than read
    MaxDepth     \* MAX_DEPTH

VARIABLES
    file,    \* the tokens of the file as it was found
    doc,     \* what is still to be read
    tree, stack, phase, saved
vars == <<file, doc, tree, stack, phase, saved>>

Word(w) == [tok |-> "word", text |-> w]
Comment(c) == [tok |-> "comment", text |-> c]
Open == [tok |-> "open", text |-> ""]
Close == [tok |-> "close", text |-> ""]

\* The tokens of lines, each with its line.
OnLine(line, i) == [j \in 1..Len(line) |-> [tok |-> line[j].tok, text |-> line[j].text, line |-> i]]
Numbered(lines) ==
    FoldLeft(LAMBDA done, line : [last |-> done.last + 1, tokens |-> done.tokens \o OnLine(line, done.last + 1)],
             [last |-> 0, tokens |-> <<>>], lines).tokens

(***************************************************************************)
(* Rendering                                                               *)
(***************************************************************************)

InOrder(words) == SelectSeq(Order, LAMBDA w : w \in words)
CommentLines(t, p) == [i \in 1..Len(t[p].note) |-> <<Comment(t[p].note[i])>>]

\* Wrong variant of Compact: a comment on the tag itself does not matter.
CompactAnyway(t, p) == p \in TagPaths /\ ChildrenOf(t, p) # {} /\ \A q \in ChildrenOf(t, p) : ~t[q].leaf

\* Whether to write `ethernet eth0 {` rather than nesting.
Compact(t, p) ==
    p \in TagPaths /\ t[p].note = <<>> /\ ChildrenOf(t, p) # {} /\ \A q \in ChildrenOf(t, p) : ~t[q].leaf

RECURSIVE RenderChildren(_, _)

Block(t, p, header) == CommentLines(t, p) \o <<Append(header, Open)>> \o RenderChildren(t, p) \o << <<Close>> >>

Entry(t, p) ==
    LET name == Word(Last(p))
        sorted == InOrder(t[p].vals)
        keys == InOrder({Last(q) : q \in ChildrenOf(t, p)})
    IN CASE t[p].leaf /\ t[p].vals = {} -> Append(CommentLines(t, p), <<name>>)
         [] t[p].leaf -> CommentLines(t, p) \o [i \in 1..Len(sorted) |-> <<name, Word(sorted[i])>>]
         [] ~t[p].leaf /\ Compact(t, p) ->
                FoldLeft(LAMBDA done, key : done \o Block(t, Append(p, key), <<name, Word(key)>>), <<>>, keys)
         [] OTHER -> Block(t, p, <<name>>)

RenderChildren(t, p) ==
    FoldLeft(LAMBDA done, name : done \o Entry(t, Append(p, name)), <<>>, InOrder({Last(q) : q \in ChildrenOf(t, p)}))

Render(t) == Numbered(RenderChildren(t, Root))

(***************************************************************************)
(* Parsing                                                                 *)
(***************************************************************************)

\* What body keeps for one block: comments waiting for the next statement, and
\* the statement just completed with its line.
Frame(prefix) == [prefix |-> prefix, pending |-> <<>>, previous |-> <<>>]
Top == stack[Len(stack)]
SetTop(f) == [stack EXCEPT ![Len(stack)] = f]
Token == doc[1]

Init ==
    /\ \/ \E lines \in Documents : doc = Numbered(lines) /\ saved = <<>>
       \/ \E t \in Trees : doc = Render(t) /\ saved = <<t>>
    /\ file = doc
    /\ tree = EmptyTree
    /\ stack = <<Frame(Root)>>
    /\ phase = "reading"

Fail ==
    /\ phase' = "failed"
    /\ UNCHANGED <<file, doc, tree, stack, saved>>

\* First occurrence wins.
Attach(t, p, comment) == IF t[p].note = <<>> THEN SetComment(t, p, comment).tree ELSE t

\* Whether the comment was written after the statement, on its line.
IsTrailing == Top.pending = <<>> /\ Top.previous # <<>> /\ Top.previous[2] = Token.line

\* A trailing comment is its statement's; any other waits for the next one.
ReadComment ==
    /\ Token.tok = "comment"
    /\ doc' = Tail(doc)
    /\ IF IsTrailing /\ tree[Top.previous[1]].note = <<>>
       THEN tree' = Attach(tree, Top.previous[1], <<Token.text>>) /\ UNCHANGED stack
       ELSE stack' = SetTop([Top EXCEPT !.pending = Append(@, Token.text)]) /\ UNCHANGED tree
    /\ UNCHANGED <<file, phase, saved>>

ReadClose ==
    /\ Token.tok = "close"
    /\ IF Len(stack) = 1 THEN Fail
       ELSE /\ doc' = Tail(doc)
            /\ stack' = [Front(stack) EXCEPT ![Len(stack) - 1].previous = <<>>]
            /\ UNCHANGED <<file, tree, phase, saved>>

\* A brace that follows no name on its line.
ReadOpen == Token.tok = "open" /\ Fail

\* The values from here to the end of the line.
Run == LET others == {i \in 1..Len(doc) : doc[i].tok # "word" \/ doc[i].line # Token.line}
           n == IF others = {} THEN Len(doc) ELSE (CHOOSE i \in others : \A j \in others : i <= j) - 1
       IN [i \in 1..n |-> doc[i].text]
Rest == SubSeq(doc, Len(Run) + 1, Len(doc))
Opens == Rest # <<>> /\ Rest[1].tok = "open" /\ Rest[1].line = Token.line

\* A block: everything before the brace is a path.
ReadBlock ==
    /\ Token.tok = "word" /\ Opens
    /\ LET p == Top.prefix \o Run
           r == EnsureInterior(tree, p)
       IN IF ~r.ok \/ Len(stack) > MaxDepth THEN Fail
          ELSE /\ tree' = IF Top.pending = <<>> THEN r.tree ELSE Attach(r.tree, p, Top.pending)
               /\ stack' = Append(SetTop([Top EXCEPT !.pending = <<>>]), Frame(p))
               /\ doc' = Tail(Rest)
               /\ UNCHANGED <<file, phase, saved>>

\* A line with a value adds it, one without declares the leaf.
LeafResult(t, p, run) == IF Len(run) = 2 THEN AddLeaf(t, p, run[2]) ELSE DeclareLeaf(t, p)

ReadLeaf ==
    /\ Token.tok = "word" /\ ~Opens
    /\ LET p == Append(Top.prefix, Run[1])
           r == LeafResult(tree, p, Run)
       IN IF Len(Run) > 2 \/ ~r.ok THEN Fail
          ELSE /\ tree' = IF Top.pending = <<>> THEN r.tree ELSE Attach(r.tree, p, Top.pending)
               /\ stack' = SetTop([Top EXCEPT !.pending = <<>>, !.previous = <<p, Token.line>>])
               /\ doc' = Rest
               /\ UNCHANGED <<file, phase, saved>>

ReadEnd ==
    /\ doc = <<>>
    /\ phase' = IF Len(stack) = 1 THEN "read" ELSE "failed"
    /\ UNCHANGED <<file, doc, tree, stack, saved>>

\* What was read is written, and the file read again.
Save ==
    /\ phase = "read" /\ saved = <<>>
    /\ doc' = Render(tree) /\ saved' = <<tree>>
    /\ tree' = EmptyTree /\ stack' = <<Frame(Root)>> /\ phase' = "reading"
    /\ UNCHANGED file

Read ==
    /\ phase = "reading"
    /\ \/ ReadEnd
       \/ doc # <<>> /\ (ReadComment \/ ReadClose \/ ReadOpen \/ ReadBlock \/ ReadLeaf)

Next == Read \/ Save
Spec == Init /\ [][Next]_vars

(***************************************************************************)
(* Properties                                                              *)
(***************************************************************************)

\* What a save wrote reads back as the tree it was written from, comments included
\* ("identical thereafter"; compact's conditions, attach's first occurrence wins).
RoundTrip == saved # <<>> => /\ phase # "failed"
                             /\ phase = "read" => tree = saved[1]

\* What is read is a tree, whichever statements came twice or contradict each other.
TreeIsWhole == \A p \in DOMAIN tree : \A q \in Ancestors(p) : q \in DOMAIN tree /\ ~tree[q].leaf

\* A claim that does not hold (README, "Where the code and its words part").
\* Every comment of a file that was read is in the tree (curly.rs: "comments carried
\* into the tree rather than discarded").
CommentsKept ==
    phase = "read" => \A i \in DOMAIN file :
        file[i].tok = "comment" => \E p \in DOMAIN tree : file[i].text \in Range(tree[p].note)

\* A claim that does not hold (README, "Where the code and its words part").
\* A comment written after a leaf on its line is no other node's (curly.rs: "attaches to
\* it rather than drifting onto whatever comes next").
TrailingStays ==
    phase = "read" => \A i \in DOMAIN file, p \in DOMAIN tree :
        LET sameLine == {j \in DOMAIN file : j < i /\ file[j].line = file[i].line} IN
        (/\ file[i].tok = "comment" /\ file[i].text \in Range(tree[p].note)
         /\ sameLine # {} /\ \A j \in sameLine : file[j].tok = "word")
            => \E j \in sameLine : file[j].text = Last(p)
====
