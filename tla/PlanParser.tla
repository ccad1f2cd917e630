------------------------------ MODULE PlanParser ------------------------------
(***************************************************************************)
(* extractFrontmatter: the frontmatter of a PLAN.md, read line by line with a  *)
(* stack of the objects that are open.                                       *)
(*                                                                         *)
(* A line is its indent, its form and its key; its scalar is named by the     *)
(* line itself, and so is the object or array that it opens.  Documents are   *)
(* those whose lines Fit: mappings and lists inside one another, each         *)
(* deeper than the line it belongs to.  (Of a list at the indent of its key    *)
(* the parser drops the items, and of a [ ... ] over several lines too.)      *)
(***************************************************************************)
EXTENDS Naturals, Sequences, SequencesExt, FiniteSetsExt

CONSTANTS
  Keys,       \* keys of the document
  MaxIndent,  \* bound: levels of indentation
  MaxLines    \* bound: lines

ASSUME PlanParserAssumption == MaxIndent \in Nat /\ MaxLines \in Nat

VARIABLES
  docLines,   \* the lines read
  members,    \* the lines that were put into the object of each line; 0 is the top
  arrays,     \* lines whose object has become an array
  parserStack \* the open objects, with the indent at which each was opened

planParserVars == <<docLines, members, arrays, parserStack>>

----------------------------------------------------------------------------
\* key: value   key:   key: [a, b]   - value   - key: value
Forms == {"pair", "open", "inline", "item", "itemPair"}
Items == {"item", "itemPair"}
NoKey == "-"
Lines == {l \in [indent : 0..MaxIndent, form : Forms, key : Keys \cup {NoKey}] :
            l.form = "item" <=> l.key = NoKey}

PlanParserInit ==
  /\ docLines = <<>>
  /\ members = [n \in 0..MaxLines |-> <<>>]
  /\ arrays = {}
  /\ parserStack = <<[node |-> 0, indent |-> 0]>>

----------------------------------------------------------------------------
(* The reference: what indentation says.                                     *)

\* The line to which line i of a document belongs, 0 for none.
Owner(doc, i) ==
  LET shallower == {j \in 1..(i - 1) : doc[j].indent < doc[i].indent}
  IN IF shallower = {} THEN 0 ELSE Max(shallower)
Owned(doc, n) == {i \in 1..Len(doc) : Owner(doc, i) = n}

\* The last line of a document fits where it stands.
Fits(doc) ==
  LET last == Len(doc)
      l == doc[last]
      owner == Owner(doc, last)
  IN /\ owner = 0 => l.indent = 0 /\ l.form \notin Items
     /\ owner # 0 => doc[owner].form \in {"open", "itemPair"}
     /\ owner # 0 /\ doc[owner].form = "itemPair" =>
          l.form \notin Items /\ l.key # doc[owner].key
     /\ \A j \in Owned(doc, owner) \ {last} :
          /\ doc[j].indent = l.indent
          /\ doc[j].form \in Items <=> l.form \in Items
          /\ l.form \notin Items => doc[j].key # l.key

----------------------------------------------------------------------------
(* The parser.                                                               *)

\* Mutant: an object is left only by a line that stands further to the left.
Popped_Less(indent) ==
  LET open == {1} \cup {i \in 2..Len(parserStack) : parserStack[i].indent <= indent}
  IN SubSeq(parserStack, 1, Max(open))

\* The top of the stack is popped until it was opened at a smaller indent; the
\* bottom, whose indent is -1 in the code, stays.
Popped(indent) ==
  LET open == {1} \cup {i \in 2..Len(parserStack) : parserStack[i].indent < indent}
  IN SubSeq(parserStack, 1, Max(open))

Push(stack, node, indent) == Append(stack, [node |-> node, indent |-> indent])
Put(node, line) == [members EXCEPT ![node] = Append(@, line)]

\* Key: value pattern.
ReadPair(l, n) ==
  LET stack == Popped(l.indent)
  IN /\ members' = Put(Last(stack).node, n)
     /\ parserStack' = IF l.form = "open" THEN Push(stack, n, l.indent) ELSE stack
     /\ UNCHANGED arrays

\* Array item: an object that is still empty becomes an array in its parent; an
\* item whose place is neither is dropped, but its mapping is opened all the same.
ReadItem(l, n) ==
  LET stack == Popped(l.indent)
      node == Last(stack).node
      empty == node \notin arrays /\ members[node] = <<>>
               /\ (node # 0 => docLines[node].form = "open")
      becomes == /\ empty /\ Len(stack) > 1
                 /\ stack[Len(stack) - 1].node \notin arrays
  IN /\ arrays' = IF becomes THEN arrays \cup {node} ELSE arrays
     /\ members' = IF becomes \/ node \in arrays THEN Put(node, n) ELSE members
     /\ parserStack' = IF l.form = "itemPair" THEN Push(stack, n, l.indent) ELSE stack

ReadLine(l) ==
  /\ Len(docLines) < MaxLines
  /\ docLines' = Append(docLines, l)
  /\ IF l.form \in Items THEN ReadItem(l, Len(docLines')) ELSE ReadPair(l, Len(docLines'))

PlanParserNext == \E l \in Lines : Fits(Append(docLines, l)) /\ ReadLine(l)

PlanParserSpec == PlanParserInit /\ [][PlanParserNext]_planParserVars

----------------------------------------------------------------------------
\* Every variable keeps its type.
PlanParserTypeOK ==
  /\ docLines \in Seq(Lines) /\ Len(docLines) <= MaxLines
  /\ members \in [0..MaxLines -> Seq(1..MaxLines)]
  /\ arrays \subseteq 1..Len(docLines)
  /\ parserStack \in Seq([node : 0..MaxLines, indent : 0..MaxIndent])

\* Whatever the nesting, each value is found where the indentation of the
\* document puts it: in the object of the line that it belongs to, once and in
\* the order of the document, and what holds items, and only that, is an array.
\* (The wave and the dependencies of a plan are read from what comes out.)
InOrder(lines) == \A i, j \in DOMAIN lines : i < j => lines[i] < lines[j]
ParsedByIndent ==
  /\ \A n \in 0..Len(docLines) :
       ToSet(members[n]) = Owned(docLines, n) /\ InOrder(members[n])
  /\ arrays = {n \in 1..Len(docLines) : \E i \in Owned(docLines, n) : docLines[i].form \in Items}
=============================================================================
