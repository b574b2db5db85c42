--------------------------- MODULE MarkdownImport ---------------------------
(***************************************************************************)
(* The import of markdown files: what a selection of the dialog resolves   *)
(* to (import-directory.ts), the blocks of a text and the document that is *)
(* built of them (markdown-parse.ts), and the batch that puts all the      *)
(* documents of an import into a store (markdown-import.ts).               *)
(*                                                                         *)
(* A text is a sequence of kinds of lines.  Blocks are made into nodes as  *)
(* they are read; the code lists them first.  Not modelled: what stands on *)
(* a line (strong, links, images, cells), quotes in a quote, levels of     *)
(* headings, and files that cannot be read or lie outside of the corpus.   *)
(***************************************************************************)
EXTENDS DocFlow

CONSTANTS
  Paths,          \* what the dialog may select
  Kind,           \* of each: "markdown", "hidden" (a markdown file), "other", "link", "directory"
  Listing,        \* the entries of each directory
  Segments,       \* the segments of each markdown file's path in the corpus, as they are
  Sanitized,      \* each segment after sanitizeSegment and sanitizeDocumentId
  Reserved,       \* the names of the other stores
  MaxFiles,       \* MAX_IMPORT_FILES
  FirstTexts,     \* what the files hold at first
  LaterTexts,     \* what they are changed to
  MaxImports,     \* bound on the imports
  MaxChanges      \* bound on what happens between them

VARIABLES
  text,           \* what every file holds
  isDefault,      \* the store is the default one: no prefix
  library,        \* the lines of each node, and the edges, that imports put into the store
  latest,         \* of each document in it: its text, and whether none of its edges was left from before
  told,           \* what the last import came to
  imports,        \* how many there were
  changes         \* how much happened between them

importVars == <<text, isDefault, library, latest, told, imports, changes>>

-----------------------------------------------------------------------------
(* parseBlocks.                                                            *)

LineKinds ==
  {"blank", "line", "atx", "equals", "dashes", "quote", "quoted atx", "item", "number", "fence", "html", "close", "pipe", "pipes"}

\* There are finitely many files, and a selection resolves to some of them.
ASSUME ImportAssumption ==
  /\ FirstTexts \cup LaterTexts \subseteq Seq(LineKinds)
  /\ IsFiniteSet(DOMAIN Segments)
  /\ \A p \in Paths : /\ Kind[p] \in {"markdown", "hidden"} => p \in DOMAIN Segments
                      /\ Kind[p] = "directory" => \A f \in Listing[p] : Kind[f] = "markdown" => f \in DOMAIN Segments

Quotes == {"quote", "quoted atx"}
Tables == {"pipe", "pipes"}
Underlines == {"equals", "dashes"}
BlockStarts == {"blank", "atx", "fence", "item", "number", "dashes", "html", "close"} \cup Quotes

LineIs(t, i, kinds) == i \in DOMAIN t /\ t[i] \in kinds

\* The first line from i on of these kinds, or the one behind the last.
FirstOf(t, i, kinds) == Min({j \in i..Len(t) + 1 : j = Len(t) + 1 \/ t[j] \in kinds})

Lines(i, j) == [k \in 1..(IF j > i THEN j - i ELSE 0) |-> i + k - 1]
Block(kind, lines, next) == [kind |-> kind, lines |-> lines, next |-> next]

\* The paragraph that starts at i: up to a line that starts a block or that the next one underlines.
ParagraphEnd(t, i) ==
  Min({j \in i + 1..Len(t) + 1 : j = Len(t) + 1 \/ t[j] \in BlockStarts \/ LineIs(t, j + 1, Underlines)})

\* The block that starts at line i, in the order of the tests: an underlined line is a heading whatever it is.
BlockAt(t, i) ==
  LET quoteEnd == FirstOf(t, i, LineKinds \ Quotes)
      listEnd == FirstOf(t, i, LineKinds \ {t[i]})
      tableEnd == FirstOf(t, i + 2, LineKinds \ Tables)
      fence == FirstOf(t, i + 1, {"fence"})
  IN IF t[i] = "fence" THEN Block("pre", Lines(i + 1, fence), fence + 1)
     ELSE IF t[i] = "atx" THEN Block("heading", <<i>>, i + 1)
     ELSE IF LineIs(t, i + 1, Underlines) THEN Block("heading", <<i>>, i + 2)
     ELSE IF t[i] \in Quotes THEN Block("blockquote", Lines(i, quoteEnd), quoteEnd)
     ELSE IF t[i] = "item" THEN Block("ul", Lines(i, listEnd), listEnd)
     ELSE IF t[i] = "number" THEN Block("ol", Lines(i, listEnd), listEnd)
     ELSE IF t[i] \in Tables /\ LineIs(t, i + 1, {"pipes"}) THEN Block("table", <<i>> \o Lines(i + 2, tableEnd), tableEnd)
     ELSE IF t[i] = "dashes" THEN Block("rule", <<>>, i + 1)
     ELSE IF t[i] = "html" THEN Block("html", <<>>, FirstOf(t, i + 1, {"close"}) + 1)
     ELSE IF t[i] = "close" THEN Block("html", <<>>, i + 1)
     ELSE Block("p", Lines(i, ParagraphEnd(t, i)), ParagraphEnd(t, i))

-----------------------------------------------------------------------------
(* buildDocument.                                                          *)

\* A node of a block's tree: which one it hangs under (0 is outside), its own lines.
Leaf(type, up, lines) == [type |-> type, up |-> up, lines |-> lines]

\* The lines with which the paragraphs of a quote start: its runs of plain lines, since a heading in it is dropped.
QuotedStarts(t, lines) == Filtered(lines, {i \in ToSet(lines) : t[i] = "quote" /\ (i = lines[1] \/ t[i - 1] # "quote")})

\* processBlock, a node of one cell for each row of a table.
Tree(t, b) ==
  CASE b.kind \in {"p", "pre"} -> <<Leaf(b.kind, 0, b.lines)>>
    [] b.kind \in {"ul", "ol"} -> <<Leaf(b.kind, 0, <<>>)>> \o [k \in DOMAIN b.lines |-> Leaf("li", 1, <<b.lines[k]>>)]
    [] b.kind = "blockquote" ->
         LET starts == QuotedStarts(t, b.lines)
         IN <<Leaf("blockquote", 0, <<>>)>>
            \o [k \in DOMAIN starts |-> Leaf("p", 1, Lines(starts[k], FirstOf(t, starts[k], LineKinds \ {"quote"})))]
    [] b.kind = "table" ->
         <<Leaf("table", 0, <<>>), Leaf("thead", 1, <<>>), Leaf("th", 2, <<b.lines[1]>>)>>
         \o [k \in 1..2 * (Len(b.lines) - 1) |->
              IF k % 2 = 1 THEN Leaf("tr", 1, <<>>) ELSE Leaf("td", k + 2, <<b.lines[1 + k \div 2]>>)]
    [] OTHER -> <<>>

\* A tree put behind the leaves there are, under the last heading.
Planted(tree, o) ==
  [k \in DOMAIN tree |-> [type |-> tree[k].type, lines |-> tree[k].lines, section |-> Len(o.heads),
                          up |-> IF tree[k].up = 0 THEN 0 ELSE Len(o.leaves) + tree[k].up]]

\* One round of the loop: a blank line, or a block; a heading starts a section.
ReadOn(t, o) ==
  LET b == BlockAt(t, o.at)
  IN IF t[o.at] = "blank" THEN [o EXCEPT !.at = @ + 1]
     ELSE IF b.kind = "heading" THEN [o EXCEPT !.at = b.next, !.heads = Append(@, b.lines)]
     ELSE [o EXCEPT !.at = b.next, !.leaves = @ \o Planted(Tree(t, b), o)]

\* The headings of a text and the nodes that hang under them, or, before the first one, under the root.
Outline(t) ==
  LET read[k \in 0..Len(t)] ==
        IF k = 0 THEN [at |-> 1, heads |-> <<>>, leaves |-> <<>>]
        ELSE LET o == read[k - 1] IN IF o.at > Len(t) THEN o ELSE ReadOn(t, o)
  IN read[Len(t)]

\* A node's id is its document, its type and its number.
Root(d) == <<d, "div", 0>>
Section(d, n) == <<d, "section", n>>

\* A mutation: numbers count within the parent.
Number_InParent(leaves, k) ==
  Cardinality({j \in 1..k : leaves[j].type = leaves[k].type /\ leaves[j].up = leaves[k].up /\ leaves[j].section = leaves[k].section})

\* nextId: the nodes of a type are counted as they are made.
Number(leaves, k) == Cardinality({j \in 1..k : leaves[j].type = leaves[k].type})

LeafId(d, leaves, k) == <<d, leaves[k].type, Number(leaves, k)>>

ParentId(d, leaves, k) ==
  IF leaves[k].up # 0 THEN LeafId(d, leaves, leaves[k].up)
  ELSE IF leaves[k].section = 0 THEN Root(d) ELSE Section(d, leaves[k].section)

\* How many children its parent had before.
Place(leaves, k) == Cardinality({j \in 1..k - 1 : leaves[j].up = leaves[k].up /\ leaves[j].section = leaves[k].section})

Edge(kind, s, x, docs, order) == [kind |-> kind, source |-> s, target |-> x, documentIds |-> docs, order |-> order]

\* addDocChild: two edges of each leaf.
LeafEdges(d, leaves) ==
  [n \in 1..2 * Len(leaves) |->
     LET k == (n + 1) \div 2
     IN IF n % 2 = 1 THEN Edge("doc-child", ParentId(d, leaves, k), LeafId(d, leaves, k), {}, Place(leaves, k))
        ELSE Edge("parent-child", ParentId(d, leaves, k), LeafId(d, leaves, k), {}, 0)]

\* The edges of the flow over so many sections, behind all others.
FlowEdges(d, sections) ==
  IF sections = 0 THEN <<>>
  ELSE <<Edge("parent-child", Root(d), Section(d, 1), {}, 0),
         Edge("doc-head", Section(d, 1), Root(d), {Root(d)}, 0),
         Edge("doc-end", Section(d, sections), Root(d), {Root(d)}, 0)>>
       \o [k \in 1..sections - 1 |-> Edge("next-section", Section(d, k), Section(d, k + 1), {Root(d)}, 0)]

\* The nodes with their lines, and the edges.
ParseMarkdown(t, d) ==
  LET o == Outline(t)
  IN [nodes |-> {[id |-> Root(d), lines |-> <<>>]}
                \cup {[id |-> Section(d, n), lines |-> o.heads[n]] : n \in DOMAIN o.heads}
                \cup {[id |-> LeafId(d, o.leaves, k), lines |-> o.leaves[k].lines] : k \in DOMAIN o.leaves},
      edges |-> LeafEdges(d, o.leaves) \o FlowEdges(d, Len(o.heads))]

-----------------------------------------------------------------------------
(* The selection and the import.                                           *)

\* expandImportDirectory: the plain markdown files, no further directories.
PlainFiles(dir) == {p \in Listing[dir] : Kind[p] = "markdown"}

\* resolveImportSelection.
Resolution(selection) ==
  LET dirs == {p \in selection : Kind[p] = "directory"}
      files == {p \in selection : Kind[p] \in {"markdown", "hidden"}} \cup UNION {PlainFiles(p) : p \in dirs}
  IN IF \E p \in dirs : Cardinality(PlainFiles(p)) > MaxFiles THEN [reason |-> "cap-exceeded", files |-> {}]
     ELSE IF files = {} THEN [reason |-> "no-markdown-files", files |-> {}]
     ELSE IF Cardinality(files) > MaxFiles THEN [reason |-> "cap-exceeded", files |-> {}]
     ELSE [reason |-> "ok", files |-> files]

JoinedId(f) == [k \in DOMAIN Segments[f] |-> Sanitized[Segments[f][k]]]
DocumentId(f) == [prefix |-> ~isDefault, path |-> JoinedId(f)]

\* Two directories become one.
Alias(f, g) ==
  \E k \in 1..Min({Len(Segments[f]), Len(Segments[g])}) - 1 :
    SubSeq(JoinedId(f), 1, k) = SubSeq(JoinedId(g), 1, k) /\ Segments[f][k] # Segments[g][k]

Rejected(files) ==
  \/ \E f \in files : "" \in ToSet(JoinedId(f)) \/ (isDefault /\ JoinedId(f) \in Reserved)
  \/ \E f, g \in files : f # g /\ (JoinedId(f) = JoinedId(g) \/ Alias(f, g))
  \/ \E f \in files : LET d == DocumentId(f) IN ~ ValidateDocFlow(ParseMarkdown(text, d).edges, Root(d)).ok

\* The edges of a document have their numbers for ids.
Numbered(d, n, edge) ==
  [id |-> <<d, n>>, kind |-> edge.kind, source |-> edge.source, target |-> edge.target,
   documentIds |-> edge.documentIds, order |-> edge.order]

\* putEdge: an edge of the same id is replaced where it stands.
PutEdge(edges, edge) ==
  IF \E k \in DOMAIN edges : edges[k].id = edge.id
  THEN [k \in DOMAIN edges |-> IF edges[k].id = edge.id THEN edge ELSE edges[k]]
  ELSE Append(edges, edge)

\* The operations of a batch, one after the other.
PutAll(edges, puts) ==
  LET put[k \in 0..Len(puts)] == IF k = 0 THEN edges ELSE PutEdge(put[k - 1], puts[k])
  IN put[Len(puts)]

EdgesOf(d) ==
  LET edges == ParseMarkdown(text, d).edges
  IN [n \in DOMAIN edges |-> Numbered(d, n, edges[n])]

\* The batch of all documents, one after the other.
PutDocuments(edges, docs) ==
  LET put[k \in 0..Len(docs)] == IF k = 0 THEN edges ELSE PutAll(put[k - 1], EdgesOf(docs[k]))
  IN put[Len(docs)]

\* The edges of the document that an import of t does not replace.
Leftovers(edges, d, t) == {e \in ToSet(edges) : e.id[1] = d /\ e.id[2] > Len(ParseMarkdown(t, d).edges)}

\* importMarkdownCorpus: all of the files or none; nothing is taken away.
ImportMarkdownCorpus(files) ==
  IF Rejected(files) THEN told' = "import-failed" /\ UNCHANGED <<library, latest>>
  ELSE LET docs == {DocumentId(f) : f \in files}
           new == UNION {ParseMarkdown(text, d).nodes : d \in docs}
       IN /\ told' = "ok"
          /\ library' = [nodes |-> {x \in library.nodes : \A y \in new : x.id # y.id} \cup new,
                         edges |-> PutDocuments(library.edges, SetToSeq(docs))]
          /\ latest' = [d \in DOMAIN latest \cup docs |->
               IF d \in docs
               THEN [text |-> text, fits |-> Leftovers(library.edges, d, text) = {}]
               ELSE latest[d]]

Imports == imports < MaxImports /\ imports' = imports + 1

\* runImportSelection: the dialog's import goes to the default store.
RunImportSelection(selection) ==
  /\ isDefault
  /\ Imports
  /\ LET resolution == Resolution(selection)
     IN IF resolution.reason = "ok" THEN ImportMarkdownCorpus(resolution.files)
        ELSE told' = resolution.reason /\ UNCHANGED <<library, latest>>
  /\ UNCHANGED <<text, isDefault, changes>>

Changes == changes < MaxChanges /\ changes' = changes + 1

\* The tool edit.import_markdown with files of its caller's choice, hidden ones too.
EditImportMarkdown(files) ==
  /\ ~ isDefault
  /\ Imports
  /\ ImportMarkdownCorpus(files)
  /\ UNCHANGED <<text, isDefault, changes>>

\* The file is written anew outside of the program.
FileChanges(t) ==
  /\ Changes
  /\ text # t /\ text' = t
  /\ UNCHANGED <<isDefault, library, latest, told, imports>>

\* Another store becomes the default one, or this one does.
DefaultMoves ==
  /\ Changes
  /\ isDefault' = ~ isDefault
  /\ UNCHANGED <<text, library, latest, told, imports>>

\* A node is deleted, with its edges; what is known of its document is void.
NodeDeleted(n) ==
  /\ Changes
  /\ library' = [nodes |-> {x \in library.nodes : x.id # n},
                 edges |-> Filtered(library.edges, {e \in ToSet(library.edges) : n \notin {e.source, e.target}})]
  /\ latest' = [d \in DOMAIN latest \ {n[1]} |-> latest[d]]
  /\ UNCHANGED <<text, isDefault, told, imports>>

ImportInit ==
  /\ text \in FirstTexts
  /\ isDefault = TRUE
  /\ library = [nodes |-> {}, edges |-> <<>>]
  /\ latest = <<>>
  /\ told = "nothing"
  /\ imports = 0
  /\ changes = 0

ImportNext ==
  \/ \E selection \in SUBSET Paths \ {{}} : RunImportSelection(selection)
  \/ \E files \in SUBSET DOMAIN Segments \ {{}} : EditImportMarkdown(files)
  \/ \E t \in LaterTexts : FileChanges(t)
  \/ DefaultMoves
  \/ \E x \in library.nodes : NodeDeleted(x.id)

ImportSpec == ImportInit /\ [][ImportNext]_importVars

-----------------------------------------------------------------------------
(* Properties.                                                             *)

\* The lines of all that hangs under n, n included, in the store.
Under(n) == LET below == Closure(library.edges, {n}) IN UNION {ToSet(x.lines) : x \in {y \in library.nodes : y.id \in below}}

\* Of each child its place and what is under it.
Parts(n) ==
  {[edge |-> e.id, place |-> e.order, lines |-> Under(e.target)] :
     e \in {x \in ToSet(library.edges) : x.kind = "doc-child" /\ x.source = n}}

AllBefore(L, M) == \A i \in L, j \in M : i < j

\* What may get lost of a text: marks, headings in quotes, and html with what follows it.
MayBeLost(t) ==
  {i \in DOMAIN t : \/ t[i] \in {"blank", "fence", "html", "close", "pipes", "quoted atx"} \cup Underlines
                    \/ \E j \in 1..i : t[j] = "html"}

\* Under each node on the way: its own lines, then those of its parts in their order; and what is under it before the next.
InOrder(way) ==
  LET below == Closure(library.edges, ToSet(way))
  IN /\ \A i, j \in DOMAIN way : i < j => AllBefore(Under(way[i]), Under(way[j]))
     /\ \A n \in below : \E x \in library.nodes :
          /\ x.id = n /\ \A y \in library.nodes : y.id = n => x = y
          /\ \A k \in 1..Len(x.lines) - 1 : x.lines[k] < x.lines[k + 1]
          /\ \A p \in Parts(n) : AllBefore(ToSet(x.lines), p.lines)
     /\ \A n \in below : \A p, q \in Parts(n) : /\ p.place < q.place => AllBefore(p.lines, q.lines)
                                              /\ p.place = q.place => p = q

(***************************************************************************)
(* A document that was imported, and left no edge from before, is whole in *)
(* the store: its flow is valid, and along it, down from the root and each *)
(* section, the lines of the text are read in their order, each one once,  *)
(* and none is lost that is no mark.                                       *)
(***************************************************************************)
ReadsAsWritten ==
  \A d \in {x \in DOMAIN latest : latest[x].fits} :
    LET flow == ValidateDocFlow(library.edges, Root(d))
        way == <<Root(d)>> \o flow.order
        t == latest[d].text
    IN flow.ok /\ InOrder(way) /\ DOMAIN t \ MayBeLost(t) \subseteq UNION {Under(way[i]) : i \in DOMAIN way}

(***************************************************************************)
(* The documented limit of importing a shortened document again: what is   *)
(* no longer in the text is left behind as orphans, so every edge that is  *)
(* left behind is one of a node that is left behind.                       *)
(***************************************************************************)
LeftoversAreOrphans ==
  \A d \in DOMAIN latest :
    \A e \in Leftovers(library.edges, d, latest[d].text) :
      ~ {e.source, e.target} \subseteq {x.id : x \in ParseMarkdown(latest[d].text, d).nodes}
=============================================================================
