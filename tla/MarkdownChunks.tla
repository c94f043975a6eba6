---------------------------- MODULE MarkdownChunks ----------------------------
(***************************************************************************)
(* How a Markdown document becomes a tree of sections and a list of chunks  *)
(* for retrieval: the parser's normalisation, the sections, the splitter    *)
(* and the packer.                                                           *)
(*                                                                          *)
(* A document is a sequence of top-level blocks as markdown-it reads them;  *)
(* it is read block by block, then parsed, divided into sections and         *)
(* chunked.  A block has pieces (the semantic parts of a paragraph,  *)
(* the items of a list, the rows of a table, the lines of a code block), of *)
(* which only the number of tokens counts.  Block n is at offset n.          *)
(***************************************************************************)
EXTENDS Integers, Sequences, FiniteSets, SequencesExt

CONSTANTS
  Blocks,     \* blocks a document is made of: [kind, level, title, sizes, label]
  Target,     \* target_chunk_tokens
  Threshold,  \* split_threshold_tokens
  Policies,   \* [titled, joint, blocks]: has the document a title of its own, how many
              \* tokens does a join of two texts add or save (BPE is not additive), and
              \* how many blocks has it at most (a bound)?
  Header,     \* tokens of a table header, and of the two fences of a code block
  RootName    \* the name of what precedes the first heading

\* What the policy must be; the run's module assumes it.
Parameters ==
  /\ Target \in Nat \ {0} /\ Threshold \in Nat /\ Threshold >= Target
  /\ Header \in Nat \ {0} /\ Policies \subseteq [titled : BOOLEAN, joint : {0 - 1, 0, 1}, blocks : Nat]

VARIABLES
  policy,   \* its title and its tokens: one of Policies
  doc,      \* the blocks so far
  progress, \* "reading", "parsed", "outlined", "chunked"
  parsed,   \* the nodes of the document
  sections, \* its sections
  chunks    \* its chunks

vars == <<policy, doc, progress, parsed, sections, chunks>>

-----------------------------------------------------------------------------
(* Parsing                                                                  *)

\* A piece of text: piece i of block b from token `at` on; piece 0 is a table header
\* or a pair of fences.
Piece(b, i, at, size) == [b |-> b, i |-> i, at |-> at, size |-> size]

\* The tree of tokens: HTML that is no table is dropped, and keeps its place.
Node(b) ==
  [kind |-> doc[b].kind, level |-> doc[b].level, title |-> doc[b].title, label |-> doc[b].label,
   b |-> b, from |-> b, to |-> b + 1, path |-> << >>, caption |-> << >>, above |-> FALSE,
   pieces |-> [i \in DOMAIN doc[b].sizes |-> Piece(b, i, 0, doc[b].sizes[i])]]

Nodes == [i \in DOMAIN SelectSeq([b \in DOMAIN doc |-> b], LAMBDA b : doc[b].kind # "html") |->
            Node(SelectSeq([b \in DOMAIN doc |-> b], LAMBDA b : doc[b].kind # "html")[i])]

IsHeading(n) == n.kind = "section"
Titles(hs) == [i \in DOMAIN hs |-> hs[i].title]
\* The headings that stay open above a heading of this level.
OpenAbove(hs, level) == SelectSeq(hs, LAMBDA h : h.level < level)

\* _normalize_markdown_nodes: the path of each node; a heading without a title is
\* skipped, and one that repeats the one right before it, at the same level and place.
Normalized ==
  LET step(s, n) ==
        LET above == OpenAbove(s.open, n.level)
            here == <<n.level, Titles(above), n.title>>
        IN  IF ~IsHeading(n)
              THEN [s EXCEPT !.out = Append(@, [n EXCEPT !.path = Titles(s.open)]), !.last = << >>]
            ELSE IF n.title = "" \/ s.last = here THEN s
            ELSE [out |-> Append(s.out, [n EXCEPT !.path = Append(Titles(above), n.title)]),
                  open |-> Append(above, n), last |-> here]
  IN  FoldLeft(step, [out |-> << >>, open |-> << >>, last |-> << >>], Nodes).out

\* Is m, right after n, a table or figure whose numbered caption the other one is?
Captions(c, t) == c.kind = "paragraph" /\ c.label # "" /\ t.kind = c.label
Pair(n, m) == IF n.kind = "paragraph" THEN <<n, m>> ELSE <<m, n>>
Pairs(n, m) == Captions(Pair(n, m)[1], Pair(n, m)[2]) /\ n.to = m.from

\* _attach_numbered_captions: a caption joins the table or figure next to it.
Captioned(nodes) ==
  LET step(s, i) ==
        LET n == nodes[i]
            m == nodes[i + 1]
            c == Pair(n, m)[1]
            t == Pair(n, m)[2]
        IN  IF s.skip THEN [s EXCEPT !.skip = FALSE]
            ELSE IF i < Len(nodes) /\ Pairs(n, m)
              THEN [out |-> Append(s.out, [t EXCEPT !.from = n.from, !.to = m.to, !.caption = c.pieces,
                                                    !.above = c = n]),
                    skip |-> TRUE]
              ELSE [s EXCEPT !.out = Append(@, n)]
  IN  FoldLeft(step, [out |-> << >>, skip |-> FALSE], [i \in DOMAIN nodes |-> i]).out

\* A heading without text and without a heading below it, up to the next heading.
Empty(nodes, i) ==
  /\ IsHeading(nodes[i])
  /\ i < Len(nodes) => IsHeading(nodes[i + 1]) /\ nodes[i + 1].level <= nodes[i].level

\* _prune_empty_headings: empty headings go, and the paths are made anew.
Pruned(nodes) ==
  LET step(s, i) ==
        LET n == nodes[i]
            open == IF IsHeading(n) THEN Append(OpenAbove(s.open, n.level), n) ELSE s.open
        IN  IF Empty(nodes, i) THEN s
            ELSE [out |-> Append(s.out, [n EXCEPT !.path = Titles(open)]), open |-> open]
  IN  FoldLeft(step, [out |-> << >>, open |-> << >>], [i \in DOMAIN nodes |-> i]).out

\* A document of which nothing is left: its text as it is, a paragraph.
Raw ==
  [Node(1) EXCEPT !.kind = "paragraph", !.to = Len(doc) + 1, !.label = "", !.title = "", !.level = 0,
     !.pieces = FlattenSeq([b \in DOMAIN doc |-> Node(b).pieces])]

Parsed == LET nodes == Pruned(Captioned(Normalized))
          IN  IF nodes = << >> /\ doc # << >> THEN <<Raw>> ELSE nodes

-----------------------------------------------------------------------------
(* Sections                                                                 *)

Headings(nodes) == SelectSeq(nodes, IsHeading)
End == Len(doc) + 1

\* What precedes the first heading belongs to a root, if there is a title or any text;
\* a path of its own, and a document with a title may have nothing there.
Root(nodes) ==
  LET first == Headings(nodes)[1].from
  IN  IF policy.titled \/ \E i \in DOMAIN nodes : ~IsHeading(nodes[i]) /\ nodes[i].to <= first
        THEN <<[level |-> 0, path |-> <<RootName>>, parent |-> 0, from |-> 1, own |-> first, to |-> End]>>
        ELSE << >>

\* _build_heading_sections: a heading closes the sections of its level and below, and
\* its own text ends at the next heading.
Sections(nodes) ==
  LET hs == Headings(nodes)
      root == Root(nodes)
      step(s, k) ==
        LET h == hs[k]
            \* pop while the level is not above the heading's
            stays == {j \in 0..Len(s.open) : \A l \in 1..Len(s.open) : l > j => s.out[s.open[l]].level >= h.level}
            keep == CHOOSE j \in stays : \A l \in stays : j <= l
            closed == {s.open[l] : l \in (keep + 1)..Len(s.open)}
            parent == IF keep = 0 THEN Len(root) ELSE s.open[keep]
            new == [level |-> h.level, path |-> h.path, parent |-> parent, from |-> h.from,
                    own |-> IF k < Len(hs) THEN hs[k + 1].from ELSE End, to |-> End]
        IN  [out |-> Append([j \in DOMAIN s.out |->
                              IF j \in closed THEN [s.out[j] EXCEPT !.to = h.from] ELSE s.out[j]], new),
             open |-> Append(SubSeq(s.open, 1, keep), Len(s.out) + 1)]
  IN  IF hs = << >> THEN << >>
      ELSE FoldLeft(step, [out |-> root, open |-> << >>], [k \in DOMAIN hs |-> k]).out

-----------------------------------------------------------------------------
(* Splitting                                                                *)

Tokens(text) == FoldLeft(LAMBDA n, p : n + p.size, 0, text) + (IF text = << >> THEN 0 ELSE policy.joint * (Len(text) - 1))
Over(text) == Tokens(text) > Threshold

Distance(n) == IF n >= Target THEN n - Target ELSE Target - n

\* Mutant: texts are joined for as long as the target is closer.
ignores_threshold(now, then) == now < Target /\ Distance(then) <= Distance(now)

\* ChunkingPolicy.should_append
ShouldAppend(now, then) == now < Target /\ then <= Threshold /\ Distance(then) <= Distance(now)

\* The length of the next piece that TokenCounter.split cuts off: 4 characters a token,
\* then half of it until it fits (here a character is a token).
Halved[n \in Nat] == IF n <= Target THEN n ELSE Halved[IF n \div 2 > 1 THEN n \div 2 ELSE 1]
CutOff(left) == Halved[IF left < 4 * Target THEN left ELSE 4 * Target]
Cut[left \in Nat] == IF left = 0 THEN << >> ELSE <<CutOff(left)>> \o Cut[left - CutOff(left)]

\* _split_text: the semantic parts; one that is still too long is cut.
TextParts(n) ==
  LET cut(p) == LET c == Cut[p.size] IN
        [k \in DOMAIN c |-> <<Piece(p.b, p.i, FoldLeft(LAMBDA x, y : x + y, 0, SubSeq(c, 1, k - 1)), c[k])>>]
  IN  FlattenSeq([i \in DOMAIN n.pieces |->
        IF n.pieces[i].size > Target THEN cut(n.pieces[i]) ELSE <<<<n.pieces[i]>>>>])

Wrap(n) == IF n.kind \in {"table", "code"} THEN <<Piece(n.b, 0, 0, Header)>> ELSE << >>
WithCaption(n, text) == IF n.above THEN n.caption \o text ELSE text \o n.caption

\* The text of a whole node, and of its k-th part: every part of a table has the header
\* and every part of a code block the fences, the first part of a table the caption.
Whole(n) == WithCaption(n, Wrap(n) \o n.pieces)
PartText(n, items, k) ==
  IF n.kind = "table" /\ k = 0 THEN WithCaption(n, Wrap(n) \o items) ELSE Wrap(n) \o items

\* The groups so far with the one at hand.
Closed(n, groups, now) == IF now = << >> THEN groups ELSE Append(groups, PartText(n, now, Len(groups)))

\* An item that is too large by itself; a line of code with its fences.
Alone(n, it) == Over((IF n.kind = "code" THEN Wrap(n) ELSE << >>) \o <<it>>)

\* _split_list, _split_table, _split_code: items are grouped while that brings the text
\* of the part closer to the target; an item that is too large stands alone.
Groups(n) ==
  LET step(s, it) ==
        LET k == Len(s.groups)
            breaks == s.now # << >> /\ (Alone(n, it) \/
              ~ShouldAppend(Tokens(PartText(n, s.now, k)), Tokens(PartText(n, Append(s.now, it), k))))
            groups == IF breaks THEN Closed(n, s.groups, s.now) ELSE s.groups
            now == IF breaks THEN <<it>> ELSE Append(s.now, it)
        IN  IF Over(PartText(n, now, Len(groups)))
              THEN [groups |-> Append(groups, PartText(n, now, Len(groups))), now |-> << >>]
              ELSE [groups |-> groups, now |-> now]
      s == FoldLeft(step, [groups |-> << >>, now |-> << >>], n.pieces)
  IN  Closed(n, s.groups, s.now)

\* StructuralNodeSplitter.split; formulas, figures and HTML tables stay whole.
Split(n) ==
  IF ~Over(Whole(n)) THEN <<Whole(n)>>
  ELSE IF n.kind \in {"paragraph", "quote"} THEN TextParts(n)
  ELSE IF n.kind \in {"list", "table", "code"} THEN Groups(n)
  ELSE <<Whole(n)>>

-----------------------------------------------------------------------------
(* Packing                                                                  *)

\* ChunkPacker.pack: units of one section are joined while that brings the chunk closer
\* to the target; a unit that is too large is a chunk of its own.
Packed(units, section) ==
  LET chunk(us) == [units |-> us, section |-> section, overflow |-> Over(FlattenSeq(us))]
      flushed(s) == IF s.now = << >> THEN s.chunks ELSE Append(s.chunks, chunk(s.now))
      step(s, u) ==
        IF Over(u) THEN [chunks |-> Append(flushed(s), chunk(<<u>>)), now |-> << >>]
        ELSE IF s.now # << >> /\ ~ShouldAppend(Tokens(FlattenSeq(s.now)), Tokens(FlattenSeq(Append(s.now, u))))
          THEN [chunks |-> flushed(s), now |-> <<u>>]
          ELSE [s EXCEPT !.now = Append(@, u)]
  IN  flushed(FoldLeft(step, [chunks |-> << >>, now |-> << >>], units))

\* _chunk_by_sections: headings switch to the next section, and the text between two
\* of them is split and packed.  Section 0 is none.
Chunks(nodes) ==
  LET flushed(s) == s.chunks \o Packed(FlattenSeq([i \in DOMAIN s.body |-> Split(s.body[i])]), s.section)
      step(s, n) == IF IsHeading(n)
        THEN [chunks |-> flushed(s), body |-> << >>, section |-> s.section + 1]
        ELSE [s EXCEPT !.body = Append(@, n)]
      start == IF Headings(nodes) = << >> THEN 0 ELSE Len(Root(nodes))
  IN  flushed(FoldLeft(step, [chunks |-> << >>, body |-> << >>, section |-> start], nodes))

-----------------------------------------------------------------------------
(* The outline                                                              *)

Children(ss, j) == {k \in DOMAIN ss : ss[k].parent = j}
Ancestors(ss, j) == {a \in DOMAIN ss : a < j /\ ss[a].level < ss[j].level /\ ss[a].to > ss[j].from}

\* neighborhood: the ancestors, the siblings at one step, the children.
Siblings(ss, j) ==
  {k \in Children(ss, ss[j].parent) :
     Cardinality({l \in Children(ss, ss[j].parent) : (l > j /\ l <= k) \/ (l < j /\ l >= k)}) <= 1}

Neighborhood(ss, j) ==
  LET up[p \in 0..Len(ss)] == IF p = 0 THEN {} ELSE {p} \cup up[ss[p].parent]
  IN  up[ss[j].parent] \cup Siblings(ss, j) \cup Children(ss, j)

-----------------------------------------------------------------------------
Init == policy \in Policies /\ doc = << >> /\ progress = "reading" /\ parsed = << >> /\ sections = << >> /\ chunks = << >>

Read ==
  /\ progress = "reading" /\ Len(doc) < policy.blocks
  /\ \E b \in Blocks : doc' = Append(doc, b)
  /\ UNCHANGED <<policy, progress, parsed, sections, chunks>>

Parse ==
  /\ progress = "reading" /\ progress' = "parsed" /\ parsed' = Parsed
  /\ UNCHANGED <<policy, doc, sections, chunks>>

Outline ==
  /\ progress = "parsed" /\ progress' = "outlined" /\ sections' = Sections(parsed)
  /\ UNCHANGED <<policy, doc, parsed, chunks>>

Chunk ==
  /\ progress = "outlined" /\ progress' = "chunked" /\ chunks' = Chunks(parsed)
  /\ UNCHANGED <<policy, doc, parsed, sections>>

Next == Read \/ Parse \/ Outline \/ Chunk
Spec == Init /\ [][Next]_vars

-----------------------------------------------------------------------------
Texts == FlattenSeq([c \in DOMAIN chunks |-> FlattenSeq(chunks[c].units)])

\* The chunks hold the text of the document, all of it and once, in its order: no item,
\* row, line or caption is lost or repeated where nodes are split and packed; only
\* headers and fences come again, and a caption may come before the rows of its table.
\* A document of which the parser leaves nothing is there whole.
NothingLost == progress = "chunked" =>
  LET text == SelectSeq(Texts, LAMBDA p : p.i # 0)
      of(b) == SelectSeq(text, LAMBDA p : p.b = b)
      body == {b \in DOMAIN doc : doc[b].kind \notin {"html", "section"}}
      kept == IF body = {} /\ Headings(parsed) = << >> THEN DOMAIN doc ELSE body
  IN  /\ \A b \in kept : LET t == of(b) IN
           /\ t # << >> /\ t[1].i = 1 /\ t[1].at = 0
           /\ \A k \in 1..(Len(t) - 1) :
                \/ t[k + 1].i = t[k].i /\ t[k + 1].at = t[k].at + t[k].size
                \/ t[k + 1].i = t[k].i + 1 /\ t[k + 1].at = 0 /\ t[k].at + t[k].size = doc[b].sizes[t[k].i]
           /\ Last(t).i = Len(doc[b].sizes) /\ Last(t).at + Last(t).size = doc[b].sizes[Last(t).i]
      /\ \A k \in 1..(Len(text) - 1) : text[k].b <= text[k + 1].b
           \/ \E n \in ToSet(parsed) : n.caption # << >> /\ {text[k].b, text[k + 1].b} \subseteq n.from..(n.to - 1)

\* A chunk is over the threshold only where it is one unit that has no smaller part:
\* a single item, row or line with what surrounds it, or a node that is not split.
OverflowIsOne == \A c \in ToSet(chunks) : c.overflow =>
  /\ Len(c.units) = 1
  /\ LET ps == SelectSeq(c.units[1], LAMBDA p : p.i # 0)
     IN  Cardinality({p \in ToSet(ps) : doc[p.b].kind \in {"list", "table", "code"}}) <= 1
           /\ \A p \in ToSet(ps) : doc[p.b].kind = "paragraph" => doc[p.b].label # ""

\* The sections are a tree: each lies within its parent, after the parent's own text, and
\* its path is that of its parent and its title; under the root or under none it is the
\* title alone.  The own texts follow each other to the end of the document; only the
\* root's may be empty.  A chunk's section is the one whose path the parser gave to each
\* of its nodes, none for the root's.  The neighborhood of a section shows the sections
\* that contain it, and nothing outside its parent.
SectionsAgree == progress = "chunked" =>
  LET ss == sections
      pathOf(j) == IF j = 0 \/ ss[j].level = 0 THEN << >> ELSE ss[j].path
  IN  /\ \A j \in DOMAIN ss : LET s == ss[j] IN
           /\ s.from <= s.own /\ s.own <= s.to /\ (s.level > 0 => s.from < s.own)
           /\ s.own = IF j < Len(ss) THEN ss[j + 1].from ELSE End
           /\ s.level > 0 => s.path # << >> /\ Front(s.path) = pathOf(s.parent)
           /\ s.parent # 0 => ss[s.parent].own <= s.from /\ s.to <= ss[s.parent].to
           /\ Ancestors(ss, j) \subseteq Neighborhood(ss, j) /\ j \in Neighborhood(ss, j)
           /\ \A k \in Neighborhood(ss, j) \ Ancestors(ss, j) :
                s.parent # 0 => ss[s.parent].from <= ss[k].from /\ ss[k].to <= ss[s.parent].to
      /\ \A c \in ToSet(chunks) : \A u \in ToSet(c.units), n \in ToSet(parsed) :
           (~IsHeading(n) /\ u[1].b \in n.from..(n.to - 1)) => n.path = pathOf(c.section)
=============================================================================
