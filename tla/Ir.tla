--------------------------------- MODULE Ir ---------------------------------
(***************************************************************************)
(* The diagram-ir documents: validation, the grid-zones and swimlane       *)
(* layouts with their real geometry, compilation to a scene, the way back  *)
(* (decompile), and the Mermaid and Structurizr exporters and parsers.     *)
(* A document is taken through one of the three round trips.               *)
(*                                                                         *)
(* A label is the id it labels; a line of a DSL is a record of what its    *)
(* regular expression captures.  elk-layered, the third layout, is a       *)
(* library's and is left out.                                              *)
(***************************************************************************)
EXTENDS Integers, FiniteSets, Sequences, SequencesExt, FiniteSetsExt, TLC

CONSTANTS
    Documents,   \* the documents proposed
    HeaderLike   \* ids that begin with the word graph or flowchart

VARIABLES
    doc,         \* [kind, nodes, conts, kids, lane, edges]
    work         \* [at, scene, lines, back]: how far the round trip is and what it has produced

irVars == <<doc, work>>

NodeIds(d) == Range(d.nodes)
ContIds(d) == Range(d.conts)
Kids(d) == UNION {Range(d.kids[c]) : c \in ContIds(d)}
Keep(s, S) == SelectSeq(s, LAMBDA i : i \in S)
FlatMap(s, F(_)) == FlattenSeq([n \in DOMAIN s |-> F(s[n])])

NoWork == [at |-> "draft", scene |-> <<>>, lines |-> <<>>, back |-> <<>>]
IrInit == doc \in Documents /\ work = NoWork

\* checkReferentialIntegrity: edges join nodes, children are nodes or containers; nothing asks for a tree
CheckReferentialIntegrity(d) ==
    /\ \A n \in DOMAIN d.edges : {d.edges[n].from, d.edges[n].to} \subseteq NodeIds(d)
    /\ Kids(d) \subseteq NodeIds(d) \cup ContIds(d)

ValidateIr ==
    /\ work.at = "draft"
    /\ work' = [work EXCEPT !.at = IF CheckReferentialIntegrity(doc) THEN "valid" ELSE "rejected"]
    /\ UNCHANGED doc

-----------------------------------------------------------------------------
(* layout/gridZones                                                        *)

NodeW == 140
NodeH == 80
Gap == 24
Header == 32
PaddingForDepth(depth) == 24 + depth * 12
GridColumns(n) == CHOOSE c \in 0..n : c * c >= n /\ \A b \in 0..n : b * b >= n => c <= b

\* layoutGrid: columns as wide and rows as high as their largest item
LayoutGrid(sizes) ==
    LET cols == GridColumns(Len(sizes))
        rows == IF cols = 0 THEN 0 ELSE (Len(sizes) + cols - 1) \div cols
        Col(n) == (n - 1) % cols
        RowOf(n) == (n - 1) \div cols
        W(c) == Max({sizes[n].w : n \in {m \in DOMAIN sizes : Col(m) = c}})
        H(r) == Max({sizes[n].h : n \in {m \in DOMAIN sizes : RowOf(m) = r}})
        Before(F(_), k) == MapThenSumSet(LAMBDA j : F(j) + Gap, 0..(k - 1))
    IN [at |-> [n \in DOMAIN sizes |-> [x |-> Before(W, Col(n)), y |-> Before(H, RowOf(n))]],
        w |-> IF cols = 0 THEN 0 ELSE Before(W, cols) - Gap,
        h |-> IF cols = 0 THEN 0 ELSE Before(H, rows) - Gap]

RECURSIVE ComputeLayout(_, _, _)
ComputeLayout(d, i, depth) ==
    IF i \in NodeIds(d) THEN [w |-> NodeW, h |-> NodeH]
    ELSE LET grid == LayoutGrid([n \in DOMAIN d.kids[i] |-> ComputeLayout(d, d.kids[i][n], depth + 1)])
             pad == 2 * PaddingForDepth(depth)
         IN [w |-> grid.w + pad, h |-> grid.h + pad + Header]

RECURSIVE Place(_, _, _, _)
Place(d, i, depth, o) ==
    LET size == ComputeLayout(d, i, depth)
        self == i :> [x |-> o.x, y |-> o.y, w |-> size.w, h |-> size.h]
        pad == PaddingForDepth(depth)
    IN IF i \in NodeIds(d) THEN self
       ELSE LET grid == LayoutGrid([n \in DOMAIN d.kids[i] |-> ComputeLayout(d, d.kids[i][n], depth + 1)])
            IN FoldLeft(LAMBDA r, n : Place(d, d.kids[i][n], depth + 1,
                                            [x |-> o.x + pad + grid.at[n].x, y |-> o.y + pad + Header + grid.at[n].y]) @@ r,
                        self, [n \in DOMAIN d.kids[i] |-> n])

\* containers and nodes that no container lists
RootIds(d) == SelectSeq(d.conts \o d.nodes, LAMBDA i : i \notin Kids(d))

LayoutGridZones(d) ==
    LET roots == RootIds(d)
        grid == LayoutGrid([n \in DOMAIN roots |-> ComputeLayout(d, roots[n], 0)])
    IN FoldLeft(LAMBDA r, n : Place(d, roots[n], 0, grid.at[n]) @@ r, <<>>, [n \in DOMAIN roots |-> n])

-----------------------------------------------------------------------------
(* layout/swimlane                                                         *)

\* topologicalOrder: breadth first from the lane's sources; what a cycle hides keeps its order
RECURSIVE Bfs(_, _, _)
Bfs(queue, n, succ) ==
    IF n > Len(queue) THEN queue
    ELSE Bfs(FoldLeft(LAMBDA q, j : IF j \in Range(q) THEN q ELSE Append(q, j), queue, succ[queue[n]]), n + 1, succ)
TopologicalOrder(ids, edges) ==
    LET inner == SelectSeq(edges, LAMBDA e : e.from \in Range(ids) /\ e.to \in Range(ids))
        succ == [i \in Range(ids) |->
                   LET out == SelectSeq(inner, LAMBDA e : e.from = i) IN [n \in DOMAIN out |-> out[n].to]]
        ordered == Bfs(SelectSeq(ids, LAMBDA i : \A n \in DOMAIN inner : inner[n].to # i), 1, succ)
    IN ordered \o SelectSeq(ids, LAMBDA i : i \notin Range(ordered))

\* one lane per swimlane and one, without a box, for the nodes of no lane
LayoutSwimlane(d) ==
    LET lanes == Keep(d.conts, d.lane)
        loose == SelectSeq(d.nodes, LAMBDA i : \A n \in DOMAIN lanes : i \notin Range(d.kids[lanes[n]]))
        rows == [n \in DOMAIN lanes |-> d.kids[lanes[n]]] \o (IF loose = <<>> THEN <<>> ELSE <<loose>>)
        Row(n) ==
            LET ids == TopologicalOrder(rows[n], d.edges)
                y == (n - 1) * (160 + Gap)
                wide == Len(ids) * (NodeW + 40) - 40 + 48
                own == [i \in Range(ids) |->
                          [x |-> Gap + (CHOOSE k \in DOMAIN ids : ids[k] = i /\ \A l \in DOMAIN ids : ids[l] = i => l <= k) * (NodeW + 40)
                                  - (NodeW + 40), y |-> y + Header + 24, w |-> NodeW, h |-> NodeH]]
            IN IF n <= Len(lanes)
               THEN own @@ (lanes[n] :> [x |-> 0, y |-> y, w |-> IF wide > 1200 THEN wide ELSE 1200, h |-> 160])
               ELSE own
    IN FoldLeft(LAMBDA r, n : Row(n) @@ r, <<>>, [n \in DOMAIN rows |-> n])

-----------------------------------------------------------------------------
(* compile                                                                 *)

LayoutFor(d) == IF d.kind = "business-flow" THEN LayoutSwimlane(d) ELSE LayoutGridZones(d)

\* an element without a box is skipped
BuildRectangleElements(d, box) ==
    LET shown == SelectSeq(d.conts \o d.nodes, LAMBDA i : i \in DOMAIN box)
    IN [n \in DOMAIN shown |-> [id |-> shown[n], box |-> box[shown[n]]]]
\* an arrow whose two ends have boxes: it carries the direction and the label, and not the mode
BuildArrowElements(d, box) == SelectSeq(d.edges, LAMBDA e : {e.from, e.to} \subseteq DOMAIN box)
CompiledScene(d) ==
    LET box == LayoutFor(d)
    IN [rects |-> BuildRectangleElements(d, box), arrows |-> BuildArrowElements(d, box)]

\* computeLayout recurses without end when a container that a root reaches contains itself
RECURSIVE Below(_, _, _)
Below(d, ids, n) == IF n = 0 THEN ids ELSE Below(d, ids \cup UNION {Range(d.kids[c]) : c \in ids \cap ContIds(d)}, n - 1)
Cyclic(d, c) == c \in Below(d, Range(d.kids[c]), Cardinality(ContIds(d)))
Endless(d) == \E c \in ContIds(d) : Cyclic(d, c) /\ c \in Below(d, Range(RootIds(d)), Cardinality(ContIds(d)))

\* every componentKey resolves, or CompileError; the swimlane layout does not recurse
Compile ==
    /\ work.at = "valid"
    /\ \/ work' = [work EXCEPT !.at = "compile_error"]
       \/ /\ doc.kind # "business-flow" => ~Endless(doc)
          /\ work' = [work EXCEPT !.at = "compiled", !.scene = CompiledScene(doc)]
       \/ /\ doc.kind # "business-flow" /\ Endless(doc)
          /\ work' = [work EXCEPT !.at = "internal_error"]
    /\ UNCHANGED doc

-----------------------------------------------------------------------------
(* decompile                                                               *)

BoxContains(a, b) ==
    /\ b.x >= a.x - 1 /\ b.y >= a.y - 1
    /\ b.x + b.w <= a.x + a.w + 1 /\ b.y + b.h <= a.y + a.h + 1

\* inferDirectParents: the first of the smallest boxes around
DirectParent(rects, n) ==
    LET around == {m \in DOMAIN rects : rects[m].id # rects[n].id /\ BoxContains(rects[m].box, rects[n].box)}
        Area(m) == rects[m].box.w * rects[m].box.h
    IN {rects[m].id : m \in {k \in around : \A l \in around : Area(k) < Area(l) \/ (Area(k) = Area(l) /\ k <= l)}}

\* every compiled arrow is bound at both ends; the mode it was given is not in the scene
ArrowEdges(arrows) == [n \in DOMAIN arrows |-> [arrows[n] EXCEPT !.mode = "dependency"]]

\* containment is read off the geometry: a rectangle around another is a container
Decompile ==
    /\ work.at = "compiled"
    /\ LET rects == work.scene.rects
           conts == UNION {DirectParent(rects, n) : n \in DOMAIN rects}
       IN work' = [work EXCEPT !.at = "decompiled", !.back =
             [nodes |-> {rects[n].id : n \in DOMAIN rects} \ conts,
              kids |-> [c \in conts |-> {rects[n].id : n \in {m \in DOMAIN rects : c \in DirectParent(rects, m)}}],
              edges |-> ArrowEdges(work.scene.arrows)]]
    /\ UNCHANGED doc

\* countOverlaps: pairs that overlap and of which neither is around the other
Overlaps(rects) ==
    {p \in (DOMAIN rects) \X (DOMAIN rects) :
       LET a == rects[p[1]].box b == rects[p[2]].box
           Around(o, i) == /\ o.x <= i.x /\ o.y <= i.y /\ o.x + o.w >= i.x + i.w /\ o.y + o.h >= i.y + i.h
                           /\ o.w * o.h > i.w * i.h
       IN /\ p[1] < p[2] /\ ~Around(a, b) /\ ~Around(b, a)
          /\ a.x < b.x + b.w /\ a.x + a.w > b.x /\ a.y < b.y + b.h /\ a.y + a.h > b.y}

-----------------------------------------------------------------------------
(* interop                                                                 *)

Line(k, i, j, l) == [k |-> k, id |-> i, to |-> j, label |-> l]
EdgeLines(d) == [n \in DOMAIN d.edges |-> Line("edge", d.edges[n].from, d.edges[n].to, d.edges[n].label)]
NestedConts(d) == Kids(d) \cap ContIds(d)
NodeLine(i) == <<Line("node", i, "", "")>>

RECURSIVE RenderContainer(_, _)
RenderContainer(d, c) ==
    <<Line("open", c, "", "")>>
    \o FlatMap(d.kids[c], LAMBDA i : IF i \in ContIds(d) THEN RenderContainer(d, i) ELSE NodeLine(i))
    \o <<Line("close", "", "", "")>>

\* toMermaidFlowchart: the roots, the nodes of no container, the edges
ToMermaidFlowchart(d) ==
    FlatMap(SelectSeq(d.conts, LAMBDA c : c \notin NestedConts(d)), LAMBDA c : RenderContainer(d, c))
    \o FlatMap(SelectSeq(d.nodes, LAMBDA i : i \notin Kids(d)), NodeLine)
    \o EdgeLines(d)

\* toStructurizrDsl: two levels; a nested container is left out, and the nodes in it with it
ToStructurizrDsl(d) ==
    FlatMap(SelectSeq(d.conts, LAMBDA c : c \notin NestedConts(d)),
            LAMBDA c : <<Line("open", c, "", "")>> \o FlatMap(Keep(d.kids[c], NodeIds(d)), NodeLine) \o <<Line("close", "", "", "")>>)
    \o FlatMap(SelectSeq(d.nodes, LAMBDA i : i \notin Kids(d)), NodeLine)
    \o EdgeLines(d)

Parsed0 == [nodes |-> {}, kids |-> <<>>, stack |-> <<>>, edges |-> <<>>]
\* for the mutant: a node is nobody's child
IntoNothing(p, i) == p
Into(p, i) ==
    IF p.stack = <<>> THEN p
    ELSE [p EXCEPT !.kids = [c \in DOMAIN @ |-> IF c = Last(p.stack) THEN @[c] \cup {i} ELSE @[c]]]
Register(p, i) == Into([p EXCEPT !.nodes = @ \cup {i}], i)
Edge(p, l) == [p EXCEPT !.edges = Append(@, [from |-> l.id, to |-> l.to, label |-> l.label])]

\* parseMermaidFlowchart, line by line: a line that begins with a header word is taken for the header
MermaidLine(p, l) ==
    CASE l.id \in HeaderLike /\ l.k \in {"node", "edge"} -> p
      [] l.k = "close" -> [p EXCEPT !.stack = IF @ = <<>> THEN @ ELSE Front(@)]
      [] l.k = "open" -> [Into(p, l.id) EXCEPT !.kids = (l.id :> {}) @@ @, !.stack = Append(@, l.id)]
      [] l.k = "node" -> Register(p, l.id)
      [] OTHER -> Edge(Register(Register(p, l.id), l.to), l)

\* parseStructurizrDsl: a relationship between undeclared ids is skipped
StructurizrLine(p, l) ==
    CASE l.k = "close" -> [p EXCEPT !.stack = IF @ = <<>> THEN @ ELSE Front(@)]
      [] l.k = "open" -> [p EXCEPT !.kids = IF l.id \in DOMAIN @ THEN @ ELSE (l.id :> {}) @@ @, !.stack = Append(@, l.id)]
      [] l.k = "node" -> Register(p, l.id)
      [] OTHER -> IF {l.id, l.to} \subseteq p.nodes \cup DOMAIN p.kids THEN Edge(p, l) ELSE p

Export(at, lines) ==
    /\ work.at = "valid"
    /\ work' = [work EXCEPT !.at = at, !.lines = lines]
    /\ UNCHANGED doc
ExportMermaid == ~Endless(doc) /\ Export("mermaid", ToMermaidFlowchart(doc))
ExportStructurizr == Export("structurizr", ToStructurizrDsl(doc))

\* what was read is validated before it is returned
Read(at, p) ==
    LET ok == \A n \in DOMAIN p.edges : {p.edges[n].from, p.edges[n].to} \subseteq p.nodes
    IN work' = [work EXCEPT !.at = IF ok THEN at ELSE "rejected", !.back = p] /\ UNCHANGED doc
ParseMermaid == work.at = "mermaid" /\ Read("mermaid_read", FoldLeft(MermaidLine, Parsed0, work.lines))
ParseStructurizr == work.at = "structurizr" /\ Read("structurizr_read", FoldLeft(StructurizrLine, Parsed0, work.lines))

IrNext == ValidateIr \/ Compile \/ Decompile \/ ExportMermaid \/ ExportStructurizr \/ ParseMermaid \/ ParseStructurizr
IrSpec == IrInit /\ [][IrNext]_irVars

-----------------------------------------------------------------------------
\* no container contains itself and nothing is in two containers
Forest(d) ==
    /\ \A c \in ContIds(d) : ~Cyclic(d, c)
    /\ \A b, c \in ContIds(d) : b # c => Range(d.kids[b]) \cap Range(d.kids[c]) = {}
SameTree(b) ==
    /\ b.nodes = NodeIds(doc)
    /\ DOMAIN b.kids = ContIds(doc) /\ \A c \in ContIds(doc) : b.kids[c] = Range(doc.kids[c])
LanesOnly(d) == \A c \in ContIds(d) : c \in d.lane /\ Range(d.kids[c]) \subseteq NodeIds(d)

\* Compiling a document whose containers form a forest without empty ones draws no two boxes across each
\* other, and decompiling the drawing finds the same nodes, containers, children and edges again (only the
\* mode of an edge is lost): inferDirectParents recovers what layoutGridZones and layoutSwimlane drew.
CompileRoundTrip ==
    /\ work.at = "decompiled" /\ Forest(doc) /\ (\A c \in ContIds(doc) : doc.kids[c] # <<>>)
    /\ doc.kind = "business-flow" => LanesOnly(doc)
    => /\ SameTree(work.back) /\ Overlaps(work.scene.rects) = {}
       /\ work.back.edges = [n \in DOMAIN doc.edges |-> [doc.edges[n] EXCEPT !.mode = "dependency"]]

\* What parseMermaidFlowchart and parseStructurizrDsl read back from the exporters' output is the document
\* that was exported, but for the mode and direction of edges: for a forest, in Mermaid unless an id looks
\* like the header, in Structurizr when no container is nested.
InteropRoundTrip ==
    /\ Forest(doc)
    /\ \/ work.at = "mermaid_read" /\ NodeIds(doc) \cap HeaderLike = {}
       \/ work.at = "structurizr_read" /\ NestedConts(doc) = {}
    => /\ SameTree(work.back)
       /\ work.back.edges = [n \in DOMAIN doc.edges |->
                               [from |-> doc.edges[n].from, to |-> doc.edges[n].to, label |-> doc.edges[n].label]]

\* A document survives the trips it makes: to the canvas and back, and to the text of a DSL and back.
RoundTrips == CompileRoundTrip /\ InteropRoundTrip
=============================================================================
