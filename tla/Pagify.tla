------------------------------- MODULE Pagify -------------------------------
(***************************************************************************)
(* pagify.xsl, run twice by build.xml: once to break a TEI file into       *)
(* chunks (num_chunks=8), then over each chunk, in any order, to cut it    *)
(* into page files.                                                        *)
(*                                                                         *)
(* A document is the sequence of its page breaks and of the leaves between *)
(* them, in document order; a chunk or a page is the set of positions it   *)
(* copies.  Elements are abstracted to what page-content needs of them:    *)
(* how many of the page breaks before a leaf its parent contains.          *)
(* Documents with #unpaginated divisions, which are copied whole, and page *)
(* breaks without a surface or inside additions, which are copied like any *)
(* leaf, are left out.                                                     *)
(***************************************************************************)
EXTENDS Naturals, Sequences, FiniteSets, FiniteSetsExt

CONSTANTS
  Docs,      \* the documents to paginate: sequences of Node
  Surfaces,  \* facsimile surfaces, numbered in their order
  NumChunks  \* num_chunks of the first pass

\* A page break names its surface (@facs and @n) and may be in a translation;
\* a leaf is text or blank, and its parent holds so many page breaks before it.
Node ==
  [kind : {"pb"}, surface : Surfaces, tr : BOOLEAN] \cup [kind : {"text", "blank"}, holds : Nat]

\* No two breaks of one type have the same @n.  The stylesheet takes this for
\* granted: it looks breaks up by @n, and nothing in the repository checks it.
WellNumbered(d) ==
  \A j, k \in DOMAIN d :
    d[j].kind = "pb" /\ d[k].kind = "pb" /\ d[j] = d[k] => j = k

ASSUME PagifyAssumption ==
  /\ Surfaces \subseteq Nat
  /\ NumChunks \in Nat \ {0, 1}
  /\ Docs \subseteq {d \in Seq(Node) : WellNumbered(d)}

VARIABLES
  doc,    \* the TEI file
  chunks, \* the chunk files still to paginate: [name, nodes]
  pages,  \* [PageName -> the positions the page file holds, {} if there is none]
  pc      \* the pass

vars == <<doc, chunks, pages, pc>>

\* <stem>-<surface>.xml and <stem>-<surface>-translation.xml.
PageName == Surfaces \X BOOLEAN

-----------------------------------------------------------------------------
(* Excerpts.  C is the set of positions of the file at hand.               *)

All == DOMAIN doc

Pbs(C) == {k \in C : doc[k].kind = "pb"}

HasText(C) == \E k \in C : doc[k].kind = "text"

\* get-pb-elem: the break with that @n, inside or outside a translation.
Milestone(C, s, tr) == {k \in Pbs(C) : doc[k].surface = s /\ doc[k].tr = tr}

\* The parent of leaf k contains the break a before it.
Holds(k, a) == Cardinality({p \in Pbs(All) : a <= p /\ p < k}) <= doc[k].holds

\* Fault (a run must notice it): the page includes the break that ends it.
ExcerptToEnd(C, a, z) ==
  LET later == {p \in Pbs(C) : z < p}
  IN  {k \in C : a <= k /\ (later # {} => k <= Min(later))}

\* page-content, from the break a to the next break of any type after z.  If
\* there is none the end is the last node of the file, and that node itself is
\* not before the end: it is only copied inside an element that is, which
\* excludes the elements containing a, and those containing a break that is the
\* end itself.
Excerpt(C, a, z) ==
  LET later == {p \in Pbs(C) : z < p}
  IN  {k \in C : /\ a <= k
                 /\ later # {} => k < Min(later)
                 /\ later = {} /\ k = Max(C) /\ k # a => doc[k].kind # "pb" /\ ~Holds(k, a)}

-----------------------------------------------------------------------------
(* The first pass. *)

ChunkSize ==
  LET n == Cardinality(Pbs(All)) \div NumChunks IN IF n = 0 THEN 2 ELSE n

\* Fault: breaks are grouped whether or not they are in a translation.
GroupUntyped(p) ==
  <<FALSE, (Cardinality({q \in Pbs(All) : q <= p}) - 1) \div ChunkSize>>

\* The grouping key: positions are counted over the breaks of both types.
Group(p) ==
  <<doc[p].tr, (Cardinality({q \in Pbs(All) : q <= p}) - 1) \div ChunkSize>>

\* Fault: the last break of a group is where its chunk ends.
ChunkTooShort(g) ==
  [name |-> <<Min({doc[p].surface : p \in g}), doc[Min(g)].tr>>,
   nodes |-> {k \in All : Min(g) <= k /\ k < Max(g)}]

\* Fault: a chunk goes on to the end of the page after its last.
ChunkTooLong(g) ==
  LET later == {p \in Pbs(All) : Max(g) < p}
      last == IF later = {} THEN Max(g) ELSE Min(later)
  IN  [name |-> <<Min({doc[p].surface : p \in g}), doc[Min(g)].tr>>,
       nodes |-> Excerpt(All, Min(g), last)]

\* Named after the first surface, in facsimile order, of its breaks.
ChunkOf(g) ==
  [name |-> <<Min({doc[p].surface : p \in g}), doc[Min(g)].tr>>,
   nodes |-> Excerpt(All, Min(g), Max(g))]

Groups == {{q \in Pbs(All) : Group(q) = Group(p)} : p \in Pbs(All)}

-----------------------------------------------------------------------------
(* The second pass. *)

\* surface-has-content: the next node that is not blank is no break, or there
\* is no break after it.
HasContent(C, s) ==
  \E p \in Pbs(C) :
    /\ doc[p].surface = s
    /\ LET next == {k \in C : p < k /\ doc[k].kind # "blank"}
       IN  \/ next # {} /\ doc[Min(next)].kind # "pb"
           \/ p = Max(Pbs(C))

\* The page files made of C: of each surface with content one outside
\* translations and one inside, if there is such a break and text follows it.
Paginated(C) ==
  [f \in PageName |->
     LET start == Milestone(C, f[1], f[2])
         page == Excerpt(C, Min(start), Min(start))
     IN  IF HasText(C) /\ HasContent(C, f[1]) /\ start # {} /\ HasText(page) THEN page ELSE {}]

Written(C) == {f \in PageName : Paginated(C)[f] # {}}

-----------------------------------------------------------------------------

Init ==
  /\ doc \in Docs
  /\ chunks = {}
  /\ pages = [f \in PageName |-> {}]
  /\ pc = "create"

\* _create-pages
CreatePages ==
  /\ pc = "create"
  /\ chunks' = IF HasText(All) THEN {c \in {ChunkOf(g) : g \in Groups} : HasText(c.nodes)} ELSE {}
  /\ pc' = "transform"
  /\ UNCHANGED <<doc, pages>>

\* _transform-pages, one chunk; a page file replaces the one of that name.
TransformPages(c) ==
  /\ pc = "transform"
  /\ chunks' = chunks \ {c}
  /\ pages' = [f \in PageName |-> IF f \in Written(c.nodes) THEN Paginated(c.nodes)[f] ELSE pages[f]]
  /\ UNCHANGED <<doc, pc>>

Next == CreatePages \/ \E c \in chunks : TransformPages(c)

Spec == Init /\ [][Next]_vars

-----------------------------------------------------------------------------
(* Correctness. *)

Done == pc = "transform" /\ chunks = {}

\* The break before leaf k, and the page it opens.
BreakOf(k) == Max({p \in Pbs(All) : p < k})

PageOf(k) == <<doc[BreakOf(k)].surface, doc[BreakOf(k)].tr>>

Texts == {k \in All : doc[k].kind = "text" /\ \E p \in Pbs(All) : p < k}

\* What follows leaf k on its page, up to the next break.
Rest(k) == {j \in All : k < j /\ Pbs(k..j) = {}}

\* Every variable holds a value of its kind; two chunks never share a name, which
\* would be a second result document for one file.
TypeOK ==
  /\ doc \in Seq(Node) /\ WellNumbered(doc)
  /\ \A c \in chunks : c.name \in PageName /\ c.nodes \subseteq All
  /\ \A c, d \in chunks : c.name = d.name => c = d
  /\ pages \in [PageName -> SUBSET All]
  /\ pc \in {"create", "transform"}

\* No page file ever holds anything of another page: a break at the seam of two
\* chunks, or between a transcription and its translation, ends the page.
PagesAreOwn ==
  \A f \in PageName : \A k \in pages[f] :
    IF doc[k].kind = "pb" THEN <<doc[k].surface, doc[k].tr>> = f ELSE PageOf(k) = f

\* The parent of a leaf that ends its page holds the break that opens it.
Unsheltered(k) == Rest(k) = {} /\ doc[k].holds > 0

\* Cutting into chunks first gives the same pages as cutting the document at
\* once, however the chunks are ordered and wherever their seams fall: as long
\* as the last leaf of each page has an element of its own.
TwoPassesAreOne ==
  Done /\ ~(\E k \in All \ Pbs(All) : Unsheltered(k)) => pages = Paginated(All)

\* p is the last break of the chunk file C.
LastBreakOf(C, p) == p \in C /\ \A q \in Pbs(C) : q <= p

\* Text is lost only where its page is the last of a chunk file, and then only the
\* last leaf of that page; or, at the end of the document, where either pass leaves
\* out a last node, the leaf before it as well.  The element of a lost leaf always
\* holds the break that opens its page.
LostOnlyAtSeams ==
  Done => \A k \in Texts :
    k \in pages[PageOf(k)]
    \/ /\ doc[k].holds > 0
       /\ \/ Rest(k) = {}
          \/ Rest(k) = {Max(All)} /\ doc[Max(All)].holds > 0
       /\ \E g \in Groups : LastBreakOf(ChunkOf(g).nodes, BreakOf(k))

\* Transcription before translation.
Sequential == \A p, q \in Pbs(All) : doc[p].tr /\ p < q => doc[q].tr

\* In a document whose translation follows its transcription no page file is
\* written twice: which chunk comes last does not matter.
WrittenOnce ==
  [][Sequential => \A f \in PageName : pages[f] # {} => pages'[f] = pages[f]]_vars

-----------------------------------------------------------------------------
(* The inductive invariant behind the properties. *)

\* Chunk files are those of groups of breaks.
ChunksInv ==
  /\ \A c \in chunks : \E g \in Groups : c = ChunkOf(g)
  /\ pc = "create" => chunks = {} /\ \A f \in PageName : pages[f] = {}

\* A page file is what one of the chunks makes of its page, and is there as soon as
\* one of them that makes something of it has been paginated.
PagesInv ==
  /\ \A f \in PageName : pages[f] # {} =>
       \E g \in Groups : pages[f] = Paginated(ChunkOf(g).nodes)[f]
  /\ pc = "transform" =>
       \A g \in Groups : ChunkOf(g) \notin chunks =>
         \A f \in Written(ChunkOf(g).nodes) : pages[f] # {}

\* Of a translation that follows its transcription, a page that has its file is in no
\* chunk still to paginate.
OnceInv ==
  Sequential =>
    \A c \in chunks, f \in PageName : pages[f] # {} => Milestone(c.nodes, f[1], f[2]) = {}

PagifyInv == ChunksInv /\ PagesInv /\ OnceInv

-----------------------------------------------------------------------------
(* What the documentation says and the stylesheet does not guarantee. *)

\* README.md:7: "html files for every page transcription or translation".  A page
\* that has text, and another page after it, has a page file in the end.
EveryPageIsMade ==
  Done => \A k \in Texts : (\E p \in Pbs(All) : k < p) => pages[PageOf(k)] # {}
=============================================================================
