---------------------------- MODULE PagifyProofs ----------------------------
(***************************************************************************)
(* What module Pagify promises, for documents of any length, any surfaces  *)
(* and any number of chunks.                                               *)
(*                                                                         *)
(* The argument is about excerpts: a chunk is convex, it leaves out no     *)
(* node between two of its own (ChunkConvex), so the next break in a chunk *)
(* is the next break of the document, and what a chunk makes of a page is  *)
(* the page, but for a last leaf that the document or the chunk drops.     *)
(***************************************************************************)
EXTENDS Pagify, FiniteSetTheorems, TLAPS

-----------------------------------------------------------------------------
(* Least and greatest elements. *)

\* A set of naturals has a least element.
LEMMA Least ==
  ASSUME NEW S, S \subseteq Nat, S # {}
  PROVE  Min(S) \in S /\ \A y \in S : Min(S) <= y
<1> DEFINE R == OpToRel(<, Nat)
<1>1. IsWellFoundedOn(R, Nat)
  BY NatLessThanWellFounded
<1>2. \A x, y \in Nat : y < x => <<y, x>> \in R
  BY DEF OpToRel
<1> HIDE DEF R
<1>3. PICK x \in S : \A y \in S : <<y, x>> \notin R
  BY <1>1, WFMin, Zenon
<1>4. \A y \in S : x <= y
  <2>1. SUFFICES ASSUME NEW y \in S PROVE x <= y
    OBVIOUS
  <2>2. x \in Nat /\ y \in Nat
    OBVIOUS
  <2>3. ~(y < x)
    BY <1>2, <1>3, <2>2
  <2>4. QED
    BY <2>2, <2>3
<1>5. QED
  BY <1>4 DEF Min

\* A bounded one has a greatest.
LEMMA Greatest ==
  ASSUME NEW n \in Nat, NEW S, S \subseteq 0..n, S # {}
  PROVE  Max(S) \in S /\ \A y \in S : y <= Max(S)
<1> DEFINE T == {n - x : x \in S}
<1>1. T \subseteq Nat /\ T # {}
  <2>1. \A x \in S : x \in 0..n
    OBVIOUS
  <2>2. \A x \in 0..n : n - x \in Nat
    OBVIOUS
  <2>3. PICK x \in S : TRUE
    OBVIOUS
  <2>4. n - x \in T
    BY <2>3
  <2>5. QED
    BY <2>1, <2>2, <2>4
<1>2. PICK t \in T : \A u \in T : t <= u
  BY <1>1, Least
<1>3. PICK x \in S : t = n - x
  OBVIOUS
<1>4. \A y \in S : y <= x
  BY <1>2, <1>3
<1>5. \E z \in S : \A y \in S : z >= y
  BY <1>4
<1>6. Max(S) \in S /\ \A y \in S : Max(S) >= y
  BY <1>5 DEF Max
<1>7. QED
  BY <1>6

-----------------------------------------------------------------------------
(* Positions and breaks. *)

Doc == doc \in Seq(Node) /\ WellNumbered(doc)

\* The positions of a document are its nodes.
LEMMA Positions ==
  ASSUME Doc
  PROVE  /\ Len(doc) \in Nat /\ All = 1..Len(doc)
         /\ \A k \in All : k \in Nat /\ doc[k] \in Node
  BY DEF Doc, All

\* Any positions have a first and a last.
LEMMA FirstAndLast ==
  ASSUME Doc, NEW S, S \subseteq All, S # {}
  PROVE  /\ Min(S) \in S /\ \A y \in S : Min(S) <= y
         /\ Max(S) \in S /\ \A y \in S : y <= Max(S)
<1>1. Len(doc) \in Nat /\ S \subseteq Nat /\ S \subseteq 0..Len(doc)
  BY Positions
<1>2. QED
  BY <1>1, Least, Greatest, Zenon

\* A break has a surface and a type, and no other break has both.
LEMMA Breaks ==
  ASSUME Doc, NEW p \in Pbs(All)
  PROVE  /\ p \in All /\ p \in Nat /\ doc[p].kind = "pb"
         /\ <<doc[p].surface, doc[p].tr>> \in PageName
         /\ \A q \in Pbs(All) : doc[p].surface = doc[q].surface /\ doc[p].tr = doc[q].tr => p = q
<1>1. \A q \in Pbs(All) : /\ q \in All /\ q \in Nat /\ q \in DOMAIN doc /\ doc[q].kind = "pb"
                          /\ doc[q] \in [kind : {"pb"}, surface : Surfaces, tr : BOOLEAN]
  BY Positions DEF Pbs, Node, All
<1>2. <<doc[p].surface, doc[p].tr>> \in PageName
  BY <1>1 DEF PageName
<1>3. ASSUME NEW q \in Pbs(All), doc[p].surface = doc[q].surface, doc[p].tr = doc[q].tr
      PROVE  p = q
  <2>1. doc[p] = doc[q]
    BY <1>1, <1>3
  <2>2. QED
    BY <1>1, <2>1 DEF Doc, WellNumbered
<1>4. QED
  BY <1>1, <1>2, <1>3

\* A leaf is on the page of the break that no other follows before it.
LEMMA BreakIs ==
  ASSUME Doc, NEW k \in All, NEW m \in Pbs(All), m < k, \A p \in Pbs(All) : p < k => p <= m
  PROVE  BreakOf(k) = m
<1> DEFINE S == {p \in Pbs(All) : p < k}
<1>1. S \subseteq All /\ m \in S
  BY DEF Pbs
<1>2. Max(S) \in S /\ m <= Max(S)
  BY <1>1, FirstAndLast
<1>3. Max(S) <= m /\ Max(S) \in Nat /\ m \in Nat
  BY <1>1, <1>2, Positions
<1>4. Max(S) = m
  BY <1>2, <1>3
<1>5. QED
  BY <1>4 DEF BreakOf

-----------------------------------------------------------------------------
(* Excerpts. *)

\* The end of an excerpt, without its least element.
LEMMA ExcerptIs ==
  ASSUME Doc, NEW C, C \subseteq All, NEW a, NEW z \in Nat, NEW k
  PROVE  k \in Excerpt(C, a, z) <=>
           /\ k \in C /\ a <= k
           /\ \A p \in Pbs(C) : z < p => k < p
           /\ (\A p \in Pbs(C) : ~(z < p)) /\ k = Max(C) /\ k # a => doc[k].kind # "pb" /\ ~Holds(k, a)
<1> DEFINE later == {p \in Pbs(C) : z < p}
<1>1. later \subseteq All /\ C \subseteq Nat
  BY Positions DEF Pbs
<1>2. ASSUME k \in C
      PROVE  (later # {} => k < Min(later)) <=> \A p \in Pbs(C) : z < p => k < p
  <2>1. CASE later = {}
    BY <2>1
  <2>2. CASE later # {}
    <3>1. Min(later) \in later /\ \A y \in later : Min(later) <= y
      BY <1>1, <2>2, FirstAndLast
    <3>2. \A y \in later : y \in Nat /\ k \in Nat
      BY <1>1, <1>2, Positions
    <3>3. QED
      BY <2>2, <3>1, <3>2
  <2>3. QED
    BY <2>1, <2>2
<1>3. k \in Excerpt(C, a, z) <=>
        /\ k \in C /\ a <= k
        /\ later # {} => k < Min(later)
        /\ later = {} /\ k = Max(C) /\ k # a => doc[k].kind # "pb" /\ ~Holds(k, a)
  BY DEF Excerpt
<1>4. later = {} <=> \A p \in Pbs(C) : ~(z < p)
  OBVIOUS
<1>5. QED
  BY <1>2, <1>3, <1>4, Zenon

\* A group is of breaks of one type, and is that of each of its breaks.
LEMMA GroupIs ==
  ASSUME Doc, NEW g \in Groups
  PROVE  /\ g \subseteq Pbs(All) /\ g # {}
         /\ Min(g) \in g /\ Max(g) \in g /\ \A p \in g : Min(g) <= p /\ p <= Max(g)
         /\ \A p \in g, q \in Pbs(All) : q \in g <=> Group(q) = Group(p)
         /\ \A p \in g : doc[p].tr = doc[Min(g)].tr
<1>1. PICK p \in Pbs(All) : g = {q \in Pbs(All) : Group(q) = Group(p)}
  BY DEF Groups
<1>2. g \subseteq Pbs(All) /\ g # {} /\ g \subseteq All
  BY <1>1 DEF Pbs
<1>3. Min(g) \in g /\ Max(g) \in g /\ \A q \in g : Min(g) <= q /\ q <= Max(g)
  BY <1>2, FirstAndLast
<1>4. \A r \in g, q \in Pbs(All) : q \in g <=> Group(q) = Group(r)
  BY <1>1
<1>5. \A r \in g : Group(r) = Group(Min(g))
  BY <1>2, <1>3, <1>4
<1>6. \A r \in g : doc[r].tr = doc[Min(g)].tr
  BY <1>5 DEF Group
<1>7. QED
  BY <1>2, <1>3, <1>4, <1>6

\* Every break is in a group.
LEMMA InGroup ==
  ASSUME NEW p \in Pbs(All)
  PROVE  \E g \in Groups : p \in g
<1>1. {q \in Pbs(All) : Group(q) = Group(p)} \in Groups
  BY DEF Groups
<1>2. QED
  BY <1>1

\* C leaves out no node between two of its own.
Convex(C) == C \subseteq All /\ \A i, k \in C : \A p \in All : i < p /\ p < k => p \in C

\* A chunk is convex: only the last node of the document is ever dropped from the
\* end of one.
LEMMA ChunkConvex ==
  ASSUME Doc, NEW g \in Groups
  PROVE  Convex(ChunkOf(g).nodes)
<1> DEFINE C == Excerpt(All, Min(g), Max(g))
<1>1. ChunkOf(g).nodes = C
  BY DEF ChunkOf
<1>2. Min(g) \in Nat /\ Max(g) \in Nat
  BY GroupIs, Breaks
<1>3. \A k : k \in C <=>
           /\ k \in All /\ Min(g) <= k
           /\ \A p \in Pbs(All) : Max(g) < p => k < p
           /\ (\A p \in Pbs(All) : ~(Max(g) < p)) /\ k = Max(All) /\ k # Min(g)
                => doc[k].kind # "pb" /\ ~Holds(k, Min(g))
  BY <1>2, ExcerptIs, Zenon
<1> HIDE DEF C
<1>4. ASSUME NEW i \in C, NEW k \in C, NEW p \in All, i < p, p < k
      PROVE  p \in C
  <2>1. k \in All /\ i \in All /\ Min(g) <= i /\ i \in Nat /\ p \in Nat /\ k \in Nat
    BY <1>3, Positions
  <2>2. Min(g) <= p
    BY <1>2, <1>4, <2>1
  <2>3. \A q \in Pbs(All) : q \in Nat /\ (Max(g) < q => k < q)
    BY <1>3, Breaks
  <2>4. \A q \in Pbs(All) : Max(g) < q => p < q
    BY <1>4, <2>1, <2>3
  <2>5. k <= Max(All) /\ Max(All) \in All
    BY <2>1, FirstAndLast
  <2>6. p # Max(All)
    BY <1>4, <2>1, <2>5, Positions
  <2>7. QED
    BY <1>3, <2>2, <2>4, <2>6, Zenon
<1>5. C \subseteq All
  BY <1>3
<1>6. QED
  BY <1>1, <1>4, <1>5 DEF Convex

\* The break of a page is the one it is called by.
LEMMA StartIs ==
  ASSUME Doc, NEW C, C \subseteq All, NEW f \in PageName, Milestone(C, f[1], f[2]) # {}
  PROVE  LET m == Min(Milestone(C, f[1], f[2]))
         IN  /\ m \in C /\ m \in Pbs(C) /\ m \in Pbs(All) /\ f = <<doc[m].surface, doc[m].tr>>
             /\ Paginated(C)[f] \in {{}, Excerpt(C, m, m)}
<1> DEFINE S == Milestone(C, f[1], f[2])
           m == Min(S)
<1>1. S \subseteq All /\ S \subseteq Pbs(C) /\ Pbs(C) \subseteq Pbs(All)
  BY DEF Milestone, Pbs
<1>2. m \in S
  BY <1>1, FirstAndLast
<1>3. doc[m].surface = f[1] /\ doc[m].tr = f[2]
  BY <1>2 DEF Milestone
<1>4. f = <<f[1], f[2]>>
  BY DEF PageName
<1>5. Paginated(C)[f] \in {{}, Excerpt(C, m, m)}
  BY DEF Paginated
<1>6. QED
  BY <1>1, <1>2, <1>3, <1>4, <1>5 DEF Pbs

\* What a convex file makes of a page is of that page.
LEMMA PageIsOwn ==
  ASSUME Doc, NEW C, Convex(C), NEW f \in PageName, NEW k \in Paginated(C)[f]
  PROVE  /\ k \in C /\ k \in All
         /\ IF doc[k].kind = "pb" THEN <<doc[k].surface, doc[k].tr>> = f ELSE PageOf(k) = f
<1> DEFINE S == Milestone(C, f[1], f[2])
           m == Min(S)
<1>1. C \subseteq All
  BY DEF Convex
<1>2. S # {}
  BY DEF Paginated
<1>3. m \in C /\ m \in Pbs(C) /\ m \in Pbs(All) /\ f = <<doc[m].surface, doc[m].tr>> /\ k \in Excerpt(C, m, m)
  BY <1>1, <1>2, StartIs
<1> HIDE DEF m
<1>4. m \in Nat /\ m \in All /\ doc[m].kind = "pb"
  BY <1>3, Breaks
<1>5. k \in C /\ m <= k /\ \A p \in Pbs(C) : m < p => k < p
  BY <1>1, <1>3, <1>4, ExcerptIs
<1>6. k \in All /\ k \in Nat
  BY <1>1, <1>5, Positions
<1>7. CASE doc[k].kind = "pb"
  <2>1. k \in Pbs(C)
    BY <1>5, <1>7 DEF Pbs
  <2>2. k = m
    BY <1>4, <1>5, <1>6, <2>1
  <2>3. QED
    BY <1>3, <1>5, <1>6, <1>7, <2>2
<1>8. CASE doc[k].kind # "pb"
  <2>1. m < k
    BY <1>4, <1>5, <1>6, <1>8
  <2>2. ASSUME NEW p \in Pbs(All), p < k
        PROVE  p <= m
    <3>1. p \in Nat /\ p \in All /\ doc[p].kind = "pb"
      BY Breaks
    <3>2. SUFFICES ASSUME m < p PROVE FALSE
      BY <1>4, <3>1
    <3>3. p \in Pbs(C)
      BY <1>3, <1>5, <2>2, <3>1, <3>2 DEF Convex, Pbs
    <3>4. QED
      BY <1>5, <1>6, <2>2, <3>1, <3>2, <3>3
  <2>3. BreakOf(k) = m
    BY <1>3, <1>6, <2>1, <2>2, BreakIs
  <2>4. QED
    BY <1>3, <1>5, <1>6, <1>8, <2>3 DEF PageOf
<1>9. QED
  BY <1>7, <1>8

\* The name of a chunk is that of one of its own breaks.
LEMMA ChunkName ==
  ASSUME Doc, NEW g \in Groups
  PROVE  \E p \in g : ChunkOf(g).name = <<doc[p].surface, doc[p].tr>>
<1> DEFINE S == {doc[p].surface : p \in g}
<1>1. g \subseteq Pbs(All) /\ g # {} /\ \A p \in g : doc[p].tr = doc[Min(g)].tr
  BY GroupIs
<1>2. \A p \in g : doc[p].surface \in Nat
  BY <1>1, Breaks, PagifyAssumption DEF PageName
<1>3. S \subseteq Nat /\ S # {}
  BY <1>1, <1>2
<1>4. Min(S) \in S
  BY <1>3, Least
<1>5. PICK p \in g : doc[p].surface = Min(S)
  BY <1>4
<1>6. ChunkOf(g).name = <<doc[p].surface, doc[p].tr>>
  BY <1>1, <1>5 DEF ChunkOf
<1>7. QED
  BY <1>6

\* Chunks of one name are of one group.
LEMMA ChunkNamesDiffer ==
  ASSUME Doc, NEW g \in Groups, NEW h \in Groups, ChunkOf(g).name = ChunkOf(h).name
  PROVE  g = h
<1>1. PICK p \in g : ChunkOf(g).name = <<doc[p].surface, doc[p].tr>>
  BY ChunkName
<1>2. PICK q \in h : ChunkOf(h).name = <<doc[q].surface, doc[q].tr>>
  BY ChunkName
<1>3. g \subseteq Pbs(All) /\ h \subseteq Pbs(All)
  BY GroupIs
<1>4. doc[p].surface = doc[q].surface /\ doc[p].tr = doc[q].tr
  <2>1. <<doc[p].surface, doc[p].tr>> = <<doc[q].surface, doc[q].tr>>
    BY <1>1, <1>2, Zenon
  <2>2. QED
    BY <2>1
<1>5. p = q
  BY <1>3, <1>4, Breaks
<1>6. \A r \in Pbs(All) : r \in g <=> r \in h
  BY <1>5, GroupIs
<1>7. QED
  BY <1>3, <1>6

-----------------------------------------------------------------------------
(* Type correctness and the pages' contents. *)

\* The names of the chunks are those of pages, and differ.
LEMMA ChunksAreNamed ==
  ASSUME Doc, ChunksInv
  PROVE  /\ \A c \in chunks : c.name \in PageName /\ Convex(c.nodes)
         /\ \A c, d \in chunks : c.name = d.name => c = d
<1>1. \A c \in chunks : \E g \in Groups : c = ChunkOf(g)
  BY DEF ChunksInv
<1>2. \A g \in Groups : ChunkOf(g).name \in PageName
  <2>1. SUFFICES ASSUME NEW g \in Groups PROVE ChunkOf(g).name \in PageName
    OBVIOUS
  <2>2. PICK p \in g : ChunkOf(g).name = <<doc[p].surface, doc[p].tr>>
    BY ChunkName, Zenon
  <2>3. p \in Pbs(All)
    BY GroupIs
  <2>4. QED
    BY <2>2, <2>3, Breaks
<1>3. \A g \in Groups : Convex(ChunkOf(g).nodes)
  BY ChunkConvex
<1>4. QED
  BY <1>1, <1>2, <1>3, ChunkNamesDiffer

\* What is made of a page is some of the file it is made of.
LEMMA PaginatedType ==
  ASSUME NEW C, C \subseteq All
  PROVE  Paginated(C) \in [PageName -> SUBSET All]
<1>1. \A m : Excerpt(C, m, m) \subseteq C
  BY DEF Excerpt
<1>2. QED
  BY <1>1 DEF Paginated

\* Nothing is defined of the document but by it.
LEMMA SameDoc ==
  ASSUME doc' = doc
  PROVE  /\ Doc' = Doc /\ All' = All /\ Groups' = Groups
         /\ \A g : ChunkOf(g)' = ChunkOf(g)
         /\ \A C : Paginated(C)' = Paginated(C) /\ Written(C)' = Written(C) /\ Convex(C)' = Convex(C)
         /\ \A C, s, tr : Milestone(C, s, tr)' = Milestone(C, s, tr)
         /\ \A k : PageOf(k)' = PageOf(k)
         /\ Sequential' = Sequential
  BY DEF Doc, All, Groups, ChunkOf, Paginated, Written, Milestone, Sequential, WellNumbered, Pbs, Group,
         ChunkSize, Excerpt, Holds, HasText, HasContent, Convex, PageOf, BreakOf

\* The invariant of the types.
Types == Doc /\ pages \in [PageName -> SUBSET All] /\ pc \in {"create", "transform"} /\ ChunksInv

\* Every step keeps it.
LEMMA TypesStep == Types /\ [Next]_vars => Types'
<1> SUFFICES ASSUME Types, [Next]_vars PROVE Types'
  OBVIOUS
<1> USE DEF Types
<1>1. doc' = doc
  BY DEF Next, vars, CreatePages, TransformPages
<1>2. CASE UNCHANGED vars
  BY <1>1, <1>2, SameDoc DEF vars, ChunksInv, PageName
<1>3. CASE CreatePages
  <2>1. \A c \in chunks' : \E g \in Groups : c = ChunkOf(g)
    BY <1>3 DEF CreatePages
  <2>2. pc' = "transform" /\ pages' = pages
    BY <1>3 DEF CreatePages
  <2>3. QED
    BY <1>1, <2>1, <2>2, SameDoc DEF ChunksInv, PageName
<1>4. ASSUME NEW c \in chunks, TransformPages(c)
      PROVE  Types'
  <2>1. c.nodes \subseteq All
    BY ChunksAreNamed DEF Convex
  <2>2. pages' \in [PageName -> SUBSET All]
    BY <1>4, <2>1, PaginatedType DEF TransformPages
  <2>3. pc' = "transform" /\ chunks' \subseteq chunks
    BY <1>4 DEF TransformPages
  <2>4. QED
    BY <1>1, <2>2, <2>3, SameDoc DEF ChunksInv, PageName
<1>5. QED
  BY <1>2, <1>3, <1>4 DEF Next

\* The documents are as they are assumed to be.
LEMMA TypesStart == Init => Types
  BY PagifyAssumption DEF Init, Types, Doc, ChunksInv

\* The invariant holds throughout.
LEMMA TypesHold == Spec => []Types
  BY TypesStart, TypesStep, PTL DEF Spec

\* Every variable holds a value of its kind, and no two chunks have one name: a run of
\* pagify.xsl never makes two result documents of one file.
THEOREM PagifyTypes == Spec => []TypeOK
<1>1. Types => TypeOK
  BY ChunksAreNamed DEF Types, TypeOK, Doc, Convex
<1>2. QED
  BY <1>1, TypesHold, PTL

\* No page file ever holds anything of another page.
THEOREM PagesOwn == Spec => []PagesAreOwn
<1>1. Init => PagesAreOwn
  BY DEF Init, PagesAreOwn
<1>2. Types /\ PagesAreOwn /\ [Next]_vars => PagesAreOwn'
  <2>1. SUFFICES ASSUME Types, PagesAreOwn, [Next]_vars, NEW f \in PageName, NEW k \in pages'[f]
                 PROVE  IF doc[k].kind = "pb" THEN <<doc[k].surface, doc[k].tr>> = f ELSE PageOf(k) = f
    <3>1. [Next]_vars => doc' = doc
      BY DEF Next, vars, CreatePages, TransformPages
    <3>2. QED
      BY <3>1, SameDoc DEF PagesAreOwn, PageName
  <2>2. CASE pages' = pages
    BY <2>1, <2>2 DEF PagesAreOwn
  <2>3. ASSUME NEW c \in chunks, TransformPages(c)
        PROVE  k \in pages[f] \/ (k \in Paginated(c.nodes)[f] /\ Convex(c.nodes))
    BY <2>1, <2>3, ChunksAreNamed DEF TransformPages, Types
  <2>4. QED
    BY <2>1, <2>2, <2>3, PageIsOwn DEF PagesAreOwn, Next, vars, CreatePages, Types
<1>3. QED
  BY <1>1, <1>2, TypesHold, PTL DEF Spec

-----------------------------------------------------------------------------
(* Groups of breaks in a document whose translation follows its transcription. *)

\* Counting does not go backwards.
LEMMA Counts ==
  ASSUME Doc, NEW S, NEW T, S \subseteq T, T \subseteq All
  PROVE  /\ Cardinality(S) \in Nat /\ Cardinality(T) \in Nat /\ Cardinality(S) <= Cardinality(T)
         /\ S # {} => Cardinality(S) >= 1
<1>1. IsFiniteSet(All)
  BY Positions, FS_Interval
<1>2. IsFiniteSet(T)
  BY <1>1, FS_Subset
<1>3. IsFiniteSet(S) /\ Cardinality(S) <= Cardinality(T)
  BY <1>2, FS_Subset
<1>4. Cardinality(S) \in Nat /\ Cardinality(T) \in Nat
  BY <1>2, <1>3, FS_CardinalityType
<1>5. Cardinality(S) = 0 <=> S = {}
  BY <1>3, FS_EmptySet
<1>6. QED
  BY <1>3, <1>4, <1>5

\* Nor does integer division.
LEMMA Divides ==
  ASSUME NEW a \in Nat, NEW b \in Nat, NEW n \in Nat \ {0}, a <= b
  PROVE  a \div n \in Nat /\ a \div n <= b \div n
  OBVIOUS

\* The size of a chunk is never zero.
LEMMA ChunksHaveSize == Doc => ChunkSize \in Nat \ {0}
<1> SUFFICES ASSUME Doc PROVE ChunkSize \in Nat \ {0}
  OBVIOUS
<1>1. Cardinality(Pbs(All)) \in Nat
  BY Counts DEF Pbs
<1>2. Cardinality(Pbs(All)) \div NumChunks \in Nat
  BY <1>1, Divides, PagifyAssumption
<1>3. QED
  BY <1>2 DEF ChunkSize

\* No break of another group is between two of one group.
LEMMA GroupIsWhole ==
  ASSUME Doc, Sequential, NEW g \in Groups, NEW p \in g, NEW q \in g, NEW r \in Pbs(All), p <= r, r <= q
  PROVE  r \in g
<1> DEFINE Upto(x) == {y \in Pbs(All) : y <= x}
           N(x) == Cardinality(Upto(x)) - 1
<1>1. p \in Pbs(All) /\ q \in Pbs(All) /\ Group(p) = Group(q)
  BY GroupIs
<1>2. p \in Nat /\ q \in Nat /\ r \in Nat /\ \A x \in Pbs(All) : x \in Nat /\ x \in All
  BY <1>1, Breaks
<1>3. \A x \in Pbs(All) : Group(x) = <<doc[x].tr, N(x) \div ChunkSize>> /\ x \in Nat /\ doc[x].tr \in BOOLEAN
  BY Breaks DEF Group, PageName
<1>4. doc[p].tr = doc[q].tr /\ N(p) \div ChunkSize = N(q) \div ChunkSize
  BY <1>1, <1>3
<1>5. doc[r].tr = doc[p].tr
  <2>1. (doc[p].tr /\ p < r => doc[r].tr) /\ (doc[r].tr /\ r < q => doc[q].tr)
    BY <1>1 DEF Sequential
  <2>2. p = r \/ p < r
    BY <1>2
  <2>3. r = q \/ r < q
    BY <1>2
  <2>4. CASE p = r \/ r = q
    BY <1>4, <2>4
  <2>5. CASE p < r /\ r < q
    BY <1>1, <1>3, <1>4, <2>1, <2>5
  <2>6. QED
    BY <2>2, <2>3, <2>4, <2>5
<1>6. Upto(p) \subseteq Upto(r) /\ Upto(r) \subseteq Upto(q) /\ Upto(q) \subseteq All /\ p \in Upto(p)
  <2>1. \A y \in Pbs(All) : (y <= p => y <= r) /\ (y <= r => y <= q)
    BY <1>2
  <2>2. Upto(p) \subseteq Upto(r) /\ Upto(r) \subseteq Upto(q)
    BY <2>1, Zenon
  <2>3. Upto(q) \subseteq All
    BY <1>2, Zenon
  <2>4. p <= p
    BY <1>2
  <2>5. QED
    BY <1>1, <2>2, <2>3, <2>4
<1> HIDE DEF Upto
<1>7. /\ Cardinality(Upto(p)) \in Nat /\ Cardinality(Upto(p)) >= 1
      /\ Cardinality(Upto(r)) \in Nat /\ Cardinality(Upto(p)) <= Cardinality(Upto(r))
      /\ Cardinality(Upto(q)) \in Nat /\ Cardinality(Upto(r)) <= Cardinality(Upto(q))
  <2>1. Upto(p) \subseteq All /\ Upto(r) \subseteq All
    BY <1>6
  <2>2. QED
    BY <1>6, <2>1, Counts
<1>8. N(p) \in Nat /\ N(r) \in Nat /\ N(q) \in Nat /\ N(p) <= N(r) /\ N(r) <= N(q)
  BY <1>7
<1> HIDE DEF N
<1>9. /\ N(p) \div ChunkSize \in Nat /\ N(r) \div ChunkSize \in Nat /\ N(q) \div ChunkSize \in Nat
      /\ N(p) \div ChunkSize <= N(r) \div ChunkSize /\ N(r) \div ChunkSize <= N(q) \div ChunkSize
  BY <1>8, Divides, ChunksHaveSize
<1>10. N(r) \div ChunkSize = N(p) \div ChunkSize
  BY <1>4, <1>9
<1>11. Group(r) = Group(p)
  BY <1>1, <1>3, <1>5, <1>10
<1>12. QED
  BY <1>1, <1>11, GroupIs

\* The breaks of a chunk are those of its group.
LEMMA ChunkBreaks ==
  ASSUME Doc, Sequential, NEW g \in Groups, NEW r \in Pbs(ChunkOf(g).nodes)
  PROVE  r \in g
<1>1. /\ g \subseteq Pbs(All) /\ Min(g) \in g /\ Max(g) \in g
  BY GroupIs
<1>2. Min(g) \in Nat /\ Max(g) \in Nat
  BY <1>1, Breaks
<1>3. r \in Excerpt(All, Min(g), Max(g)) /\ doc[r].kind = "pb"
  BY DEF ChunkOf, Pbs
<1>4. r \in All /\ Min(g) <= r /\ \A p \in Pbs(All) : Max(g) < p => r < p
  BY <1>2, <1>3, ExcerptIs, Zenon
<1>5. r \in Pbs(All) /\ r \in Nat
  BY <1>3, <1>4, Positions DEF Pbs
<1>6. r <= Max(g)
  BY <1>2, <1>4, <1>5
<1>7. QED
  BY <1>1, <1>4, <1>5, <1>6, GroupIsWhole

-----------------------------------------------------------------------------
(* What a file makes of a page, and the page. *)

\* The page of the document from the break m on.
Span(m) == {k \in All : m <= k /\ \A p \in Pbs(All) : m < p => k < p}

\* A file that has the break makes its page if that has text.
LEMMA PageFrom ==
  ASSUME Doc, NEW C, C \subseteq All, NEW m \in Pbs(C)
  PROVE  Paginated(C)[<<doc[m].surface, doc[m].tr>>] =
           IF HasText(Excerpt(C, m, m)) THEN Excerpt(C, m, m) ELSE {}
<1> DEFINE s == doc[m].surface
           S == Milestone(C, s, doc[m].tr)
           next == {k \in C : m < k /\ doc[k].kind # "blank"}
<1>1. m \in C /\ m \in Pbs(All) /\ Pbs(C) \subseteq Pbs(All)
  BY DEF Pbs
<1>2. m \in Nat /\ doc[m].kind = "pb" /\ <<s, doc[m].tr>> \in PageName
  BY <1>1, Breaks
<1>3. S = {m}
  BY <1>1, Breaks DEF Milestone
<1>4. Min(S) = m
  <2>1. S \subseteq Nat /\ S # {}
    BY <1>2, <1>3
  <2>2. Min(S) \in S
    BY <2>1, Least
  <2>3. QED
    BY <1>3, <2>2
<1>5. HasText(Excerpt(C, m, m)) => HasText(C) /\ HasContent(C, s)
  <2>1. SUFFICES ASSUME NEW k \in Excerpt(C, m, m), doc[k].kind = "text"
                 PROVE  HasText(C) /\ HasContent(C, s)
    BY DEF HasText
  <2>2. k \in C /\ m <= k /\ \A p \in Pbs(C) : m < p => k < p
    BY <1>2, ExcerptIs
  <2>3. \A j \in C : j \in Nat
    BY Positions
  <2>4. k \in next
    BY <1>2, <2>1, <2>2, <2>3
  <2>5. next \subseteq All
    OBVIOUS
  <2>6. Min(next) \in next /\ Min(next) <= k
    BY <2>4, <2>5, FirstAndLast
  <2>7. doc[Min(next)].kind # "pb"
    <3>1. SUFFICES ASSUME doc[Min(next)].kind = "pb" PROVE FALSE
      OBVIOUS
    <3>2. Min(next) \in Pbs(C) /\ m < Min(next) /\ Min(next) \in Nat /\ k \in Nat
      BY <2>2, <2>3, <2>6, <3>1 DEF Pbs
    <3>3. QED
      BY <2>2, <2>6, <3>2
  <2> HIDE DEF S
  <2>8. HasContent(C, s)
    BY <2>4, <2>7 DEF HasContent
  <2>9. QED
    BY <2>1, <2>2, <2>8 DEF HasText
<1> HIDE DEF S, next
<1>6. Paginated(C)[<<s, doc[m].tr>>] =
        IF HasText(C) /\ HasContent(C, s) /\ S # {} /\ HasText(Excerpt(C, Min(S), Min(S)))
          THEN Excerpt(C, Min(S), Min(S)) ELSE {}
  BY <1>2 DEF Paginated, S
<1>7. QED
  BY <1>3, <1>4, <1>5, <1>6

\* A file that does not have it makes nothing of the page.
LEMMA NoPage ==
  ASSUME Doc, NEW C, C \subseteq All, NEW m \in Pbs(All), m \notin C
  PROVE  Paginated(C)[<<doc[m].surface, doc[m].tr>>] = {}
<1> DEFINE f == <<doc[m].surface, doc[m].tr>>
<1>1. Pbs(C) \subseteq Pbs(All) /\ Pbs(C) \subseteq C
  BY DEF Pbs
<1>2. f \in PageName
  BY Breaks
<1>3. Milestone(C, f[1], f[2]) = {}
  BY <1>1, Breaks DEF Milestone
<1>4. QED
  BY <1>2, <1>3 DEF Paginated

\* A leaf counts the breaks its parent holds.
LEMMA HoldsSome ==
  ASSUME Doc, NEW k \in All, doc[k].kind # "pb", NEW a \in Pbs(All), a < k, Holds(k, a)
  PROVE  doc[k].holds > 0
<1> DEFINE S == {p \in Pbs(All) : a <= p /\ p < k}
<1>1. S \subseteq All /\ a \in S
  <2>1. a \in Nat /\ \A p \in Pbs(All) : p \in All
    BY Breaks
  <2>2. a <= a /\ a < k
    BY <2>1
  <2>3. QED
    BY <2>1, <2>2
<1>2. Cardinality(S) \in Nat /\ Cardinality(S) >= 1
  BY <1>1, Counts
<1>3. doc[k].holds \in Nat
  BY Positions DEF Node
<1>4. Cardinality(S) <= doc[k].holds
  BY DEF Holds
<1>5. QED
  BY <1>2, <1>3, <1>4

\* The nodes of a page after its break are leaves.
LEMMA SpanLeaf ==
  ASSUME Doc, NEW m \in Pbs(All), NEW k \in Span(m), k # m
  PROVE  k \in All /\ k \in Nat /\ m < k /\ doc[k].kind # "pb" /\ k \notin Pbs(All)
<1>1. k \in All /\ m <= k /\ \A p \in Pbs(All) : m < p => k < p
  BY DEF Span
<1>2. k \in Nat /\ m \in Nat
  BY <1>1, Positions, Breaks
<1>3. m < k
  BY <1>1, <1>2
<1>4. k \notin Pbs(All)
  BY <1>1, <1>2, <1>3
<1>5. QED
  BY <1>1, <1>2, <1>3, <1>4 DEF Pbs

\* Of its page a file drops at most its own last leaf, from within an element that
\* contains the break.
LEMMA PageDrops ==
  ASSUME Doc, NEW C, C \subseteq All, NEW m \in Pbs(C), NEW k \in Span(m), k \in C, k \notin Excerpt(C, m, m)
  PROVE  /\ k = Max(C) /\ k \in All \ Pbs(All) /\ doc[k].holds > 0
         /\ \A q \in Pbs(C) : ~(m < q)
<1>1. m \in Pbs(All) /\ Pbs(C) \subseteq Pbs(All) /\ m \in C
  BY DEF Pbs
<1>2. m \in Nat
  BY <1>1, Breaks
<1>3. m <= k /\ \A p \in Pbs(C) : m < p => k < p
  BY <1>1 DEF Span
<1>4. /\ \A p \in Pbs(C) : ~(m < p)
      /\ k = Max(C) /\ k # m /\ ~(doc[k].kind # "pb" /\ ~Holds(k, m))
  BY <1>2, <1>3, ExcerptIs
<1>5. k \in All /\ m < k /\ doc[k].kind # "pb" /\ k \notin Pbs(All)
  BY <1>1, <1>4, SpanLeaf
<1>6. doc[k].holds > 0
  BY <1>1, <1>4, <1>5, HoldsSome
<1>7. QED
  BY <1>4, <1>5, <1>6

\* Of a page whose break it has a chunk lacks at most the last leaf of the document.
LEMMA ChunkDrops ==
  ASSUME Doc, NEW g \in Groups, NEW m \in Pbs(ChunkOf(g).nodes), NEW k \in Span(m), k \notin ChunkOf(g).nodes
  PROVE  k = Max(All) /\ k \in All \ Pbs(All) /\ doc[k].holds > 0
<1> DEFINE C == Excerpt(All, Min(g), Max(g))
<1>1. ChunkOf(g).nodes = C
  BY DEF ChunkOf
<1>2. g \subseteq Pbs(All) /\ Min(g) \in g /\ Max(g) \in g
  BY GroupIs
<1>3. Min(g) \in Pbs(All) /\ Min(g) \in Nat /\ Max(g) \in Nat
  BY <1>2, Breaks
<1>4. \A j : j \in C <=>
           /\ j \in All /\ Min(g) <= j
           /\ \A p \in Pbs(All) : Max(g) < p => j < p
           /\ (\A p \in Pbs(All) : ~(Max(g) < p)) /\ j = Max(All) /\ j # Min(g)
                => doc[j].kind # "pb" /\ ~Holds(j, Min(g))
  BY <1>3, ExcerptIs, Zenon
<1>5. m \in C /\ doc[m].kind = "pb"
  BY <1>1 DEF Pbs
<1> HIDE DEF C
<1>6. m \in All /\ m \in Pbs(All) /\ Min(g) <= m /\ \A p \in Pbs(All) : Max(g) < p => m < p
  BY <1>4, <1>5 DEF Pbs
<1>7. k # m
  BY <1>1, <1>5
<1>8. k \in All /\ k \in Nat /\ m < k /\ doc[k].kind # "pb" /\ k \notin Pbs(All)
  BY <1>6, <1>7, SpanLeaf
<1>9. Min(g) <= k /\ Min(g) < k
  BY <1>3, <1>6, <1>8, Positions
<1>10. \A p \in Pbs(All) : Max(g) < p => k < p
  BY <1>6 DEF Span
<1>11. k = Max(All) /\ Holds(k, Min(g))
  BY <1>1, <1>4, <1>8, <1>9, <1>10, Zenon
<1>12. doc[k].holds > 0
  BY <1>3, <1>8, <1>9, <1>11, HoldsSome
<1>13. QED
  BY <1>8, <1>11, <1>12

\* The rest of a page is on it.
LEMMA RestOnPage ==
  ASSUME Doc, NEW m \in Pbs(All), NEW k \in Span(m), NEW j \in Rest(k)
  PROVE  j \in Span(m) /\ k < j
<1>1. j \in All /\ k < j /\ Pbs(k..j) = {} /\ k \in All /\ m <= k /\ \A p \in Pbs(All) : m < p => k < p
  BY DEF Rest, Span
<1>2. j \in Nat /\ k \in Nat /\ m \in Nat
  BY <1>1, Positions, Breaks
<1>3. ASSUME NEW p \in Pbs(All), m < p
      PROVE  j < p
  <2>1. k < p /\ p \in Nat /\ doc[p].kind = "pb"
    BY <1>1, <1>3, Breaks
  <2>2. p \notin k..j
    BY <1>1, <2>1 DEF Pbs
  <2>3. QED
    BY <1>2, <2>1, <2>2
<1>4. QED
  BY <1>1, <1>2, <1>3 DEF Span

\* The last node of the document is the last of its page.
LEMMA NoRest ==
  ASSUME Doc, NEW k \in All, k = Max(All)
  PROVE  Rest(k) = {}
<1>1. \A j \in All : j <= k /\ j \in Nat /\ k \in Nat
  BY FirstAndLast, Positions
<1>2. QED
  BY <1>1 DEF Rest

\* A node that the two passes drop from the page of a chunk: the page is the last of
\* the chunk, the node is the last of the page or, if the first pass dropped the last
\* node of the document, the one before; and some page ends in an unsheltered leaf.
LEMMA Dropped ==
  ASSUME Doc, NEW g \in Groups, NEW m \in Pbs(ChunkOf(g).nodes), NEW k \in Span(m),
         k \notin Excerpt(ChunkOf(g).nodes, m, m)
  PROVE  /\ doc[k].holds > 0
         /\ \/ Rest(k) = {}
            \/ Rest(k) = {Max(All)} /\ doc[Max(All)].holds > 0
         /\ \A q \in Pbs(ChunkOf(g).nodes) : ~(m < q)
         /\ \E j \in All \ Pbs(All) : Unsheltered(j)
<1> DEFINE C == ChunkOf(g).nodes
<1>1. C \subseteq All
  BY ChunkConvex DEF Convex
<1>2. m \in Pbs(All) /\ Pbs(C) \subseteq Pbs(All) /\ m \in Nat /\ m \in C
  BY <1>1, Breaks DEF Pbs
<1> HIDE DEF C
<1>3. CASE k \notin C
  <2>1. k = Max(All) /\ k \in All \ Pbs(All) /\ doc[k].holds > 0
    BY <1>3, ChunkDrops DEF C
  <2>2. Rest(k) = {}
    BY <2>1, NoRest
  <2>3. ASSUME NEW q \in Pbs(C), m < q
        PROVE  FALSE
    <3>1. k < q /\ q \in All /\ q \in Nat
      BY <1>2, <2>3, Breaks DEF Span
    <3>2. q <= k /\ k \in Nat
      BY <2>1, <3>1, FirstAndLast, Positions
    <3>3. QED
      BY <3>1, <3>2
  <2>4. QED
    BY <2>1, <2>2, <2>3 DEF Unsheltered, C
<1>4. CASE k \in C
  <2>1. /\ k = Max(C) /\ k \in All \ Pbs(All) /\ doc[k].holds > 0
        /\ \A q \in Pbs(C) : ~(m < q)
    BY <1>1, <1>4, PageDrops DEF C
  <2>2. ASSUME NEW j \in Rest(k)
        PROVE  j = Max(All) /\ j \in All \ Pbs(All) /\ doc[j].holds > 0 /\ Rest(j) = {}
    <3>1. j \in Span(m) /\ k < j
      BY <1>2, RestOnPage
    <3>2. j \in Nat /\ k \in Nat
      BY <2>1, <3>1, Positions DEF Span
    <3>3. j \notin C
      <4>1. C # {} => \A y \in C : y <= Max(C)
        BY <1>1, FirstAndLast
      <4>2. QED
        BY <2>1, <3>1, <3>2, <4>1
    <3>4. QED
      BY <3>1, <3>3, ChunkDrops, NoRest DEF C
  <2>3. \E j \in All \ Pbs(All) : Unsheltered(j)
    <3>1. CASE Rest(k) = {}
      BY <2>1, <3>1 DEF Unsheltered
    <3>2. CASE Rest(k) # {}
      BY <2>2, <3>2 DEF Unsheltered
    <3>3. QED
      BY <3>1, <3>2
  <2>4. \/ Rest(k) = {}
        \/ Rest(k) = {Max(All)} /\ doc[Max(All)].holds > 0
    BY <2>2
  <2>5. QED
    BY <2>1, <2>3, <2>4 DEF C
<1>5. QED
  BY <1>3, <1>4

-----------------------------------------------------------------------------
(* The invariant of the two passes. *)

\* What a chunk makes of the pages depends on the document alone.
LEMMA SamePages ==
  ASSUME doc' = doc
  PROVE  /\ \A g : Paginated(ChunkOf(g).nodes)' = Paginated(ChunkOf(g).nodes)
         /\ \A g : Written(ChunkOf(g).nodes)' = Written(ChunkOf(g).nodes)
         /\ \A c, f : Milestone(c.nodes, f[1], f[2])' = Milestone(c.nodes, f[1], f[2])
<1>1. \A g : Paginated(ChunkOf(g).nodes)' = Paginated(ChunkOf(g).nodes)
  BY DEF All, ChunkOf, Paginated, Milestone, Pbs, Excerpt, Holds, HasText, HasContent
<1>2. \A g : Written(ChunkOf(g).nodes)' = Written(ChunkOf(g).nodes)
  BY <1>1 DEF Written
<1>3. \A c, f : Milestone(c.nodes, f[1], f[2])' = Milestone(c.nodes, f[1], f[2])
  BY DEF Milestone, Pbs
<1>4. QED
  BY <1>1, <1>2, <1>3

\* A chunk without text makes no page.
LEMMA TextlessMakesNone ==
  ASSUME NEW C, ~HasText(C)
  PROVE  Written(C) = {}
  BY DEF Written, Paginated

\* A file makes only pages whose break it has.
LEMMA WrittenHasBreak ==
  ASSUME Doc, NEW C, C \subseteq All, NEW f \in Written(C)
  PROVE  f \in PageName /\ \E m \in Pbs(C) : f = <<doc[m].surface, doc[m].tr>> /\ m \in Milestone(C, f[1], f[2])
<1>1. f \in PageName /\ Milestone(C, f[1], f[2]) # {}
  BY DEF Written, Paginated
<1>2. PICK m \in Milestone(C, f[1], f[2]) : TRUE
  BY <1>1
<1>3. m \in Pbs(C) /\ doc[m].surface = f[1] /\ doc[m].tr = f[2]
  BY <1>2 DEF Milestone
<1>4. f = <<f[1], f[2]>>
  BY <1>1 DEF PageName
<1>5. QED
  BY <1>1, <1>2, <1>3, <1>4

\* In a sequential document no two chunks have the break of one page.
LEMMA ChunksShareNoPage ==
  ASSUME Doc, Sequential, NEW g \in Groups, NEW h \in Groups, g # h,
         NEW f \in Written(ChunkOf(g).nodes)
  PROVE  Milestone(ChunkOf(h).nodes, f[1], f[2]) = {}
<1>1. ChunkOf(g).nodes \subseteq All /\ ChunkOf(h).nodes \subseteq All
  BY ChunkConvex DEF Convex
<1>2. PICK m \in Pbs(ChunkOf(g).nodes) : m \in Milestone(ChunkOf(g).nodes, f[1], f[2])
  BY <1>1, WrittenHasBreak, Zenon
<1>3. SUFFICES ASSUME NEW n \in Milestone(ChunkOf(h).nodes, f[1], f[2])
               PROVE  FALSE
  OBVIOUS
<1>4. /\ doc[m].surface = f[1] /\ doc[m].tr = f[2] /\ m \in Pbs(All)
      /\ doc[n].surface = f[1] /\ doc[n].tr = f[2] /\ n \in Pbs(All) /\ n \in Pbs(ChunkOf(h).nodes)
  BY <1>1, <1>2, <1>3 DEF Milestone, Pbs
<1>5. m = n
  BY <1>4, Breaks
<1>6. m \in g /\ m \in h
  BY <1>2, <1>4, <1>5, ChunkBreaks
<1>7. g \subseteq Pbs(All) /\ h \subseteq Pbs(All) /\ \A r \in Pbs(All) : r \in g <=> r \in h
  BY <1>6, GroupIs
<1>8. QED
  BY <1>7

\* Every step keeps the invariant.
LEMMA PagifyStep == Types /\ PagesInv /\ OnceInv /\ [Next]_vars => PagesInv' /\ OnceInv'
<1> SUFFICES ASSUME Types, PagesInv, OnceInv, [Next]_vars PROVE PagesInv' /\ OnceInv'
  OBVIOUS
<1>1. doc' = doc
  BY DEF Next, vars, CreatePages, TransformPages
<1>2. /\ Groups' = Groups /\ PageName' = PageName /\ (Sequential' <=> Sequential)
      /\ \A g : ChunkOf(g)' = ChunkOf(g)
      /\ \A g : Paginated(ChunkOf(g).nodes)' = Paginated(ChunkOf(g).nodes)
      /\ \A g : Written(ChunkOf(g).nodes)' = Written(ChunkOf(g).nodes)
      /\ \A c, f : Milestone(c.nodes, f[1], f[2])' = Milestone(c.nodes, f[1], f[2])
  BY <1>1, SameDoc, SamePages DEF PageName
<1>3. Doc /\ ChunksInv
  BY DEF Types
<1>4. CASE UNCHANGED vars
  BY <1>2, <1>4 DEF vars, PagesInv, OnceInv
<1>5. CASE CreatePages
  <2>1. pages' = pages /\ \A f \in PageName : pages[f] = {}
    BY <1>3, <1>5 DEF CreatePages, ChunksInv
  <2>2. ASSUME NEW g \in Groups, ChunkOf(g) \notin chunks'
        PROVE  Written(ChunkOf(g).nodes) = {}
    <3>1. ~HasText(All) \/ ~HasText(ChunkOf(g).nodes)
      BY <1>5, <2>2 DEF CreatePages
    <3>2. ChunkOf(g).nodes \subseteq All
      BY <1>3, ChunkConvex DEF Convex
    <3>3. ~HasText(ChunkOf(g).nodes)
      BY <3>1, <3>2 DEF HasText
    <3>4. QED
      BY <3>3, TextlessMakesNone
  <2>3. QED
    BY <1>2, <2>1, <2>2 DEF PagesInv, OnceInv
<1>6. ASSUME NEW c \in chunks, TransformPages(c)
      PROVE  PagesInv' /\ OnceInv'
  <2>1. PICK g \in Groups : c = ChunkOf(g)
    BY <1>3 DEF ChunksInv
  <2> DEFINE W == Written(ChunkOf(g).nodes)
  <2>2. /\ pages' = [f \in PageName |-> IF f \in W THEN Paginated(ChunkOf(g).nodes)[f] ELSE pages[f]]
        /\ chunks' = chunks \ {ChunkOf(g)} /\ pc = "transform" /\ pc' = pc
    BY <1>6, <2>1 DEF TransformPages
  <2>3. \A f \in PageName : f \in W => pages'[f] = Paginated(ChunkOf(g).nodes)[f] /\ pages'[f] # {}
    BY <2>2 DEF Written
  <2>4. \A f \in PageName : f \notin W => pages'[f] = pages[f]
    BY <2>2
  <2>5. \A h : Written(ChunkOf(h).nodes) \subseteq PageName
    BY DEF Written
  <2> HIDE DEF W
  <2>6. PagesInv'
    <3>1. \A f \in PageName : pages'[f] # {} => \E h \in Groups : pages'[f] = Paginated(ChunkOf(h).nodes)[f]
      BY <2>3, <2>4 DEF PagesInv
    <3>2. ASSUME NEW h \in Groups, ChunkOf(h) \notin chunks', NEW f \in Written(ChunkOf(h).nodes)
          PROVE  pages'[f] # {}
      <4>1. f \in PageName
        BY <2>5
      <4>2. CASE ChunkOf(h) = ChunkOf(g)
        BY <2>3, <3>2, <4>1, <4>2 DEF W
      <4>3. CASE ChunkOf(h) \notin chunks
        <5>1. pages[f] # {}
          BY <2>2, <3>2, <4>3 DEF PagesInv
        <5>2. QED
          BY <2>3, <2>4, <4>1, <5>1
      <4>4. QED
        BY <2>2, <3>2, <4>2, <4>3
    <3>3. QED
      BY <1>2, <3>1, <3>2 DEF PagesInv
  <2>7. OnceInv'
    <3>1. SUFFICES ASSUME Sequential, NEW d \in chunks', NEW f \in PageName, pages'[f] # {}
                   PROVE  Milestone(d.nodes, f[1], f[2]) = {}
      BY <1>2 DEF OnceInv
    <3>2. PICK h \in Groups : d = ChunkOf(h)
      BY <1>3, <2>2, <3>1 DEF ChunksInv
    <3>3. CASE f \in W
      <4>1. g # h
        BY <2>2, <3>1, <3>2
      <4>2. QED
        BY <1>3, <3>1, <3>2, <3>3, <4>1, ChunksShareNoPage DEF W
    <3>4. CASE f \notin W
      BY <2>2, <2>4, <3>1, <3>4 DEF OnceInv
    <3>5. QED
      BY <3>3, <3>4
  <2>8. QED
    BY <2>6, <2>7
<1>7. QED
  BY <1>4, <1>5, <1>6 DEF Next

\* The initial states satisfy it.
LEMMA PagifyStart == Init => PagesInv /\ OnceInv
  BY DEF Init, PagesInv, OnceInv

\* With the types, it holds throughout.
LEMMA PagifyHolds == Spec => [](Types /\ PagifyInv)
<1>1. Types => ChunksInv
  BY DEF Types
<1>2. QED
  BY <1>1, TypesHold, PagifyStart, PagifyStep, PTL DEF Spec, PagifyInv

\* In every reachable state the chunks are of groups, the pages of chunks, and of a
\* sequential document no page with a file is still to come.
THEOREM PagifyInvariant == Spec => []PagifyInv
  BY PagifyHolds, PTL

\* In a document whose translation follows its transcription no page file is written
\* twice: which chunk comes last does not matter.
THEOREM PagesOnce == Spec => WrittenOnce
<1>1. Types /\ PagifyInv /\ [Next]_vars =>
        [Sequential => \A f \in PageName : pages[f] # {} => pages'[f] = pages[f]]_vars
  <2>1. SUFFICES ASSUME Types, PagifyInv, Next, Sequential, NEW f \in PageName, pages[f] # {}
                 PROVE  pages'[f] = pages[f]
    BY DEF vars
  <2>2. ASSUME NEW c \in chunks, TransformPages(c)
        PROVE  pages'[f] = pages[f]
    <3>1. Milestone(c.nodes, f[1], f[2]) = {}
      BY <2>1 DEF PagifyInv, OnceInv
    <3>2. f \notin Written(c.nodes)
      BY <3>1 DEF Written, Paginated
    <3>3. QED
      BY <2>1, <2>2, <3>2 DEF TransformPages
  <2>3. QED
    BY <2>1, <2>2 DEF Next, CreatePages
<1>2. QED
  BY <1>1, PagifyHolds, PTL DEF Spec, WrittenOnce

-----------------------------------------------------------------------------
(* What is on the pages in the end. *)

\* What a convex file makes of a page is on it.
LEMMA ExcerptOnPage ==
  ASSUME Doc, NEW C, Convex(C), NEW m \in Pbs(C), NEW k \in Excerpt(C, m, m)
  PROVE  k \in Span(m)
<1>1. C \subseteq All /\ m \in Pbs(All) /\ m \in C
  BY DEF Convex, Pbs
<1>2. m \in Nat
  BY <1>1, Breaks
<1>3. k \in C /\ m <= k /\ \A p \in Pbs(C) : m < p => k < p
  BY <1>1, <1>2, ExcerptIs
<1>4. k \in All /\ k \in Nat
  BY <1>1, <1>3, Positions
<1>5. ASSUME NEW p \in Pbs(All), m < p
      PROVE  k < p
  <2>1. p \in All /\ p \in Nat /\ doc[p].kind = "pb"
    BY Breaks
  <2>2. SUFFICES ASSUME p <= k PROVE FALSE
    BY <1>4, <2>1
  <2>3. p = k \/ p < k
    BY <1>4, <2>1, <2>2
  <2>4. p \in C
    BY <1>1, <1>3, <1>5, <2>1, <2>3 DEF Convex
  <2>5. k < p
    BY <1>3, <1>5, <2>1, <2>4 DEF Pbs
  <2>6. QED
    BY <1>4, <2>1, <2>2, <2>5
<1>6. QED
  BY <1>3, <1>4, <1>5 DEF Span

\* The chunk of a break has it, if anything is on its page.
LEMMA BreakInChunk ==
  ASSUME Doc, NEW g \in Groups, NEW m \in g, NEW k \in Span(m), k # m
  PROVE  m \in Pbs(ChunkOf(g).nodes)
<1>1. /\ g \subseteq Pbs(All) /\ Min(g) \in g /\ Max(g) \in g
      /\ Min(g) <= m /\ m <= Max(g)
  BY GroupIs
<1>2. m \in Pbs(All) /\ m \in All /\ m \in Nat /\ doc[m].kind = "pb" /\ Min(g) \in Nat /\ Max(g) \in Nat
  BY <1>1, Breaks
<1>3. m < k /\ k \in All /\ k \in Nat
  BY <1>2, SpanLeaf
<1>4. k <= Max(All) /\ m # Max(All)
  BY <1>2, <1>3, FirstAndLast, Positions
<1>5. \A p \in Pbs(All) : Max(g) < p => m < p
  BY <1>1, <1>2, Breaks
<1>6. m \in Excerpt(All, Min(g), Max(g))
  BY <1>1, <1>2, <1>4, <1>5, ExcerptIs, Zenon
<1>7. QED
  BY <1>2, <1>6 DEF ChunkOf, Pbs

\* In the end, a page some chunk makes has its file, made of a chunk with its break.
LEMMA PageInTheEnd ==
  ASSUME Types, PagifyInv, Done, NEW m \in Pbs(All), NEW f, f = <<doc[m].surface, doc[m].tr>>
  PROVE  /\ f \in PageName
         /\ \A g \in Groups : Paginated(ChunkOf(g).nodes)[f] # {} => pages[f] # {}
         /\ pages[f] # {} => \E g \in Groups : /\ m \in Pbs(ChunkOf(g).nodes)
                                               /\ pages[f] = Paginated(ChunkOf(g).nodes)[f]
<1>1. Doc /\ f \in PageName
  BY Breaks DEF Types
<1>2. ASSUME NEW g \in Groups, Paginated(ChunkOf(g).nodes)[f] # {}
      PROVE  pages[f] # {}
  <2>1. f \in Written(ChunkOf(g).nodes)
    BY <1>1, <1>2 DEF Written
  <2>2. QED
    BY <2>1 DEF PagifyInv, PagesInv, Done
<1>3. ASSUME pages[f] # {}
      PROVE  \E g \in Groups : m \in Pbs(ChunkOf(g).nodes) /\ pages[f] = Paginated(ChunkOf(g).nodes)[f]
  <2>1. PICK g \in Groups : pages[f] = Paginated(ChunkOf(g).nodes)[f]
    BY <1>1, <1>3 DEF PagifyInv, PagesInv
  <2>2. ChunkOf(g).nodes \subseteq All
    BY <1>1, ChunkConvex DEF Convex
  <2>3. m \in ChunkOf(g).nodes
    BY <1>1, <1>3, <2>1, <2>2, NoPage
  <2>4. m \in Pbs(ChunkOf(g).nodes)
    BY <2>3 DEF Pbs
  <2>5. QED
    BY <2>1, <2>4
<1>4. QED
  BY <1>1, <1>2, <1>3

\* Text is lost only where its page is the last of a chunk, and there it is the last
\* leaf of the page or, at the end of the document, the one before it.
THEOREM OnlySeamsLose == Spec => []LostOnlyAtSeams
<1>1. Types /\ PagifyInv => LostOnlyAtSeams
  <2>1. SUFFICES ASSUME Types, PagifyInv, Done, NEW k \in Texts,
                        ~(/\ doc[k].holds > 0
                          /\ \/ Rest(k) = {}
                             \/ Rest(k) = {Max(All)} /\ doc[Max(All)].holds > 0
                          /\ \E g \in Groups : LastBreakOf(ChunkOf(g).nodes, BreakOf(k)))
                 PROVE  k \in pages[PageOf(k)]
    BY DEF LostOnlyAtSeams
  <2> DEFINE m == BreakOf(k)
             f == PageOf(k)
             S == {p \in Pbs(All) : p < k}
  <2>2. Doc /\ k \in All /\ k \in Nat /\ doc[k].kind = "text" /\ S # {} /\ S \subseteq All
    BY <2>1, Positions DEF Types, Texts, Pbs
  <2>3. m \in Pbs(All) /\ m < k /\ (\A p \in S : p <= m) /\ f = <<doc[m].surface, doc[m].tr>>
    BY <2>2, FirstAndLast DEF BreakOf, PageOf
  <2> HIDE DEF m, f
  <2>4. m \in Nat /\ \A p \in Pbs(All) : p \in Nat /\ p # k
    BY <2>2, <2>3, Breaks DEF Pbs
  <2>5. k \in Span(m) /\ k # m
    BY <2>2, <2>3, <2>4 DEF Span
  <2>6. ASSUME NEW g \in Groups, m \in Pbs(ChunkOf(g).nodes)
        PROVE  k \in Paginated(ChunkOf(g).nodes)[f]
    <3>1. ChunkOf(g).nodes \subseteq All
      BY <2>2, ChunkConvex DEF Convex
    <3>2. k \in Excerpt(ChunkOf(g).nodes, m, m)
      <4>1. SUFFICES ASSUME k \notin Excerpt(ChunkOf(g).nodes, m, m) PROVE FALSE
        OBVIOUS
      <4>2. /\ doc[k].holds > 0
            /\ \/ Rest(k) = {}
               \/ Rest(k) = {Max(All)} /\ doc[Max(All)].holds > 0
            /\ \A q \in Pbs(ChunkOf(g).nodes) : ~(m < q)
        BY <2>2, <2>5, <2>6, <4>1, Dropped
      <4>3. \A q \in Pbs(ChunkOf(g).nodes) : q \in Nat
        BY <2>4, <3>1 DEF Pbs
      <4>4. LastBreakOf(ChunkOf(g).nodes, m)
        BY <2>4, <2>6, <4>2, <4>3 DEF LastBreakOf, Pbs
      <4>5. QED
        BY <2>1, <4>2, <4>4 DEF m
    <3>3. HasText(Excerpt(ChunkOf(g).nodes, m, m))
      BY <2>2, <3>2 DEF HasText
    <3>4. QED
      BY <2>2, <2>3, <2>6, <3>1, <3>2, <3>3, PageFrom
  <2>7. PICK g \in Groups : m \in g
    BY <2>3, InGroup
  <2>8. m \in Pbs(ChunkOf(g).nodes)
    BY <2>2, <2>5, <2>7, BreakInChunk
  <2>9. Paginated(ChunkOf(g).nodes)[f] # {}
    BY <2>6, <2>8
  <2>10. pages[f] # {}
    BY <2>1, <2>3, <2>9, PageInTheEnd
  <2>11. PICK h \in Groups : m \in Pbs(ChunkOf(h).nodes) /\ pages[f] = Paginated(ChunkOf(h).nodes)[f]
    BY <2>1, <2>3, <2>10, PageInTheEnd
  <2>12. QED
    BY <2>6, <2>11 DEF f
<1>2. QED
  BY <1>1, PagifyHolds, PTL

\* Where no leaf that ends a page shares the element of its break, a chunk makes of a
\* page what the document would.
LEMMA SamePage ==
  ASSUME Doc, ~(\E k \in All \ Pbs(All) : Unsheltered(k)),
         NEW g \in Groups, NEW m \in Pbs(ChunkOf(g).nodes)
  PROVE  Paginated(ChunkOf(g).nodes)[<<doc[m].surface, doc[m].tr>>] = Paginated(All)[<<doc[m].surface, doc[m].tr>>]
<1> DEFINE C == ChunkOf(g).nodes
<1>1. Convex(C) /\ C \subseteq All /\ Convex(All)
  BY ChunkConvex DEF Convex
<1>2. m \in Pbs(C) /\ m \in Pbs(All)
  BY <1>1 DEF Pbs
<1>3. \A k \in Span(m) : k \in Excerpt(C, m, m)
  BY Dropped
<1>4. ASSUME NEW k \in Span(m)
      PROVE  k \in Excerpt(All, m, m)
  <2>1. SUFFICES ASSUME k \notin Excerpt(All, m, m) PROVE FALSE
    OBVIOUS
  <2>2. k \in All
    BY DEF Span
  <2>3. k = Max(All) /\ k \in All \ Pbs(All) /\ doc[k].holds > 0
    BY <1>2, <2>1, <2>2, PageDrops
  <2>4. QED
    BY <2>3, NoRest DEF Unsheltered
<1>5. Excerpt(C, m, m) = Span(m)
  BY <1>1, <1>2, <1>3, ExcerptOnPage
<1>6. Excerpt(All, m, m) = Span(m)
  BY <1>1, <1>2, <1>4, ExcerptOnPage
<1> HIDE DEF C
<1>7. QED
  BY <1>1, <1>2, <1>5, <1>6, PageFrom DEF C

\* Then the two passes together make the pages that one would make of the document.
THEOREM ChunksChangeNothing == Spec => []TwoPassesAreOne
<1>1. Types /\ PagifyInv => TwoPassesAreOne
  <2>1. SUFFICES ASSUME Types, PagifyInv, Done, ~(\E k \in All \ Pbs(All) : Unsheltered(k)), NEW f \in PageName
                 PROVE  pages[f] = Paginated(All)[f]
    <3>1. Paginated(All) \in [PageName -> SUBSET All]
      BY PaginatedType
    <3>2. QED
      BY <3>1 DEF TwoPassesAreOne, Types
  <2>2. Doc
    BY <2>1 DEF Types
  <2>3. CASE \E m \in Pbs(All) : f = <<doc[m].surface, doc[m].tr>>
    <3>1. PICK m \in Pbs(All) : f = <<doc[m].surface, doc[m].tr>>
      BY <2>3
    <3>2. pages[f] # {} => pages[f] = Paginated(All)[f]
      BY <2>1, <2>2, <3>1, PageInTheEnd, SamePage
    <3>3. ASSUME Paginated(All)[f] # {}
          PROVE  pages[f] # {}
      <4>1. Paginated(All)[f] = IF HasText(Excerpt(All, m, m)) THEN Excerpt(All, m, m) ELSE {}
        BY <2>2, <3>1, PageFrom
      <4>2. PICK k \in Excerpt(All, m, m) : doc[k].kind = "text"
        BY <3>3, <4>1 DEF HasText
      <4>3. k \in Span(m)
        BY <2>2, <4>2, ExcerptOnPage DEF Convex
      <4>4. k # m
        BY <2>2, <4>2, Breaks
      <4>5. PICK g \in Groups : m \in g
        BY InGroup
      <4>6. m \in Pbs(ChunkOf(g).nodes)
        BY <2>2, <4>3, <4>4, <4>5, BreakInChunk
      <4>7. Paginated(ChunkOf(g).nodes)[f] # {}
        BY <2>1, <2>2, <3>1, <3>3, <4>6, SamePage
      <4>8. QED
        BY <2>1, <3>1, <4>7, PageInTheEnd
    <3>4. QED
      BY <3>2, <3>3
  <2>4. CASE ~(\E m \in Pbs(All) : f = <<doc[m].surface, doc[m].tr>>)
    <3>1. \A C : C \subseteq All => Paginated(C)[f] = {}
      <4>1. ASSUME NEW C, C \subseteq All
            PROVE  Paginated(C)[f] = {}
        <5>1. f \notin Written(C)
          BY <2>2, <2>4, <4>1, WrittenHasBreak DEF Pbs
        <5>2. QED
          BY <5>1 DEF Written
      <4>2. QED
        BY <4>1
    <3>2. \A g \in Groups : ChunkOf(g).nodes \subseteq All
      BY <2>2, ChunkConvex DEF Convex
    <3>3. pages[f] = {}
      BY <2>1, <3>1, <3>2 DEF PagifyInv, PagesInv
    <3>4. QED
      BY <3>1, <3>3
  <2>5. QED
    BY <2>3, <2>4
<1>2. QED
  BY <1>1, PagifyHolds, PTL

=============================================================================
