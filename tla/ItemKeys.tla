------------------------------ MODULE ItemKeys ------------------------------
(***************************************************************************)
(* The names of the items' outputs: the keys the code derives from the     *)
(* path of a TEI file, the globs it lists and deletes by, and the moves of *)
(* partition_unreleased.py, which go by names too.                         *)
(*                                                                         *)
(* An item is the TEI file items/<dir>/<stem>.xml.  A name is the sequence *)
(* of its parts between hyphens and a directory the sequence of its        *)
(* segments, so that one name may extend another and one directory hold    *)
(* another.  The extension of a file is part of its kind.                  *)
(***************************************************************************)
EXTENDS Naturals, Sequences, SequencesExt

CONSTANTS
  Items,      \* TEI files
  Parts,      \* what stands between the hyphens of a name
  DirOf,      \* [Items -> the directory below items/]
  StemOf,     \* [Items -> the file name without .xml]
  Versions,   \* contents a TEI file takes over time
  Unreleased, \* versions whose core-xml says itemReleased=false
  Pages,      \* what follows the stem in the name of a page
  PagesOf,    \* [Versions -> the pages made of it]
  Flat,       \* kinds with one directory for all items: the three JSON outputs
  Tree,       \* single-file kinds in the item's directory: core-xml, items
  Paged,      \* kinds with a file per page: html, page-xml
  Partition,  \* ENABLE_UNRELEASED_PARTITION
  None        \* no object, no version

Name == Seq(Parts)

ASSUME NamesAssumption ==
  /\ StemOf \in [Items -> Name] /\ DirOf \in [Items -> Seq(Name)]
  /\ Pages \subseteq Name \ {<<>>}
  /\ PagesOf \in [Versions -> SUBSET Pages]
  /\ Unreleased \subseteq Versions
  /\ Flat \cap Tree = {} /\ Flat \cap Paged = {} /\ Tree \cap Paged = {}
  /\ Partition \in BOOLEAN
  /\ None \notin Items \X Versions /\ None \notin Items /\ None \notin Versions

Locations == {"released", "unreleased"}

Opposite(l) == IF l = "unreleased" THEN "released" ELSE "unreleased"

-----------------------------------------------------------------------------
(* Keys. *)

File(l, f, d, n) == [loc |-> l, kind |-> f, dir |-> d, name |-> n]

\* direct_keys of _delete_item_location.
DirectKeys(x, l) ==
  {File(l, f, <<>>, StemOf[x]) : f \in Flat} \cup {File(l, f, DirOf[x], StemOf[x]) : f \in Tree}

\* The pages of P: the build names a page <stem>-<page>.
PageKeys(x, l, P) ==
  {File(l, f, DirOf[x], StemOf[x] \o p) : f \in Paged, p \in P}

OwnKeys(x) == UNION {DirectKeys(x, l) \cup PageKeys(x, l, Pages) : l \in Locations}

Key == UNION {OwnKeys(x) : x \in Items}

\* Fault (a run must notice it): the listing is not limited to the directory.
GlobbedAnywhere(x, k) ==
  /\ k.kind \in Paged
  /\ IsStrictPrefix(StemOf[x], k.name)

\* Listed by the prefix <kind>/<dir>/, which descends into subdirectories, and
\* with a base name that matches <stem>-*.
Globbed(x, k) ==
  /\ k.kind \in Paged
  /\ IsPrefix(DirOf[x], k.dir)
  /\ IsStrictPrefix(StemOf[x], k.name)

\* All that delete_outputs and delete_superseded_outputs reach at a location.
Reach(x, l) == DirectKeys(x, l) \cup {k \in Key : k.loc = l /\ Globbed(x, k)}

-----------------------------------------------------------------------------
(* What a build of some items leaves in dist/. *)

\* Fault: everything is moved by the name of its file.
MovedByName(x, k) == IsPrefix(StemOf[x], k.name)

\* Fault: the directories stay.
MovedFilesOnly(x, k) == k.kind \in Flat /\ k.name = StemOf[x]

\* The partition moves k for the sake of the unreleased item x: move_flat by the
\* name of the file, move_nested with a directory on its path.
MovedFor(x, k) ==
  IF k.kind \in Flat THEN k.name = StemOf[x] ELSE StemOf[x] \in ToSet(k.dir)

MadeOf(x, v) == DirectKeys(x, "released") \cup PageKeys(x, "released", PagesOf[v])

\* The objects of a build of the items of DOMAIN at, item x at version at[x]:
\* pairs of a key and the item and version it was made from.
Outputs(at) ==
  LET drafts == {x \in DOMAIN at : Partition /\ at[x] \in Unreleased}
      Placed(k) == IF \E x \in drafts : MovedFor(x, k)
                     THEN [k EXCEPT !.loc = "unreleased"] ELSE k
  IN  UNION {{<<Placed(k), <<x, at[x]>>>> : k \in MadeOf(x, at[x])} : x \in DOMAIN at}

Content == (Items \X Versions) \cup {None}

\* The same as contents of dist/, over what it holds already.
Copied(over, at) ==
  [k \in Key |->
     IF \E c \in Items \X Versions : <<k, c>> \in Outputs(at)
       THEN CHOOSE c \in Items \X Versions : <<k, c>> \in Outputs(at)
       ELSE over[k]]

Empty == [k \in Key |-> None]

-----------------------------------------------------------------------------
(* What ought to be there, and the names for which it is. *)

LocationOf(v) == IF Partition /\ v \in Unreleased THEN "unreleased" ELSE "released"

ImageOf(x, v) ==
  DirectKeys(x, LocationOf(v)) \cup PageKeys(x, LocationOf(v), PagesOf[v])

\* No key of one item is a key of another, nor reached by its globs.
KeysApart ==
  \A x, y \in Items : x # y =>
    \A k \in OwnKeys(y) : k \notin OwnKeys(x) /\ ~Globbed(x, k)

\* A directory on the path of an item is called like the stem of that item, and
\* like that of no other.
DirsApart ==
  \A x, y \in Items : StemOf[x] \in ToSet(DirOf[y]) <=> x = y

\* The layout of the repository's examples: items/data/tei/<stem>/<stem>.xml.
OwnDirectories(root) ==
  /\ \A x \in Items : DirOf[x] = Append(root, StemOf[x]) /\ StemOf[x] \notin ToSet(root)
  /\ \A x, y \in Items : StemOf[x] = StemOf[y] => x = y
=============================================================================
