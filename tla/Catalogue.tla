----------------------------- MODULE Catalogue -----------------------------
(***************************************************************************)
(* What readers of the output bucket are promised about one item: complete *)
(* copies appear at a location, a superseded copy is retired only while    *)
(* another one stands, and copies go without a replacement only while the  *)
(* item is being withdrawn (handler.py 188: "to avoid a window with        *)
(* neither").  How long either location holds a copy, and how often the    *)
(* copies are rewritten, is left to the implementation.                    *)
(***************************************************************************)
CONSTANT Locations   \* the released and the unreleased layout

VARIABLES
  copies,      \* locations that hold a complete copy
  withdrawing  \* the item's source was deleted and its outputs are going

TypeOK == copies \in SUBSET Locations /\ withdrawing \in BOOLEAN

Init == copies = {} /\ withdrawing = FALSE

Appear ==
  /\ \E l \in Locations \ copies : copies' = copies \cup {l}
  /\ UNCHANGED withdrawing

Retire ==
  /\ \E l, other \in copies : l # other /\ copies' = copies \ {l}
  /\ UNCHANGED withdrawing

Withdraw ==
  /\ withdrawing
  /\ \E l \in copies : copies' = copies \ {l}
  /\ UNCHANGED withdrawing

Toggle ==
  /\ withdrawing' = ~withdrawing
  /\ UNCHANGED copies

Next == Appear \/ Retire \/ Withdraw \/ Toggle

Spec == Init /\ [][Next]_<<copies, withdrawing>>
=============================================================================
