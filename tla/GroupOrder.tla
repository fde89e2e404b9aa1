----------------------------- MODULE GroupOrder -----------------------------
(***************************************************************************)
(* The categories of LocalStore and the place of the uncategorized group   *)
(* among them, as functions from one arrangement to the next.              *)
(*                                                                         *)
(* A list of categories is a function from their ids to their `order`;     *)
(* LocalStore keeps it sorted by order, then id.  The uncategorized group  *)
(* is shown before the category whose index is uncategorizedPosition.      *)
(***************************************************************************)
EXTENDS Integers, Sequences, SequencesExt, FiniteSets

CONSTANT Category       \* ids, as numbers since they are compared

ASSUME CategoryAssumption == Category \subseteq Nat /\ IsFiniteSet(Category)

IsOrder(o) == DOMAIN o \subseteq Category /\ o \in [DOMAIN o -> Nat]

Count(o) == Cardinality(DOMAIN o)

\* categorySort
Precedes(o, c, d) == o[c] < o[d] \/ (o[c] = o[d] /\ c < d)

Before(o, c) == {d \in DOMAIN o : Precedes(o, d, c)}

\* The index of c in sortedCategories.
IndexOf(o, c) == Cardinality(Before(o, c))

\* sortedCategories
Sorted(o) == [i \in 1..Count(o) |-> CHOOSE c \in DOMAIN o : IndexOf(o, c) = i - 1]

\* normalizeCategoryOrder
Normalized(o) == [c \in DOMAIN o |-> IndexOf(o, c)]

\* clampUncategorizedPosition
Clamped(p, o) == IF p < 0 THEN 0 ELSE IF p > Count(o) THEN Count(o) ELSE p

AddedBelowTop(o, c) == [d \in DOMAIN o \cup {c} |-> IF d = c THEN -1 ELSE o[d]]

\* addCategory
Added(o, c) == [d \in DOMAIN o \cup {c} |-> IF d = c THEN 0 ELSE o[d] + 1]

Without(o, c) == [d \in DOMAIN o \ {c} |-> o[d]]

PlaceAfterDeletingAtPlace(o, p, c) ==
    Clamped(IF IndexOf(o, c) <= p THEN p - 1 ELSE p, Without(o, c))

\* deleteCategory: the place moves up with what follows the deleted category.
PlaceAfterDeleting(o, p, c) ==
    Clamped(IF IndexOf(o, c) < p THEN p - 1 ELSE p, Without(o, c))

\* migrateIfNeeded: defaults for an empty list, orders where there are none.
Migrated(o, default) ==
    IF DOMAIN o = {} THEN default
    ELSE IF Count(o) > 1 /\ \A c \in DOMAIN o : o[c] = 0 THEN Normalized(o)
    ELSE o

-----------------------------------------------------------------------------
(* Dragging a group of the category view.                                  *)

\* The groups from top to bottom.
Groups(o, p, uncategorized) == InsertAt(Sorted(o), Clamped(p, o) + 1, uncategorized)

At(groups, g) == CHOOSE i \in DOMAIN groups : groups[i] = g

\* Group g dropped before group h, or at the end.
Dragged(groups, g, h) ==
    LET rest == RemoveAt(groups, At(groups, g))
    IN  IF Contains(rest, h) THEN InsertAt(rest, At(rest, h), g) ELSE Append(rest, g)

\* reorderCategories, given all of them: the order of a category is the number
\* of categories above it.
Reordered(groups, uncategorized) ==
    [c \in ToSet(groups) \ {uncategorized} |->
        Cardinality({i \in 1..At(groups, c) - 1 : groups[i] # uncategorized})]

=============================================================================
