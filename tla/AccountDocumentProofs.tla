----------------------- MODULE AccountDocumentProofs -----------------------
(***************************************************************************)
(* For any devices and any categories: the place of the uncategorized      *)
(* group stays within bounds, and adding or deleting a category leaves the *)
(* other groups in their order.                                            *)
(***************************************************************************)
EXTENDS AccountDocument, GroupOrderProofs

Inv == TypeOK /\ PlaceInBounds

-----------------------------------------------------------------------------
(* What the actions put together.                                          *)

\* The default categories are numbered without gaps.
LEMMA DefaultOrderType == IsOrder(DefaultOrder)
<1>1. DOMAIN DefaultOrder = ToSet(Default) /\ ToSet(Default) \subseteq Category
  BY DefaultAssumption DEF DefaultOrder, ToSet
<1>2. ASSUME NEW c \in ToSet(Default) PROVE DefaultOrder[c] \in Nat
  <2>1. Contains(Default, c)
    BY DefaultAssumption DEF ToSet, Contains
  <2>2. At(Default, c) \in 1..Len(Default)
    BY <2>1, DefaultAssumption, AtType
  <2>3. Len(Default) \in Nat
    BY DefaultAssumption, LenProperties
  <2> QED
    BY <1>2, <2>2, <2>3 DEF DefaultOrder
<1> QED
  BY <1>1, <1>2 DEF IsOrder, DefaultOrder

\* Filling in the orders of an unordered list answers orders.
LEMMA MigratedType ==
    ASSUME NEW o, IsOrder(o)
    PROVE  IsOrder(Migrated(o, DefaultOrder))
  BY DefaultOrderType, NormalizedKeeps DEF Migrated

\* So does laying reported orders over those at hand.
LEMMA OverType ==
    ASSUME NEW o, IsOrder(o), NEW r, IsOrder(r)
    PROVE  IsOrder(Over(o, r))
  BY DEF IsOrder, Over

\* The writes the sink of the place spawns, if any.
LEMMA PlacePublishedType ==
    ASSUME NEW d \in Device, NEW p \in Nat
    PROVE  PlacePublished(d, p) \in Seq(Write)
<1>1. [op |-> "place", place |-> p] \in Write
  BY DEF Write
<1> QED
  BY <1>1 DEF PlacePublished

\* The writes the sink of the preference spawns, if any.
LEMMA PrefPublishedType ==
    ASSUME NEW d \in Device, NEW q \in Pref
    PROVE  PrefPublished(d, q) \in Seq(Write)
<1>1. [op |-> "pref", pref |-> q] \in Write
  BY DEF Write
<1> QED
  BY <1>1 DEF PrefPublished

\* Spawning writes keeps the outboxes well typed.
LEMMA SpawnedType ==
    ASSUME TypeOK, NEW d \in Device, NEW writes \in Seq(Write), Spawned(d, writes)
    PROVE  outbox' \in [Device -> Seq(Write)]
  BY DEF TypeOK, Spawned

-----------------------------------------------------------------------------
(* The user.                                                               *)

\* An arrangement whose place is in its bounds keeps the invariant.
LEMMA ArrangedInv ==
    ASSUME Inv, NEW d \in Device, NEW o, IsOrder(o), NEW p \in 0..Count(o),
           NEW writes \in Seq(Write), Arranged(d, o, p, writes)
    PROVE  /\ Inv'
           /\ order'[d] = o /\ place'[d] = p
<1> USE DEF told, remote
<1>1. p \in Nat
  BY OrderFinite
<1>2. PlacePublished(d, p) \o writes \in Seq(Write)
  BY <1>1, PlacePublishedType
<1>3. outbox' \in [Device -> Seq(Write)]
  BY <1>2, SpawnedType DEF Arranged, Inv
<1>4. edits' \in 0..MaxEdits
  BY BoundAssumption DEF Arranged, Edited, Inv, TypeOK
<1>5. order' = [order EXCEPT ![d] = o] /\ place' = [place EXCEPT ![d] = p]
  BY DEF Arranged
<1>6. /\ DOMAIN order' = Device /\ order'[d] = o /\ place'[d] = p
      /\ \A e \in Device : IsOrder(order'[e]) /\ place'[e] \in 0..Count(order'[e])
      /\ place' \in [Device -> Nat]
  BY <1>1, <1>5 DEF Inv, TypeOK, PlaceInBounds
<1>7. TypeOK'
  BY <1>3, <1>4, <1>6 DEF Arranged, Inv, TypeOK
<1> QED
  BY <1>6, <1>7 DEF Inv, PlaceInBounds

\* What the category actions make of order and place.
LEMMA AddInv ==
    ASSUME Inv, NEW d \in Device, NEW c \in Category, AddCategory(d, c)
    PROVE  /\ Inv'
           /\ c \notin DOMAIN order[d] /\ order'[d] = Added(order[d], c)
           /\ place'[d] = place[d] + 1
<1> DEFINE o == Added(order[d], c)
<1> DEFINE p == Clamped(place[d] + 1, o)
<1>1. IsOrder(order[d]) /\ c \notin DOMAIN order[d] /\ place[d] \in 0..Count(order[d])
  BY DEF Inv, TypeOK, PlaceInBounds, AddCategory
<1>2. IsOrder(o) /\ Count(o) = Count(order[d]) + 1
  BY <1>1, AddedKeeps
<1>3. place[d] + 1 \in 0..Count(o)
  BY <1>1, <1>2, OrderFinite
<1>4. p = place[d] + 1 /\ p \in 0..Count(o)
  BY <1>2, <1>3, ClampedType
<1>5. <<[op |-> "all"]>> \in Seq(Write)
  BY DEF Write
<1>6. Arranged(d, o, p, <<[op |-> "all"]>>)
  BY DEF AddCategory
<1> HIDE DEF o, p
<1>7. Inv' /\ order'[d] = o /\ place'[d] = p
  BY <1>2, <1>4, <1>5, <1>6, ArrangedInv
<1> QED
  BY <1>1, <1>4, <1>7 DEF o

\* deleteCategory moves the place with the groups, so it stays in bounds.
LEMMA DeleteInv ==
    ASSUME Inv, NEW d \in Device, NEW c \in Category, DeleteCategory(d, c)
    PROVE  /\ Inv'
           /\ c \in DOMAIN order[d] /\ order'[d] = Normalized(Without(order[d], c))
           /\ place'[d] = PlaceAfterDeleting(order[d], place[d], c)
<1> DEFINE o == Normalized(Without(order[d], c))
<1> DEFINE p == PlaceAfterDeleting(order[d], place[d], c)
<1>1. IsOrder(order[d]) /\ c \in DOMAIN order[d] /\ place[d] \in Nat
  BY DEF Inv, TypeOK, DeleteCategory
<1>2. IsOrder(Without(order[d], c))
  BY <1>1, WithoutKeeps
<1>3. IsOrder(o) /\ Count(o) = Count(Without(order[d], c))
  BY <1>2, NormalizedKeeps
<1>4. place[d] - 1 \in Int /\ place[d] \in Int
  BY <1>1
<1>5. p \in 0..Count(o)
  BY <1>2, <1>3, <1>4, ClampedType DEF PlaceAfterDeleting
<1> DEFINE w == <<[op |-> "delete", id |-> c]>>
<1>6. w \in Seq(Write)
  BY DEF Write
<1>7. Arranged(d, o, p, w)
  BY DEF DeleteCategory
<1> HIDE DEF o, p, w
<1>8. Inv' /\ order'[d] = o /\ place'[d] = p
  BY <1>3, <1>5, <1>6, <1>7, ArrangedInv
<1> QED
  BY <1>1, <1>8 DEF o, p

\* updateCategory changes neither orders nor place.
LEMMA UpdateInv ==
    ASSUME Inv, NEW d \in Device, NEW c \in Category, UpdateCategory(d, c)
    PROVE  Inv'
<1> DEFINE w == <<[op |-> "category", id |-> c, order |-> order[d][c]]>>
<1>1. IsOrder(order[d]) /\ c \in DOMAIN order[d] /\ place[d] \in 0..Count(order[d])
  BY DEF Inv, TypeOK, PlaceInBounds, UpdateCategory
<1>2. order[d][c] \in Nat
  BY <1>1 DEF IsOrder
<1>3. w \in Seq(Write)
  BY <1>2 DEF Write
<1>4. Arranged(d, order[d], place[d], w)
  BY DEF UpdateCategory
<1> HIDE DEF w
<1> QED
  BY <1>1, <1>3, <1>4, ArrangedInv

\* reorderTodoGroups clamps the place it reads off the dragged groups.
LEMMA DragInv ==
    ASSUME Inv, NEW d \in Device, NEW g \in Category \cup {Uncategorized}, NEW h,
           DragGroup(d, g, h)
    PROVE  Inv'
<1> DEFINE S == DOMAIN order[d] \cup {Uncategorized}
<1> DEFINE before == Groups(order[d], place[d], Uncategorized)
<1> DEFINE groups == Dragged(before, g, h)
<1> DEFINE o == Reordered(groups, Uncategorized)
<1> DEFINE p == Clamped(At(groups, Uncategorized) - 1, o)
<1>1. IsOrder(order[d]) /\ place[d] \in Int /\ g \in S
  BY DEF Inv, TypeOK, DragGroup
<1>2. before \in Seq(S) /\ Contains(before, g) /\ Contains(before, Uncategorized)
  BY <1>1, GroupsType
<1> HIDE DEF before
<1>3. groups \in Seq(S) /\ Contains(groups, Uncategorized)
  BY <1>1, <1>2, DraggedType
<1> HIDE DEF groups
<1>4. IsOrder(o)
  BY <1>1, <1>3, ReorderedType DEF IsOrder
<1>5. At(groups, Uncategorized) - 1 \in Int
  BY <1>3, AtType
<1>6. p \in 0..Count(o)
  BY <1>4, <1>5, ClampedType
<1>7. <<[op |-> "all"]>> \in Seq(Write)
  BY DEF Write
<1>8. Arranged(d, o, p, <<[op |-> "all"]>>)
  BY DEF DragGroup, groups, before
<1> HIDE DEF o, p
<1> QED
  BY <1>4, <1>6, <1>7, <1>8, ArrangedInv

\* Setting the preference touches no category.
LEMMA ChooseInv ==
    ASSUME Inv, NEW d \in Device, Choose(d)
    PROVE  Inv'
<1> USE DEF told, remote
<1> DEFINE q == [on |-> ~pref[d].on, at |-> newest.at + 1]
<1>1. q \in Pref
  BY DEF Inv, TypeOK, Pref
<1>2. pref' = [pref EXCEPT ![d] = q] /\ newest' = q /\ Spawned(d, PrefPublished(d, q))
  BY DEF Choose
<1> HIDE DEF q
<1>3. PrefPublished(d, q) \in Seq(Write)
  BY <1>1, PrefPublishedType
<1>4. outbox' \in [Device -> Seq(Write)]
  BY <1>2, <1>3, SpawnedType DEF Inv
<1>5. edits' \in 0..MaxEdits
  BY BoundAssumption DEF Choose, Edited, Inv, TypeOK
<1> QED
  BY <1>1, <1>2, <1>4, <1>5 DEF Choose, Inv, TypeOK, PlaceInBounds

-----------------------------------------------------------------------------
(* Writes and reports.                                                     *)

\* A report joins the inbox of its device.
LEMMA ReportedType ==
    ASSUME TypeOK, NEW d \in Device, NEW new \in Doc, Reported(d, new)
    PROVE  seen' \in [Device -> Doc] /\ inbox' \in [Device -> Seq(Doc)]
<1>1. CASE new = seen[d]
  BY <1>1 DEF TypeOK, Reported
<1>2. CASE new # seen[d]
  <2>1. Append(inbox[d], new) \in Seq(Doc)
    BY DEF TypeOK
  <2> QED
    BY <1>2, <2>1 DEF TypeOK, Reported
<1> QED
  BY <1>1, <1>2

\* A write changes the account, and at most tells its own device.
LEMMA RunWriteInv ==
    ASSUME Inv, NEW d \in Device, RunWrite(d)
    PROVE  Inv'
<1> USE DEF device
<1> DEFINE Rest == UNCHANGED <<order, place, pref, newest, edits>>
<1>1. PICK n \in DOMAIN outbox[d] :
        /\ LET w == outbox[d][n]
           IN  \/ w.op = "all" /\ CategoriesWritten(Over(order[d], server), FALSE)
               \/ w.op = "category"
                    /\ CategoriesWritten(Over([c \in {w.id} |-> w.order], server), TRUE)
               \/ w.op = "delete" /\ CategoriesWritten(Without(server, w.id), FALSE)
               \/ w.op = "place" /\ DocWritten(d, [doc EXCEPT !.place = w.place])
               \/ w.op = "pref" /\ DocWritten(d, [doc EXCEPT !.pref = w.pref])
        /\ outbox' = [outbox EXCEPT ![d] = RemoveAt(@, n)]
        /\ Rest
  BY DEF RunWrite
<1> DEFINE w == outbox[d][n]
<1>2. outbox[d] \in Seq(Write) /\ n \in 1..Len(outbox[d]) /\ w \in Write
  BY DEF Inv, TypeOK
<1>3. outbox' \in [Device -> Seq(Write)]
  <2>1. RemoveAt(outbox[d], n) \in Seq(Write)
    BY <1>2, RemovedAt
  <2> QED
    BY <1>1, <2>1 DEF Inv, TypeOK
<1>4. IsOrder(server) /\ IsOrder(order[d]) /\ doc \in Doc
  BY DEF Inv, TypeOK
<1>5. ASSUME NEW o, IsOrder(o), NEW changed \in BOOLEAN, CategoriesWritten(o, changed)
      PROVE  Inv'
  <2>1. unread' \in [Device -> BOOLEAN] /\ IsOrder(server')
    BY <1>5 DEF CategoriesWritten, Inv, TypeOK
  <2> QED
    BY <1>1, <1>3, <1>5, <2>1 DEF CategoriesWritten, Inv, TypeOK, PlaceInBounds
<1>6. ASSUME NEW new \in Doc, DocWritten(d, new)
      PROVE  Inv'
  <2>1. seen' \in [Device -> Doc] /\ inbox' \in [Device -> Seq(Doc)]
    BY <1>6, ReportedType DEF DocWritten, Inv
  <2> QED
    BY <1>1, <1>3, <1>6, <2>1 DEF DocWritten, Inv, TypeOK, PlaceInBounds
<1>7. CASE w.op = "all" /\ CategoriesWritten(Over(order[d], server), FALSE)
  BY <1>4, <1>5, <1>7, OverType
<1>8. CASE /\ w.op = "category"
           /\ CategoriesWritten(Over([c \in {w.id} |-> w.order], server), TRUE)
  <2>1. w.id \in Category /\ w.order \in Nat
    BY <1>2, <1>8 DEF Write
  <2>2. IsOrder([c \in {w.id} |-> w.order])
    BY <2>1 DEF IsOrder
  <2>3. IsOrder(Over([c \in {w.id} |-> w.order], server))
    BY <1>4, <2>2, OverType
  <2> QED
    BY <1>5, <1>8, <2>3
<1>9. CASE w.op = "delete" /\ CategoriesWritten(Without(server, w.id), FALSE)
  <2>1. IsOrder(Without(server, w.id))
    BY <1>4 DEF IsOrder, Without
  <2> QED
    BY <1>5, <1>9, <2>1
<1>10. CASE w.op = "place" /\ DocWritten(d, [doc EXCEPT !.place = w.place])
  <2>1. w.place \in Nat
    BY <1>2, <1>10 DEF Write
  <2>2. [doc EXCEPT !.place = w.place] \in Doc
    BY <1>4, <2>1 DEF Doc
  <2> QED
    BY <1>6, <1>10, <2>2
<1>11. CASE w.op = "pref" /\ DocWritten(d, [doc EXCEPT !.pref = w.pref])
  <2>1. w.pref \in Pref
    BY <1>2, <1>11 DEF Write
  <2>2. [doc EXCEPT !.pref = w.pref] \in Doc
    BY <1>4, <2>1 DEF Doc
  <2> QED
    BY <1>6, <1>11, <2>2
<1> QED
  BY <1>1, <1>7, <1>8, <1>9, <1>10, <1>11

\* A report of the categories clamps the place to those it leaves.
LEMMA CategoriesInv ==
    ASSUME Inv, NEW d \in Device, ApplyRemoteCategories(d)
    PROVE  Inv'
<1> USE DEF remote
<1> DEFINE o == Migrated(server, DefaultOrder)
<1> DEFINE p == Clamped(place[d], o)
<1>1. IsOrder(server) /\ place[d] \in Int
  BY DEF Inv, TypeOK
<1>2. IsOrder(o)
  BY <1>1, MigratedType
<1>3. p \in 0..Count(o) /\ p \in Nat
  BY <1>1, <1>2, ClampedType, OrderFinite
<1>4. /\ order' = [order EXCEPT ![d] = o] /\ place' = [place EXCEPT ![d] = p]
      /\ Spawned(d, PlacePublished(d, p))
  BY DEF ApplyRemoteCategories
<1> HIDE DEF o, p
<1>5. PlacePublished(d, p) \in Seq(Write)
  BY <1>3, PlacePublishedType
<1>6. outbox' \in [Device -> Seq(Write)]
  BY <1>4, <1>5, SpawnedType DEF Inv
<1>7. /\ DOMAIN order' = Device
      /\ \A e \in Device : IsOrder(order'[e]) /\ place'[e] \in 0..Count(order'[e])
      /\ place' \in [Device -> Nat]
  BY <1>2, <1>3, <1>4 DEF Inv, TypeOK, PlaceInBounds
<1>8. unread' \in [Device -> BOOLEAN]
  BY DEF ApplyRemoteCategories, Inv, TypeOK
<1> QED
  BY <1>6, <1>7, <1>8 DEF ApplyRemoteCategories, Inv, TypeOK, PlaceInBounds

\* A report of the user document waits in the inbox.
LEMMA DocReportedInv ==
    ASSUME Inv, NEW d \in Device, DocReported(d)
    PROVE  Inv'
<1> USE DEF device, remote
<1>1. doc \in Doc
  BY DEF Inv, TypeOK
<1>2. seen' \in [Device -> Doc] /\ inbox' \in [Device -> Seq(Doc)]
  BY <1>1, ReportedType DEF DocReported, Inv
<1> QED
  BY <1>2 DEF DocReported, Inv, TypeOK, PlaceInBounds

\* A reported place is clamped to the categories at hand.
LEMMA DocHandledInv ==
    ASSUME Inv, NEW d \in Device, DocHandled(d)
    PROVE  Inv'
<1> USE DEF remote
<1> DEFINE reported == Head(inbox[d])
<1> DEFINE r == Reconciled(pref[d], reported.pref)
<1> DEFINE p == PlaceAfterReport(d, reported.place)
<1> DEFINE w == IF r.push THEN <<[op |-> "pref", pref |-> r.pref]>> ELSE <<>>
<1>1. inbox[d] \in Seq(Doc) /\ inbox[d] # <<>> /\ pref[d] \in Pref
  BY DEF DocHandled, Inv, TypeOK
<1>2. reported \in Doc /\ Tail(inbox[d]) \in Seq(Doc)
  BY <1>1
<1>3. /\ place' = [place EXCEPT ![d] = p] /\ pref' = [pref EXCEPT ![d] = r.pref]
      /\ Spawned(d, w) /\ inbox' = [inbox EXCEPT ![d] = Tail(@)]
  BY DEF DocHandled
<1> HIDE DEF reported
<1>4. r.pref \in Pref
  BY <1>1, <1>2 DEF Reconciled, Doc
<1>5. p \in 0..Count(order[d])
  <2>1. place[d] \in 0..Count(order[d]) /\ IsOrder(order[d])
    BY DEF Inv, TypeOK, PlaceInBounds
  <2>2. reported.place # NoPlace => reported.place \in Int
    BY <1>2 DEF Doc
  <2> QED
    BY <2>1, <2>2, ClampedType DEF PlaceAfterReport
<1> HIDE DEF r, p
<1>6. w \in Seq(Write)
  <2>1. [op |-> "pref", pref |-> r.pref] \in Write
    BY <1>4 DEF Write
  <2> QED
    BY <2>1
<1> HIDE DEF w
<1>7. outbox' \in [Device -> Seq(Write)]
  BY <1>3, <1>6, SpawnedType DEF Inv
<1>8. IsOrder(order[d]) /\ Count(order[d]) \in Nat
  BY OrderFinite DEF Inv, TypeOK
<1>9. place' \in [Device -> Nat] /\ pref' \in [Device -> Pref] /\ inbox' \in [Device -> Seq(Doc)]
  BY <1>2, <1>3, <1>4, <1>5, <1>8 DEF Inv, TypeOK
<1>10. \A e \in Device : place'[e] \in 0..Count(order[e])
  BY <1>3, <1>5 DEF Inv, TypeOK, PlaceInBounds
<1> QED
  BY <1>7, <1>9, <1>10 DEF DocHandled, Inv, TypeOK, PlaceInBounds

-----------------------------------------------------------------------------

\* Every device starts with the place in bounds.
LEMMA InitInv == Init => Inv
<1> SUFFICES ASSUME Init PROVE Inv
  OBVIOUS
<1>1. IsOrder(DefaultOrder) /\ Count(DefaultOrder) \in Nat
  BY DefaultOrderType, OrderFinite
<1>2. BaselinePref \in Pref
  BY DEF BaselinePref, Pref
<1>6. doc \in Doc
  BY <1>1, <1>2 DEF Init, Doc
<1>3. \A d \in Device : place[d] \in 0..Count(DefaultOrder)
  BY <1>1 DEF Init
<1>4. place \in [Device -> Nat]
  BY <1>1 DEF Init
<1>5. edits \in 0..MaxEdits
  BY BoundAssumption DEF Init
<1> QED
  BY <1>1, <1>2, <1>3, <1>4, <1>5, <1>6 DEF Init, Inv, TypeOK, PlaceInBounds

\* The type and the bounds of the place are inductive together.
LEMMA StepInv == Inv /\ [Next]_vars => Inv'
<1> SUFFICES ASSUME Inv, [Next]_vars PROVE Inv'
  OBVIOUS
<1>1. ASSUME NEW d \in Device, UserStep(d) PROVE Inv'
  BY <1>1, ChooseInv, AddInv, UpdateInv, DeleteInv, DragInv DEF UserStep
<1>2. ASSUME NEW d \in Device, SystemStep(d) PROVE Inv'
  BY <1>2, RunWriteInv, CategoriesInv, DocReportedInv, DocHandledInv DEF SystemStep
<1>3. CASE UNCHANGED vars
  BY <1>3 DEF vars, device, told, remote, Inv, TypeOK, PlaceInBounds
<1> QED
  BY <1>1, <1>2, <1>3 DEF Next

\* So both hold in every state.
LEMMA AlwaysInv == Spec => []Inv
  BY InitInv, StepInv, PTL DEF Spec

\* Every variable keeps its type, for any devices and categories.
THEOREM DocumentTyped == Spec => []TypeOK
<1>1. Inv => TypeOK
  BY DEF Inv
<1> QED
  BY <1>1, AlwaysInv, PTL

\* The uncategorized group is always somewhere between the categories.
THEOREM PlaceStaysInBounds == Spec => []PlaceInBounds
<1>1. Inv => PlaceInBounds
  BY DEF Inv
<1> QED
  BY <1>1, AlwaysInv, PTL

\* addCategory puts its category above the others, and the place moves down by one.
LEMMA AddKeepsNeighbours ==
    ASSUME Inv, NEW d \in Device, NEW c \in Category, AddCategory(d, c)
    PROVE  SameNeighbours(d)
<1>1. IsOrder(order[d]) /\ place[d] \in Nat
  BY DEF Inv, TypeOK
<1>2. /\ c \in Category \ DOMAIN order[d]
      /\ order'[d] = Added(order[d], c) /\ place'[d] = place[d] + 1
  BY AddInv
<1>3. ASSUME NEW a \in DOMAIN order[d], NEW b \in DOMAIN order[d]
      PROVE  /\ Precedes(order[d], a, b) = Precedes(order'[d], a, b)
             /\ Above(order[d], place[d], b) = Above(order'[d], place'[d], b)
  <2>1. IndexOf(order'[d], b) = IndexOf(order[d], b) + 1 /\ IndexOf(order[d], b) \in Nat
    BY <1>1, <1>2, AddedKeeps, OrderFinite
  <2>2. Precedes(order[d], a, b) <=> Precedes(order'[d], a, b)
    BY <1>1, <1>2, AddedKeeps
  <2>3. Above(order[d], place[d], b) <=> Above(order'[d], place'[d], b)
    BY <1>1, <1>2, <2>1 DEF Above
  <2> QED
    BY <2>2, <2>3 DEF Precedes, Above
<1> QED
  BY <1>3 DEF SameNeighbours

\* deleteCategory closes the gap, and the place moves with what is below it.
LEMMA DeleteKeepsNeighbours ==
    ASSUME Inv, NEW d \in Device, NEW c \in Category, DeleteCategory(d, c)
    PROVE  SameNeighbours(d)
<1> DEFINE o == order[d]
<1> DEFINE n == Normalized(Without(o, c))
<1>1. IsOrder(o) /\ place[d] \in 0..Count(o)
  BY DEF Inv, TypeOK, PlaceInBounds
<1>2. /\ c \in DOMAIN o /\ order'[d] = n
      /\ place'[d] = PlaceAfterDeleting(o, place[d], c)
  BY DeleteInv
<1>3. IsOrder(Without(o, c)) /\ DOMAIN Without(o, c) = DOMAIN o \ {c}
  BY <1>1, <1>2, WithoutKeeps DEF Without
<1>4. DOMAIN n = DOMAIN o \ {c}
  BY <1>3, NormalizedKeeps
<1>5. ASSUME NEW a \in DOMAIN o \ {c}, NEW b \in DOMAIN o \ {c}
      PROVE  /\ Precedes(o, a, b) = Precedes(n, a, b)
             /\ Above(o, place[d], b) = Above(n, place'[d], b)
  <2>1. Precedes(n, a, b) <=> Precedes(Without(o, c), a, b)
    BY <1>3, NormalizedKeeps
  <2>2. Precedes(Without(o, c), a, b) <=> Precedes(o, a, b)
    BY <1>1, <1>2, WithoutKeeps
  <2>3. IndexOf(n, b) = IndexOf(Without(o, c), b)
    BY <1>3, NormalizedKeeps
  <2>4. Above(o, place[d], b) <=> Above(n, place'[d], b)
    BY <1>1, <1>2, <2>3, PlaceAfterDeletingKeeps DEF Above
  <2> QED
    BY <2>1, <2>2, <2>4 DEF Precedes, Above
<1> HIDE DEF n
<1> QED
  BY <1>2, <1>4, <1>5 DEF SameNeighbours

\* Adding or deleting a category moves none of the other groups past another,
\* with any gaps and ties between the orders.
THEOREM NeighboursAlwaysStay == Spec => NeighboursStay
<1>1. Inv => (\A d \in Device, c \in Category :
                 AddCategory(d, c) \/ DeleteCategory(d, c) => SameNeighbours(d))
  BY AddKeepsNeighbours, DeleteKeepsNeighbours
<1> QED
  BY <1>1, AlwaysInv, PTL DEF NeighboursStay

-----------------------------------------------------------------------------
(* What is still to be written explains every difference between a device  *)
(* and the account.                                                        *)

\* Writes of one kind that d has yet to make.
Pending(d, op) == {w \in ToSet(outbox[d]) : w.op = op}

\* Orders that migrateIfNeeded would fill in.
Unordered(o) == Count(o) > 1 /\ \A c \in DOMAIN o : o[c] = 0

\* A device that has been told of all changes of the categories, and has no
\* single category to write (which would have it told again), is about to delete
\* what it does not show, and shows what the account has or will write its list.
CategoriesExplained(d) ==
    ~unread[d] /\ DOMAIN server # {} /\ Pending(d, "category") = {} =>
        /\ \A c \in DOMAIN server \ DOMAIN order[d] : \E w \in Pending(d, "delete") : w.id = c
        /\ Pending(d, "all") = {} =>
              /\ DOMAIN order[d] \subseteq DOMAIN server
              /\ DOMAIN order[d] = DOMAIN server => ShowsAccount(d)
        /\ ~Unordered(order[d])

\* The last report waiting is what the device was told last; when none waits, the
\* preference is the reported one or is about to be written.
PrefExplained(d) ==
    /\ inbox[d] # <<>> => inbox[d][Len(inbox[d])] = seen[d]
    /\ inbox[d] = <<>> => pref[d] = seen[d].pref \/ \E w \in Pending(d, "pref") : w.pref = pref[d]

Explained == \A d \in Device : CategoriesExplained(d) /\ PrefExplained(d)

\* Spawning writes removes none that was pending.
LEMMA PendingGrows ==
    ASSUME TypeOK, NEW d \in Device, NEW writes \in Seq(Write), Spawned(d, writes)
    PROVE  /\ \A e \in Device : \A op : Pending(e, op) \subseteq Pending(e, op)'
           /\ \A w \in ToSet(writes) : w \in Pending(d, w.op)'
<1> DEFINE s == outbox[d]
           t == s \o writes
<1>1. s \in Seq(Write) /\ outbox' = [outbox EXCEPT ![d] = t] /\ outbox'[d] = t
  BY DEF TypeOK, Spawned
<1>2. /\ t \in Seq(Write) /\ Len(t) = Len(s) + Len(writes) /\ Len(s) \in Nat /\ Len(writes) \in Nat
      /\ \A n \in 1..Len(s) + Len(writes) :
            t[n] = IF n <= Len(s) THEN s[n] ELSE writes[n - Len(s)]
  BY <1>1, ConcatProperties
<1> HIDE DEF s, t
<1>3. ToSet(s) \subseteq ToSet(t) /\ ToSet(writes) \subseteq ToSet(t)
  <2>1. ASSUME NEW n \in 1..Len(s) PROVE n \in 1..Len(t) /\ t[n] = s[n]
    BY <1>2
  <2>2. ASSUME NEW n \in 1..Len(writes) PROVE n + Len(s) \in 1..Len(t) /\ t[n + Len(s)] = writes[n]
    <3>1. n + Len(s) \in 1..Len(s) + Len(writes) /\ ~(n + Len(s) <= Len(s)) /\ (n + Len(s)) - Len(s) = n
      BY <1>2
    <3> QED
      BY <1>2, <3>1
  <2>3. DOMAIN s = 1..Len(s) /\ DOMAIN t = 1..Len(t) /\ DOMAIN writes = 1..Len(writes)
    BY <1>1, <1>2
  <2> QED
    BY <2>1, <2>2, <2>3 DEF ToSet
<1>4. ASSUME NEW e \in Device PROVE ToSet(outbox[e]) \subseteq ToSet(outbox'[e])
  BY <1>1, <1>3 DEF TypeOK, s
<1> QED
  BY <1>1, <1>3, <1>4 DEF Pending

\* Running a write removes that one only.
LEMMA PendingShrinks ==
    ASSUME TypeOK, NEW d \in Device, NEW n \in DOMAIN outbox[d],
           outbox' = [outbox EXCEPT ![d] = RemoveAt(@, n)]
    PROVE  /\ outbox[d][n] \in Write
           /\ \A e \in Device : \A op : \A w \in Pending(e, op) :
                 w \in Pending(e, op)' \/ (e = d /\ w = outbox[d][n])
<1> DEFINE s == outbox[d]
<1>1. s \in Seq(Write) /\ n \in 1..Len(s) /\ s[n] \in Write
  BY DEF TypeOK
<1>2. \A w : Contains(s, w) /\ w # s[n] => Contains(RemoveAt(s, n), w)
  BY <1>1, RemovedAt
<1>3. \A w \in ToSet(s) : w # s[n] => w \in ToSet(RemoveAt(s, n))
  <2>1. RemoveAt(s, n) \in Seq(Write)
    BY <1>1, RemovedAt
  <2> DEFINE t == RemoveAt(s, n)
  <2>2. DOMAIN s = 1..Len(s) /\ DOMAIN t = 1..Len(t)
    BY <1>1, <2>1
  <2> HIDE DEF s, t
  <2>3. \A w : Contains(s, w) /\ w # s[n] => Contains(t, w)
    BY <1>2 DEF t
  <2>4. \A w \in ToSet(s) : w # s[n] => w \in ToSet(t)
    BY <2>2, <2>3 DEF ToSet, Contains
  <2> QED
    BY <2>4 DEF t
<1>4. \A e \in Device : outbox'[e] = IF e = d THEN RemoveAt(s, n) ELSE outbox[e]
  BY DEF TypeOK
<1> QED
  BY <1>1, <1>3, <1>4 DEF Pending

\* Nothing that concerns the categories of e happens, but that writes are spawned.
LEMMA CategoriesKept ==
    ASSUME NEW e \in Device, CategoriesExplained(e),
           order'[e] = order[e], unread'[e] = unread[e], server' = server,
           \A op \in {"category", "delete", "all"} : Pending(e, op) \subseteq Pending(e, op)'
    PROVE  CategoriesExplained(e)'
<1>1. /\ Pending(e, "category") \subseteq Pending(e, "category")'
      /\ Pending(e, "delete") \subseteq Pending(e, "delete")'
      /\ Pending(e, "all") \subseteq Pending(e, "all")'
  OBVIOUS
<1>2. Unordered(order'[e]) = Unordered(order[e]) /\ ShowsAccount(e)' = ShowsAccount(e)
  BY DEF ShowsAccount
<1> QED
  BY <1>1, <1>2 DEF CategoriesExplained

\* Nothing that concerns the preference of e happens, but that writes are spawned.
LEMMA PrefKept ==
    ASSUME NEW e \in Device, PrefExplained(e),
           pref'[e] = pref[e], seen'[e] = seen[e], inbox'[e] = inbox[e],
           Pending(e, "pref") \subseteq Pending(e, "pref")'
    PROVE  PrefExplained(e)'
  BY DEF PrefExplained

\* Orders that tell two categories apart need no filling in.
LEMMA Distinguished ==
    ASSUME NEW o, IsOrder(o),
           \A a, b \in DOMAIN o : a # b => ~(o[a] = 0 /\ o[b] = 0)
    PROVE  ~Unordered(o)
<1> SUFFICES ASSUME Unordered(o) PROVE FALSE
  OBVIOUS
<1>1. \A a, b \in DOMAIN o : a = b
  BY DEF Unordered
<1>2. CASE DOMAIN o = {}
  BY <1>2, FS_EmptySet DEF Unordered, Count
<1>3. ASSUME NEW a \in DOMAIN o PROVE FALSE
  <2>1. DOMAIN o = {a}
    BY <1>1
  <2>2. Cardinality({a}) = 1
    BY FS_Singleton
  <2> QED
    BY <2>1, <2>2 DEF Unordered, Count
<1> QED
  BY <1>2, <1>3

\* Normalizing numbers the categories apart.
LEMMA NormalizedOrdered ==
    ASSUME NEW o, IsOrder(o)
    PROVE  ~Unordered(Normalized(o))
<1>1. IsOrder(Normalized(o)) /\ DOMAIN Normalized(o) = DOMAIN o
  BY NormalizedKeeps
<1>2. ASSUME NEW a \in DOMAIN o, NEW b \in DOMAIN o, a # b PROVE IndexOf(o, a) # IndexOf(o, b)
  <2>1. IndexOf(o, a) \in Nat /\ IndexOf(o, b) \in Nat
    BY OrderFinite
  <2>2. Precedes(o, a, b) \/ Precedes(o, b, a)
    BY <1>2, PrecedesIsOrder
  <2> QED
    BY <2>1, <2>2, IndexMonotone
<1>3. \A a \in DOMAIN o : Normalized(o)[a] = IndexOf(o, a)
  BY DEF Normalized
<1> QED
  BY <1>1, <1>2, <1>3, Distinguished

\* So does adding one ...
LEMMA AddedOrdered ==
    ASSUME NEW o, IsOrder(o), NEW c \in Category \ DOMAIN o
    PROVE  ~Unordered(Added(o, c))
<1>1. IsOrder(Added(o, c)) /\ DOMAIN Added(o, c) = DOMAIN o \cup {c}
  BY AddedKeeps DEF Added
<1>2. \A a \in DOMAIN o : Added(o, c)[a] = o[a] + 1 /\ o[a] \in Nat
  BY DEF Added, IsOrder
<1>3. \A a \in DOMAIN o : Added(o, c)[a] # 0
  BY <1>2
<1> QED
  BY <1>1, <1>3, Distinguished

\* ... and reading the orders off a sequence of groups.
LEMMA ReorderedOrdered ==
    ASSUME NEW S \in SUBSET Category, NEW u, NEW s \in Seq(S \cup {u})
    PROVE  ~Unordered(Reordered(s, u))
<1> DEFINE o == Reordered(s, u)
           Upper(c) == {i \in 1..At(s, c) - 1 : s[i] # u}
<1>1. IsOrder(o) /\ DOMAIN o = ToSet(s) \ {u}
  BY ReorderedType DEF Reordered
<1>2. \A c \in DOMAIN o : o[c] = Cardinality(Upper(c))
  BY <1>1 DEF Reordered
<1>3. \A c \in DOMAIN o : At(s, c) \in 1..Len(s) /\ s[At(s, c)] = c /\ c # u
  BY <1>1, AtType DEF ToSet, Contains
<1>4. Len(s) \in Nat
  BY LenProperties
<1> HIDE DEF o
<1>5. ASSUME NEW a \in DOMAIN o, NEW b \in DOMAIN o, At(s, a) < At(s, b)
      PROVE  o[b] # 0
  <2>1. At(s, a) \in Upper(b)
    BY <1>3, <1>4, <1>5
  <2>2. IsFiniteSet(Upper(b))
    <3>1. At(s, b) - 1 \in Int
      BY <1>3, <1>4
    <3>2. IsFiniteSet(1..At(s, b) - 1)
      BY <3>1, FS_Interval
    <3> QED
      BY <3>2, FS_Subset
  <2>3. Cardinality(Upper(b)) # 0
    BY <2>1, <2>2, FS_EmptySet
  <2> QED
    BY <1>2, <2>3
<1>6. ASSUME NEW a \in DOMAIN o, NEW b \in DOMAIN o, a # b
      PROVE  ~(o[a] = 0 /\ o[b] = 0)
  <2>1. At(s, a) # At(s, b) /\ At(s, a) \in Int /\ At(s, b) \in Int
    BY <1>3, <1>4, <1>6
  <2>2. At(s, a) < At(s, b) \/ At(s, b) < At(s, a)
    BY <2>1
  <2> QED
    BY <1>5, <2>2
<1> QED
  BY <1>1, <1>6, Distinguished DEF o

\* Filling in makes any list ordered and leaves an ordered one alone.
LEMMA MigratedOrdered ==
    ASSUME NEW o, IsOrder(o), DOMAIN o # {}
    PROVE  /\ DOMAIN Migrated(o, DefaultOrder) = DOMAIN o
           /\ ~Unordered(Migrated(o, DefaultOrder))
           /\ ~Unordered(o) => Migrated(o, DefaultOrder) = o
  BY NormalizedOrdered, NormalizedKeeps DEF Migrated, Unordered

\* What a change of the list leaves explained, and the writes it adds.
LEMMA ArrangedExplained ==
    ASSUME Inv, Explained, NEW d \in Device, NEW o, IsOrder(o), NEW p \in Nat,
           NEW writes \in Seq(Write), Arranged(d, o, p, writes)
    PROVE  /\ order'[d] = o /\ unread' = unread /\ server' = server
           /\ \A w \in ToSet(writes) : w \in Pending(d, w.op)'
           /\ \A op : Pending(d, op) \subseteq Pending(d, op)'
           /\ \A e \in Device : PrefExplained(e)'
           /\ \A e \in Device \ {d} : CategoriesExplained(e)'
<1> DEFINE published == PlacePublished(d, p)
           all == published \o writes
<1>1. published \in Seq(Write) /\ all \in Seq(Write)
  BY PlacePublishedType
<1>2. Spawned(d, all) /\ order' = [order EXCEPT ![d] = o]
      /\ UNCHANGED <<pref, unread, seen, inbox, server>>
  BY DEF Arranged, told, remote
<1>3. ToSet(writes) \subseteq ToSet(all)
  <2> HIDE DEF published
  <2>1. ASSUME NEW n \in DOMAIN writes
        PROVE  n + Len(published) \in DOMAIN all /\ all[n + Len(published)] = writes[n]
    BY <1>1
  <2> QED
    BY <2>1 DEF ToSet
<1> HIDE DEF published, all
<1>4. /\ \A e \in Device : \A op : Pending(e, op) \subseteq Pending(e, op)'
      /\ \A w \in ToSet(all) : w \in Pending(d, w.op)'
  BY <1>1, <1>2, PendingGrows DEF Inv
<1>5. \A e \in Device : order'[e] = IF e = d THEN o ELSE order[e]
  BY <1>2 DEF Inv, TypeOK
<1>6. ASSUME NEW e \in Device PROVE PrefExplained(e)'
  BY <1>2, <1>4, PrefKept DEF Explained
<1>7. ASSUME NEW e \in Device \ {d} PROVE CategoriesExplained(e)'
  BY <1>2, <1>4, <1>5, CategoriesKept DEF Explained
<1> QED
  BY <1>2, <1>3, <1>4, <1>5, <1>6, <1>7

\* addCategory spawns the upload of its category, which will have it told.
LEMMA AddExplained ==
    ASSUME Inv, Explained, NEW d \in Device, NEW c \in Category, AddCategory(d, c)
    PROVE  Explained'
<1> DEFINE o == Added(order[d], c)
           p == Clamped(place[d] + 1, o)
           w == [op |-> "all"]
<1>1. IsOrder(order[d]) /\ c \in Category \ DOMAIN order[d] /\ c \notin DOMAIN server /\ place[d] \in Nat
  BY DEF Inv, TypeOK, AddCategory
<1>2. IsOrder(o) /\ ~Unordered(o) /\ DOMAIN o = DOMAIN order[d] \cup {c}
  BY <1>1, AddedKeeps, AddedOrdered DEF Added
<1>3. p \in Nat
  BY <1>1, <1>2, ClampedType
<1>4. <<w>> \in Seq(Write) /\ w \in ToSet(<<w>>) /\ w.op = "all"
  BY DEF Write, ToSet
<1>5. Arranged(d, o, p, <<w>>)
  BY DEF AddCategory
<1> HIDE DEF o, p, w
<1>6. /\ order'[d] = o /\ unread' = unread /\ server' = server
      /\ w \in Pending(d, "all")'
      /\ \A op : Pending(d, op) \subseteq Pending(d, op)'
      /\ \A e \in Device : PrefExplained(e)'
      /\ \A e \in Device \ {d} : CategoriesExplained(e)'
  BY <1>2, <1>3, <1>4, <1>5, ArrangedExplained
<1>7. CategoriesExplained(d)'
  BY <1>1, <1>2, <1>6 DEF Explained, CategoriesExplained
<1> QED
  BY <1>6, <1>7 DEF Explained

\* deleteCategory spawns the deletion of what it stops showing.
LEMMA DeleteExplained ==
    ASSUME Inv, Explained, NEW d \in Device, NEW c \in Category, DeleteCategory(d, c)
    PROVE  Explained'
<1> DEFINE rest == Without(order[d], c)
           o == Normalized(rest)
           p == PlaceAfterDeleting(order[d], place[d], c)
           w == [op |-> "delete", id |-> c]
<1>1. IsOrder(order[d]) /\ c \in DOMAIN order[d] /\ place[d] \in Nat
  BY DEF Inv, TypeOK, DeleteCategory
<1>2. IsOrder(rest) /\ DOMAIN rest = DOMAIN order[d] \ {c}
  BY <1>1, WithoutKeeps DEF Without
<1>3. p \in Nat
  <2>1. place[d] - 1 \in Int /\ place[d] \in Int
    BY <1>1
  <2> QED
    BY <1>2, <2>1, ClampedType DEF PlaceAfterDeleting
<1>4. <<w>> \in Seq(Write) /\ w \in ToSet(<<w>>) /\ w.op = "delete" /\ w.id = c
  BY DEF Write, ToSet
<1>5. Arranged(d, o, p, <<w>>)
  BY DEF DeleteCategory
<1> HIDE DEF rest
<1>6. IsOrder(o) /\ ~Unordered(o) /\ DOMAIN o = DOMAIN order[d] \ {c}
  BY <1>2, NormalizedKeeps, NormalizedOrdered
<1> HIDE DEF o, p, w
<1>7. /\ order'[d] = o /\ unread' = unread /\ server' = server
      /\ w \in Pending(d, "delete")'
      /\ \A op : Pending(d, op) \subseteq Pending(d, op)'
      /\ \A e \in Device : PrefExplained(e)'
      /\ \A e \in Device \ {d} : CategoriesExplained(e)'
  BY <1>3, <1>4, <1>5, <1>6, ArrangedExplained
<1>8. CategoriesExplained(d)'
  <2> SUFFICES ASSUME ~unread'[d], DOMAIN server' # {}, Pending(d, "category")' = {}
               PROVE  /\ \A b \in DOMAIN server' \ DOMAIN order'[d] :
                            \E v \in Pending(d, "delete")' : v.id = b
                      /\ Pending(d, "all")' = {} =>
                            /\ DOMAIN order'[d] \subseteq DOMAIN server'
                            /\ DOMAIN order'[d] = DOMAIN server' => ShowsAccount(d)'
                      /\ ~Unordered(order'[d])
    BY DEF CategoriesExplained
  <2>1. /\ \A b \in DOMAIN server \ DOMAIN order[d] : \E v \in Pending(d, "delete") : v.id = b
        /\ Pending(d, "all") = {} => DOMAIN order[d] \subseteq DOMAIN server
    BY <1>7 DEF Explained, CategoriesExplained
  <2>2. \A b \in DOMAIN server' \ DOMAIN order'[d] : \E v \in Pending(d, "delete")' : v.id = b
    BY <1>4, <1>6, <1>7, <2>1
  <2>3. Pending(d, "all")' = {} => c \in DOMAIN server /\ DOMAIN order'[d] \subseteq DOMAIN server'
    BY <1>1, <1>6, <1>7, <2>1
  <2> QED
    BY <1>6, <1>7, <2>2, <2>3
<1> QED
  BY <1>7, <1>8 DEF Explained

\* updateCategory spawns the upload of one category.
LEMMA UpdateExplained ==
    ASSUME Inv, Explained, NEW d \in Device, NEW c \in Category, UpdateCategory(d, c)
    PROVE  Explained'
<1> DEFINE w == [op |-> "category", id |-> c, order |-> order[d][c]]
<1>1. IsOrder(order[d]) /\ c \in DOMAIN order[d] /\ place[d] \in Nat
  BY DEF Inv, TypeOK, UpdateCategory
<1>2. order[d][c] \in Nat
  BY <1>1 DEF IsOrder
<1>3. <<w>> \in Seq(Write) /\ w \in ToSet(<<w>>) /\ w.op = "category"
  BY <1>2 DEF Write, ToSet
<1>4. Arranged(d, order[d], place[d], <<w>>)
  BY DEF UpdateCategory
<1> HIDE DEF w
<1>5. /\ w \in Pending(d, "category")'
      /\ \A e \in Device : PrefExplained(e)'
      /\ \A e \in Device \ {d} : CategoriesExplained(e)'
  BY <1>1, <1>3, <1>4, ArrangedExplained
<1>6. CategoriesExplained(d)'
  BY <1>5 DEF CategoriesExplained
<1> QED
  BY <1>5, <1>6 DEF Explained

\* Dragging a group loses none.
LEMMA DraggedDomain ==
    ASSUME NEW o, IsOrder(o), NEW p \in Int, NEW g \in DOMAIN o \cup {Uncategorized}, NEW h,
           NEW groups, groups = Dragged(Groups(o, p, Uncategorized), g, h)
    PROVE  /\ groups \in Seq(DOMAIN o \cup {Uncategorized})
           /\ Contains(groups, Uncategorized)
           /\ DOMAIN Reordered(groups, Uncategorized) = DOMAIN o
<1> DEFINE S == DOMAIN o \cup {Uncategorized}
           before == Groups(o, p, Uncategorized)
<1>1. before \in Seq(S) /\ \A x \in S : Contains(before, x)
  BY GroupsType
<1> HIDE DEF before
<1>0. groups = Dragged(before, g, h)
  BY DEF before
<1>2. groups \in Seq(S) /\ \A x \in S : Contains(groups, x)
  <2>1. Dragged(before, g, h) \in Seq(S) /\ \A x \in S : Contains(Dragged(before, g, h), x)
    BY <1>1, DraggedType
  <2> QED
    BY <1>0, <2>1
<1>3. ToSet(groups) = S
  <2>1. DOMAIN groups = 1..Len(groups) /\ \A i \in DOMAIN groups : groups[i] \in S
    BY <1>2
  <2> QED
    BY <1>2, <2>1 DEF ToSet, Contains
<1>4. Uncategorized \notin DOMAIN o
  BY UncategorizedAssumption DEF IsOrder
<1>5. DOMAIN Reordered(groups, Uncategorized) = DOMAIN o
  BY <1>3, <1>4 DEF Reordered
<1> QED
  BY <1>2, <1>5

\* reorderTodoGroups spawns the upload of the whole list it shows.
LEMMA DragExplained ==
    ASSUME Inv, Explained, NEW d \in Device, NEW g \in Category \cup {Uncategorized}, NEW h,
           DragGroup(d, g, h)
    PROVE  Explained'
<1> DEFINE S == DOMAIN order[d] \cup {Uncategorized}
           groups == Dragged(Groups(order[d], place[d], Uncategorized), g, h)
           o == Reordered(groups, Uncategorized)
           p == Clamped(At(groups, Uncategorized) - 1, o)
           w == [op |-> "all"]
<1>1. IsOrder(order[d]) /\ place[d] \in Int /\ g \in S
  BY DEF Inv, TypeOK, DragGroup
<1>2. groups \in Seq(S) /\ Contains(groups, Uncategorized) /\ DOMAIN o = DOMAIN order[d]
  <2> HIDE DEF groups
  <2>1. groups = Dragged(Groups(order[d], place[d], Uncategorized), g, h)
    BY DEF groups
  <2>2. \A q \in Int : \A x : x = Dragged(Groups(order[d], q, Uncategorized), g, h) =>
            /\ x \in Seq(DOMAIN order[d] \cup {Uncategorized}) /\ Contains(x, Uncategorized)
            /\ DOMAIN Reordered(x, Uncategorized) = DOMAIN order[d]
    <3>1. \A a : IsOrder(a) => \A q \in Int : \A b \in DOMAIN a \cup {Uncategorized} : \A x :
             x = Dragged(Groups(a, q, Uncategorized), b, h) =>
               /\ x \in Seq(DOMAIN a \cup {Uncategorized}) /\ Contains(x, Uncategorized)
               /\ DOMAIN Reordered(x, Uncategorized) = DOMAIN a
      BY DraggedDomain
    <3>2. IsOrder(order[d]) /\ g \in DOMAIN order[d] \cup {Uncategorized}
      BY <1>1
    <3> QED
      BY <3>1, <3>2, Zenon
  <2> QED
    BY <1>1, <2>1, <2>2
<1>3. <<w>> \in Seq(Write) /\ w \in ToSet(<<w>>) /\ w.op = "all"
  BY DEF Write, ToSet
<1>4. Arranged(d, o, p, <<w>>)
  BY DEF DragGroup
<1> HIDE DEF groups
<1>5. IsOrder(o) /\ ~Unordered(o)
  BY <1>1, <1>2, ReorderedType, ReorderedOrdered DEF IsOrder
<1>6. p \in Nat
  <2>1. At(groups, Uncategorized) - 1 \in Int
    BY <1>2, AtType
  <2> QED
    BY <1>5, <2>1, ClampedType, OrderFinite
<1> HIDE DEF o, p, w
<1>7. /\ order'[d] = o /\ unread' = unread /\ server' = server
      /\ w \in Pending(d, "all")'
      /\ \A op : Pending(d, op) \subseteq Pending(d, op)'
      /\ \A e \in Device : PrefExplained(e)'
      /\ \A e \in Device \ {d} : CategoriesExplained(e)'
  BY <1>3, <1>4, <1>5, <1>6, ArrangedExplained
<1>8. CategoriesExplained(d)'
  BY <1>2, <1>5, <1>7 DEF Explained, CategoriesExplained
<1> QED
  BY <1>7, <1>8 DEF Explained

\* Setting the preference spawns its write, or finds it reported already.
LEMMA ChooseExplained ==
    ASSUME Inv, Explained, NEW d \in Device, Choose(d)
    PROVE  Explained'
<1> DEFINE q == [on |-> ~pref[d].on, at |-> newest.at + 1]
           w == [op |-> "pref", pref |-> q]
<1>1. q \in Pref /\ q # pref[d]
  BY DEF Inv, TypeOK, Pref
<1>2. /\ pref' = [pref EXCEPT ![d] = q] /\ Spawned(d, PrefPublished(d, q))
      /\ UNCHANGED <<order, unread, seen, inbox, server>>
  BY DEF Choose, told, remote
<1> HIDE DEF q
<1>3. PrefPublished(d, q) = <<w>> /\ <<w>> \in Seq(Write)
  BY <1>1, PrefPublishedType DEF PrefPublished
<1>4. w \in ToSet(<<w>>) /\ w.op = "pref" /\ w.pref = q
  BY DEF ToSet
<1> HIDE DEF w
<1>5. /\ \A e \in Device : \A op : Pending(e, op) \subseteq Pending(e, op)'
      /\ w \in Pending(d, "pref")'
  BY <1>2, <1>3, <1>4, PendingGrows DEF Inv
<1>6. \A e \in Device : pref'[e] = IF e = d THEN q ELSE pref[e]
  BY <1>2 DEF Inv, TypeOK
<1>7. ASSUME NEW e \in Device PROVE CategoriesExplained(e)'
  BY <1>2, <1>5, CategoriesKept DEF Explained
<1>8. ASSUME NEW e \in Device, e # d PROVE PrefExplained(e)'
  BY <1>2, <1>5, <1>6, <1>8, PrefKept DEF Explained
<1>9. PrefExplained(d)'
  BY <1>2, <1>4, <1>5, <1>6 DEF Explained, PrefExplained
<1> QED
  BY <1>7, <1>8, <1>9 DEF Explained

\* A write of categories runs: the listeners are woken, or nothing changed.
LEMMA CategoryWriteExplained ==
    ASSUME Inv, Explained, NEW d \in Device, NEW n \in DOMAIN outbox[d],
           NEW o, NEW changed \in BOOLEAN, CategoriesWritten(o, changed),
           outbox' = [outbox EXCEPT ![d] = RemoveAt(@, n)],
           UNCHANGED <<order, pref>>,
           \/ outbox[d][n].op = "all" /\ o = Over(order[d], server)
           \/ outbox[d][n].op = "category" /\ changed
           \/ outbox[d][n].op = "delete" /\ o = Without(server, outbox[d][n].id)
    PROVE  Explained'
<1> DEFINE w == outbox[d][n]
<1>1. \A e \in Device : \A op : \A v \in Pending(e, op) : v \in Pending(e, op)' \/ (e = d /\ v = w)
  BY PendingShrinks DEF Inv
<1>2. /\ server' = o /\ UNCHANGED <<seen, inbox>>
      /\ \A e \in Device : unread'[e] = (unread[e] \/ changed \/ o # server)
  BY DEF CategoriesWritten
<1>3. \A e \in Device : \A op : \A v \in Pending(e, op) : v.op = op
  BY DEF Pending
<1>4. /\ w.op \in {"all", "category", "delete"}
      /\ w.op = "all" => o = Over(order[d], server)
      /\ w.op = "category" => changed
      /\ w.op = "delete" => o = Without(server, w.id)
  OBVIOUS
<1> HIDE DEF w
<1>5. ASSUME NEW e \in Device PROVE PrefExplained(e)'
  <2>1. Pending(e, "pref") \subseteq Pending(e, "pref")'
    BY <1>1, <1>3, <1>4
  <2> QED
    BY <1>2, <2>1, PrefKept DEF Explained
<1>6. ASSUME NEW e \in Device PROVE CategoriesExplained(e)'
  <2>1. CASE changed \/ o # server
    BY <1>2, <2>1 DEF CategoriesExplained
  <2>2. CASE ~changed /\ o = server
    <3>1. server' = server /\ unread'[e] = unread[e]
      <4>1. unread[e] \in BOOLEAN
        BY DEF Inv, TypeOK
      <4> QED
        BY <1>2, <2>2, <4>1
    <3>2. CASE e # d
      <4>1. \A op : Pending(e, op) \subseteq Pending(e, op)'
        BY <1>1, <3>2
      <4> QED
        BY <3>1, <4>1, CategoriesKept DEF Explained
    <3>3. CASE e = d /\ w.op = "all"
      <4>1. IsOrder(order[d]) /\ IsOrder(server) /\ Over(order[d], server) = server
        BY <1>4, <2>2, <3>3 DEF Inv, TypeOK
      <4>2. /\ DOMAIN order[d] \subseteq DOMAIN server
            /\ \A c \in DOMAIN order[d] : order[d][c] = server[c]
        BY <4>1 DEF Over
      <4>3. DOMAIN order[d] = DOMAIN server => order[d] = server
        BY <4>1, <4>2 DEF IsOrder
      <4>4. /\ Pending(d, "category") \subseteq Pending(d, "category")'
            /\ Pending(d, "delete") \subseteq Pending(d, "delete")'
        BY <1>1, <1>3, <3>3
      <4>5. DOMAIN server # {} /\ ~Unordered(server) => Migrated(server, DefaultOrder) = server
        BY <4>1, MigratedOrdered
      <4> QED
        BY <3>1, <3>3, <4>2, <4>3, <4>4, <4>5
        DEF Explained, CategoriesExplained, ShowsAccount
    <3>4. CASE e = d /\ w.op = "delete"
      <4>1. w.id \notin DOMAIN server
        BY <1>4, <2>2, <3>4 DEF Without
      <4>2. /\ Pending(d, "category") \subseteq Pending(d, "category")'
            /\ Pending(d, "all") \subseteq Pending(d, "all")'
            /\ \A v \in Pending(d, "delete") : v \in Pending(d, "delete")' \/ v = w
        BY <1>1, <1>3, <3>4
      <4>3. Unordered(order'[d]) = Unordered(order[d]) /\ ShowsAccount(d)' = ShowsAccount(d)
        BY <3>1 DEF ShowsAccount
      <4> QED
        BY <3>1, <3>4, <4>1, <4>2, <4>3 DEF Explained, CategoriesExplained
    <3> QED
      BY <1>4, <2>2, <3>2, <3>3, <3>4
  <2> QED
    BY <2>1, <2>2
<1> QED
  BY <1>5, <1>6 DEF Explained

\* A new report is the last one told, and waits.
LEMMA ReportedExplained ==
    ASSUME TypeOK, Explained, NEW d \in Device, NEW new \in Doc, Reported(d, new)
    PROVE  /\ \A e \in Device : e # d => seen'[e] = seen[e] /\ inbox'[e] = inbox[e]
           /\ new = seen[d] => seen'[d] = seen[d] /\ inbox'[d] = inbox[d]
           /\ new # seen[d] => PrefExplained(d)'
<1>1. /\ \A e \in Device : seen'[e] = IF e = d THEN new ELSE seen[e]
      /\ \A e \in Device : inbox'[e] = IF e = d /\ new # seen[d] THEN Append(inbox[e], new) ELSE inbox[e]
  BY DEF Reported, TypeOK
<1>2. /\ Len(Append(inbox[d], new)) = Len(inbox[d]) + 1
      /\ Append(inbox[d], new)[Len(inbox[d]) + 1] = new
      /\ Append(inbox[d], new) # <<>>
  <2>1. inbox[d] \in Seq(Doc)
    BY DEF TypeOK
  <2>2. /\ Append(inbox[d], new) \in Seq(Doc) /\ Len(Append(inbox[d], new)) = Len(inbox[d]) + 1
        /\ Append(inbox[d], new)[Len(inbox[d]) + 1] = new
    BY <2>1, AppendProperties
  <2>3. Len(Append(inbox[d], new)) # 0
    BY <2>1, <2>2
  <2> QED
    BY <2>2, <2>3
<1>3. ASSUME new # seen[d] PROVE PrefExplained(d)'
  BY <1>1, <1>2, <1>3 DEF PrefExplained
<1> QED
  BY <1>1, <1>3

\* A write of the user document runs.
LEMMA DocWriteExplained ==
    ASSUME Inv, Explained, NEW d \in Device, NEW n \in DOMAIN outbox[d],
           NEW new \in Doc, DocWritten(d, new),
           outbox' = [outbox EXCEPT ![d] = RemoveAt(@, n)],
           UNCHANGED <<order, pref>>,
           outbox[d][n].op \in {"place", "pref"},
           outbox[d][n].op = "pref" => new.pref = outbox[d][n].pref
    PROVE  Explained'
<1> DEFINE w == outbox[d][n]
<1>1. \A e \in Device : \A op : \A v \in Pending(e, op) : v \in Pending(e, op)' \/ (e = d /\ v = w)
  BY PendingShrinks DEF Inv
<1>2. \A e \in Device : \A op : \A v \in Pending(e, op) : v.op = op
  BY DEF Pending
<1>3. w.op \in {"place", "pref"} /\ (w.op = "pref" => new.pref = w.pref)
  OBVIOUS
<1> HIDE DEF w
<1>4. UNCHANGED <<server, unread>> /\ Reported(d, new)
  BY DEF DocWritten
<1>5. ASSUME NEW e \in Device PROVE CategoriesExplained(e)'
  <2>1. \A op \in {"category", "delete", "all"} : Pending(e, op) \subseteq Pending(e, op)'
    BY <1>1, <1>2, <1>3
  <2> QED
    BY <1>4, <2>1, CategoriesKept DEF Explained
<1>6. /\ \A e \in Device : e # d => seen'[e] = seen[e] /\ inbox'[e] = inbox[e]
      /\ new = seen[d] => seen'[d] = seen[d] /\ inbox'[d] = inbox[d]
      /\ new # seen[d] => PrefExplained(d)'
  BY <1>4, ReportedExplained DEF Inv
<1>7. ASSUME NEW e \in Device, e # d PROVE PrefExplained(e)'
  <2>1. Pending(e, "pref") \subseteq Pending(e, "pref")'
    BY <1>1, <1>7
  <2> QED
    BY <1>6, <1>7, <2>1, PrefKept DEF Explained
<1>8. CASE new = seen[d]
  <2>1. \A v \in Pending(d, "pref") : v \in Pending(d, "pref")' \/ v.pref = seen[d].pref
    BY <1>1, <1>2, <1>3, <1>8
  <2>2. PrefExplained(d)'
    BY <1>6, <1>8, <2>1 DEF Explained, PrefExplained
  <2> QED
    BY <1>5, <1>7, <2>2 DEF Explained
<1> QED
  BY <1>5, <1>6, <1>7, <1>8 DEF Explained

\* A write that changes the account makes every device that differs unread.
LEMMA RunWriteExplained ==
    ASSUME Inv, Explained, NEW d \in Device, RunWrite(d)
    PROVE  Explained'
<1>1. PICK n \in DOMAIN outbox[d] :
        /\ LET w == outbox[d][n]
           IN  \/ w.op = "all" /\ CategoriesWritten(Over(order[d], server), FALSE)
               \/ w.op = "category"
                    /\ CategoriesWritten(Over([c \in {w.id} |-> w.order], server), TRUE)
               \/ w.op = "delete" /\ CategoriesWritten(Without(server, w.id), FALSE)
               \/ w.op = "place" /\ DocWritten(d, [doc EXCEPT !.place = w.place])
               \/ w.op = "pref" /\ DocWritten(d, [doc EXCEPT !.pref = w.pref])
        /\ outbox' = [outbox EXCEPT ![d] = RemoveAt(@, n)]
        /\ UNCHANGED <<order, pref>>
  BY DEF RunWrite, device
<1> DEFINE w == outbox[d][n]
<1>2. w \in Write /\ doc \in Doc
  BY <1>1, PendingShrinks DEF Inv, TypeOK
<1>3. CASE w.op = "all" /\ CategoriesWritten(Over(order[d], server), FALSE)
  BY <1>1, <1>3, CategoryWriteExplained
<1>4. CASE /\ w.op = "category"
           /\ CategoriesWritten(Over([c \in {w.id} |-> w.order], server), TRUE)
  BY <1>1, <1>4, CategoryWriteExplained
<1>5. CASE w.op = "delete" /\ CategoriesWritten(Without(server, w.id), FALSE)
  BY <1>1, <1>5, CategoryWriteExplained
<1>6. CASE w.op = "place" /\ DocWritten(d, [doc EXCEPT !.place = w.place])
  <2>1. w.place \in Nat
    BY <1>2, <1>6 DEF Write
  <2>2. [doc EXCEPT !.place = w.place] \in Doc
    BY <1>2, <2>1 DEF Doc
  <2> QED
    BY <1>1, <1>6, <2>2, DocWriteExplained
<1>7. CASE w.op = "pref" /\ DocWritten(d, [doc EXCEPT !.pref = w.pref])
  <2> DEFINE new == [doc EXCEPT !.pref = w.pref]
  <2>1. w.pref \in Pref
    BY <1>2, <1>7 DEF Write
  <2>2. new \in Doc /\ new.pref = w.pref
    BY <1>2, <2>1 DEF Doc
  <2> HIDE DEF new
  <2>3. DocWritten(d, new)
    BY <1>7 DEF new
  <2> QED
    BY <1>1, <1>7, <2>2, <2>3, DocWriteExplained
<1> QED
  BY <1>1, <1>3, <1>4, <1>5, <1>6, <1>7

\* A report of the categories leaves what the account has, less what is to be deleted.
LEMMA CategoriesReportExplained ==
    ASSUME Inv, Explained, NEW d \in Device, ApplyRemoteCategories(d)
    PROVE  Explained'
<1> DEFINE o == Migrated(server, DefaultOrder)
           p == Clamped(place[d], o)
<1>1. IsOrder(server) /\ IsOrder(o) /\ place[d] \in Int
  BY MigratedType DEF Inv, TypeOK
<1>2. p \in Nat
  BY <1>1, ClampedType
<1>3. DOMAIN server # {} => DOMAIN o = DOMAIN server /\ ~Unordered(o)
  BY <1>1, MigratedOrdered
<1>4. /\ order' = [order EXCEPT ![d] = o] /\ unread' = [unread EXCEPT ![d] = FALSE]
      /\ Spawned(d, PlacePublished(d, p)) /\ UNCHANGED <<pref, seen, inbox, server>>
  BY DEF ApplyRemoteCategories, remote
<1>5. o = Migrated(server', DefaultOrder)
  BY <1>4
<1> HIDE DEF o, p
<1>6. \A e \in Device : \A op : Pending(e, op) \subseteq Pending(e, op)'
  BY <1>2, <1>4, PlacePublishedType, PendingGrows DEF Inv
<1>7. /\ \A e \in Device : order'[e] = IF e = d THEN o ELSE order[e]
      /\ \A e \in Device : e # d => unread'[e] = unread[e]
  BY <1>4 DEF Inv, TypeOK
<1>8. ASSUME NEW e \in Device PROVE PrefExplained(e)'
  BY <1>4, <1>6, PrefKept DEF Explained
<1>9. ASSUME NEW e \in Device, e # d PROVE CategoriesExplained(e)'
  BY <1>4, <1>6, <1>7, <1>9, CategoriesKept DEF Explained
<1>10. CategoriesExplained(d)'
  BY <1>3, <1>4, <1>5, <1>7 DEF CategoriesExplained, ShowsAccount
<1> QED
  BY <1>8, <1>9, <1>10 DEF Explained

\* A report puts what it tells last into the inbox.
LEMMA DocReportedExplained ==
    ASSUME Inv, Explained, NEW d \in Device, DocReported(d)
    PROVE  Explained'
<1>1. /\ doc # seen[d] /\ Reported(d, doc) /\ doc \in Doc
      /\ UNCHANGED <<order, pref, outbox, unread, server>>
  BY DEF DocReported, device, remote, Inv, TypeOK
<1>2. \A e \in Device : \A op : Pending(e, op)' = Pending(e, op)
  BY <1>1 DEF Pending
<1>3. /\ \A e \in Device : e # d => seen'[e] = seen[e] /\ inbox'[e] = inbox[e]
      /\ PrefExplained(d)'
  BY <1>1, ReportedExplained DEF Inv
<1>4. ASSUME NEW e \in Device PROVE CategoriesExplained(e)'
  BY <1>1, <1>2, CategoriesKept DEF Explained
<1>5. ASSUME NEW e \in Device, e # d PROVE PrefExplained(e)'
  BY <1>1, <1>2, <1>3, <1>5, PrefKept DEF Explained
<1> QED
  BY <1>3, <1>4, <1>5 DEF Explained

\* Handling a report takes the newer of two preferences, or writes the own one.
LEMMA DocHandledExplained ==
    ASSUME Inv, Explained, NEW d \in Device, DocHandled(d)
    PROVE  Explained'
<1> DEFINE s == inbox[d]
           reported == Head(s)
           r == Reconciled(pref[d], reported.pref)
           v == [op |-> "pref", pref |-> r.pref]
           writes == IF r.push THEN <<v>> ELSE <<>>
<1>1. /\ s \in Seq(Doc) /\ s # <<>> /\ pref[d] \in Pref
      /\ reported = s[1] /\ reported \in Doc /\ reported.pref \in Pref
  <2>1. s \in Seq(Doc) /\ s # <<>> /\ pref[d] \in Pref
    BY DEF DocHandled, Inv, TypeOK
  <2>2. reported = s[1] /\ reported \in Doc
    BY <2>1
  <2> QED
    BY <2>1, <2>2 DEF Doc
<1>2. /\ pref' = [pref EXCEPT ![d] = r.pref] /\ Spawned(d, writes)
      /\ inbox' = [inbox EXCEPT ![d] = Tail(s)]
      /\ UNCHANGED <<order, unread, seen, server>>
  BY DEF DocHandled, remote
<1> HIDE DEF reported
<1>3. /\ r.push => r.pref = pref[d]
      /\ ~r.push => r.pref = reported.pref
      /\ r.pref \in Pref
  BY <1>1 DEF Reconciled
<1> HIDE DEF r
<1>4. v \in Write /\ v.op = "pref" /\ v.pref = r.pref
  BY <1>3 DEF Write
<1> HIDE DEF v
<1>5. writes \in Seq(Write) /\ (r.push => v \in ToSet(writes))
  BY <1>4 DEF ToSet
<1> HIDE DEF writes
<1>6. /\ \A e \in Device : \A op : Pending(e, op) \subseteq Pending(e, op)'
      /\ r.push => v \in Pending(d, "pref")'
  BY <1>2, <1>4, <1>5, PendingGrows DEF Inv
<1>7. /\ \A e \in Device : pref'[e] = IF e = d THEN r.pref ELSE pref[e]
      /\ \A e \in Device : inbox'[e] = IF e = d THEN Tail(s) ELSE inbox[e]
  BY <1>2 DEF Inv, TypeOK
<1>8. /\ s[Len(s)] = seen[d]
      /\ Tail(s) = <<>> => reported = seen[d]
      /\ Tail(s) # <<>> => Tail(s)[Len(Tail(s))] = seen[d]
  <2>1. s[Len(s)] = seen[d]
    BY <1>1 DEF Explained, PrefExplained
  <2> HIDE DEF s
  <2>2. /\ Len(s) \in Nat /\ Len(s) # 0 /\ Tail(s) \in Seq(Doc) /\ Len(Tail(s)) = Len(s) - 1
        /\ \A i \in 1..Len(s) - 1 : Tail(s)[i] = s[i + 1]
    <3>1. Len(s) \in Nat /\ Len(s) # 0
      BY <1>1, EmptySeq
    <3> QED
      BY <1>1, <3>1, HeadTailProperties
  <2>3. ASSUME Tail(s) = <<>> PROVE reported = seen[d]
    <3>1. Len(Tail(s)) = 0
      BY <2>2, <2>3, EmptySeq
    <3>2. \A m \in Nat : m - 1 = 0 => m = 1
      OBVIOUS
    <3>3. Len(s) = 1
      BY <2>2, <3>1, <3>2, Zenon
    <3> QED
      BY <1>1, <2>1, <3>3
  <2>4. ASSUME Tail(s) # <<>> PROVE Tail(s)[Len(Tail(s))] = seen[d]
    <3>1. Len(Tail(s)) # 0
      BY <2>2, <2>4, EmptySeq
    <3>2. Len(Tail(s)) \in 1..Len(s) - 1 /\ Len(Tail(s)) + 1 = Len(s)
      BY <2>2, <3>1
    <3> QED
      BY <2>1, <2>2, <3>2
  <2> QED
    BY <2>1, <2>3, <2>4
<1> HIDE DEF s
<1>9. ASSUME NEW e \in Device PROVE CategoriesExplained(e)'
  BY <1>2, <1>6, CategoriesKept DEF Explained
<1>10. ASSUME NEW e \in Device, e # d PROVE PrefExplained(e)'
  BY <1>2, <1>6, <1>7, <1>10, PrefKept DEF Explained
<1>11. PrefExplained(d)'
  BY <1>2, <1>3, <1>4, <1>6, <1>7, <1>8 DEF PrefExplained
<1> QED
  BY <1>9, <1>10, <1>11 DEF Explained

\* At first nothing differs.
LEMMA InitExplained == Init => Explained
<1> SUFFICES ASSUME Init, NEW d \in Device PROVE CategoriesExplained(d) /\ PrefExplained(d)
  BY DEF Explained
<1>1. inbox[d] = <<>> /\ pref[d] = seen[d].pref
  BY DEF Init
<1>2. order[d] = DefaultOrder /\ server = DefaultOrder /\ IsOrder(DefaultOrder)
  BY DefaultOrderType DEF Init
<1>3. ~Unordered(DefaultOrder)
  <2>1. ASSUME NEW a \in ToSet(Default), NEW b \in ToSet(Default), a # b
        PROVE  At(Default, a) # At(Default, b) /\ At(Default, a) \in Nat /\ At(Default, b) \in Nat
    <3>1. Contains(Default, a) /\ Contains(Default, b) /\ Len(Default) \in Nat
      BY DefaultAssumption DEF ToSet, Contains
    <3>2. /\ At(Default, a) \in 1..Len(Default) /\ Default[At(Default, a)] = a
          /\ At(Default, b) \in 1..Len(Default) /\ Default[At(Default, b)] = b
      BY <3>1, DefaultAssumption, AtType
    <3> QED
      BY <2>1, <3>1, <3>2
  <2>2. \A a \in ToSet(Default) : DefaultOrder[a] = At(Default, a) - 1
    BY DEF DefaultOrder
  <2>3. DOMAIN DefaultOrder = ToSet(Default)
    BY DEF DefaultOrder
  <2>4. \A a, b \in DOMAIN DefaultOrder : a # b => ~(DefaultOrder[a] = 0 /\ DefaultOrder[b] = 0)
    BY <2>1, <2>2, <2>3
  <2> QED
    BY <1>2, <2>4, Distinguished
<1>4. CategoriesExplained(d)
  BY <1>2, <1>3, MigratedOrdered DEF CategoriesExplained, ShowsAccount
<1> QED
  BY <1>1, <1>4 DEF PrefExplained

\* Whatever happens, every difference stays explained.
LEMMA StepExplained == Inv /\ Explained /\ [Next]_vars => Explained'
<1> SUFFICES ASSUME Inv, Explained, [Next]_vars PROVE Explained'
  OBVIOUS
<1>1. ASSUME NEW d \in Device, UserStep(d) PROVE Explained'
  BY <1>1, ChooseExplained, AddExplained, UpdateExplained, DeleteExplained, DragExplained
  DEF UserStep
<1>2. ASSUME NEW d \in Device, SystemStep(d) PROVE Explained'
  BY <1>2, RunWriteExplained, CategoriesReportExplained, DocReportedExplained,
     DocHandledExplained DEF SystemStep
<1>3. CASE UNCHANGED vars
  <2>1. UNCHANGED <<order, pref, outbox, unread, seen, inbox, server>>
    BY <1>3 DEF vars, device, told, remote
  <2>2. ASSUME NEW d \in Device PROVE CategoriesExplained(d)' /\ PrefExplained(d)'
    BY <2>1, CategoriesKept, PrefKept DEF Pending, Explained
  <2> QED
    BY <2>2 DEF Explained
<1> QED
  BY <1>1, <1>2, <1>3 DEF Next

\* A device with nothing under way shows the preference of the account, and its
\* categories if it has any, whatever raced before.
THEOREM SettledDevicesAgree == Spec => []SettledShowsAccount
<1>1. Init => Explained
  BY InitExplained
<1>2. Inv /\ Explained /\ [Next]_vars => Explained'
  BY StepExplained
<1>3. Inv /\ Explained => SettledShowsAccount
  <2> SUFFICES ASSUME Inv, Explained, NEW d \in Device, Settled(d)
               PROVE  (DOMAIN server # {} => ShowsAccount(d)) /\ pref[d] = doc.pref
    BY DEF SettledShowsAccount
  <2>1. outbox[d] = <<>> /\ ~unread[d] /\ seen[d] = doc /\ inbox[d] = <<>>
    BY DEF Settled
  <2>2. \A op : Pending(d, op) = {}
    BY <2>1 DEF Pending, ToSet
  <2>3. CategoriesExplained(d) /\ PrefExplained(d)
    BY DEF Explained
  <2>4. \A w : w \notin Pending(d, "pref") /\ w \notin Pending(d, "delete")
    BY <2>2
  <2>5. pref[d] = doc.pref
    BY <2>1, <2>3, <2>4 DEF PrefExplained
  <2>6. ASSUME DOMAIN server # {} PROVE ShowsAccount(d)
    BY <2>1, <2>2, <2>3, <2>4, <2>6 DEF CategoriesExplained
  <2> QED
    BY <2>5, <2>6
<1> QED
  BY <1>1, <1>2, <1>3, AlwaysInv, PTL DEF Spec

=============================================================================
