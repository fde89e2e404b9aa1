-------------------------- MODULE AccountDocument --------------------------
(***************************************************************************)
(* The categories, the group order and the experimental-features           *)
(* preference of one account on several devices.                           *)
(*                                                                         *)
(* Categories are documents of a collection.  The place of the             *)
(* uncategorized group and the preference are fields of the one user       *)
(* document: any change of it reports both to every device.  A change of   *)
(* either on a device is published to sinks, which spawn a write unless    *)
(* suppressMetadataWrites is set.  Every device is signed in, has made its *)
(* initial sync and has a preference stored, as the account does; Session  *)
(* has the way there.                                                      *)
(*                                                                         *)
(* A write takes effect in one step, some time after it was spawned, and   *)
(* listeners report after that.  Names, icons and colours of a category    *)
(* are left out, and so are the tasks a deleted category is taken from.    *)
(* The insights hint takes the path of the preference.                     *)
(***************************************************************************)
EXTENDS GroupOrder

CONSTANTS
    Device,
    Default,        \* Category.defaultCategories, in their order
    Uncategorized,  \* the key of the uncategorized group
    NoPlace,        \* a document without uncategorizedPosition
    MaxEdits        \* things the users do (bound)

ASSUME DefaultAssumption == Default \in Seq(Category)
ASSUME UncategorizedAssumption == Uncategorized \notin Category
ASSUME BoundAssumption == MaxEdits \in Nat

VARIABLES
    order,      \* order[d]: the device's categories
    place,      \* place[d]: uncategorizedPosition
    pref,       \* pref[d]: experimentalFeaturesPreference
    outbox,     \* outbox[d]: spawned writes that have not run
    unread,     \* unread[d]: did categories change since d's listener told?
    seen,       \* seen[d]: the user document as last reported
    inbox,      \* inbox[d]: as reported and not handled
    server,     \* the category documents
    doc,        \* the user document
    newest,     \* the last choice a user made
    edits

device == <<order, place, pref>>
told   == <<unread, seen, inbox>>
remote == <<server, doc>>
vars   == <<device, outbox, told, remote, newest, edits>>

Pref == [on : BOOLEAN, at : Nat]

Doc == [place : Nat \cup {NoPlace}, pref : Pref]

\* upsert(categories:) reads the list when it runs, upsert(category:) wrote
\* down the category.
Write ==
    [op : {"all"}] \cup [op : {"delete"}, id : Category]
        \cup [op : {"category"}, id : Category, order : Nat]
        \cup [op : {"place"}, place : Nat] \cup [op : {"pref"}, pref : Pref]

TypeOK ==
    /\ DOMAIN order = Device /\ \A d \in Device : IsOrder(order[d])
    /\ IsOrder(server)
    /\ place \in [Device -> Nat] /\ pref \in [Device -> Pref]
    /\ outbox \in [Device -> Seq(Write)]
    /\ unread \in [Device -> BOOLEAN]
    /\ seen \in [Device -> Doc] /\ inbox \in [Device -> Seq(Doc)]
    /\ doc \in Doc /\ newest \in Pref
    /\ edits \in 0..MaxEdits

DefaultOrder == [c \in ToSet(Default) |-> At(Default, c) - 1]

BaselinePref == [on |-> FALSE, at |-> 0]

\* The default categories; the uncategorized group may have been moved, but
\* nothing is under way.
Init ==
    /\ server = DefaultOrder
    /\ doc \in [place : {NoPlace} \cup 0..Count(DefaultOrder), pref : {BaselinePref}]
    /\ order = [d \in Device |-> server]
    /\ place = [d \in Device |-> IF doc.place = NoPlace THEN 0 ELSE doc.place]
    /\ pref = [d \in Device |-> BaselinePref]
    /\ newest = BaselinePref
    /\ outbox = [d \in Device |-> <<>>]
    /\ unread = [d \in Device |-> FALSE]
    /\ seen = [d \in Device |-> doc]
    /\ inbox = [d \in Device |-> <<>>]
    /\ edits = 0

-----------------------------------------------------------------------------
(* The user at a device.                                                   *)

\* What the sinks of the place and of the preference spawn.
PlacePublished(d, p) == IF p = place[d] THEN <<>> ELSE <<[op |-> "place", place |-> p]>>

PrefPublished(d, q) == IF q = pref[d] THEN <<>> ELSE <<[op |-> "pref", pref |-> q]>>

Spawned(d, writes) == outbox' = [outbox EXCEPT ![d] = @ \o writes]

Edited == edits < MaxEdits /\ edits' = edits + 1

\* The list becomes o, the place p; backend writes follow those of the sinks.
Arranged(d, o, p, writes) ==
    /\ Edited
    /\ order' = [order EXCEPT ![d] = o]
    /\ place' = [place EXCEPT ![d] = p]
    /\ Spawned(d, PlacePublished(d, p) \o writes)
    /\ UNCHANGED <<pref, told, remote, newest>>

AddCategory(d, c) ==
    /\ c \notin DOMAIN order[d] \cup DOMAIN server
    /\ LET o == Added(order[d], c)
       IN  Arranged(d, o, Clamped(place[d] + 1, o), <<[op |-> "all"]>>)

\* updateCategory, of a name, an icon or a colour.
UpdateCategory(d, c) ==
    /\ c \in DOMAIN order[d]
    /\ Arranged(d, order[d], place[d], <<[op |-> "category", id |-> c, order |-> order[d][c]]>>)

DeleteCategory(d, c) ==
    /\ c \in DOMAIN order[d]
    /\ Arranged(d, Normalized(Without(order[d], c)), PlaceAfterDeleting(order[d], place[d], c),
                <<[op |-> "delete", id |-> c]>>)

\* applyCategoryGroupReorder: setUncategorizedPosition, then reorderCategories.
DragGroup(d, g, h) ==
    LET groups == Dragged(Groups(order[d], place[d], Uncategorized), g, h)
        o      == Reordered(groups, Uncategorized)
    IN  /\ g \in DOMAIN order[d] \cup {Uncategorized} /\ g # h
        /\ Arranged(d, o, Clamped(At(groups, Uncategorized) - 1, o), <<[op |-> "all"]>>)

\* setExperimentalFeaturesEnabled.  Clocks agree and no two choices fall on one
\* instant.
Choose(d) ==
    LET q == [on |-> ~pref[d].on, at |-> newest.at + 1]
    IN  /\ Edited
        /\ pref' = [pref EXCEPT ![d] = q]
        /\ newest' = q
        /\ Spawned(d, PrefPublished(d, q))
        /\ UNCHANGED <<order, place, told, remote>>

-----------------------------------------------------------------------------
(* A spawned write runs.                                                   *)

\* Documents o are written among documents r.
Over(o, r) == [c \in DOMAIN o \cup DOMAIN r |-> IF c \in DOMAIN o THEN o[c] ELSE r[c]]

\* The listeners of the collection are woken by a change; a category's new name
\* always is one.
CategoriesWritten(o, changed) ==
    /\ server' = o
    /\ unread' = [d \in Device |-> unread[d] \/ changed \/ o # server]
    /\ UNCHANGED <<doc, seen, inbox>>

\* d's listeners are called with a document that differs from the last, and hand
\* it to main-actor tasks.
Reported(d, new) ==
    /\ seen' = [seen EXCEPT ![d] = new]
    /\ inbox' = IF new = seen[d] THEN inbox ELSE [inbox EXCEPT ![d] = Append(@, new)]

\* What a device writes its listeners are told at once.
DocWritten(d, new) ==
    /\ doc' = new
    /\ Reported(d, new)
    /\ UNCHANGED <<server, unread>>

RunWrite(d) ==
    \E n \in DOMAIN outbox[d] :
        /\ LET w == outbox[d][n]
           IN  \/ w.op = "all" /\ CategoriesWritten(Over(order[d], server), FALSE)
               \/ w.op = "category" /\ CategoriesWritten(Over([c \in {w.id} |-> w.order], server), TRUE)
               \/ w.op = "delete" /\ CategoriesWritten(Without(server, w.id), FALSE)
               \/ w.op = "place" /\ DocWritten(d, [doc EXCEPT !.place = w.place])
               \/ w.op = "pref" /\ DocWritten(d, [doc EXCEPT !.pref = w.pref])
        /\ outbox' = [outbox EXCEPT ![d] = RemoveAt(@, n)]
        /\ UNCHANGED <<device, newest, edits>>

-----------------------------------------------------------------------------
(* The listeners.                                                          *)

ApplyRemoteCategoriesUnclamped(d) ==
    /\ unread[d] /\ unread' = [unread EXCEPT ![d] = FALSE]
    /\ order' = [order EXCEPT ![d] = Migrated(server, DefaultOrder)]
    /\ UNCHANGED <<place, outbox, pref, seen, inbox, remote, newest, edits>>

ApplyRemoteCategoriesMerging(d) ==
    /\ unread[d] /\ unread' = [unread EXCEPT ![d] = FALSE]
    /\ LET o == Migrated(Over(server, order[d]), DefaultOrder)
           p == Clamped(place[d], o)
       IN  /\ order' = [order EXCEPT ![d] = o]
           /\ place' = [place EXCEPT ![d] = p]
           /\ Spawned(d, PlacePublished(d, p))
    /\ UNCHANGED <<pref, seen, inbox, remote, newest, edits>>

\* applyRemoteCategories with the clean-up of migrateIfNeeded: a place that was
\* out of bounds is clamped and published like a choice of the user.
ApplyRemoteCategories(d) ==
    /\ unread[d] /\ unread' = [unread EXCEPT ![d] = FALSE]
    /\ LET o == Migrated(server, DefaultOrder)
           p == Clamped(place[d], o)
       IN  /\ order' = [order EXCEPT ![d] = o]
           /\ place' = [place EXCEPT ![d] = p]
           /\ Spawned(d, PlacePublished(d, p))
    /\ UNCHANGED <<pref, seen, inbox, remote, newest, edits>>

\* What others write they are told some time later.
DocReported(d) ==
    /\ doc # seen[d]
    /\ Reported(d, doc)
    /\ UNCHANGED <<device, outbox, unread, remote, newest, edits>>

PlaceAfterReport(d, reported) ==
    IF reported = NoPlace THEN place[d] ELSE Clamped(reported, order[d])

ReconciledWithoutPush(mine, reported) ==
    IF reported.at > mine.at THEN [pref |-> reported, push |-> FALSE]
    ELSE [pref |-> mine, push |-> FALSE]

\* reconcileExperimentalPreference: a reported preference that is not newer, if
\* only because it is one's own, is answered by a push.
Reconciled(mine, reported) ==
    IF reported.at > mine.at THEN [pref |-> reported, push |-> FALSE]
    ELSE [pref |-> mine, push |-> TRUE]

DocHandledAloud(d) ==
    /\ inbox[d] # <<>>
    /\ LET reported == Head(inbox[d])
           p == PlaceAfterReport(d, reported.place)
           r == Reconciled(pref[d], reported.pref)
       IN  /\ place' = [place EXCEPT ![d] = p]
           /\ pref' = [pref EXCEPT ![d] = r.pref]
           /\ Spawned(d, PlacePublished(d, p) \o PrefPublished(d, r.pref)
                            \o IF r.push THEN <<[op |-> "pref", pref |-> r.pref]>> ELSE <<>>)
    /\ inbox' = [inbox EXCEPT ![d] = Tail(@)]
    /\ UNCHANGED <<order, unread, seen, remote, newest, edits>>

\* With metadata writes suppressed; what the reconciliation wants pushed is
\* written all the same.
DocHandled(d) ==
    /\ inbox[d] # <<>>
    /\ LET reported == Head(inbox[d])
           r == Reconciled(pref[d], reported.pref)
       IN  /\ place' = [place EXCEPT ![d] = PlaceAfterReport(d, reported.place)]
           /\ pref' = [pref EXCEPT ![d] = r.pref]
           /\ Spawned(d, IF r.push THEN <<[op |-> "pref", pref |-> r.pref]>> ELSE <<>>)
    /\ inbox' = [inbox EXCEPT ![d] = Tail(@)]
    /\ UNCHANGED <<order, unread, seen, remote, newest, edits>>

-----------------------------------------------------------------------------

UserStep(d) ==
    \/ Choose(d)
    \/ \E c \in Category : AddCategory(d, c) \/ UpdateCategory(d, c) \/ DeleteCategory(d, c)
    \/ \E g, h \in Category \cup {Uncategorized} : DragGroup(d, g, h)

SystemStep(d) ==
    \/ RunWrite(d)
    \/ ApplyRemoteCategories(d)
    \/ DocReported(d)
    \/ DocHandled(d)

Next == \E d \in Device : UserStep(d) \/ SystemStep(d)

\* Swift runs every spawned task and Firestore calls its listeners in the end;
\* the users owe nothing.
Spec == Init /\ [][Next]_vars /\ \A d \in Device : WF_vars(SystemStep(d))

-----------------------------------------------------------------------------

\* The place of the uncategorized group is always one between two categories,
\* above the first or below the last, whichever device deleted what meanwhile.
PlaceInBounds == \A d \in Device : place[d] \in 0..Count(order[d])

\* Nothing of the device is under way.
Settled(d) == outbox[d] = <<>> /\ ~unread[d] /\ seen[d] = doc /\ inbox[d] = <<>>

ShowsAccount(d) == order[d] = Migrated(server, DefaultOrder)

\* Reports replace a device's categories while its own writes are on their way,
\* and deletions leave gaps between the documents' orders that the device has
\* closed.  Still, a device with nothing under way shows the account's
\* preference, and its categories if it has any.
SettledShowsAccount ==
    \A d \in Device : Settled(d) =>
        /\ DOMAIN server # {} => ShowsAccount(d)
        /\ pref[d] = doc.pref

\* An account without categories is shown with the default ones, which are not
\* uploaded: what a device makes of them may show there alone.
SettledShowsEmptiedAccount == \A d \in Device : Settled(d) => ShowsAccount(d)

\* Reports and publishers do not feed each other for ever: once the users stop,
\* nothing is written or reported any more.
EchoesEnd == \A d \in Device : <>[]Settled(d)

\* "apply last-write-wins by timestamp once synced value arrives" (PRD 01): in the
\* end every device has the choice made last, although a device that reconciles
\* may push a preference over a newer one.
LastChoiceWins == \A d \in Device : <>[](pref[d] = newest)

\* Is c shown above the uncategorized group?
Above(o, p, c) == IndexOf(o, c) < p

\* Adding or deleting a category leaves the other groups in their order, the
\* uncategorized one included, whatever gaps and ties the orders have.
SameNeighbours(d) ==
    \A b, c \in DOMAIN order[d] \cap DOMAIN order'[d] :
        /\ Precedes(order[d], b, c) = Precedes(order'[d], b, c)
        /\ Above(order[d], place[d], c) = Above(order'[d], place'[d], c)

NeighboursStay ==
    [][\A d \in Device, c \in Category :
          AddCategory(d, c) \/ DeleteCategory(d, c) => SameNeighbours(d)]_vars

\* "Uncategorized now keeps its place across devices instead of wandering off"
\* (release notes): settled devices show it in one place.
GroupKeepsPlace == (\A d \in Device : Settled(d)) => \A d, e \in Device : place[d] = place[e]

=============================================================================
